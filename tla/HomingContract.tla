-------------------------- MODULE HomingContract --------------------------
(***************************************************************************)
(* What homing promises to the host, whatever drives it: an axis that      *)
(* reports homed went through a homing run since the last loss of the      *)
(* reference, its coordinate zero is then one of the reference cells, and  *)
(* that zero stays where it is until the host starts another run, declares *)
(* a position of its own, or the controller restarts.                      *)
(***************************************************************************)
EXTENDS Integers

CONSTANTS Axes, References   \* the cells a homing run may make the zero

VARIABLES
  phase,    \* "lost", "seeking", "homed", or "declared" by the host
  zero      \* the cell of coordinate zero while homed, else 0

vars == <<phase, zero>>

Phases == {"lost", "seeking", "homed", "declared"}

TypeOK == phase \in [Axes -> Phases] /\ zero \in [Axes -> References \cup {0}]

Init == phase = [a \in Axes |-> "lost"] /\ zero = [a \in Axes |-> 0]

Become(a, p, cell) ==
  phase' = [phase EXCEPT ![a] = p] /\ zero' = [zero EXCEPT ![a] = cell]

Seek(a) == Become(a, "seeking", 0)
Find(a) == phase[a] = "seeking" /\ \E r \in References : Become(a, "homed", r)
Abandon(a) == phase[a] = "seeking" /\ Become(a, "lost", 0)
Declare(a) == phase[a] = "homed" /\ Become(a, "declared", 0)
Restart == phase' = [a \in Axes |-> "lost"] /\ zero' = [a \in Axes |-> 0]

Next ==
  \/ Restart
  \/ \E a \in Axes : Seek(a) \/ Find(a) \/ Abandon(a) \/ Declare(a)

Spec == Init /\ [][Next]_vars
=============================================================================
