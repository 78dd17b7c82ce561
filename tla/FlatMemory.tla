---------------------------- MODULE FlatMemory ----------------------------
(***************************************************************************)
(* What AT24CXX_Writes promises whoever calls it: the EEPROM is one flat   *)
(* memory, whatever its pages.  The bytes of a command land in any order   *)
(* and grouping, each at its own address and nowhere else, and are all     *)
(* there when the command is over.  A fault costs some of the bytes still  *)
(* due, never a byte of anything else.                                     *)
(***************************************************************************)
EXTENDS Integers

CONSTANTS Addresses, Bytes, MaxFaults

VARIABLES
  mem,
  due,     \* the bytes a command has still to write, by address
  faults   \* how many faults have happened

vars == <<mem, due, faults>>

Nothing == [a \in {} |-> 0]

Init == mem \in [Addresses -> Bytes] /\ due = Nothing /\ faults = 0

Command ==
  /\ due = Nothing
  /\ DOMAIN due' \subseteq Addresses
  /\ due' = [a \in DOMAIN due' |-> due'[a]]
  /\ \A a \in DOMAIN due' : due'[a] \in Bytes
  /\ UNCHANGED <<mem, faults>>

(* What stays due keeps its byte.                                          *)
Shrinks ==
  /\ DOMAIN due' \subseteq DOMAIN due
  /\ due' = [a \in DOMAIN due' |-> due[a]]

Land ==
  /\ Shrinks
  /\ mem' = [a \in Addresses |->
               IF a \in DOMAIN due \ DOMAIN due' THEN due[a] ELSE mem[a]]
  /\ UNCHANGED faults

Fault ==
  /\ faults < MaxFaults /\ faults' = faults + 1
  /\ Shrinks
  /\ mem' = [a \in Addresses |-> mem'[a]]
  /\ \A a \in Addresses :
       \/ mem'[a] = mem[a]
       \/ a \in DOMAIN due \ DOMAIN due' /\ mem'[a] = due[a]

Next == Command \/ Land \/ Fault

Spec == Init /\ [][Next]_vars
=============================================================================
