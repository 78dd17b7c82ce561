--------------------------- MODULE MCProjectApps ---------------------------
(* Values for the fixture applications.                                    *)
EXTENDS ProjectApps

(* Everything on Y, which the applications drive first, and a homing run   *)
(* of X, which the reset of BUTTON_ONLINE waits for.                       *)
YAndHomingX == {<<op, Y>> : op \in {"home", "limit", "rotate", "move", "stop"}}
                 \cup {<<"home", X>>}

(* None, one that is lost when it is halved, and one of either sign.       *)
AnySpeed == {-2, 0, 1, 2}
EitherWay == {-2, 2}

(* One of the commands initialises the chips.                              *)
ShellCommands == [p \in Projects |->
  CASE p = "BUTTON_ONLINE" -> 2 [] p = "NMEI_IN3COLA" -> 3 [] OTHER -> 1]
=============================================================================
