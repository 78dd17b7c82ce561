--------------------------- MODULE MCRampProfile ---------------------------
(* Values for TLC that a configuration file cannot write down.             *)
EXTENDS RampProfile

MCManySpeeds == {v \in 0..2000 : v < 110 \/ v \in 825..840 \/ v % 40 = 0}
MCSomeSpeeds == {0, 99, 100, 2000}
MCNumbers == {-3, 5, 5000}
MCNone == {}
=============================================================================
