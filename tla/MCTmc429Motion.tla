-------------------------- MODULE MCTmc429Motion --------------------------
(* Values for TLC that a configuration file cannot write down.             *)
EXTENDS Tmc429Motion

MCHomeZone == {1, 2}
MCNarrowZone == {1}
MCHomeSpeeds == {-2, -1, 0, 2}
MCTargets == {-1, 2}
MCOneSpeed == {-2, 2}
MCRightOnly == {2}
MCNowhere == {}

(* What a run without positioning commands can tell apart: the position    *)
(* registers are written and counted, and decide nothing (both are 0 in    *)
(* ramp mode, the mode before the first run), and no property of that run  *)
(* names them or the flags of a found origin.                              *)
MCSeen ==
  <<vtarget, vactual, rampmode, refconf, ifconf, x, inited, goHome, goLimit,
    homeSpeed, limitCnt, sensor, scan, slack, undisturbed>>
=============================================================================
