---------------------------- MODULE ProjectApps ----------------------------
(***************************************************************************)
(* The ProjectApp thread: the fixture application the EEPROM selects, on   *)
(* the axes it shares with the shell and MotorSensor.                      *)
(*                                                                         *)
(*   BUTTON_ONLINE  a reset key; Y is homed, then Z and X                  *)
(*   NMEI_IN3COLA   a soft limit stops Y on its way down                   *)
(*   LID_OPEN       a button drives a drawer and then a door, and opens    *)
(*                  them when it is let go; with the reset of              *)
(*                  BUTTON_ONLINE, after a check of the cylinders          *)
(*                                                                         *)
(* "input" is what the application polls: the reset key, the button, the   *)
(* soft limit.  A cylinder moves through three places; two outputs that    *)
(* drive it are one variable.  Lamps are left out, but LID_OPEN has its    *)
(* reset lamp on output 2, which is also the valve that opens the door.    *)
(***************************************************************************)
EXTENDS SharedAxes

CONSTANTS
  Projects,    \* the projects the EEPROM may select
  Commands,    \* how many motor commands the shell gives in each
  Debounce,    \* polls an input must stay active, 3 in the code
  CounterMod   \* the counters of the polls are bytes, 256

ASSUME PollAssumption ==
  /\ Debounce \in Nat /\ CounterMod \in Nat /\ CounterMod > Debounce + 1
  /\ Projects \subseteq {"BUTTON_ONLINE", "NMEI_IN3COLA", "LID_OPEN"}
ASSUME FixtureAssumption == NMotors >= 3 /\ Commands \in [Projects -> Nat]

X == 0
Y == 1
Z == 2

VARIABLES
  WhichProject,
  pc,                  \* where the loop of the application is
  cnt,                 \* in2_RESET_detected_cnt, in8_LimitL_detected_cnt
  KEY_RESET_pressed,
  input,
  OpStep, drawer, door, drawerOut, doorOut,
  byHand               \* bookkeeping: the door was moved by hand

lidRest == <<OpStep, drawer, door, drawerOut, byHand>>
lid == <<lidRest, doorOut>>
appVars == <<WhichProject, pc, cnt, KEY_RESET_pressed, input, lid>>
vars == <<axesVars, appVars>>

ExceptCall == <<chips, inited, homing, selection, thread, datagram, books, commands>>

(* ProjectApp runs its loop, outside a motor call.                         *)
Loop(p) == AppMayRun /\ ~InCall /\ pc = p /\ UNCHANGED <<ExceptCall, WhichProject, input>>

LoopStart(p) == IF p = "LID_OPEN" THEN "lid" ELSE IF p = "NMEI_IN3COLA" THEN "soft" ELSE "key"

-----------------------------------------------------------------------------
(* NMEI_IN3COLA_AppRun.                                                    *)

(* A variant: the counter does not wrap.                                   *)
SoftLimit_NoWrap ==
  /\ Loop("soft")
  /\ cnt' = IF input THEN cnt + 1 ELSE 0
  /\ IF cnt' > Debounce /\ seek[Y] = "none" THEN Enter("read", Y, 0) ELSE UNCHANGED appCall
  /\ UNCHANGED <<pc, KEY_RESET_pressed, lid>>

SoftLimit ==
  /\ Loop("soft")
  /\ cnt' = IF input THEN (cnt + 1) % CounterMod ELSE 0
  /\ IF cnt' > Debounce /\ seek[Y] = "none" THEN Enter("read", Y, 0) ELSE UNCHANGED appCall
  /\ UNCHANGED <<pc, KEY_RESET_pressed, lid>>

-----------------------------------------------------------------------------
(* The reset of BUTTON_ONLINE_AppRun and LID_OPEN_AppRun.                  *)

(* inputGet(2): a key, or the sensor of the drawer outside.                *)
ResetKey == IF WhichProject = "LID_OPEN" THEN drawer = "out" ELSE input

(* outputSet(2, 1) and outputSet(2, 0).  Output 1 closes the door; with    *)
(* both on it stays where it is.                                           *)
Closing == doorOut \in {"close", "both"}
WithLamp ==
  IF WhichProject # "LID_OPEN" THEN doorOut ELSE IF Closing THEN "both" ELSE "open"
WithoutLamp ==
  IF WhichProject # "LID_OPEN" THEN doorOut ELSE IF Closing THEN "close" ELSE "none"

StartReset ==
  IF WhichProject = "LID_OPEN" THEN pc' = "back" /\ UNCHANGED appCall
  ELSE pc' = "phase 2" /\ motor_gohome_config(Y, -2)

(* A variant: the counter starts again at each poll.                        *)
PollKey_Forgets ==
  /\ Loop("key")
  /\ cnt' = IF ResetKey /\ ~KEY_RESET_pressed THEN 1 ELSE 0
  /\ IF cnt' > Debounce
     THEN KEY_RESET_pressed' = TRUE /\ doorOut' = WithLamp /\ StartReset
     ELSE pc' = "phase 2" /\ UNCHANGED <<KEY_RESET_pressed, doorOut, appCall>>
  /\ UNCHANGED lidRest

PollKey ==
  /\ Loop("key")
  /\ cnt' = IF ResetKey /\ ~KEY_RESET_pressed THEN (cnt + 1) % CounterMod ELSE 0
  /\ IF cnt' > Debounce
     THEN KEY_RESET_pressed' = TRUE /\ doorOut' = WithLamp /\ StartReset
     ELSE pc' = "phase 2" /\ UNCHANGED <<KEY_RESET_pressed, doorOut, appCall>>
  /\ UNCHANGED lidRest

(* The second phase waits for X.                                           *)
PhaseTwo ==
  /\ Loop("phase 2")
  /\ IF homed[X] /\ KEY_RESET_pressed
     THEN pc' = "phase 2, X" /\ motor_gohome_config(Z, -2)
     ELSE pc' = "done" /\ UNCHANGED appCall
  /\ UNCHANGED <<cnt, KEY_RESET_pressed, lid>>

PhaseTwoX ==
  /\ Loop("phase 2, X")
  /\ pc' = "done" /\ motor_gohome_config(X, 2)
  /\ UNCHANGED <<cnt, KEY_RESET_pressed, lid>>

ResetDone ==
  /\ Loop("done")
  /\ IF KEY_RESET_pressed /\ \A a \in {X, Y, Z} : homed[a]
     THEN KEY_RESET_pressed' = FALSE /\ doorOut' = WithoutLamp
     ELSE UNCHANGED <<KEY_RESET_pressed, doorOut>>
  /\ pc' = LoopStart(WhichProject)
  /\ UNCHANGED <<cnt, appCall, lidRest>>

-----------------------------------------------------------------------------
(* Cylinder_Reset_check: busy loops, each until two inputs have the levels *)
(* it waits for.  The cylinders of outputs 5 to 8 do as they are told;     *)
(* inputs 9 and 10 are those of the door, input 3 that of the drawer.      *)

Check == {"back", "upside", "outside"}

CheckBack ==
  /\ Loop("back") /\ door = "up"
  /\ pc' = "upside"
  /\ UNCHANGED <<cnt, KEY_RESET_pressed, appCall, lid>>

CheckUpside ==
  /\ Loop("upside") /\ door = "down"
  /\ pc' = "outside" /\ drawerOut' = "in"
  /\ UNCHANGED <<cnt, KEY_RESET_pressed, appCall, OpStep, drawer, door, doorOut, byHand>>

CheckOutside ==
  /\ Loop("outside") /\ drawer # "in"
  /\ pc' = "phase 2" /\ motor_gohome_config(Y, -2)
  /\ UNCHANGED <<cnt, KEY_RESET_pressed, lid>>

-----------------------------------------------------------------------------
(* KeyS_act_LIDOPEN.  PB_START is tested, the outputs are set, and 100 ms  *)
(* later the position is.                                                  *)

LidFrame == UNCHANGED <<cnt, KEY_RESET_pressed, appCall, drawer, door, byHand>>

Standby ==
  /\ Loop("lid") /\ OpStep = "STANDBY"
  /\ pc' = IF drawer = "out" /\ door = "up" /\ input THEN "again" ELSE "key"
  /\ LidFrame /\ UNCHANGED <<OpStep, drawerOut, doorOut>>

PressedAgain ==
  /\ Loop("again")
  /\ OpStep' = IF input THEN "DUT_GO_INSIDE" ELSE OpStep
  /\ pc' = "key"
  /\ LidFrame /\ UNCHANGED <<drawerOut, doorOut>>

(* A step of the sequence goes on if the button is as it needs it, and     *)
(* turns round if it is not.                                               *)
Drive(step, pressed, turn) ==
  /\ Loop("lid") /\ OpStep = step
  /\ IF input = pressed THEN pc' = "position" /\ UNCHANGED OpStep
     ELSE pc' = "key" /\ OpStep' = turn

DriveDrawer(step, pressed, turn, way) ==
  /\ Drive(step, pressed, turn)
  /\ drawerOut' = IF input = pressed THEN way ELSE drawerOut
  /\ LidFrame /\ UNCHANGED doorOut

DriveDoor(step, pressed, turn, way) ==
  /\ Drive(step, pressed, turn)
  /\ doorOut' = IF input = pressed THEN way ELSE doorOut
  /\ LidFrame /\ UNCHANGED drawerOut

KeyDrive ==
  \/ DriveDrawer("DUT_GO_INSIDE", TRUE, "DUT_GO_OUTSIDE", "in")
  \/ DriveDoor("CLOSE_DOOR", TRUE, "OPEN_DOOR", "close")
  \/ DriveDoor("OPEN_DOOR", FALSE, "CLOSE_DOOR", "open")
  \/ DriveDrawer("DUT_GO_OUTSIDE", FALSE, "DUT_GO_INSIDE", "out")

(* Variants: the door closes on a drawer that is on its way; the drawer     *)
(* goes out under a door that is on its way.                               *)
Reached_OnTheWay(step) ==
  CASE step = "DUT_GO_INSIDE" -> drawer # "out"
    [] step = "CLOSE_DOOR" -> door = "down"
    [] step = "OPEN_DOOR" -> door = "up"
    [] OTHER -> drawer = "out"
Reached_DoorOnTheWay(step) ==
  CASE step = "DUT_GO_INSIDE" -> drawer = "in"
    [] step = "CLOSE_DOOR" -> door = "down"
    [] step = "OPEN_DOOR" -> door # "down"
    [] OTHER -> drawer = "out"
Reached_DoorUp(step) ==
  CASE step = "DUT_GO_INSIDE" -> drawer = "in" /\ door = "down"
    [] step = "CLOSE_DOOR" -> door = "down"
    [] step = "OPEN_DOOR" -> door = "up"
    [] OTHER -> drawer = "out"

Reached(step) ==
  CASE step = "DUT_GO_INSIDE" -> drawer = "in"
    [] step = "CLOSE_DOOR" -> door = "down"
    [] step = "OPEN_DOOR" -> door = "up"
    [] OTHER -> drawer = "out"

Following(step) ==
  CASE step = "DUT_GO_INSIDE" -> "CLOSE_DOOR"
    [] step = "OPEN_DOOR" -> "DUT_GO_OUTSIDE"
    [] OTHER -> "STANDBY"

PositionTest ==
  /\ Loop("position")
  /\ OpStep' = IF Reached(OpStep) THEN Following(OpStep) ELSE OpStep
  /\ pc' = "key"
  /\ LidFrame /\ UNCHANGED <<drawerOut, doorOut>>

KeyS_act_LIDOPEN == Standby \/ PressedAgain \/ KeyDrive \/ PositionTest

-----------------------------------------------------------------------------
(* Around the application.                                                 *)

Input ==
  /\ input' = ~input
  /\ UNCHANGED <<axesVars, WhichProject, pc, cnt, KEY_RESET_pressed, lid>>

Nearer(at, low, high, way) ==
  CASE way = low -> IF at = high THEN "mid" ELSE low
    [] way = high -> IF at = low THEN "mid" ELSE high
    [] OTHER -> at

Cylinders ==
  /\ \/ drawerOut # "none" /\ drawer' = Nearer(drawer, "in", "out", drawerOut)
        /\ drawer' # drawer /\ UNCHANGED door
     \/ doorOut \in {"open", "close"}
        /\ door' = Nearer(door, "down", "up", IF doorOut = "close" THEN "down" ELSE "up")
        /\ door' # door /\ UNCHANGED drawer
  /\ UNCHANGED <<axesVars, WhichProject, pc, cnt, KEY_RESET_pressed, input, OpStep,
                 drawerOut, doorOut, byHand>>

(* While the check waits, the host may switch the outputs of the door off  *)
(* with the output command, and an operator push a door that is not driven.*)
HostFreesDoor ==
  /\ pc \in Check /\ doorOut' = "none"
  /\ UNCHANGED <<axesVars, WhichProject, pc, cnt, KEY_RESET_pressed, input, lidRest>>

DoorByHand ==
  /\ pc \in Check /\ doorOut = "none"
  /\ door' \in {"up", "mid", "down"} \ {door}
  /\ byHand' = TRUE
  /\ UNCHANGED <<axesVars, WhichProject, pc, cnt, KEY_RESET_pressed, input, OpStep,
                 drawer, drawerOut, doorOut>>

(* After a test the host opens the door, and then brings the drawer out,   *)
(* with the output command.                                                *)
HostUnloads ==
  /\ WhichProject = "LID_OPEN" /\ OpStep = "STANDBY"
  /\ \/ doorOut' = "open" /\ UNCHANGED drawerOut
     \/ door = "up" /\ drawerOut' = "out" /\ UNCHANGED doorOut
  /\ UNCHANGED <<axesVars, WhichProject, pc, cnt, KEY_RESET_pressed, input, OpStep,
                 drawer, door, byHand>>

-----------------------------------------------------------------------------
Init ==
  /\ AxesInit
  /\ WhichProject \in Projects /\ commands = Commands[WhichProject]
  /\ pc = LoopStart(WhichProject) /\ cnt = 0
  /\ KEY_RESET_pressed = FALSE /\ input = FALSE
  /\ OpStep = "STANDBY" /\ drawerOut = "none" /\ doorOut = "none" /\ byHand = FALSE
  /\ IF WhichProject = "LID_OPEN"
     THEN drawer \in {"in", "mid", "out"} /\ door \in {"up", "mid", "down"}
     ELSE drawer = "in" /\ door = "up"

App ==
  \/ AppCall /\ UNCHANGED appVars
  \/ SoftLimit
  \/ PollKey \/ PhaseTwo \/ PhaseTwoX \/ ResetDone
  \/ CheckBack \/ CheckUpside \/ CheckOutside
  \/ KeyS_act_LIDOPEN

Axis(a) == (Move(a) \/ Arrive(a)) /\ UNCHANGED appVars

Host == (Shell /\ UNCHANGED appVars) \/ HostUnloads \/ HostFreesDoor

Next ==
  \/ App
  \/ Host
  \/ Sensor /\ UNCHANGED appVars
  \/ \E a \in Axes : Axis(a)
  \/ Cylinders
  \/ Input
  \/ DoorByHand

Spec == Init /\ [][Next]_vars

(* MotorSensor is outranked by the shell only, which waits for input       *)
(* between commands.  ProjectApp gets the processor whenever MotorSensor   *)
(* sleeps, for it then sleeps 100 ms: it need not be able to run all the   *)
(* time.                                                                   *)
Fairness ==
  /\ WF_vars(Sensor /\ UNCHANGED appVars)
  /\ SF_vars(App)
  /\ \A a \in Axes : WF_vars(Axis(a))
  /\ WF_vars(Cylinders)

FairSpec == Spec /\ Fairness

-----------------------------------------------------------------------------
(* Properties.                                                             *)

(* Every variable has its type.                                            *)
TypeOK ==
  /\ AxesTypeOK
  /\ WhichProject \in Projects
  /\ pc \in {"soft", "key", "phase 2", "phase 2, X", "done", "lid", "again", "position"} \cup Check
  /\ cnt \in 0..(CounterMod - 1)
  /\ KEY_RESET_pressed \in BOOLEAN /\ input \in BOOLEAN /\ byHand \in BOOLEAN
  /\ OpStep \in {"STANDBY", "DUT_GO_INSIDE", "CLOSE_DOOR", "OPEN_DOOR", "DUT_GO_OUTSIDE"}
  /\ drawer \in {"in", "mid", "out"} /\ door \in {"up", "mid", "down"}
  /\ drawerOut \in {"none", "in", "out"} /\ doorOut \in {"none", "open", "close", "both"}

(* ProjectApp drives the axis it was asked to drive and no other, though   *)
(* its registers are addressed through globals that every scan of          *)
(* MotorSensor leaves on the last axis; unless a thread overtook one of    *)
(* its motor calls.                                                        *)
DrivesItsAxis ==
  [][App /\ ~overtaken => \A a \in Axes \ {axis} : mode'[a] = mode[a] /\ v'[a] = v[a]]_vars

(* An axis that homes is on its way: MotorSensor, which polls until the    *)
(* run ends, is not left with an axis at rest between its switches, unless *)
(* a command of the host stopped or slowed the run itself.                 *)
SeekerMoves ==
  \A a \in Axes : seek[a] = "home" /\ place[a] = "home" /\ ~InCall
                    => vactual(a) # 0 \/ spoilt[a] \/ overtaken \/ ~inited

(* Once the host leaves the board alone, ProjectApp is let run again and   *)
(* again, whatever runs the host left behind, if it spoilt none of them.   *)
HostQuiet == <>[][~Host]_vars
SomeSpoilt == \E a \in Axes : spoilt[a]
AppGetsTurns == HostQuiet => []<>(AppMayRun \/ overtaken \/ SomeSpoilt)

(* A reset key held down sets Y on its homing run, even if runs of the     *)
(* host keep ProjectApp from polling it at first.                          *)
KeyHeard ==
  HostQuiet => (WhichProject = "BUTTON_ONLINE" /\ inited /\ ~KEY_RESET_pressed
                  ~> ~input \/ seek[Y] = "home" \/ overtaken \/ SomeSpoilt)

(* The button closes the door only over a drawer that is inside, and moves *)
(* the drawer only under an open door.                                     *)
DoorClosesOnDrawer ==
  [][Closing' /\ ~Closing => drawer = "in"]_vars
DrawerUnderOpenDoor ==
  drawerOut # "none" /\ drawer = "mid" /\ ~byHand => door = "up"

(* A button held down closes the door, unless the drawer's stay outside    *)
(* was taken for a reset.                                                  *)
LidCloses ==
  OpStep = "DUT_GO_INSIDE" ~> door = "down" \/ ~input \/ pc \in Check \/ overtaken

(* "Y is reset first, then Z, then X": the comment on the reset.           *)
ResetOrder == call = "flag" /\ axis \in {X, Z} => homed[Y]
=============================================================================
