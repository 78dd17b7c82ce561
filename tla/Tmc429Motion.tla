--------------------------- MODULE Tmc429Motion ---------------------------
(***************************************************************************)
(* Motion control of the MB1616DEV6 board: the axes driven by the two      *)
(* TMC429 chips, the shell command "motor", and the MotorSensor thread     *)
(* that finishes a homing run.                                             *)
(*                                                                         *)
(* Who runs when.  The shell thread (priority 10) preempts MotorSensor     *)
(* (priority 14) and never blocks inside a command, so a command is one    *)
(* step.  MotorSensor handles one axis inside rt_enter_critical and        *)
(* rt_exit_critical, so an axis is one step too, and a command may fall    *)
(* between any two axes of a scan.  The chips and the carriages run on     *)
(* their own.                                                              *)
(*                                                                         *)
(* Abstractions.  A carriage position is a cell of its track.  A velocity  *)
(* register holds the sign of the velocity; a homing speed keeps its       *)
(* magnitude because the code halves it.  The cell is the distance an axis *)
(* covers between two polls of its sensor, a change of speed takes at      *)
(* least as long, and "slack" accounts for both.                           *)
(***************************************************************************)
EXTENDS Integers

CONSTANTS
  NMotors,     \* N_O_MOTORS, 6 in the code; axes are numbered from 0
  PerChip,     \* axes per TMC429, 3 in the code
  Track,       \* last cell of every track; the end switches are at 0 and Track
  HomeZone,    \* cells in which the home sensor of an axis is active
  HomeSpeeds,  \* speeds given to gohome and golimit, as VMAX register values
  Targets,     \* positions given to move, moveto and the set commands
  HostOps,     \* the subcommands of "motor" the host uses
  StopArgs,    \* motor numbers given to "motor stop"
  LimitCount,  \* polls on an end switch before the run turns round, 500 in the code
  Skid,        \* cells the other axes cover during the 20 ms stop of one axis
  XBound       \* bound on the position counters

ASSUME SizeAssumption ==
  /\ NMotors \in Nat \ {0} /\ PerChip \in Nat \ {0} /\ Track \in Nat \ {0}
  /\ LimitCount \in Nat /\ Skid \in Nat /\ XBound \in Nat
ASSUME InputAssumption ==
  /\ HomeZone \subseteq 0..Track
  /\ HomeSpeeds \subseteq Int /\ Targets \subseteq Int
  /\ StopArgs \subseteq 0..NMotors

Axes == 0..(NMotors - 1)
Chips == {0, 1}
IfBits == {"EN_SD", "EN_REFR", "INV_REF"}

VARIABLES
  \* registers of the chips
  xactual, xtarget, vtarget, vactual, rampmode,
  refconf,     \* the switches REFCONF forbids to stop the axis
  ifconf,      \* per chip, the bits of IF_CONFIG_429 that matter here
  \* mechanics
  x,           \* the cell each carriage is in
  \* firmware RAM
  inited,      \* tmc429_inited
  homed, goHome, goLimit, homeSpeed,   \* the fields of motorHoming
  limitCnt,    \* motorlimitedCNT
  sensor,      \* where the MotorSensor thread is
  scan,        \* the axis it handles next
  \* bookkeeping of the model
  slack,       \* moves an axis may still make before it is polled again
  handSet,     \* a command set the position register since the last origin
  undisturbed  \* the run of the axis set out from rest, and no command for the
               \* axis came since; the host may send one at any time

chip == <<xactual, xtarget, vtarget, vactual, rampmode, refconf, ifconf>>
homing == <<homed, goHome, goLimit, homeSpeed>>
thread == <<sensor, scan>>
vars == <<chip, x, inited, homing, limitCnt, thread, slack, handSet, undisturbed>>

-----------------------------------------------------------------------------
(* What the chips and the sensors show.                                    *)

Sgn(v) == IF v > 0 THEN 1 ELSE IF v < 0 THEN -1 ELSE 0
Abs(v) == IF v < 0 THEN -v ELSE v
Clip(v, lo, hi) == IF v < lo THEN lo ELSE IF v > hi THEN hi ELSE v

getTMC429_DEV(a) == IF a < PerChip THEN 0 ELSE 1
If(a) == ifconf[getTMC429_DEV(a)]

(* The bits of REF_SWITCHES.  INV_REF inverts both inputs; the right       *)
(* inputs exist only with EN_REFR.                                         *)
LeftSwitch(a, cell) == (cell = 0) # ("INV_REF" \in If(a))
RightSwitch(a, cell) ==
  "EN_REFR" \in If(a) /\ ((cell = Track) # ("INV_REF" \in If(a)))
HomeSensor(a) == x[a] \in HomeZone

Homing(a) == goHome[a] \/ goLimit[a]
Polling == sensor \in {"head", "scan"}

SwitchStops(a, cell, v) ==
  \/ v = -1 /\ LeftSwitch(a, cell) /\ "left" \notin refconf[a]
  \/ v = 1 /\ RightSwitch(a, cell) /\ "right" \notin refconf[a]

(* The direction the chip ramps towards; a switch on that side forbids it. *)
Goal(a) ==
  LET g == IF rampmode[a] = "velocity" THEN vtarget[a]
           ELSE Sgn(xtarget[a] - xactual[a])
  IN  IF SwitchStops(a, x[a], g) THEN 0 ELSE g

-----------------------------------------------------------------------------
(* The chips and the carriages.                                            *)

Sampled(a) == goHome[a] /\ Polling

(* What a sampled axis does, it does between two polls.                    *)
WithinPoll(a) ==
  /\ Sampled(a) => slack[a] > 0
  /\ slack' = [slack EXCEPT ![a] = IF Sampled(a) THEN @ - 1 ELSE @]

Accelerate(a) ==
  /\ vactual[a] # Goal(a)
  /\ WithinPoll(a)
  /\ vactual' = [vactual EXCEPT ![a] =
       IF SwitchStops(a, x[a], @) THEN 0 ELSE @ + Sgn(Goal(a) - @)]
  /\ UNCHANGED <<xactual, xtarget, vtarget, rampmode, refconf, ifconf, x, inited,
                 homing, limitCnt, thread, handSet,
                 undisturbed>>

(* One cell.  The counter follows the pulses the chip makes; the carriage  *)
(* follows them only while EN_SD routes them to the driver, and not past   *)
(* the ends of its track.                                                  *)
Step(a) ==
  LET v == vactual[a]
      p == xactual[a] + v
      cell == IF "EN_SD" \in If(a) THEN Clip(x[a] + v, 0, Track) ELSE x[a]
      stopped == \/ SwitchStops(a, cell, v)
                 \/ rampmode[a] = "ramp" /\ p = xtarget[a]
  IN /\ v # 0 /\ ~SwitchStops(a, x[a], v)
     /\ WithinPoll(a)
     /\ Abs(p) <= XBound
     /\ xactual' = [xactual EXCEPT ![a] = p]
     /\ x' = [x EXCEPT ![a] = cell]
     /\ vactual' = [vactual EXCEPT ![a] = IF stopped THEN 0 ELSE v]
     /\ UNCHANGED <<xtarget, vtarget, rampmode, refconf, ifconf, inited, homing,
                    limitCnt, thread, handSet,
                 undisturbed>>

-----------------------------------------------------------------------------
(* The shell command "motor".                                              *)

(* The first command of a session runs tmc429_hw_init before it does       *)
(* anything else.  It is the one place that writes the registers Init429   *)
(* writes, so it is a step of its own, "motor" without an argument.        *)
tmc429_hw_init ==
  /\ ~inited
  /\ inited' = TRUE
  /\ xactual' = [a \in Axes |-> 0] /\ xtarget' = [a \in Axes |-> 0]
  /\ vactual' = [a \in Axes |-> 0] /\ vtarget' = [a \in Axes |-> 0]
  /\ rampmode' = [a \in Axes |-> "ramp"]
  /\ refconf' = [a \in Axes |-> {}]
  /\ ifconf' = [c \in Chips |-> {"EN_SD", "EN_REFR"}]
  /\ homed' = [a \in Axes |-> FALSE]
  /\ goHome' = [a \in Axes |-> FALSE] /\ goLimit' = [a \in Axes |-> FALSE]
  /\ homeSpeed' = [a \in Axes |-> 2000]
  /\ sensor' = "head"
  /\ handSet' = [a \in Axes |-> FALSE]
  /\ UNCHANGED <<x, limitCnt, scan, slack, undisturbed>>

(* What every other command on axis a finds: nothing keeps it from being   *)
(* carried out while a run is under way.                                   *)
Host(op, a) == inited /\ op \in HostOps

Disturbs(a) == undisturbed' = [undisturbed EXCEPT ![a] = FALSE]

TMC429_MotorRotate(a, s) ==
  /\ rampmode' = [rampmode EXCEPT ![a] = "velocity"]
  /\ vtarget' = [vtarget EXCEPT ![a] = Sgn(s)]

StartHoming(a, s, byLimit) ==
  /\ goHome' = [goHome EXCEPT ![a] = ~byLimit]
  /\ goLimit' = [goLimit EXCEPT ![a] = byLimit]
  /\ homed' = [homed EXCEPT ![a] = FALSE]
  /\ homeSpeed' = [homeSpeed EXCEPT ![a] = s]
  /\ TMC429_MotorRotate(a, s)
  /\ undisturbed' = [undisturbed EXCEPT ![a] = ~Homing(a) /\ vactual[a] = 0]
  /\ UNCHANGED <<xactual, xtarget, vactual, refconf, ifconf, x, inited, limitCnt,
                 thread, slack, handSet>>

motor_gohome_config(a, s) == Host("gohome", a) /\ StartHoming(a, s, FALSE)
motor_golimit_config(a, s) == Host("golimit", a) /\ StartHoming(a, s, TRUE)

Rotate(a, s) ==
  /\ Host("rotate", a) /\ Disturbs(a)
  /\ TMC429_MotorRotate(a, s)
  /\ UNCHANGED <<xactual, xtarget, vactual, refconf, ifconf, x, inited, homing,
                 limitCnt, thread, slack, handSet>>

TMC429_MoveToPosition(a, mode, p) ==
  /\ Host(mode, a) /\ Disturbs(a)
  /\ xtarget' = [xtarget EXCEPT ![a] = IF mode = "moveto" THEN p ELSE p + xactual[a]]
  /\ rampmode' = [rampmode EXCEPT ![a] = "ramp"]
  /\ UNCHANGED <<xactual, vtarget, vactual, refconf, ifconf, x, inited, homing,
                 limitCnt, thread, slack, handSet>>

(* "motor stop n".  The command accepts n = N_O_MOTORS.  GoHome[n] is then *)
(* GoLimit[0], and GoLimit[n] lies past motorHoming, outside this model;   *)
(* "motor 3" of the second chip is the chip's common registers, and its    *)
(* VTARGET address is IF_CONFIG_429.                                       *)
StopMotorByHW(n) ==
  /\ inited /\ "stop" \in HostOps
  /\ IF n < NMotors
     THEN /\ rampmode' = [rampmode EXCEPT ![n] = "velocity"]
          /\ vtarget' = [vtarget EXCEPT ![n] = 0]
          /\ vactual' = [vactual EXCEPT ![n] = 0]
          /\ goHome' = [goHome EXCEPT ![n] = FALSE]
          /\ goLimit' = [goLimit EXCEPT ![n] = FALSE]
          /\ Disturbs(n)
          /\ UNCHANGED ifconf
     ELSE /\ goLimit' = [goLimit EXCEPT ![0] = FALSE]
          /\ ifconf' = [ifconf EXCEPT ![1] = {}]
          /\ UNCHANGED <<rampmode, vtarget, vactual, goHome, undisturbed>>
  /\ UNCHANGED <<xactual, xtarget, refconf, x, inited, homed, homeSpeed, limitCnt,
                 thread, slack, handSet>>

(* "motor set": the register a position or a speed is written to.          *)
SetPosition(a, op, p) ==
  /\ Host(op, a) /\ Disturbs(a)
  /\ \/ /\ op = "actual_position"
        /\ xactual' = [xactual EXCEPT ![a] = p]
        /\ handSet' = [handSet EXCEPT ![a] = TRUE]
        /\ UNCHANGED xtarget
     \/ /\ op = "next_position"
        /\ xtarget' = [xtarget EXCEPT ![a] = p]
        /\ UNCHANGED <<xactual, handSet>>
  /\ UNCHANGED <<vtarget, vactual, rampmode, refconf, ifconf, x, inited, homing,
                 limitCnt, thread, slack>>

SetSpeed(a, op, s) ==
  /\ Host(op, a) /\ Disturbs(a)
  /\ \/ /\ op = "speed_actual"
        /\ vactual' = [vactual EXCEPT ![a] = Sgn(s)]
        /\ UNCHANGED vtarget
     \/ /\ op = "next_speed"
        /\ vtarget' = [vtarget EXCEPT ![a] = Sgn(s)]
        /\ UNCHANGED vactual
  /\ UNCHANGED <<xactual, xtarget, rampmode, refconf, ifconf, x, inited, homing,
                 limitCnt, thread, slack, handSet>>

(* "motor set leftLimit|rightLimit": a value other than 0 sets the bit of  *)
(* REFCONF that disables the switch.                                       *)
SetLimitDisable(a, side, disable) ==
  /\ Host(IF disable THEN "limit_1" ELSE "limit_0", a) /\ Disturbs(a)
  /\ refconf' = [refconf EXCEPT ![a] = IF disable THEN @ \cup {side} ELSE @ \ {side}]
  /\ UNCHANGED <<xactual, xtarget, vtarget, vactual, rampmode, ifconf, x, inited,
                 homing, limitCnt, thread, slack, handSet>>

(* "motor set limitSignal": the polarity of every switch of the chip.      *)
SetLimitSignal(a, high) ==
  /\ Host("limit_signal", a) /\ Disturbs(a)
  /\ ifconf' = [ifconf EXCEPT ![getTMC429_DEV(a)] =
                  {"EN_SD", "EN_REFR"} \cup (IF high THEN {"INV_REF"} ELSE {})]
  /\ UNCHANGED <<xactual, xtarget, vtarget, vactual, rampmode, refconf, x, inited,
                 homing, limitCnt, thread, slack, handSet>>

(* cpu_reset, or a watchdog: RAM is zeroed, the chips keep running.        *)
Reset ==
  /\ inited /\ "reset" \in HostOps
  /\ inited' = FALSE /\ sensor' = "off" /\ scan' = 0
  /\ homed' = [a \in Axes |-> FALSE]
  /\ goHome' = [a \in Axes |-> FALSE] /\ goLimit' = [a \in Axes |-> FALSE]
  /\ homeSpeed' = [a \in Axes |-> 0] /\ limitCnt' = [a \in Axes |-> 0]
  /\ slack' = [a \in Axes |-> 0] /\ handSet' = [a \in Axes |-> FALSE]
  /\ undisturbed' = [a \in Axes |-> FALSE]
  /\ UNCHANGED <<chip, x>>

HostStep ==
  \/ tmc429_hw_init
  \/ Reset
  \/ \E n \in StopArgs : StopMotorByHW(n)
  \/ \E a \in Axes :
       \/ \E s \in HomeSpeeds :
            \/ motor_gohome_config(a, s)
            \/ motor_golimit_config(a, s)
       \/ \E s \in {-1, 0, 1} :
            \/ Rotate(a, s)
            \/ \E op \in {"speed_actual", "next_speed"} : SetSpeed(a, op, s)
       \/ \E p \in Targets :
            \/ \E mode \in {"move", "moveto"} : TMC429_MoveToPosition(a, mode, p)
            \/ \E op \in {"actual_position", "next_position"} : SetPosition(a, op, p)
       \/ \E b \in BOOLEAN :
            \/ \E side \in {"left", "right"} : SetLimitDisable(a, side, b)
            \/ SetLimitSignal(a, b)

-----------------------------------------------------------------------------
(* The MotorSensor thread: asleep for 100 ms, at the test of the loop, or  *)
(* in the scan over the axes.                                              *)

SensorWake ==
  /\ sensor = "asleep"
  /\ sensor' = "head"
  /\ UNCHANGED <<chip, x, inited, homing, limitCnt, scan, slack, handSet,
                 undisturbed>>

SensorCheck ==
  /\ sensor = "head"
  /\ IF \E a \in Axes : Homing(a)
     THEN sensor' = "scan" /\ UNCHANGED slack
     ELSE sensor' = "asleep" /\ slack' = [a \in Axes |-> 0]
  /\ scan' = 0
  /\ UNCHANGED <<chip, x, inited, homing, limitCnt, handSet,
                 undisturbed>>

NextAxis ==
  IF scan + 1 < NMotors THEN scan' = scan + 1 /\ UNCHANGED sensor
  ELSE sensor' = "head" /\ scan' = 0

AtLimit(a, side) ==
  IF side = "left" THEN LeftSwitch(a, x[a]) /\ ~RightSwitch(a, x[a])
  ELSE RightSwitch(a, x[a]) /\ ~LeftSwitch(a, x[a])

(* The axis moves against the direction its homing run set out in.         *)
ReturningHome(a) == Sgn(homeSpeed[a]) * vactual[a] = -1

(* A variant: the origin is taken on the way out.                           *)
AtOrigin_Outward(a) ==
  goHome[a] /\ HomeSensor(a) /\ Sgn(homeSpeed[a]) * vactual[a] = 1

AtOrigin(a) == goHome[a] /\ HomeSensor(a) /\ ReturningHome(a)

(* Variants: no run is asked for; no switch is; the switches are confused.  *)
AtHomeLimit_Unasked(a) ==
  ~goHome[a] /\ vactual[a] = 0 /\ (AtLimit(a, "left") \/ AtLimit(a, "right"))
AtHomeLimit_Anywhere(a) == ~goHome[a] /\ goLimit[a] /\ vactual[a] = 0
AtHomeLimit_Swapped(a) ==
  /\ ~goHome[a] /\ goLimit[a] /\ vactual[a] = 0
  /\ \/ AtLimit(a, "left") /\ homeSpeed[a] > 0
     \/ AtLimit(a, "right") /\ homeSpeed[a] < 0

AtHomeLimit(a) ==
  /\ ~goHome[a] /\ goLimit[a] /\ vactual[a] = 0
  /\ \/ AtLimit(a, "left") /\ homeSpeed[a] < 0
     \/ AtLimit(a, "right") /\ homeSpeed[a] > 0

(* The axis is stopped for 20 ms with the scheduler locked; the others go  *)
(* on moving.  Its own next poll is one cell away again.                   *)
setPositionAsOrigin(a) ==
  /\ vactual' = [vactual EXCEPT ![a] = 0]
  /\ vtarget' = [vtarget EXCEPT ![a] = 0]
  /\ rampmode' = [rampmode EXCEPT ![a] = "velocity"]
  /\ xtarget' = [xtarget EXCEPT ![a] = 0]
  /\ xactual' = [xactual EXCEPT ![a] = 0]
  /\ homed' = [homed EXCEPT ![a] = TRUE]
  /\ goHome' = [goHome EXCEPT ![a] = FALSE]
  /\ goLimit' = [goLimit EXCEPT ![a] = FALSE]
  /\ handSet' = [handSet EXCEPT ![a] = FALSE]
  /\ Disturbs(a)
  /\ slack' = [b \in Axes |-> IF b = a THEN 1 ELSE slack[b] + Skid]
  /\ UNCHANGED <<refconf, ifconf, x, inited, homeSpeed, limitCnt>>

Polled(a) == slack' = [slack EXCEPT ![a] = 1]

OriginFound(a) == AtOrigin(a) /\ setPositionAsOrigin(a)

LimitReached(a) == AtHomeLimit(a) /\ setPositionAsOrigin(a)

(* A variant: the count goes one past its end.                              *)
CountLimit_Over(a) ==
  /\ goHome[a] /\ ~AtOrigin(a)
  /\ AtLimit(a, "left") \/ AtLimit(a, "right")
  /\ limitCnt[a] <= LimitCount
  /\ limitCnt' = [limitCnt EXCEPT ![a] = @ + 1]
  /\ Polled(a)
  /\ UNCHANGED <<chip, x, inited, homing, handSet,
                 undisturbed>>

CountLimit(a) ==
  /\ goHome[a] /\ ~AtOrigin(a)
  /\ AtLimit(a, "left") \/ AtLimit(a, "right")
  /\ limitCnt[a] < LimitCount
  /\ limitCnt' = [limitCnt EXCEPT ![a] = @ + 1]
  /\ Polled(a)
  /\ UNCHANGED <<chip, x, inited, homing, handSet,
                 undisturbed>>

(* A variant: the axis is driven on into the switch.                        *)
Reverse_Onward(a) ==
  /\ goHome[a] /\ ~AtOrigin(a)
  /\ limitCnt[a] >= LimitCount
  /\ \/ AtLimit(a, "left") /\ TMC429_MotorRotate(a, -(Abs(homeSpeed[a]) \div 2))
     \/ AtLimit(a, "right") /\ TMC429_MotorRotate(a, Abs(homeSpeed[a]) \div 2)
  /\ limitCnt' = [limitCnt EXCEPT ![a] = 0]
  /\ Polled(a)
  /\ UNCHANGED <<xactual, xtarget, vactual, refconf, ifconf, x, inited, homing, handSet,
                 undisturbed>>

Reverse(a) ==
  /\ goHome[a] /\ ~AtOrigin(a)
  /\ limitCnt[a] >= LimitCount
  /\ \/ AtLimit(a, "left") /\ TMC429_MotorRotate(a, Abs(homeSpeed[a]) \div 2)
     \/ AtLimit(a, "right") /\ TMC429_MotorRotate(a, -(Abs(homeSpeed[a]) \div 2))
  /\ limitCnt' = [limitCnt EXCEPT ![a] = 0]
  /\ Polled(a)
  /\ UNCHANGED <<xactual, xtarget, vactual, refconf, ifconf, x, inited, homing, handSet,
                 undisturbed>>

NothingToDo(a) ==
  /\ ~AtOrigin(a) /\ ~AtHomeLimit(a)
  /\ goHome[a] => ~AtLimit(a, "left") /\ ~AtLimit(a, "right")
  /\ Polled(a)
  /\ UNCHANGED <<chip, x, inited, homing, limitCnt, handSet,
                 undisturbed>>

LimitSensorProcess(a) ==
  /\ sensor = "scan" /\ scan = a
  /\ \/ OriginFound(a) \/ LimitReached(a)
     \/ CountLimit(a) \/ Reverse(a) \/ NothingToDo(a)
  /\ NextAxis

SensorStep == SensorWake \/ SensorCheck \/ \E a \in Axes : LimitSensorProcess(a)

-----------------------------------------------------------------------------
(* Power on: the registers are 0, a carriage may be anywhere.              *)
Init ==
  /\ xactual = [a \in Axes |-> 0] /\ xtarget = [a \in Axes |-> 0]
  /\ vtarget = [a \in Axes |-> 0] /\ vactual = [a \in Axes |-> 0]
  /\ rampmode = [a \in Axes |-> "ramp"]
  /\ refconf = [a \in Axes |-> {}] /\ ifconf = [c \in Chips |-> {}]
  /\ x \in [Axes -> 0..Track]
  /\ inited = FALSE
  /\ homed = [a \in Axes |-> FALSE]
  /\ goHome = [a \in Axes |-> FALSE] /\ goLimit = [a \in Axes |-> FALSE]
  /\ homeSpeed = [a \in Axes |-> 0] /\ limitCnt = [a \in Axes |-> 0]
  /\ sensor = "off" /\ scan = 0
  /\ slack = [a \in Axes |-> 0] /\ handSet = [a \in Axes |-> FALSE]
  /\ undisturbed = [a \in Axes |-> FALSE]

Next ==
  \/ HostStep
  \/ SensorStep
  \/ \E a \in Axes : Accelerate(a) \/ Step(a)

Spec == Init /\ [][Next]_vars

(* The chips keep generating ramps, and the sensor thread, which no other  *)
(* application thread outranks, keeps running once the shell has gone back *)
(* to waiting for input.                                                   *)
Fairness ==
  /\ WF_vars(SensorStep)
  /\ \A a \in Axes : WF_vars(Accelerate(a)) /\ WF_vars(Step(a))

FairSpec == Spec /\ Fairness

-----------------------------------------------------------------------------
(* Properties.                                                             *)

(* The host keeps the switches as tmc429_hw_init configures them and stops *)
(* axes that exist.                                                        *)
SafeHost ==
  /\ {"limit_0", "limit_1", "limit_signal"} \cap HostOps = {}
  /\ StopArgs \subseteq Axes

RegistersOK ==
  /\ xactual \in [Axes -> Int] /\ xtarget \in [Axes -> Int]
  /\ vtarget \in [Axes -> {-1, 0, 1}] /\ vactual \in [Axes -> {-1, 0, 1}]
  /\ rampmode \in [Axes -> {"ramp", "velocity"}]
  /\ refconf \in [Axes -> SUBSET {"left", "right"}]
  /\ ifconf \in [Chips -> SUBSET IfBits]
  /\ x \in [Axes -> 0..Track]

FirmwareOK ==
  /\ inited \in BOOLEAN /\ homed \in [Axes -> BOOLEAN]
  /\ goHome \in [Axes -> BOOLEAN] /\ goLimit \in [Axes -> BOOLEAN]
  /\ homeSpeed \in [Axes -> Int] /\ limitCnt \in [Axes -> 0..LimitCount]
  /\ sensor \in {"off", "asleep", "head", "scan"} /\ scan \in Axes
  /\ slack \in [Axes -> Nat] /\ handSet \in [Axes -> BOOLEAN]
  /\ undisturbed \in [Axes -> BOOLEAN]

TypeOK == RegistersOK /\ FirmwareOK

References == HomeZone \cup {0, Track}

(* An axis that reports homed counts its position from the home sensor or  *)
(* from an end switch, however it was moved since (is_homed is what the    *)
(* host trusts before it sends absolute positions).                        *)
HomedReferenced ==
  \A a \in Axes : homed[a] /\ ~handSet[a] => x[a] - xactual[a] \in References

(* What HomedReferenced rests on: an axis moves as its counter says, and    *)
(* stops at its switches, because the chips stay as tmc429_hw_init set     *)
(* them; no flag of motorHoming survives a restart, and a homed axis has   *)
(* no run under way.                                                       *)
AsConfigured ==
  inited => /\ \A c \in Chips : ifconf[c] = {"EN_SD", "EN_REFR"}
            /\ \A a \in Axes : refconf[a] = {}
FlagsNeedInit ==
  \A a \in Axes : (homed[a] \/ Homing(a) => inited) /\ ~(homed[a] /\ Homing(a))
ReferenceInv == TypeOK /\ AsConfigured /\ FlagsNeedInit /\ HomedReferenced

(* A run of its own: it set out from rest, and the host, which may command *)
(* any axis at any time, has left this one to it.                          *)
HomesAlone(a) == goHome[a] /\ undisturbed[a]
SeeksLimitAlone(a) == goLimit[a] /\ undisturbed[a]

(* An axis on its way back over its home sensor does not leave the sensor  *)
(* behind while its run goes on: it is polled while the sensor is active,  *)
(* even if another axis was stopped for 20 ms meanwhile.  (A command that  *)
(* turns the polarity of the switches of the chip, given for any axis of   *)
(* it, breaks this: the run turns round in the middle of its track.)       *)
OriginNotMissed ==
  [][\A a \in Axes :
       HomesAlone(a) /\ Polling /\ ReturningHome(a) /\ HomeSensor(a)
         => HomeSensor(a)' \/ ~goHome'[a]]_vars

(* A homing run gets on: it moves the way it is driven, towards an end or,  *)
(* once it has turned round there, over the sensor, and does not turn      *)
(* round again.  So a run covers no track twice in the same direction.     *)
Turned(a) == vtarget[a] = -Sgn(homeSpeed[a])
CellsAhead(a) ==
  (IF vtarget[a] = 1 THEN Track - x[a] ELSE x[a])
    + (IF Turned(a) THEN 0 ELSE Track + 1)
RunAdvances ==
  [][\A a \in Axes :
       HomesAlone(a) /\ HomesAlone(a)' /\ Abs(homeSpeed[a]) > 1
         => /\ CellsAhead(a)' <= CellsAhead(a)
            /\ x'[a] # x[a] => CellsAhead(a)' < CellsAhead(a)]_vars

(* A homing run ends, found or stopped, unless the host meddles with its   *)
(* axis: with a speed the reversal does not halve to 0, and with any speed *)
(* towards a switch.                                                       *)
GoHomeEnds ==
  \A a \in Axes : HomesAlone(a) /\ Abs(homeSpeed[a]) > 1 ~> ~HomesAlone(a)
GoLimitEnds ==
  \A a \in Axes : SeeksLimitAlone(a) /\ homeSpeed[a] # 0 ~> ~SeeksLimitAlone(a)

(* The comment on the board's initialisation: the chips must be            *)
(* initialised there, or motors keep running after a reset.                *)
StillAfterReset == \A a \in Axes : ~inited => vactual[a] = 0

(* Homing as the host sees it.                                             *)
Phase(a) ==
  IF Homing(a) THEN "seeking"
  ELSE IF ~homed[a] THEN "lost"
  ELSE IF handSet[a] THEN "declared" ELSE "homed"
Zero(a) == IF Phase(a) = "homed" THEN x[a] - xactual[a] ELSE 0

Contract == INSTANCE HomingContract WITH
  phase <- [a \in Axes |-> Phase(a)], zero <- [a \in Axes |-> Zero(a)]

(* Every step of the controller is a step the homing contract allows.      *)
KeepsContract == Contract!Spec
=============================================================================
