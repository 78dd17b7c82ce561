---------------------------- MODULE SharedAxes ----------------------------
(***************************************************************************)
(* The axes as the threads share them.  Three threads command the TMC429   *)
(* chips: the shell, MotorSensor and ProjectApp.  Nothing keeps them       *)
(* apart: not the globals TMC429_motor and TMC429_DEV that select an axis, *)
(* nor the four bytes of a datagram.                                       *)
(*                                                                         *)
(* Who runs when.  The shell (priority 10) preempts everybody, so one of   *)
(* its commands is one step, at any moment.  MotorSensor (14) preempts     *)
(* ProjectApp (15); it sleeps for 100 ms while no axis homes and polls     *)
(* without a pause while one does.  ProjectApp therefore moves only while  *)
(* MotorSensor sleeps, and its call of motor_gohome_config is taken apart  *)
(* here, one step for each access to what it shares.                       *)
(*                                                                         *)
(* Tmc429Motion has the details of one axis: counters, homing speeds, the  *)
(* 500 polls before a run turns round, polarity and disabling of switches. *)
(* Here a track has three places, its ends and the home sensor between     *)
(* them, a velocity is a sign, an axis has its velocity at once, and a run *)
(* turns round at its first poll on a switch, at half the speed it was     *)
(* started with.                                                           *)
(***************************************************************************)
EXTENDS Integers

CONSTANTS
  NMotors,      \* axes, numbered from 0; 6 in the code
  PerChip,      \* axes per TMC429, 3 in the code
  ShellOps,     \* motor commands the shell uses, each with its axis
  ShellSpeeds,  \* speeds it gives them, of either sign and 0
  StartPlaces   \* where a carriage may be at power on

ASSUME AxesAssumption ==
  /\ PerChip \in Nat \ {0} /\ NMotors \in 1..(2 * PerChip)
  /\ StartPlaces \subseteq {"left", "home", "right"}
  /\ ShellSpeeds \subseteq -2..2

Axes == 0..(NMotors - 1)
Places == {"left", "home", "right"}
Signs == {-1, 0, 1}
Speeds == -2..2     \* of half of 1 nothing is left; 2 stands for the rest
Sign(s) == IF s > 0 THEN 1 ELSE IF s < 0 THEN -1 ELSE 0
Half(s) == (IF s < 0 THEN -s ELSE s) \div 2

VARIABLES
  \* chips and carriages
  mode,        \* ramp mode of each axis
  v,           \* sign of V_TARGET in velocity mode, of the move in ramp mode
  place,       \* where each carriage is
  \* what the threads share
  inited,      \* tmc429_inited
  seek,        \* motorHoming: "home" for GoHome, "limit" for GoLimit alone
  homed, homeSpeed,
  TMC429_motor, TMC429_DEV,
  \* MotorSensor
  sensor, scan,
  polled,      \* the axis has been polled since it last moved
  \* ProjectApp
  call,        \* how far its motor call is; "no" outside one
  axis, speed, \* the arguments of the call
  dest,        \* the axis its open datagram is addressed to
  intact,      \* no other thread has used the bus since the datagram began
  \* bookkeeping
  overtaken,   \* some motor call was overtaken by another thread
  spoilt,      \* the host started the run of an axis too slow to turn round, or
               \* has since driven the axis away from what the run waits for
  commands     \* commands the shell may still give: a bound

chips == <<mode, v, place>>
homing == <<seek, homed, homeSpeed>>
selection == <<TMC429_motor, TMC429_DEV>>
thread == <<sensor, scan, polled>>
datagram == <<dest, intact>>
appCall == <<call, axis, speed>>
books == <<overtaken, spoilt>>
axesVars == <<chips, inited, homing, selection, thread, datagram, appCall,
              books, commands>>

-----------------------------------------------------------------------------
(* Chips and carriages.                                                    *)

getTMC429_DEV(a) == IF a < PerChip THEN 0 ELSE 1
getMotor0_2(a) == IF a < PerChip THEN a ELSE a - PerChip
Selected == TMC429_DEV * PerChip + TMC429_motor

Ahead(p, s) ==
  CASE s = 1 -> IF p = "left" THEN "home" ELSE "right"
    [] s = -1 -> IF p = "right" THEN "home" ELSE "left"
    [] OTHER -> p

(* IDX_VACTUAL: a switch stops the axis that runs into it.                 *)
vactual(a) == IF Ahead(place[a], v[a]) = place[a] THEN 0 ELSE v[a]

Polling == sensor \in {"head", "scan"}

(* A homing axis is polled in every place, unless MotorSensor sleeps.      *)
Move(a) ==
  /\ vactual(a) # 0
  /\ seek[a] # "none" /\ Polling => polled[a]
  /\ place' = [place EXCEPT ![a] = Ahead(@, v[a])]
  /\ polled' = [polled EXCEPT ![a] = FALSE]
  /\ UNCHANGED <<mode, v, inited, homing, selection, sensor, scan, datagram,
                 appCall, books, commands>>

(* A positioning move arrives somewhere on its way.                        *)
Arrive(a) ==
  /\ mode[a] = "ramp" /\ v[a] # 0
  /\ v' = [v EXCEPT ![a] = 0]
  /\ UNCHANGED <<mode, place, inited, homing, selection, thread, datagram, appCall,
                 books, commands>>

MotorRotate(a, s) ==
  /\ mode' = [mode EXCEPT ![a] = "velocity"]
  /\ v' = [v EXCEPT ![a] = Sign(s)]

-----------------------------------------------------------------------------
(* ProjectApp and the threads above it.                                    *)

InCall == call # "no"
AppMayRun == ~Polling

Select(a) ==
  /\ TMC429_motor' = getMotor0_2(a)
  /\ TMC429_DEV' = getTMC429_DEV(a)

(* Another thread uses the bus: the first bytes of an open datagram are    *)
(* followed by its own, and both chip selects go up at its end.            *)
Overtake(spi) ==
  /\ intact' = (intact /\ ~spi)
  /\ overtaken' = (overtaken \/ InCall)

-----------------------------------------------------------------------------
(* The shell.                                                              *)

ShellStep == commands > 0 /\ commands' = commands - 1

tmc429_hw_init ==
  /\ ~inited /\ ShellStep
  /\ inited' = TRUE
  /\ mode' = [a \in Axes |-> "ramp"] /\ v' = [a \in Axes |-> 0]
  /\ seek' = [a \in Axes |-> "none"] /\ homed' = [a \in Axes |-> FALSE]
  /\ spoilt' = [a \in Axes |-> FALSE]
  /\ sensor' = "head"
  /\ Overtake(TRUE)
  /\ UNCHANGED <<place, homeSpeed, selection, scan, polled, appCall, dest>>

(* No command is refused: motionLocked, tested before a rotate or a move,   *)
(* is never set.                                                           *)
Command(op, a) ==
  /\ inited /\ ShellStep /\ <<op, a>> \in ShellOps
  /\ Select(a) /\ Overtake(TRUE)
  /\ UNCHANGED <<place, inited, thread, appCall, dest>>

(* Bookkeeping: a run started at speed hs that is driven at s gets to its  *)
(* end.  A run home does in either direction, if it can turn round; a run  *)
(* to a switch has to go to the side it waits for.                         *)
Leads(what, hs, s) == IF what = "home" THEN s # 0 /\ Half(hs) # 0 ELSE s * hs > 0

Drives(a, s) ==
  spoilt' = [spoilt EXCEPT ![a] = seek[a] # "none" /\ ~Leads(seek[a], homeSpeed[a], s)]

Home(a, what, s) ==
  /\ Command(what, a)
  /\ seek' = [seek EXCEPT ![a] = what]
  /\ homed' = [homed EXCEPT ![a] = FALSE]
  /\ homeSpeed' = [homeSpeed EXCEPT ![a] = s]
  /\ spoilt' = [spoilt EXCEPT ![a] = ~Leads(what, s, s)]
  /\ MotorRotate(a, s)

Rotate(a, s) ==
  /\ Command("rotate", a)
  /\ MotorRotate(a, s) /\ Drives(a, s)
  /\ UNCHANGED homing

(* A move may end short of what a run waits for.                           *)
TMC429_MoveToPosition(a, s) ==
  /\ Command("move", a)
  /\ mode' = [mode EXCEPT ![a] = "ramp"]
  /\ v' = [v EXCEPT ![a] = Sign(s)]
  /\ Drives(a, 0)
  /\ UNCHANGED homing

StopMotorByHW(a) ==
  /\ Command("stop", a)
  /\ MotorRotate(a, 0)
  /\ seek' = [seek EXCEPT ![a] = "none"]
  /\ spoilt' = [spoilt EXCEPT ![a] = FALSE]
  /\ UNCHANGED <<homed, homeSpeed>>

Shell ==
  \/ tmc429_hw_init
  \/ \E a \in Axes :
       \/ StopMotorByHW(a)
       \/ \E s \in ShellSpeeds :
            \/ Rotate(a, s)
            \/ TMC429_MoveToPosition(a, s)
            \/ \E what \in {"home", "limit"} : Home(a, what, s)

-----------------------------------------------------------------------------
(* MotorSensor.                                                            *)

SensorWake ==
  /\ sensor = "asleep"
  /\ sensor' = "head"
  /\ UNCHANGED <<chips, inited, homing, selection, scan, polled, datagram, appCall,
                 books, commands>>

SensorCheck ==
  /\ sensor = "head"
  /\ IF \E a \in Axes : seek[a] # "none"
     THEN sensor' = "scan" /\ Overtake(FALSE) /\ UNCHANGED polled
     ELSE /\ sensor' = "asleep" /\ polled' = [a \in Axes |-> FALSE]
          /\ UNCHANGED <<intact, overtaken>>
  /\ scan' = 0
  /\ UNCHANGED <<chips, inited, homing, selection, dest, appCall, spoilt, commands>>

NextAxis ==
  IF scan + 1 < NMotors THEN scan' = scan + 1 /\ UNCHANGED sensor
  ELSE sensor' = "head" /\ scan' = 0

AtEnd(a) == place[a] # "home"
Inward(a) == IF place[a] = "left" THEN 1 ELSE -1

OriginFound(a) ==
  \/ seek[a] = "home" /\ place[a] = "home" /\ vactual(a) * homeSpeed[a] < 0
  \/ seek[a] = "limit" /\ vactual(a) = 0 /\ AtEnd(a) /\ homeSpeed[a] * Inward(a) < 0

setPositionAsOrigin(a) ==
  /\ OriginFound(a)
  /\ MotorRotate(a, 0)
  /\ homed' = [homed EXCEPT ![a] = TRUE]
  /\ seek' = [seek EXCEPT ![a] = "none"]
  /\ spoilt' = [spoilt EXCEPT ![a] = FALSE]

(* A variant: the run is driven on into the switch.                         *)
Reverse_Onward(a) ==
  /\ seek[a] = "home" /\ AtEnd(a)
  /\ MotorRotate(a, -Inward(a) * Half(homeSpeed[a]))
  /\ UNCHANGED <<homed, seek, spoilt>>

(* A speed of 1 is halved to 0.                                            *)
Reverse(a) ==
  /\ seek[a] = "home" /\ AtEnd(a)
  /\ MotorRotate(a, Inward(a) * Half(homeSpeed[a]))
  /\ UNCHANGED <<homed, seek, spoilt>>

NothingToDo(a) ==
  /\ ~OriginFound(a) /\ ~(seek[a] = "home" /\ AtEnd(a))
  /\ UNCHANGED <<mode, v, homed, seek, spoilt>>

LimitSensorProcess(a) ==
  /\ sensor = "scan" /\ scan = a
  /\ Select(a)
  /\ setPositionAsOrigin(a) \/ Reverse(a) \/ NothingToDo(a)
  /\ Overtake(seek[a] # "none")
  /\ polled' = [polled EXCEPT ![a] = TRUE]
  /\ NextAxis
  /\ UNCHANGED <<place, inited, homeSpeed, appCall, dest, commands>>

Sensor == SensorWake \/ SensorCheck \/ \E a \in Axes : LimitSensorProcess(a)

-----------------------------------------------------------------------------
(* motor_gohome_config(axis, speed) as ProjectApp runs it, and HardStop of *)
(* an axis.  Each step ends before the next access to something shared.    *)

Step(from, to) == call = from /\ call' = to /\ UNCHANGED <<axis, speed>>

(* The call returns, and its arguments and locals are gone.                *)
Return ==
  call' = "no" /\ axis' = 0 /\ speed' = 0 /\ dest' = 0 /\ intact' = FALSE

(* What a step of a call leaves alone unless it says otherwise.            *)
OthersIdle == UNCHANGED <<place, inited, thread, overtaken, commands>>

SetGoHome ==
  /\ Step("flag", "fields")
  /\ seek' = [seek EXCEPT ![axis] = "home"]
  /\ spoilt' = [spoilt EXCEPT ![axis] = FALSE]
  /\ UNCHANGED <<mode, v, homed, homeSpeed, selection, datagram>>

SetFields ==
  /\ Step("fields", "motor")
  /\ homed' = [homed EXCEPT ![axis] = FALSE]
  /\ homeSpeed' = [homeSpeed EXCEPT ![axis] = speed]
  /\ UNCHANGED <<mode, v, seek, selection, datagram>>

(* TMC429_MotorRotate selects the axis, and SetAmaxBySpeed does again.     *)
SelectMotor ==
  /\ Step("motor", "dev") \/ Step("motor again", "dev again")
  /\ TMC429_motor' = getMotor0_2(axis)
  /\ UNCHANGED <<mode, v, homing, TMC429_DEV, datagram>>

(* A variant: the chip is not selected.                                     *)
SelectDev_Not ==
  /\ Step("dev", "mode") \/ Step("dev again", "target")
  /\ UNCHANGED <<mode, v, homing, selection, datagram>>

SelectDev ==
  /\ Step("dev", "mode") \/ Step("dev again", "target")
  /\ TMC429_DEV' = getTMC429_DEV(axis)
  /\ UNCHANGED <<mode, v, homing, TMC429_motor, datagram>>

(* A datagram begins: its address is taken from the globals now.           *)
Begin(from, to, d) ==
  /\ Step(from, to)
  /\ dest' = d /\ intact' = TRUE
  /\ UNCHANGED <<mode, v, homing, selection>>

Send ==
  \/ Begin("mode", "mode sent", Selected)
  \/ Begin("target", "target sent", Selected)
  \/ Begin("halt mode", "halt mode sent", axis)
  \/ Begin("halt target", "halt target sent", axis)
  \/ Begin("read", "read sent", axis)

(* A datagram of an axis the chips have arrives if it is whole and the bus *)
(* has been initialised.                                                   *)
Arrives == intact /\ inited /\ dest \in Axes

WriteMode ==
  /\ Step("mode sent", "motor again") \/ Step("halt mode sent", "halt target")
  /\ mode' = IF Arrives THEN [mode EXCEPT ![dest] = "velocity"] ELSE mode
  /\ UNCHANGED <<v, homing, selection, datagram>>

(* In ramp mode the chip computes V_TARGET itself.                         *)
WriteTarget ==
  /\ call \in {"target sent", "halt target sent"}
  /\ v' = IF Arrives /\ mode[dest] = "velocity"
          THEN [v EXCEPT ![dest] = IF call = "target sent" THEN Sign(speed) ELSE 0] ELSE v
  /\ Return
  /\ UNCHANGED <<mode, homing, selection>>

(* The soft limit: stop the axis if it moves down.  A datagram that does   *)
(* not arrive brings any answer.                                           *)
ReadVelocity ==
  /\ call = "read sent"
  /\ \E answer \in IF Arrives THEN {vactual(dest)} ELSE Signs :
       IF answer < 0 THEN Step("read sent", "halt mode") /\ UNCHANGED datagram ELSE Return
  /\ UNCHANGED <<mode, v, homing, selection>>

AppCall ==
  /\ AppMayRun
  /\ \/ SetGoHome
     \/ /\ SetFields \/ SelectMotor \/ SelectDev
           \/ Send \/ ReadVelocity \/ WriteMode \/ WriteTarget
        /\ UNCHANGED spoilt
  /\ OthersIdle

(* How a loop enters a call.                                               *)
Enter(start, a, s) ==
  /\ call' = start /\ axis' = a /\ speed' = s
motor_gohome_config(a, s) == Enter("flag", a, s)
HardStop(a) == Enter("halt mode", a, 0)

-----------------------------------------------------------------------------
AxesInit ==
  /\ mode = [a \in Axes |-> "ramp"] /\ v = [a \in Axes |-> 0]
  /\ place \in [Axes -> StartPlaces]
  /\ inited = FALSE
  /\ seek = [a \in Axes |-> "none"] /\ homed = [a \in Axes |-> FALSE]
  /\ homeSpeed = [a \in Axes |-> 0]
  /\ TMC429_motor = 0 /\ TMC429_DEV = 0
  /\ sensor = "off" /\ scan = 0 /\ polled = [a \in Axes |-> FALSE]
  /\ call = "no" /\ axis = 0 /\ speed = 0
  /\ dest = 0 /\ intact = FALSE
  /\ overtaken = FALSE /\ spoilt = [a \in Axes |-> FALSE]

AxesTypeOK ==
  /\ mode \in [Axes -> {"ramp", "velocity"}] /\ v \in [Axes -> Signs]
  /\ place \in [Axes -> Places] /\ inited \in BOOLEAN
  /\ seek \in [Axes -> {"none", "home", "limit"}]
  /\ homed \in [Axes -> BOOLEAN] /\ homeSpeed \in [Axes -> Speeds]
  /\ TMC429_motor \in 0..(PerChip - 1) /\ TMC429_DEV \in {0, 1}
  /\ sensor \in {"off", "asleep", "head", "scan"} /\ scan \in Axes
  /\ polled \in [Axes -> BOOLEAN]
  /\ call \in {"no", "flag", "fields", "motor", "dev", "mode", "mode sent",
               "motor again", "dev again", "target", "target sent", "halt mode",
               "halt mode sent", "halt target", "halt target sent", "read", "read sent"}
  /\ axis \in Axes /\ speed \in Speeds /\ dest \in Nat /\ intact \in BOOLEAN
  /\ overtaken \in BOOLEAN /\ spoilt \in [Axes -> BOOLEAN] /\ commands \in Nat
=============================================================================
