------------------------- MODULE ProjectAppsProofs -------------------------
(***************************************************************************)
(* Proofs about ProjectApps, for every number of axes, every debounce, and *)
(* any number of commands: the types; that ProjectApp drives the axis it   *)
(* was asked to drive; that an axis which homes moves; that the door       *)
(* closes only over a drawer that is inside, and the drawer moves only     *)
(* under an open door.                                                     *)
(***************************************************************************)
EXTENDS ProjectApps, TLAPS

(* The types, in parts.                                                    *)
ChipsOK ==
  /\ mode \in [Axes -> {"ramp", "velocity"}] /\ v \in [Axes -> Signs]
  /\ place \in [Axes -> Places]
HomingOK ==
  /\ seek \in [Axes -> {"none", "home", "limit"}]
  /\ homed \in [Axes -> BOOLEAN] /\ homeSpeed \in [Axes -> Speeds]
  /\ spoilt \in [Axes -> BOOLEAN]
SelectionOK == TMC429_motor \in 0..(PerChip - 1) /\ TMC429_DEV \in {0, 1}
SensorOK ==
  /\ sensor \in {"off", "asleep", "head", "scan"} /\ scan \in Axes
  /\ polled \in [Axes -> BOOLEAN]
Calls == {"no", "flag", "fields", "motor", "dev", "mode", "mode sent",
          "motor again", "dev again", "target", "target sent", "halt mode",
          "halt mode sent", "halt target", "halt target sent", "read", "read sent"}
CallOK ==
  /\ call \in Calls /\ axis \in Axes /\ speed \in Speeds
  /\ dest \in Nat /\ intact \in BOOLEAN
RestOK == inited \in BOOLEAN /\ overtaken \in BOOLEAN /\ commands \in Nat
AxesOK == ChipsOK /\ HomingOK /\ SelectionOK /\ SensorOK /\ CallOK /\ RestOK

LoopPlaces == {"soft", "key", "phase 2", "phase 2, X", "done", "lid", "again", "position"}
LoopOK ==
  /\ WhichProject \in Projects /\ pc \in LoopPlaces \cup Check
  /\ cnt \in 0..(CounterMod - 1)
  /\ KEY_RESET_pressed \in BOOLEAN /\ input \in BOOLEAN
LidOK ==
  /\ byHand \in BOOLEAN
  /\ OpStep \in {"STANDBY", "DUT_GO_INSIDE", "CLOSE_DOOR", "OPEN_DOOR", "DUT_GO_OUTSIDE"}
  /\ drawer \in {"in", "mid", "out"} /\ door \in {"up", "mid", "down"}
  /\ drawerOut \in {"none", "in", "out"} /\ doorOut \in {"none", "open", "close", "both"}

AllOK == AxesOK /\ LoopOK /\ LidOK

LEMMA AxesFacts ==
  /\ {X, Y, Z} \subseteq Axes /\ 0 \in Axes
  /\ {-1, 0, 1} \subseteq Signs /\ {-2, 0, 2} \subseteq Speeds /\ Axes \subseteq Nat
  /\ ShellSpeeds \subseteq Speeds
BY AxesAssumption, FixtureAssumption DEF Axes, X, Y, Z, Signs, Speeds

(* Every axis has a chip and a place on it, which name it.                 *)
LEMMA Addressing ==
  ASSUME NEW a \in Axes
  PROVE  /\ getMotor0_2(a) \in 0..(PerChip - 1) /\ getTMC429_DEV(a) \in {0, 1}
         /\ getTMC429_DEV(a) * PerChip + getMotor0_2(a) = a
<1>1. PerChip \in Nat \ {0} /\ a \in 0..(2 * PerChip - 1)
  BY AxesAssumption DEF Axes
<1>2. CASE a < PerChip
  <2>1. getMotor0_2(a) = a /\ getTMC429_DEV(a) = 0
    BY <1>2 DEF getMotor0_2, getTMC429_DEV
  <2>. QED  BY <1>1, <1>2, <2>1
<1>3. CASE ~(a < PerChip)
  <2>1. getMotor0_2(a) = a - PerChip /\ getTMC429_DEV(a) = 1
    BY <1>3 DEF getMotor0_2, getTMC429_DEV
  <2>2. a - PerChip \in 0..(PerChip - 1) /\ 1 * PerChip + (a - PerChip) = a
    BY <1>1, <1>3
  <2>. QED  BY <2>1, <2>2
<1>. QED  BY <1>2, <1>3

LEMMA SelectType ==
  ASSUME NEW a \in Axes, Select(a)
  PROVE  SelectionOK'
BY Addressing DEF Select, SelectionOK

(* Speeds, their signs and their halves.                                   *)
LEMMA SpeedFacts ==
  ASSUME NEW s \in Speeds
  PROVE  /\ Sign(s) \in Signs /\ (s # 0 => Sign(s) # 0) /\ Sign(0) = 0
         /\ Half(s) \in {0, 1} /\ (s \in {-2, 2} => Half(s) = 1) /\ Half(0) = 0
         /\ -s \in Speeds
<1>1. s \in {-2, -1, 0, 1, 2}
  BY DEF Speeds
<1>. QED  BY <1>1 DEF Sign, Signs, Half, Speeds

LEMMA AppSpeeds ==
  ASSUME NEW s \in {-2, 2}
  PROVE  Sign(s) # 0 /\ Half(s) # 0
<1>1. s \in Speeds /\ s # 0
  BY AxesFacts
<1>. QED  BY <1>1, SpeedFacts

LEMMA RotateType ==
  ASSUME ChipsOK, NEW a \in Axes, NEW s \in Speeds, MotorRotate(a, s)
  PROVE  /\ mode' \in [Axes -> {"ramp", "velocity"}] /\ v' \in [Axes -> Signs]
BY SpeedFacts DEF ChipsOK, MotorRotate

LEMMA OvertakeType ==
  ASSUME CallOK, RestOK, NEW spi \in BOOLEAN, Overtake(spi)
  PROVE  intact' \in BOOLEAN /\ overtaken' \in BOOLEAN
BY DEF CallOK, RestOK, Overtake

LEMMA AheadType ==
  ASSUME NEW p \in Places, NEW s \in Signs
  PROVE  Ahead(p, s) \in Places
BY DEF Places, Signs, Ahead

LEMMA VactualType ==
  ASSUME AxesOK, NEW a \in Axes
  PROVE  vactual(a) \in Signs
BY DEF AxesOK, ChipsOK, vactual, Signs

LEMMA ShellTypes ==
  ASSUME AxesOK, Shell
  PROVE  AxesOK'
<1>. USE DEF AxesOK
<1>0. ASSUME NEW op, NEW a \in Axes, Command(op, a)
      PROVE  /\ place' = place /\ inited' = inited /\ UNCHANGED <<thread, appCall, dest>>
             /\ SelectionOK' /\ SensorOK' /\ CallOK' /\ RestOK'
  <2>1. /\ Select(a) /\ Overtake(TRUE) /\ ShellStep
        /\ UNCHANGED <<place, inited, thread, appCall, dest>>
    BY <1>0 DEF Command
  <2>2. commands' \in Nat
    BY <2>1 DEF ShellStep, RestOK
  <2>3. intact' \in BOOLEAN /\ overtaken' \in BOOLEAN
    BY <2>1, OvertakeType
  <2>4. SelectionOK'
    BY <2>1, SelectType
  <2>. QED  BY <2>1, <2>2, <2>3, <2>4 DEF SensorOK, CallOK, RestOK, thread, appCall
<1>1. CASE tmc429_hw_init
  <2>1. ChipsOK' /\ HomingOK' /\ SelectionOK' /\ SensorOK'
    BY <1>1 DEF tmc429_hw_init, ChipsOK, HomingOK, SelectionOK, SensorOK, Signs, selection
  <2>2. commands' \in Nat
    BY <1>1 DEF tmc429_hw_init, ShellStep, RestOK
  <2>3. intact' \in BOOLEAN /\ overtaken' \in BOOLEAN
    BY <1>1, OvertakeType DEF tmc429_hw_init
  <2>. QED  BY <1>1, <2>1, <2>2, <2>3 DEF tmc429_hw_init, CallOK, RestOK, appCall
<1>2. ASSUME NEW a \in Axes, StopMotorByHW(a)
      PROVE  AxesOK'
  <2>1. Command("stop", a) /\ MotorRotate(a, 0)
    BY <1>2 DEF StopMotorByHW
  <2>2. ChipsOK'
    BY <1>0, <2>1, RotateType, AxesFacts DEF ChipsOK
  <2>3. HomingOK'
    BY <1>2 DEF StopMotorByHW, HomingOK
  <2>. QED  BY <1>0, <2>1, <2>2, <2>3
<1>3. ASSUME NEW a \in Axes, NEW s \in Speeds, Rotate(a, s)
      PROVE  AxesOK'
  <2>1. Command("rotate", a) /\ MotorRotate(a, s) /\ Drives(a, s) /\ UNCHANGED homing
    BY <1>3 DEF Rotate
  <2>2. ChipsOK'
    BY <1>0, <2>1, RotateType DEF ChipsOK
  <2>3. HomingOK'
    BY <2>1 DEF HomingOK, homing, Drives
  <2>. QED  BY <1>0, <2>1, <2>2, <2>3
<1>4. ASSUME NEW a \in Axes, NEW s \in Speeds, TMC429_MoveToPosition(a, s)
      PROVE  AxesOK'
  <2>1. Command("move", a) /\ Drives(a, 0) /\ UNCHANGED homing
    BY <1>4 DEF TMC429_MoveToPosition
  <2>2. ChipsOK'
    BY <1>0, <1>4, <2>1, SpeedFacts DEF TMC429_MoveToPosition, ChipsOK
  <2>3. HomingOK'
    BY <2>1 DEF HomingOK, homing, Drives
  <2>. QED  BY <1>0, <2>1, <2>2, <2>3
<1>5. ASSUME NEW a \in Axes, NEW s \in Speeds, NEW what \in {"home", "limit"}, Home(a, what, s)
      PROVE  AxesOK'
  <2>1. Command(what, a) /\ MotorRotate(a, s)
    BY <1>5 DEF Home
  <2>2. ChipsOK'
    BY <1>0, <2>1, RotateType DEF ChipsOK
  <2>3. HomingOK'
    BY <1>5 DEF Home, HomingOK
  <2>. QED  BY <1>0, <2>1, <2>2, <2>3
<1>. QED  BY <1>1, <1>2, <1>3, <1>4, <1>5, AxesFacts DEF Shell

LEMMA SensorTypes ==
  ASSUME AxesOK, Sensor
  PROVE  AxesOK'
<1>. USE DEF AxesOK
<1>1. CASE SensorWake
  BY <1>1 DEF SensorWake, ChipsOK, HomingOK, SelectionOK, SensorOK, CallOK, RestOK,
              chips, homing, selection, datagram, appCall, books
<1>2. CASE SensorCheck
  <2>1. ChipsOK' /\ HomingOK' /\ SelectionOK'
    BY <1>2 DEF SensorCheck, ChipsOK, HomingOK, SelectionOK, chips, homing, selection
  <2>2. SensorOK'
    BY <1>2, AxesFacts DEF SensorCheck, SensorOK
  <2>3. intact' \in BOOLEAN /\ overtaken' \in BOOLEAN
    BY <1>2, OvertakeType DEF SensorCheck, CallOK, RestOK
  <2>. QED  BY <1>2, <2>1, <2>2, <2>3 DEF SensorCheck, CallOK, RestOK, appCall
<1>3. ASSUME NEW a \in Axes, LimitSensorProcess(a)
      PROVE  AxesOK'
  <2>1. SelectionOK'
    BY <1>3, SelectType DEF LimitSensorProcess
  <2>2. (seek[a] # "none") \in BOOLEAN
    OBVIOUS
  <2>3. intact' \in BOOLEAN /\ overtaken' \in BOOLEAN
    BY <1>3, <2>2, OvertakeType DEF LimitSensorProcess
  <2>4. polled' \in [Axes -> BOOLEAN]
    BY <1>3 DEF LimitSensorProcess, SensorOK
  <2>5. SensorOK'
    BY <1>3, <2>4, AxesAssumption DEF LimitSensorProcess, NextAxis, SensorOK, Axes
  <2>6. ChipsOK' /\ HomingOK'
    <3>1. Inward(a) * Half(homeSpeed[a]) \in Speeds /\ 0 \in Speeds
      <4>1. homeSpeed[a] \in Speeds
        BY DEF HomingOK
      <4>2. Half(homeSpeed[a]) \in {0, 1} /\ Inward(a) \in {-1, 1}
        BY <4>1, SpeedFacts DEF Inward
      <4>. QED  BY <4>2 DEF Speeds
    <3>2. CASE setPositionAsOrigin(a)
      BY <1>3, <3>1, <3>2, RotateType
         DEF setPositionAsOrigin, LimitSensorProcess, ChipsOK, HomingOK
    <3>3. CASE Reverse(a)
      BY <1>3, <3>1, <3>3, RotateType DEF Reverse, LimitSensorProcess, ChipsOK, HomingOK
    <3>4. CASE NothingToDo(a)
      BY <1>3, <3>4 DEF NothingToDo, LimitSensorProcess, ChipsOK, HomingOK
    <3>. QED  BY <1>3, <3>2, <3>3, <3>4 DEF LimitSensorProcess
  <2>. QED  BY <1>3, <2>1, <2>3, <2>5, <2>6 DEF LimitSensorProcess, CallOK, RestOK, appCall
<1>. QED  BY <1>1, <1>2, <1>3 DEF Sensor

LEMMA AxisTypes ==
  ASSUME AxesOK, NEW a \in Axes, Move(a) \/ Arrive(a)
  PROVE  AxesOK'
<1>. USE DEF AxesOK
<1>1. CASE Move(a)
  <2>1. Ahead(place[a], v[a]) \in Places
    BY AheadType DEF ChipsOK
  <2>2. ChipsOK'
    BY <1>1, <2>1 DEF Move, ChipsOK
  <2>3. SensorOK'
    BY <1>1 DEF Move, SensorOK
  <2>. QED  BY <1>1, <2>2, <2>3 DEF Move, HomingOK, SelectionOK, CallOK, RestOK, homing,
                                   selection, datagram, appCall, books
<1>2. CASE Arrive(a)
  <2>1. ChipsOK'
    BY <1>2, AxesFacts DEF Arrive, ChipsOK
  <2>. QED  BY <1>2, <2>1 DEF Arrive, HomingOK, SelectionOK, SensorOK, CallOK, RestOK, homing,
                             selection, datagram, appCall, thread, books
<1>. QED  BY <1>1, <1>2

LEMMA StepType ==
  ASSUME CallOK, NEW from, NEW to \in Calls, Step(from, to)
  PROVE  call' \in Calls /\ axis' \in Axes /\ speed' \in Speeds
BY DEF Step, CallOK

LEMMA AppCallTypes ==
  ASSUME AxesOK, AppCall
  PROVE  AxesOK'
<1>. USE DEF AxesOK
<1>0. RestOK' /\ SensorOK' /\ place' = place /\ spoilt' \in [Axes -> BOOLEAN]
  BY DEF AppCall, SetGoHome, OthersIdle, RestOK, SensorOK, thread, HomingOK
<1>1. axis \in Axes
  BY DEF CallOK
<1>2. CASE SetGoHome
  BY <1>0, <1>2 DEF SetGoHome, Step, Calls, CallOK, ChipsOK, HomingOK, SelectionOK, selection,
                    datagram
<1>3. CASE SetFields
  BY <1>0, <1>3 DEF SetFields, Step, Calls, CallOK, ChipsOK, HomingOK, SelectionOK, selection,
                    datagram
<1>4. CASE SelectMotor
  BY <1>0, <1>1, <1>4, Addressing
     DEF SelectMotor, Step, Calls, CallOK, ChipsOK, HomingOK, SelectionOK, homing, datagram
<1>5. CASE SelectDev
  BY <1>0, <1>1, <1>5, Addressing
     DEF SelectDev, Step, Calls, CallOK, ChipsOK, HomingOK, SelectionOK, homing, datagram
<1>6. CASE Send
  <2>1. Selected \in Nat /\ axis \in Nat
    <3>1. PerChip \in Nat /\ TMC429_DEV \in Nat /\ TMC429_motor \in Nat
      BY AxesAssumption DEF SelectionOK
    <3>2. TMC429_DEV * PerChip \in Nat
      BY <3>1
    <3>. QED  BY <1>1, <3>1, <3>2, AxesFacts DEF Selected
  <2>2. PICK from \in Calls, to \in Calls, d \in Nat : Begin(from, to, d)
    BY <1>6, <2>1 DEF Send, Calls
  <2>. QED  BY <1>0, <2>2 DEF Begin, Step, CallOK, ChipsOK, HomingOK, SelectionOK, homing,
                              selection
<1>7. CASE WriteMode
  <2>1. mode' \in [Axes -> {"ramp", "velocity"}]
    BY <1>7 DEF WriteMode, ChipsOK
  <2>. QED  BY <1>0, <1>7, <2>1 DEF WriteMode, Step, Calls, CallOK, ChipsOK, HomingOK,
                                    SelectionOK, homing, selection, datagram
<1>8. ASSUME Return
      PROVE  CallOK'
  BY <1>8, AxesFacts DEF Return, CallOK, Calls
<1>9. CASE WriteTarget
  <2>1. v' \in [Axes -> Signs]
    BY <1>9, AxesFacts, SpeedFacts DEF WriteTarget, ChipsOK, CallOK
  <2>. QED  BY <1>0, <1>8, <1>9, <2>1 DEF WriteTarget, ChipsOK, HomingOK, SelectionOK, homing,
                                         selection
<1>10. CASE ReadVelocity
  <2>1. Return \/ (Step("read sent", "halt mode") /\ UNCHANGED datagram)
    BY <1>10 DEF ReadVelocity
  <2>2. CallOK'
    BY <1>8, <2>1 DEF Step, CallOK, Calls, datagram
  <2>. QED  BY <1>0, <1>10, <2>2 DEF ReadVelocity, ChipsOK, HomingOK, SelectionOK, homing,
                                     selection
<1>. QED  BY <1>2, <1>3, <1>4, <1>5, <1>6, <1>7, <1>9, <1>10 DEF AppCall

LEMMA EnterType ==
  ASSUME CallOK, NEW start \in Calls, NEW a \in Axes, NEW s \in Speeds, Enter(start, a, s),
         UNCHANGED datagram
  PROVE  CallOK'
BY DEF Enter, CallOK, datagram

LEMMA CounterType ==
  ASSUME LoopOK
  PROVE  (cnt + 1) % CounterMod \in 0..(CounterMod - 1) /\ 0 \in 0..(CounterMod - 1)
<1>1. CounterMod \in Nat \ {0} /\ cnt + 1 \in Nat
  BY PollAssumption DEF LoopOK
<1>. QED  BY <1>1

(* The loops of the application.                                           *)
LEMMA LoopTypes ==
  ASSUME AllOK, NEW p, Loop(p)
  PROVE  /\ ChipsOK' /\ HomingOK' /\ SelectionOK' /\ SensorOK' /\ RestOK'
         /\ WhichProject' \in Projects /\ input' \in BOOLEAN /\ UNCHANGED datagram
         /\ CallOK /\ (UNCHANGED appCall => CallOK')
BY DEF AllOK, AxesOK, Loop, ExceptCall, ChipsOK, HomingOK, SelectionOK, SensorOK, RestOK, CallOK,
       LoopOK, chips, homing, selection, thread, datagram, appCall, books

LEMMA ResetTypes ==
  ASSUME AllOK, PollKey \/ PhaseTwo \/ PhaseTwoX \/ ResetDone
  PROVE  AllOK'
<1>. USE DEF AllOK, AxesOK
<1>1. "flag" \in Calls /\ {X, Y, Z} \subseteq Axes /\ {-2, 2} \subseteq Speeds
  BY AxesFacts DEF Calls
<1>2. ASSUME NEW a, a \in Axes, NEW s \in Speeds, motor_gohome_config(a, s), UNCHANGED datagram
      PROVE  CallOK'
  BY <1>1, <1>2, EnterType DEF motor_gohome_config
<1>3. UNCHANGED lidRest /\ doorOut' \in {doorOut, WithLamp, WithoutLamp} => LidOK'
  BY DEF lidRest, LidOK, WithLamp, WithoutLamp
<1>4. CASE PollKey
  <2>1. cnt' \in 0..(CounterMod - 1)
    BY <1>4, CounterType DEF PollKey
  <2>2. pc' \in LoopPlaces \cup Check /\ KEY_RESET_pressed' \in BOOLEAN
    BY <1>4 DEF PollKey, StartReset, LoopPlaces, Check, LoopOK
  <2>3. UNCHANGED appCall \/ motor_gohome_config(Y, -2)
    BY <1>4 DEF PollKey, StartReset
  <2>4. Loop("key") /\ UNCHANGED lidRest /\ doorOut' \in {doorOut, WithLamp}
    BY <1>4 DEF PollKey
  <2>5. CallOK'
    BY <1>1, <1>2, <2>3, <2>4, LoopTypes
  <2>. QED  BY <1>3, <2>1, <2>2, <2>4, <2>5, LoopTypes DEF LoopOK
<1>5. CASE PhaseTwo
  <2>1. Loop("phase 2") /\ UNCHANGED <<cnt, KEY_RESET_pressed, lid>>
    BY <1>5 DEF PhaseTwo
  <2>2. pc' \in LoopPlaces
    BY <1>5 DEF PhaseTwo, LoopPlaces
  <2>3. CallOK'
    BY <1>1, <1>2, <1>5, <2>1, LoopTypes DEF PhaseTwo
  <2>. QED  BY <1>3, <2>1, <2>2, <2>3, LoopTypes DEF LoopOK, lid
<1>6. CASE PhaseTwoX
  <2>1. Loop("phase 2, X") /\ UNCHANGED <<cnt, KEY_RESET_pressed, lid>>
    BY <1>6 DEF PhaseTwoX
  <2>2. pc' \in LoopPlaces
    BY <1>6 DEF PhaseTwoX, LoopPlaces
  <2>3. CallOK'
    BY <1>1, <1>2, <1>6, <2>1, LoopTypes DEF PhaseTwoX
  <2>. QED  BY <1>3, <2>1, <2>2, <2>3, LoopTypes DEF LoopOK, lid
<1>7. CASE ResetDone
  <2>1. Loop("done") /\ UNCHANGED <<cnt, appCall, lidRest>> /\ doorOut' \in {doorOut, WithoutLamp}
    BY <1>7 DEF ResetDone
  <2>2. pc' \in LoopPlaces /\ KEY_RESET_pressed' \in BOOLEAN
    BY <1>7 DEF ResetDone, LoopPlaces, LoopStart, LoopOK
  <2>. QED  BY <1>3, <2>1, <2>2, LoopTypes DEF LoopOK
<1>. QED  BY <1>4, <1>5, <1>6, <1>7

LEMMA SoftLimitTypes ==
  ASSUME AllOK, SoftLimit
  PROVE  AllOK'
<1>. USE DEF AllOK, AxesOK
<1>1. Loop("soft") /\ UNCHANGED <<pc, KEY_RESET_pressed, lid>>
  BY DEF SoftLimit
<1>2. cnt' \in 0..(CounterMod - 1)
  BY CounterType DEF SoftLimit
<1>3. Enter("read", Y, 0) \/ UNCHANGED appCall
  BY DEF SoftLimit
<1>4. "read" \in Calls /\ Y \in Axes /\ 0 \in Speeds
  BY AxesFacts DEF Calls
<1>5. CallOK'
  BY <1>1, <1>3, <1>4, LoopTypes, EnterType
<1>. QED  BY <1>1, <1>2, <1>5, LoopTypes DEF LoopOK, LidOK, lid, lidRest

LEMMA CheckTypes ==
  ASSUME AllOK, CheckBack \/ CheckUpside \/ CheckOutside
  PROVE  AllOK'
<1>. USE DEF AllOK, AxesOK
<1>1. CASE CheckBack
  <2>1. Loop("back") /\ UNCHANGED <<cnt, KEY_RESET_pressed, appCall, lid>> /\ pc' = "upside"
    BY <1>1 DEF CheckBack
  <2>. QED  BY <2>1, LoopTypes DEF LoopOK, LidOK, lid, lidRest, Check
<1>2. CASE CheckUpside
  <2>1. /\ Loop("upside") /\ pc' = "outside" /\ drawerOut' = "in"
        /\ UNCHANGED <<cnt, KEY_RESET_pressed, appCall, OpStep, drawer, door, doorOut, byHand>>
    BY <1>2 DEF CheckUpside
  <2>. QED  BY <2>1, LoopTypes DEF LoopOK, LidOK, Check
<1>3. CASE CheckOutside
  <2>1. /\ Loop("outside") /\ UNCHANGED <<cnt, KEY_RESET_pressed, lid>> /\ pc' = "phase 2"
        /\ Enter("flag", Y, -2)
    BY <1>3 DEF CheckOutside, motor_gohome_config
  <2>2. "flag" \in Calls /\ Y \in Axes /\ -2 \in Speeds
    BY AxesFacts DEF Calls
  <2>3. CallOK'
    BY <2>1, <2>2, LoopTypes, EnterType
  <2>. QED  BY <2>1, <2>3, LoopTypes DEF LoopOK, LidOK, lid, lidRest, LoopPlaces
<1>. QED  BY <1>1, <1>2, <1>3

Steps == {"STANDBY", "DUT_GO_INSIDE", "CLOSE_DOOR", "OPEN_DOOR", "DUT_GO_OUTSIDE"}

LEMMA LidTypes ==
  ASSUME AllOK, KeyS_act_LIDOPEN
  PROVE  AllOK'
<1>. USE DEF AllOK, AxesOK
<1>1. LidFrame /\ \E p : Loop(p)
  BY DEF KeyS_act_LIDOPEN, Standby, PressedAgain, KeyDrive, DriveDrawer, DriveDoor, Drive,
         PositionTest
<1>2. pc' \in LoopPlaces
  BY DEF KeyS_act_LIDOPEN, Standby, PressedAgain, KeyDrive, DriveDrawer, DriveDoor, Drive,
         PositionTest, LoopPlaces
<1>3. OpStep' \in Steps
  BY DEF KeyS_act_LIDOPEN, Standby, PressedAgain, KeyDrive, DriveDrawer, DriveDoor, Drive,
         PositionTest, Following, LidOK, Steps
<1>4. drawerOut' \in {"none", "in", "out"} /\ doorOut' \in {"none", "open", "close", "both"}
  BY DEF KeyS_act_LIDOPEN, Standby, PressedAgain, KeyDrive, DriveDrawer, DriveDoor, Drive,
         PositionTest, LidOK
<1>. QED  BY <1>1, <1>2, <1>3, <1>4, LoopTypes DEF LidFrame, LoopOK, LidOK, Steps

LEMMA TypesNext == AllOK /\ [Next]_vars => AllOK'
<1>. SUFFICES ASSUME AllOK, [Next]_vars  PROVE AllOK'
  OBVIOUS
<1>. USE DEF AllOK
<1>1. UNCHANGED axesVars => AxesOK'
  BY DEF axesVars, chips, homing, selection, thread, datagram, appCall, books, AxesOK, ChipsOK, HomingOK,
         SelectionOK, SensorOK, CallOK, RestOK
<1>2. UNCHANGED appVars => LoopOK' /\ LidOK'
  BY DEF appVars, lid, lidRest, LoopOK, LidOK
<1>3. CASE App
  BY <1>2, <1>3, AppCallTypes, SoftLimitTypes, ResetTypes, CheckTypes, LidTypes DEF App
<1>4. CASE Shell /\ UNCHANGED appVars
  BY <1>2, <1>4, ShellTypes
<1>5. CASE Sensor /\ UNCHANGED appVars
  BY <1>2, <1>5, SensorTypes
<1>6. CASE \E a \in Axes : Axis(a)
  BY <1>2, <1>6, AxisTypes DEF Axis
<1>7. CASE HostUnloads
  BY <1>1, <1>7 DEF HostUnloads, LoopOK, LidOK
<1>8. CASE Cylinders
  BY <1>1, <1>8 DEF Cylinders, Nearer, LoopOK, LidOK
<1>9. CASE Input
  BY <1>1, <1>9 DEF Input, LoopOK, LidOK, lid, lidRest
<1>10. CASE DoorByHand
  BY <1>1, <1>10 DEF DoorByHand, LoopOK, LidOK
<1>11. CASE HostFreesDoor
  BY <1>1, <1>11 DEF HostFreesDoor, LoopOK, LidOK, lidRest
<1>12. CASE UNCHANGED vars
  BY <1>1, <1>2, <1>12 DEF vars
<1>. QED  BY <1>3, <1>4, <1>5, <1>6, <1>7, <1>8, <1>9, <1>10, <1>11, <1>12 DEF Next, Host

LEMMA TypesInit == Init => AllOK
<1>. SUFFICES ASSUME Init  PROVE AllOK
  OBVIOUS
<1>0. StartPlaces \subseteq Places /\ 0 \in 0..(PerChip - 1) /\ 0 \in 0..(CounterMod - 1)
  BY AxesAssumption, PollAssumption DEF Places
<1>1. ChipsOK
  BY <1>0, AxesFacts DEF Init, AxesInit, ChipsOK
<1>2. HomingOK /\ SensorOK
  BY AxesFacts DEF Init, AxesInit, HomingOK, SensorOK
<1>3. SelectionOK /\ CallOK
  BY <1>0, AxesFacts DEF Init, AxesInit, SelectionOK, CallOK, Calls
<1>4. RestOK
  BY FixtureAssumption DEF Init, AxesInit, RestOK
<1>5. LoopOK
  <2>1. pc \in LoopPlaces
    BY DEF Init, LoopStart, LoopPlaces
  <2>. QED  BY <1>0, <2>1 DEF Init, LoopOK
<1>6. LidOK
  BY DEF Init, LidOK
<1>. QED  BY <1>1, <1>2, <1>3, <1>4, <1>5, <1>6 DEF AllOK, AxesOK

(* Every variable keeps its type.                                          *)
THEOREM AppTypes == Spec => []TypeOK
<1>1. AllOK => TypeOK
  BY DEF AllOK, AxesOK, ChipsOK, HomingOK, SelectionOK, SensorOK, CallOK, RestOK, LoopOK, LidOK,
         TypeOK, AxesTypeOK, Calls, LoopPlaces
<1>. QED  BY <1>1, TypesInit, TypesNext, PTL DEF Spec

-----------------------------------------------------------------------------
(* The globals that select an axis.  While no thread has overtaken a call, *)
(* what the call has selected so far, or put in its datagram, is its axis. *)
Writes == {"mode sent", "target sent", "halt mode sent", "halt target sent", "read sent"}
Addressed ==
  ~overtaken =>
    /\ call \in {"dev", "dev again"} => TMC429_motor = getMotor0_2(axis)
    /\ call \in {"mode", "target"} => Selected = axis
    /\ call \in Writes => dest = axis

(* Another thread that changes what a call relies on overtakes it.         *)
LEMMA OthersOvertake ==
  ASSUME AllOK, Shell \/ Sensor
  PROVE  /\ call' = call /\ axis' = axis /\ dest' = dest
         /\ \/ UNCHANGED <<selection, seek>> /\ (overtaken => overtaken')
            \/ overtaken' = (overtaken \/ InCall)
<1>1. CASE Shell
  BY <1>1 DEF Shell, tmc429_hw_init, StopMotorByHW, Rotate, TMC429_MoveToPosition, Home, Command,
              Overtake, appCall
<1>2. CASE SensorWake \/ SensorCheck
  BY <1>2 DEF SensorWake, SensorCheck, homing, datagram, appCall, books, Overtake
<1>3. CASE \E a \in Axes : LimitSensorProcess(a)
  BY <1>3 DEF LimitSensorProcess, appCall, Overtake
<1>. QED  BY <1>1, <1>2, <1>3 DEF Sensor

LEMMA LoopsEnter ==
  ASSUME App
  PROVE  \/ AppCall
         \/ \E p : /\ Loop(p)
                   /\ UNCHANGED appCall \/ \E start \in {"flag", "read"} : \E a, s : Enter(start, a, s)
<1>1. CASE SoftLimit
  BY <1>1 DEF SoftLimit
<1>2. CASE PollKey \/ PhaseTwo \/ PhaseTwoX \/ ResetDone
  BY <1>2 DEF PollKey, StartReset, PhaseTwo, PhaseTwoX, ResetDone, motor_gohome_config
<1>3. CASE CheckBack \/ CheckUpside \/ CheckOutside
  BY <1>3 DEF CheckBack, CheckUpside, CheckOutside, motor_gohome_config
<1>4. CASE KeyS_act_LIDOPEN
  BY <1>4 DEF KeyS_act_LIDOPEN, Standby, PressedAgain, KeyDrive, DriveDrawer, DriveDoor, Drive,
              PositionTest, LidFrame
<1>. QED  BY <1>1, <1>2, <1>3, <1>4 DEF App

LEMMA AddressedNext ==
  ASSUME AllOK, Addressed, [Next]_vars
  PROVE  Addressed'
<1>1. CASE Shell \/ Sensor
  BY <1>1, OthersOvertake DEF Addressed, InCall, Selected, selection, Writes
<1>2. CASE UNCHANGED <<selection, datagram, appCall, overtaken>>
  BY <1>2 DEF Addressed, Selected, selection, datagram, appCall
<1>3. CASE AppCall
  <2>1. overtaken' = overtaken /\ axis \in Axes
    BY <1>3 DEF AppCall, OthersIdle, AllOK, AxesOK, CallOK
  <2>. SUFFICES ASSUME ~overtaken
                PROVE  /\ call' \in {"dev", "dev again"} => TMC429_motor' = getMotor0_2(axis')
                       /\ call' \in {"mode", "target"} => Selected' = axis'
                       /\ call' \in Writes => dest' = axis'
    BY <2>1 DEF Addressed
  <2>2. CASE SetGoHome \/ SetFields
    BY <2>2 DEF SetGoHome, SetFields, Step, Writes
  <2>3. CASE SelectMotor
    BY <2>3 DEF SelectMotor, Step, Writes
  <2>4. CASE SelectDev
    <3>1. /\ axis' = axis /\ call' \in {"mode", "target"}
          /\ TMC429_DEV' = getTMC429_DEV(axis) /\ TMC429_motor' = getMotor0_2(axis)
      BY <2>4 DEF SelectDev, Step, Addressed
    <3>2. Selected' = axis
      BY <2>1, <3>1, Addressing DEF Selected
    <3>. QED  BY <3>1, <3>2 DEF Writes
  <2>5. CASE Send
    <3>1. PICK from, to, d : Begin(from, to, d) /\ to \in Writes /\ d = axis
      BY <2>5 DEF Send, Begin, Step, Addressed, Writes
    <3>. QED  BY <3>1 DEF Begin, Step, Writes
  <2>6. CASE WriteMode
    BY <2>6 DEF WriteMode, Step, Writes
  <2>7. CASE WriteTarget
    BY <2>7 DEF WriteTarget, Return, Writes
  <2>8. CASE ReadVelocity
    BY <2>8 DEF ReadVelocity, Return, Step, Writes
  <2>. QED  BY <1>3, <2>2, <2>3, <2>4, <2>5, <2>6, <2>7, <2>8 DEF AppCall
<1>4. ASSUME NEW p, Loop(p),
             UNCHANGED appCall \/ \E start \in {"flag", "read"} : \E a, s : Enter(start, a, s)
      PROVE  Addressed'
  <2>1. UNCHANGED <<selection, datagram, overtaken>>
    BY <1>4 DEF Loop, ExceptCall, books
  <2>2. CASE UNCHANGED appCall
    BY <1>2, <2>1, <2>2
  <2>3. CASE call' \in {"flag", "read"}
    BY <2>3 DEF Addressed, Writes
  <2>. QED  BY <1>4, <2>2, <2>3 DEF Enter
<1>5. CASE App
  BY <1>3, <1>4, <1>5, LoopsEnter
<1>6. Next => \/ App \/ Shell \/ Sensor \/ UNCHANGED <<selection, datagram, appCall, overtaken>>
  BY DEF Next, Host, HostUnloads, HostFreesDoor, Axis, Move, Arrive, Cylinders, Input, DoorByHand,
         axesVars, books
<1>. QED  BY <1>1, <1>2, <1>3, <1>4, <1>5, <1>6 DEF vars, axesVars, books

(* ProjectApp drives the axis it was asked to drive and no other, unless a *)
(* thread overtook one of its motor calls.                                 *)
THEOREM AppDrivesItsAxis == Spec => DrivesItsAxis
<1>1. Init => AllOK /\ Addressed
  BY TypesInit DEF Init, AxesInit, Addressed, Writes
<1>2. AllOK /\ Addressed /\ [Next]_vars => (AllOK /\ Addressed)'
  BY TypesNext, AddressedNext
<1>3. AllOK /\ Addressed /\ [Next]_vars
        => [App /\ ~overtaken
              => \A a \in Axes \ {axis} : mode'[a] = mode[a] /\ v'[a] = v[a]]_vars
  <2>. SUFFICES ASSUME AllOK, Addressed, App, ~overtaken, NEW a \in Axes, a # axis
                PROVE  mode'[a] = mode[a] /\ v'[a] = v[a]
    OBVIOUS
  <2>1. CASE \E p : Loop(p)
    BY <2>1 DEF Loop, ExceptCall, chips
  <2>2. CASE AppCall
    <3>1. CASE WriteMode
      <4>1. dest = axis /\ v' = v
        BY <3>1 DEF WriteMode, Step, Addressed, Writes
      <4>. QED  BY <3>1, <4>1 DEF WriteMode, AllOK, AxesOK, ChipsOK
    <3>2. CASE WriteTarget
      <4>1. dest = axis /\ mode' = mode
        BY <3>2 DEF WriteTarget, Addressed, Writes
      <4>. QED  BY <3>2, <4>1 DEF WriteTarget, AllOK, AxesOK, ChipsOK
    <3>3. CASE SetGoHome \/ SetFields \/ SelectMotor \/ SelectDev \/ Send \/ ReadVelocity
      BY <3>3 DEF SetGoHome, SetFields, SelectMotor, SelectDev, Send, Begin, ReadVelocity
    <3>. QED  BY <2>2, <3>1, <3>2, <3>3 DEF AppCall
  <2>. QED  BY <2>1, <2>2, LoopsEnter
<1>. QED  BY <1>1, <1>2, <1>3, PTL DEF Spec, DrivesItsAxis

-----------------------------------------------------------------------------
(* A call of the soft limit is about Y, and Y was not homing when the soft *)
(* limit tested it; only another thread can have homed it since.           *)
StopCalls == {"read", "read sent", "halt mode", "halt mode sent", "halt target",
              "halt target sent"}
Spares == ~overtaken /\ call \in StopCalls => seek[Y] = "none"

LEMMA SparesNext ==
  ASSUME AllOK, Spares, [Next]_vars
  PROVE  Spares'
<1>1. CASE Shell \/ Sensor
  BY <1>1, OthersOvertake DEF Spares, InCall, StopCalls
<1>2. CASE UNCHANGED <<seek, call, overtaken>>
  BY <1>2 DEF Spares
<1>3. CASE AppCall
  <2>1. overtaken' = overtaken
    BY <1>3 DEF AppCall, OthersIdle
  <2>2. CASE call' \notin StopCalls
    BY <2>2 DEF Spares
  <2>3. CASE call' \in StopCalls
    <3>1. call \in StopCalls /\ seek' = seek
      BY <1>3, <2>3 DEF AppCall, SetGoHome, SetFields, SelectMotor, SelectDev, Send, Begin,
                        ReadVelocity, WriteMode, WriteTarget, Return, Step, StopCalls, homing
    <3>. QED  BY <2>1, <3>1 DEF Spares
  <2>. QED  BY <2>2, <2>3
<1>4. CASE SoftLimit
  <2>1. /\ seek' = seek /\ overtaken' = overtaken
        /\ UNCHANGED appCall \/ seek[Y] = "none"
    BY <1>4 DEF SoftLimit, Loop, ExceptCall, homing, books
  <2>. QED  BY <2>1 DEF Spares, appCall
<1>5. ASSUME NEW p, Loop(p), UNCHANGED appCall \/ \E a, s : Enter("flag", a, s)
      PROVE  Spares'
  <2>1. seek' = seek /\ overtaken' = overtaken
    BY <1>5 DEF Loop, ExceptCall, homing, books
  <2>2. call' = call \/ call' = "flag"
    BY <1>5 DEF Enter, appCall
  <2>. QED  BY <2>1, <2>2 DEF Spares, StopCalls
<1>6. CASE PollKey \/ PhaseTwo \/ PhaseTwoX \/ ResetDone
  BY <1>5, <1>6 DEF PollKey, StartReset, PhaseTwo, PhaseTwoX, ResetDone, motor_gohome_config
<1>7. CASE CheckBack \/ CheckUpside \/ CheckOutside
  BY <1>5, <1>7 DEF CheckBack, CheckUpside, CheckOutside, motor_gohome_config
<1>8. CASE KeyS_act_LIDOPEN
  BY <1>5, <1>8 DEF KeyS_act_LIDOPEN, Standby, PressedAgain, KeyDrive, DriveDrawer, DriveDoor,
                    Drive, PositionTest, LidFrame
<1>9. Next => App \/ Shell \/ Sensor \/ UNCHANGED <<seek, call, overtaken>>
  BY DEF Next, Host, HostUnloads, HostFreesDoor, Axis, Move, Arrive, Cylinders, Input, DoorByHand,
         axesVars, homing, appCall, books
<1>. QED  BY <1>1, <1>2, <1>3, <1>4, <1>6, <1>7, <1>8, <1>9
          DEF App, vars, axesVars, homing, appCall, books

-----------------------------------------------------------------------------
(* Runs of MotorSensor.  An axis that homes is on its course, and can turn *)
(* round, unless the host spoilt its run, or a call is still setting it in *)
(* motion; and such a call gets there, because its datagrams are whole and *)
(* the axis is in velocity mode when the second one arrives.               *)
GoHomeCalls == {"flag", "fields", "motor", "dev", "mode", "mode sent", "motor again",
                "dev again", "target", "target sent"}
OnCourse(a) == mode[a] = "velocity" /\ v[a] # 0 /\ Half(homeSpeed[a]) # 0
Runs(a) == seek[a] = "home" /\ ~spoilt[a]
Moving ==
  ~overtaken /\ inited =>
    /\ call \in Writes => intact
    /\ call \in GoHomeCalls => speed \in {-2, 2}
    /\ call \in GoHomeCalls \ {"flag", "fields"} => homeSpeed[axis] = speed
    /\ call \in {"motor again", "dev again", "target", "target sent"} => mode[axis] = "velocity"
    /\ call \in StopCalls => axis = Y
    /\ \A a \in Axes : Runs(a) => OnCourse(a) \/ (call \in GoHomeCalls /\ axis = a)

LEMMA MovingShell ==
  ASSUME AllOK, Moving, Shell
  PROVE  Moving'
<1>1. CASE InCall
  <2>1. overtaken'
    BY <1>1 DEF Shell, tmc429_hw_init, StopMotorByHW, Rotate, TMC429_MoveToPosition, Home,
                Command, Overtake
  <2>. QED  BY <2>1 DEF Moving
<1>2. CASE ~InCall
  <2>1. call = "no" /\ call' = "no"
    BY <1>2, OthersOvertake DEF InCall
  <2>2. call' \notin Writes \cup GoHomeCalls \cup StopCalls
    BY <2>1 DEF Writes, GoHomeCalls, StopCalls
  <2>3. SUFFICES ASSUME ~overtaken', inited', NEW a \in Axes, Runs(a)'
                 PROVE  OnCourse(a)'
    BY <2>1, <2>2 DEF Moving, Writes, GoHomeCalls, StopCalls
  <2>4. ChipsOK /\ HomingOK
    BY DEF AllOK, AxesOK
  <2>5. ~tmc429_hw_init
    BY <2>3 DEF tmc429_hw_init, Runs
  <2>6. ASSUME Runs(a), ~overtaken, inited
        PROVE  OnCourse(a)
    BY <2>1, <2>6 DEF Moving, GoHomeCalls
  <2>7. ASSUME NEW op, NEW b \in Axes, Command(op, b)
        PROVE  ~overtaken /\ inited
    BY <2>3, <2>7 DEF Command, Overtake
  (* An axis other than the one of the command.                            *)
  <2>8. ASSUME NEW op, NEW b \in Axes, Command(op, b), a # b,
               mode'[a] = mode[a], v'[a] = v[a], seek'[a] = seek[a], spoilt'[a] = spoilt[a],
               homeSpeed'[a] = homeSpeed[a]
        PROVE  OnCourse(a)'
    BY <2>3, <2>6, <2>7, <2>8 DEF Runs, OnCourse
  <2>9. ASSUME NEW b \in Axes, StopMotorByHW(b)
        PROVE  OnCourse(a)'
    <3>1. Command("stop", b) /\ a # b
      BY <2>3, <2>4, <2>9 DEF StopMotorByHW, HomingOK, Runs
    <3>. QED  BY <2>4, <2>8, <2>9, <3>1 DEF StopMotorByHW, MotorRotate, ChipsOK, HomingOK
  <2>10. ASSUME NEW b \in Axes, NEW s \in Speeds, Rotate(b, s)
         PROVE  OnCourse(a)'
    <3>1. Command("rotate", b) /\ MotorRotate(b, s) /\ Drives(b, s) /\ UNCHANGED homing
      BY <2>10 DEF Rotate
    <3>2. CASE a # b
      BY <2>4, <2>8, <3>1, <3>2 DEF MotorRotate, Drives, homing, ChipsOK, HomingOK
    <3>3. CASE a = b
      <4>1. seek[a] = "home" /\ ~spoilt'[a]
        BY <2>3, <3>1 DEF Runs, homing
      <4>2. s # 0 /\ Half(homeSpeed[a]) # 0
        BY <2>4, <3>1, <3>3, <4>1 DEF Drives, Leads, HomingOK
      <4>. QED  BY <2>4, <3>1, <3>3, <4>2, SpeedFacts DEF MotorRotate, homing, ChipsOK, OnCourse
    <3>. QED  BY <3>2, <3>3
  <2>11. ASSUME NEW b \in Axes, NEW s \in Speeds, TMC429_MoveToPosition(b, s)
         PROVE  OnCourse(a)'
    <3>1. Command("move", b) /\ Drives(b, 0) /\ UNCHANGED homing
      BY <2>11 DEF TMC429_MoveToPosition
    <3>2. a # b
      <4>1. SUFFICES ASSUME a = b  PROVE FALSE
        OBVIOUS
      <4>2. seek[a] = "home" /\ ~spoilt'[a]
        BY <2>3, <3>1 DEF Runs, homing
      <4>. QED  BY <2>4, <3>1, <4>1, <4>2 DEF Drives, Leads, HomingOK
    <3>. QED  BY <2>4, <2>8, <2>11, <3>1, <3>2
              DEF TMC429_MoveToPosition, Drives, homing, ChipsOK, HomingOK
  <2>12. ASSUME NEW b \in Axes, NEW s \in Speeds, NEW what, Home(b, what, s)
         PROVE  OnCourse(a)'
    <3>1. CASE a # b
      BY <2>4, <2>8, <2>12, <3>1 DEF Home, MotorRotate, ChipsOK, HomingOK
    <3>2. CASE a = b
      <4>1. what = "home" /\ Leads(what, s, s)
        BY <2>3, <2>4, <2>12, <3>2 DEF Home, Runs, HomingOK
      <4>2. s # 0 /\ Half(s) # 0
        BY <4>1 DEF Leads
      <4>. QED  BY <2>4, <2>12, <3>2, <4>2, SpeedFacts
                DEF Home, MotorRotate, ChipsOK, HomingOK, OnCourse
    <3>. QED  BY <3>1, <3>2
  <2>. QED  BY <2>5, <2>9, <2>10, <2>11, <2>12, AxesFacts DEF Shell
<1>. QED  BY <1>1, <1>2

LEMMA MovingSensor ==
  ASSUME AllOK, Moving, Sensor
  PROVE  Moving'
<1>0. homeSpeed' = homeSpeed
  BY DEF Sensor, SensorWake, SensorCheck, LimitSensorProcess, homing
<1>1. CASE InCall /\ ~overtaken'
  <2>1. UNCHANGED <<mode, v, seek, spoilt, inited, intact, overtaken, appCall>>
    BY <1>1 DEF Sensor, SensorWake, SensorCheck, LimitSensorProcess, Overtake, chips, homing,
                datagram, books
  <2>. QED  BY <1>0, <2>1 DEF Moving, OnCourse, Runs, appCall
<1>2. CASE ~InCall
  <2>1. call = "no" /\ call' = "no" /\ inited' = inited
    BY <1>2, OthersOvertake DEF InCall, Sensor, SensorWake, SensorCheck, LimitSensorProcess
  <2>2. SUFFICES ASSUME ~overtaken', inited', NEW a \in Axes, Runs(a)'
                 PROVE  OnCourse(a)'
    BY <2>1 DEF Moving, Writes, GoHomeCalls, StopCalls
  <2>3. ~overtaken
    BY <1>2, <2>2 DEF Sensor, SensorWake, SensorCheck, LimitSensorProcess, Overtake, books
  <2>4. ASSUME Runs(a)
        PROVE  OnCourse(a)
    BY <2>1, <2>2, <2>3, <2>4 DEF Moving, GoHomeCalls
  <2>5. CASE UNCHANGED <<mode, v, seek, spoilt>>
    BY <1>0, <2>2, <2>4, <2>5 DEF OnCourse, Runs
  <2>6. ASSUME NEW b \in Axes, LimitSensorProcess(b)
        PROVE  OnCourse(a)'
    <3>0. ChipsOK /\ HomingOK
      BY DEF AllOK, AxesOK
    <3>1. CASE setPositionAsOrigin(b)
      <4>1. a # b /\ Runs(a)
        BY <2>2, <3>0, <3>1 DEF setPositionAsOrigin, HomingOK, Runs
      <4>. QED  BY <1>0, <2>4, <3>0, <3>1, <4>1
                DEF setPositionAsOrigin, MotorRotate, ChipsOK, OnCourse
    <3>2. CASE Reverse(b)
      <4>1. Runs(a) /\ OnCourse(a)
        BY <2>2, <2>4, <3>2 DEF Reverse, Runs
      <4>2. CASE a # b
        BY <1>0, <3>0, <3>2, <4>1, <4>2 DEF Reverse, MotorRotate, ChipsOK, OnCourse
      <4>3. CASE a = b
        <5>1. homeSpeed[a] \in Speeds
          BY <3>0 DEF HomingOK
        <5>2. Half(homeSpeed[a]) = 1 /\ Inward(a) \in {-1, 1}
          BY <4>1, <5>1, SpeedFacts DEF OnCourse, Inward
        <5>3. Inward(a) * Half(homeSpeed[a]) \in {-1, 1}
          BY <5>2
        <5>4. Sign(Inward(a) * Half(homeSpeed[a])) # 0
          BY <5>3 DEF Sign
        <5>. QED  BY <1>0, <3>0, <3>2, <4>1, <4>3, <5>4
                  DEF Reverse, MotorRotate, ChipsOK, OnCourse
      <4>. QED  BY <4>2, <4>3
    <3>3. CASE NothingToDo(b)
      BY <2>5, <3>3 DEF NothingToDo
    <3>. QED  BY <2>6, <3>1, <3>2, <3>3 DEF LimitSensorProcess
  <2>. QED  BY <2>5, <2>6 DEF Sensor, SensorWake, SensorCheck, chips, homing, books
<1>3. CASE overtaken'
  BY <1>3 DEF Moving
<1>. QED  BY <1>1, <1>2, <1>3

LEMMA MovingAxis ==
  ASSUME AllOK, Moving, NEW b \in Axes, Move(b) \/ Arrive(b)
  PROVE  Moving'
<1>1. UNCHANGED <<mode, inited, seek, homeSpeed, spoilt, intact, appCall, overtaken>>
  BY DEF Move, Arrive, homing, datagram, books
<1>2. \A a \in Axes : OnCourse(a) => OnCourse(a)'
  BY <1>1 DEF Move, Arrive, OnCourse, AllOK, AxesOK, ChipsOK
<1>. QED  BY <1>1, <1>2 DEF Moving, Runs, appCall

LEMMA MovingCall ==
  ASSUME AllOK, Addressed, Spares, Moving, AppCall
  PROVE  Moving'
<1>0. UNCHANGED <<overtaken, inited>> /\ ChipsOK /\ HomingOK /\ axis \in Axes
  BY DEF AppCall, OthersIdle, AllOK, AxesOK, CallOK
<1>. SUFFICES ASSUME ~overtaken, inited  PROVE Moving'
  BY <1>0 DEF Moving
<1>. USE DEF Moving, Writes, GoHomeCalls, StopCalls
<1>1. CASE SetGoHome \/ SetFields
  <2>1. /\ call \in GoHomeCalls /\ call' \in {"fields", "motor"}
        /\ UNCHANGED <<axis, speed, mode, v>>
        /\ call' = "motor" => homeSpeed'[axis] = speed
    BY <1>0, <1>1 DEF SetGoHome, SetFields, Step, HomingOK
  <2>2. \A a \in Axes : a # axis => /\ seek'[a] = seek[a] /\ spoilt'[a] = spoilt[a]
                                   /\ homeSpeed'[a] = homeSpeed[a]
    BY <1>0, <1>1 DEF AppCall, SetGoHome, SetFields, HomingOK
  <2>3. \A a \in Axes : Runs(a)' => OnCourse(a)' \/ axis' = a
    BY <2>1, <2>2 DEF OnCourse, Runs
  <2>. QED  BY <2>1, <2>3
<1>2. CASE SelectMotor \/ SelectDev
  <2>1. UNCHANGED <<axis, speed, mode, v, seek, homeSpeed, spoilt>>
    BY <1>2 DEF AppCall, SetGoHome, SelectMotor, SelectDev, Step, homing
  <2>2. CASE (call = "motor" /\ call' = "dev") \/ (call = "dev" /\ call' = "mode")
    BY <2>1, <2>2 DEF OnCourse, Runs
  <2>3. CASE \/ call = "motor again" /\ call' = "dev again"
             \/ call = "dev again" /\ call' = "target"
    BY <2>1, <2>3 DEF OnCourse, Runs
  <2>. QED  BY <1>2, <2>2, <2>3 DEF SelectMotor, SelectDev, Step
<1>3. CASE Send
  <2>1. UNCHANGED <<axis, speed, mode, v, seek, homeSpeed, spoilt>> /\ intact'
    BY <1>3 DEF AppCall, SetGoHome, Send, Begin, Step, homing
  <2>2. CASE call = "mode" /\ call' = "mode sent"
    BY <2>1, <2>2 DEF OnCourse, Runs
  <2>3. CASE call = "target" /\ call' = "target sent"
    BY <2>1, <2>3 DEF OnCourse, Runs
  <2>4. CASE call \in StopCalls /\ call' \in StopCalls
    BY <2>1, <2>4 DEF OnCourse, Runs
  <2>. QED  BY <1>3, <2>2, <2>3, <2>4 DEF Send, Begin, Step
<1>4. ASSUME call \in Writes
      PROVE  Arrives /\ dest = axis
  BY <1>0, <1>4 DEF Arrives, Addressed
<1>5. CASE WriteMode
  <2>1. UNCHANGED <<axis, speed, v, seek, homeSpeed, spoilt>> /\ mode' = [mode EXCEPT ![axis] = "velocity"]
    BY <1>4, <1>5 DEF AppCall, SetGoHome, WriteMode, Step, homing
  <2>2. mode'[axis] = "velocity" /\ \A a \in Axes : OnCourse(a) => OnCourse(a)'
    BY <1>0, <2>1 DEF ChipsOK, OnCourse
  <2>3. CASE call = "mode sent" /\ call' = "motor again"
    BY <2>1, <2>2, <2>3 DEF Runs
  <2>4. CASE call = "halt mode sent" /\ call' = "halt target"
    BY <2>1, <2>2, <2>4 DEF Runs
  <2>. QED  BY <1>5, <2>3, <2>4 DEF WriteMode, Step
<1>6. CASE WriteTarget
  <2>1. /\ call' = "no" /\ UNCHANGED <<mode, seek, homeSpeed, spoilt>>
        /\ Arrives /\ dest = axis
    BY <1>4, <1>6 DEF AppCall, SetGoHome, Step, WriteTarget, Return, homing
  <2>2. \A a \in Axes : a # axis => v'[a] = v[a]
    BY <1>0, <1>6, <2>1 DEF WriteTarget, ChipsOK
  <2>3. CASE call = "target sent"
    <3>1. mode[axis] = "velocity" /\ speed \in {-2, 2} /\ homeSpeed[axis] = speed
      BY <2>3
    <3>2. Sign(speed) # 0 /\ Half(speed) # 0
      BY <3>1, AppSpeeds
    <3>3. v'[axis] = Sign(speed)
      <4>1. v' = [v EXCEPT ![axis] = Sign(speed)]
        BY <1>6, <2>1, <2>3, <3>1 DEF WriteTarget
      <4>. QED  BY <1>0, <4>1 DEF ChipsOK
    <3>. QED  BY <2>1, <2>2, <2>3, <3>1, <3>2, <3>3 DEF OnCourse, Runs
  <2>4. CASE call = "halt target sent"
    <3>1. axis = Y /\ seek[axis] # "home"
      BY <2>4 DEF Spares
    <3>. QED  BY <2>1, <2>2, <2>4, <3>1 DEF OnCourse, Runs
  <2>. QED  BY <1>6, <2>3, <2>4 DEF WriteTarget
<1>7. CASE ReadVelocity
  <2>1. /\ call = "read sent" /\ UNCHANGED <<mode, v, seek, homeSpeed, spoilt>>
        /\ call' = "no" \/ (call' = "halt mode" /\ axis' = axis)
    BY <1>7 DEF AppCall, SetGoHome, ReadVelocity, Return, Step, homing
  <2>2. \A a \in Axes : Runs(a)' => OnCourse(a)'
    BY <2>1 DEF OnCourse, Runs
  <2>. QED  BY <2>1, <2>2
<1>. QED  BY <1>1, <1>2, <1>3, <1>5, <1>6, <1>7 DEF AppCall

LEMMA MovingNext ==
  ASSUME AllOK, Addressed, Spares, Moving, [Next]_vars
  PROVE  Moving'
<1>1. CASE UNCHANGED <<mode, v, inited, seek, homeSpeed, intact, appCall, books>>
  BY <1>1 DEF Moving, OnCourse, Runs, appCall, books
<1>2. ASSUME NEW p, Loop(p),
             \/ UNCHANGED appCall \/ Enter("read", Y, 0)
             \/ \E a : \E s \in {-2, 2} : Enter("flag", a, s)
      PROVE  Moving'
  <2>1. UNCHANGED <<mode, v, inited, seek, homeSpeed, intact, books>> /\ call = "no"
    BY <1>2 DEF Loop, ExceptCall, InCall, chips, homing, datagram
  <2>2. CASE call' = "read" /\ axis' = Y
    BY <2>1, <2>2 DEF Moving, OnCourse, Runs, books, Writes, GoHomeCalls, StopCalls
  <2>3. CASE call' = "flag" /\ speed' \in {-2, 2}
    BY <2>1, <2>3 DEF Moving, OnCourse, Runs, books, Writes, GoHomeCalls, StopCalls
  <2>. QED  BY <1>1, <1>2, <2>1, <2>2, <2>3 DEF Enter
<1>3. CASE SoftLimit
  BY <1>2, <1>3 DEF SoftLimit
<1>4. CASE PollKey \/ PhaseTwo \/ PhaseTwoX \/ ResetDone
  BY <1>2, <1>4 DEF PollKey, StartReset, PhaseTwo, PhaseTwoX, ResetDone, motor_gohome_config
<1>5. CASE CheckBack \/ CheckUpside \/ CheckOutside
  BY <1>2, <1>5 DEF CheckBack, CheckUpside, CheckOutside, motor_gohome_config
<1>6. CASE KeyS_act_LIDOPEN
  BY <1>2, <1>6 DEF KeyS_act_LIDOPEN, Standby, PressedAgain, KeyDrive, DriveDrawer, DriveDoor,
                    Drive, PositionTest, LidFrame
<1>7. CASE UNCHANGED axesVars
  BY <1>1, <1>7 DEF axesVars, chips, homing, datagram
<1>8. Next => \/ App \/ Shell \/ Sensor \/ \E a \in Axes : Move(a) \/ Arrive(a)
              \/ UNCHANGED axesVars
  BY DEF Next, Host, HostUnloads, HostFreesDoor, Axis, Cylinders, Input, DoorByHand
<1>9. UNCHANGED vars => UNCHANGED axesVars
  BY DEF vars
<1>. QED  BY <1>3, <1>4, <1>5, <1>6, <1>7, <1>8, <1>9, MovingShell, MovingSensor, MovingAxis,
             MovingCall DEF App

(* An axis that homes is on its way, unless the host spoilt its run or a   *)
(* call was overtaken: MotorSensor is not left polling an axis at rest     *)
(* between its switches.                                                   *)
THEOREM SeekersMove == Spec => []SeekerMoves
<1>1. Init => AllOK /\ Addressed /\ Spares /\ Moving
  BY TypesInit DEF Init, AxesInit, Addressed, Spares, Writes, StopCalls, Moving
<1>2. AllOK /\ Addressed /\ Spares /\ Moving /\ [Next]_vars
        => (AllOK /\ Addressed /\ Spares /\ Moving)'
  BY TypesNext, AddressedNext, SparesNext, MovingNext
<1>3. AllOK /\ Moving => SeekerMoves
  <2>. SUFFICES ASSUME AllOK, Moving, NEW a \in Axes, seek[a] = "home", place[a] = "home",
                       ~InCall, ~spoilt[a], ~overtaken, inited
                PROVE  vactual(a) # 0
    BY DEF SeekerMoves
  <2>1. v[a] \in {-1, 1}
    BY DEF Moving, Runs, OnCourse, GoHomeCalls, InCall, AllOK, AxesOK, ChipsOK, Signs
  <2>. QED  BY <2>1 DEF vactual, Ahead
<1>. QED  BY <1>1, <1>2, <1>3, PTL DEF Spec

-----------------------------------------------------------------------------
(* The drawer and the door.  While the door is being closed or opened the  *)
(* drawer is inside and held there.                                        *)
Held ==
  /\ OpStep \in {"CLOSE_DOOR", "OPEN_DOOR"} => drawer = "in" /\ drawerOut = "in"
  /\ pc = "position" =>
       /\ OpStep = "DUT_GO_INSIDE" => drawerOut = "in"
       /\ OpStep # "STANDBY"
  /\ pc = "again" => OpStep = "STANDBY"

LEMMA HeldNext ==
  ASSUME Held, [Next]_vars
  PROVE  Held'
<1>1. CASE UNCHANGED <<OpStep, drawer, drawerOut>> /\ (UNCHANGED pc \/ pc' \notin {"position", "again"})
  BY <1>1 DEF Held
<1>2. CASE (AppCall /\ UNCHANGED appVars) \/ SoftLimit \/ UNCHANGED vars
  BY <1>1, <1>2 DEF SoftLimit, Loop, vars, appVars, lid, lidRest
<1>3. CASE PollKey \/ PhaseTwo \/ PhaseTwoX \/ ResetDone
  BY <1>1, <1>3 DEF PollKey, StartReset, PhaseTwo, PhaseTwoX, ResetDone, LoopStart, lid, lidRest
<1>4. CASE CheckBack \/ CheckUpside \/ CheckOutside
  BY <1>4 DEF CheckBack, CheckUpside, CheckOutside, lid, lidRest, Held
<1>5. CASE Standby \/ PressedAgain
  BY <1>5 DEF Standby, PressedAgain, LidFrame, Loop, Held
<1>6. CASE KeyDrive
  <2>1. CASE DriveDrawer("DUT_GO_INSIDE", TRUE, "DUT_GO_OUTSIDE", "in")
    BY <2>1 DEF DriveDrawer, Drive, LidFrame, Held
  <2>2. CASE DriveDoor("CLOSE_DOOR", TRUE, "OPEN_DOOR", "close")
    BY <2>2 DEF DriveDoor, Drive, LidFrame, Held
  <2>3. CASE DriveDoor("OPEN_DOOR", FALSE, "CLOSE_DOOR", "open")
    BY <2>3 DEF DriveDoor, Drive, LidFrame, Held
  <2>4. CASE DriveDrawer("DUT_GO_OUTSIDE", FALSE, "DUT_GO_INSIDE", "out")
    BY <2>4 DEF DriveDrawer, Drive, LidFrame, Held
  <2>. QED  BY <1>6, <2>1, <2>2, <2>3, <2>4 DEF KeyDrive
<1>7. CASE PositionTest
  BY <1>7 DEF PositionTest, Reached, Following, LidFrame, Loop, Held
<1>8. CASE (Shell \/ Sensor \/ \E a \in Axes : Move(a) \/ Arrive(a)) /\ UNCHANGED appVars
  BY <1>1, <1>8 DEF appVars, lid, lidRest
<1>9. CASE HostUnloads
  BY <1>9 DEF HostUnloads, Held
<1>10. CASE Cylinders
  BY <1>10 DEF Cylinders, Nearer, Held
<1>11. CASE Input \/ DoorByHand \/ HostFreesDoor
  BY <1>1, <1>11 DEF Input, DoorByHand, HostFreesDoor, lid, lidRest
<1>. QED  BY <1>2, <1>3, <1>4, <1>5, <1>6, <1>7, <1>8, <1>9, <1>10, <1>11
          DEF Next, App, Host, Axis, KeyS_act_LIDOPEN

(* The door is closed only over a drawer that is inside.                   *)
THEOREM DoorClosesOverDrawer == Spec => DoorClosesOnDrawer
<1>1. Init => Held
  BY DEF Init, LoopStart, Held
<1>2. Held /\ [Next]_vars => Held'
  BY HeldNext
<1>3. Held /\ [Next]_vars => [Closing' /\ ~Closing => drawer = "in"]_vars
  <2>. SUFFICES ASSUME Held, Next, Closing', ~Closing
                PROVE  drawer = "in"
    OBVIOUS
  <2>1. CASE KeyDrive
    BY <2>1 DEF KeyDrive, DriveDrawer, DriveDoor, Drive, Closing, Held
  <2>2. CASE PollKey \/ ResetDone
    BY <2>2 DEF PollKey, ResetDone, WithLamp, WithoutLamp, Closing
  <2>3. KeyDrive \/ PollKey \/ ResetDone
    BY DEF Next, App, Host, Axis, SoftLimit, PhaseTwo, PhaseTwoX, CheckBack, CheckUpside,
           CheckOutside, KeyS_act_LIDOPEN, Standby, PressedAgain, PositionTest, HostUnloads,
           HostFreesDoor, Cylinders, Input, DoorByHand, appVars, lid, Closing
  <2>. QED  BY <2>1, <2>2, <2>3
<1>. QED  BY <1>1, <1>2, <1>3, PTL DEF Spec, DoorClosesOnDrawer

-----------------------------------------------------------------------------
(* The drawer stays where it is driven to while the door is not up, the    *)
(* door is not driven down while the drawer may move, and the check of the *)
(* cylinders gets no further than its second stage without a push.         *)
Guarded ==
  /\ door # "up" => drawerOut = "none" \/ drawer = drawerOut
  /\ Closing => drawer = "in" /\ drawerOut = "in" /\ (OpStep = "STANDBY" => door = "down")
  /\ OpStep \in {"DUT_GO_INSIDE", "DUT_GO_OUTSIDE"} => door = "up" /\ ~Closing
  /\ pc \in {"again", "upside"} => door = "up"
  /\ pc \in Check => ~Closing /\ pc # "outside"
  /\ pc = "position" /\ OpStep = "OPEN_DOOR" => ~Closing

LEMMA GuardedReset ==
  ASSUME LidOK, Guarded, PollKey \/ PhaseTwo \/ PhaseTwoX \/ ResetDone
  PROVE  Guarded'
<1>. USE DEF Guarded, Check
<1>1. CASE PollKey
  <2>1. /\ UNCHANGED lidRest
        /\ \/ doorOut' = doorOut /\ pc' = "phase 2"
           \/ WhichProject # "LID_OPEN" /\ doorOut' = WithLamp /\ pc' = "phase 2"
           \/ WhichProject = "LID_OPEN" /\ drawer = "out" /\ doorOut' = WithLamp /\ pc' = "back"
    <3>1. cnt' > Debounce => ResetKey
      <4>1. SUFFICES ASSUME ~ResetKey  PROVE ~(cnt' > Debounce)
        OBVIOUS
      <4>2. cnt' = 0
        BY <1>1, <4>1 DEF PollKey
      <4>. QED  BY <4>2, PollAssumption
    <3>2. UNCHANGED lidRest
      BY <1>1 DEF PollKey
    <3>3. CASE cnt' > Debounce
      <4>1. doorOut' = WithLamp /\ StartReset
        BY <1>1, <3>3 DEF PollKey
      <4>2. pc' = IF WhichProject = "LID_OPEN" THEN "back" ELSE "phase 2"
        BY <4>1 DEF StartReset
      <4>. QED  BY <3>1, <3>2, <3>3, <4>1, <4>2 DEF ResetKey
    <3>4. CASE ~(cnt' > Debounce)
      BY <1>1, <3>2, <3>4 DEF PollKey
    <3>. QED  BY <3>3, <3>4
  <2>2. UNCHANGED <<OpStep, drawer, door, drawerOut>>
    BY <2>1 DEF lidRest
  <2>3. CASE doorOut' = doorOut /\ pc' = "phase 2"
    BY <2>2, <2>3 DEF Closing
  <2>4. CASE drawer = "out" /\ WhichProject = "LID_OPEN" /\ doorOut' = WithLamp /\ pc' = "back"
    <3>1. ~Closing /\ doorOut' = "open"
      BY <2>4 DEF WithLamp
    <3>. QED  BY <2>2, <2>4, <3>1 DEF Closing
  <2>. QED  BY <2>1, <2>3, <2>4 DEF WithLamp
<1>2. CASE PhaseTwo \/ PhaseTwoX
  BY <1>2 DEF PhaseTwo, PhaseTwoX, lid, lidRest, Closing
<1>3. CASE ResetDone
  <2>1. UNCHANGED <<OpStep, drawer, door, drawerOut>> /\ pc' \in {"soft", "key", "lid"}
    BY <1>3 DEF ResetDone, LoopStart, lidRest
  <2>2. Closing' <=> Closing
    BY <1>3 DEF ResetDone, WithoutLamp, Closing
  <2>. QED  BY <2>1, <2>2
<1>. QED  BY <1>1, <1>2, <1>3

LEMMA GuardedLid ==
  ASSUME LidOK, Held, Guarded, KeyS_act_LIDOPEN
  PROVE  Guarded'
<1>. USE DEF Guarded, Check, Held
<1>0. LidFrame
  BY DEF KeyS_act_LIDOPEN, Standby, PressedAgain, KeyDrive, DriveDrawer, DriveDoor, Drive,
         PositionTest
<1>1. CASE Standby \/ PressedAgain
  BY <1>0, <1>1 DEF Standby, PressedAgain, LidFrame, Loop, Closing
<1>2. CASE KeyDrive
  <2>1. CASE DriveDrawer("DUT_GO_INSIDE", TRUE, "DUT_GO_OUTSIDE", "in")
    BY <1>0, <2>1 DEF DriveDrawer, Drive, LidFrame, Closing
  <2>2. CASE DriveDoor("CLOSE_DOOR", TRUE, "OPEN_DOOR", "close")
    BY <1>0, <2>2 DEF DriveDoor, Drive, LidFrame, Closing
  <2>3. CASE DriveDoor("OPEN_DOOR", FALSE, "CLOSE_DOOR", "open")
    BY <1>0, <2>3 DEF DriveDoor, Drive, LidFrame, Closing
  <2>4. CASE DriveDrawer("DUT_GO_OUTSIDE", FALSE, "DUT_GO_INSIDE", "out")
    BY <1>0, <2>4 DEF DriveDrawer, Drive, LidFrame, Closing
  <2>. QED  BY <1>2, <2>1, <2>2, <2>3, <2>4 DEF KeyDrive
<1>3. CASE PositionTest
  <2>1. pc = "position" /\ pc' = "key" /\ UNCHANGED <<drawer, door, drawerOut, doorOut>>
    BY <1>0, <1>3 DEF PositionTest, Loop, LidFrame
  <2>2. OpStep' = IF Reached(OpStep) THEN Following(OpStep) ELSE OpStep
    BY <1>3 DEF PositionTest
  <2>3. CASE OpStep = "DUT_GO_INSIDE"
    BY <2>1, <2>2, <2>3 DEF Following, Closing
  <2>4. CASE OpStep = "CLOSE_DOOR"
    BY <2>1, <2>2, <2>4 DEF Reached, Following, Closing
  <2>5. CASE OpStep = "OPEN_DOOR"
    BY <2>1, <2>2, <2>5 DEF Reached, Following, Closing
  <2>6. CASE OpStep = "DUT_GO_OUTSIDE"
    BY <2>1, <2>2, <2>6 DEF Following, Closing
  <2>. QED  BY <2>1, <2>3, <2>4, <2>5, <2>6 DEF LidOK
<1>. QED  BY <1>1, <1>2, <1>3 DEF KeyS_act_LIDOPEN

LEMMA GuardedNext ==
  ASSUME AllOK, Held, byHand \/ Guarded, [Next]_vars
  PROVE  (byHand \/ Guarded)'
<1>0. byHand => byHand'
  BY DEF Next, App, Host, Axis, SoftLimit, PollKey, PhaseTwo, PhaseTwoX, ResetDone, CheckBack,
         CheckUpside, CheckOutside, KeyS_act_LIDOPEN, Standby, PressedAgain, KeyDrive, DriveDrawer,
         DriveDoor, PositionTest, LidFrame, HostUnloads, HostFreesDoor, Cylinders, Input,
         DoorByHand, vars, appVars, lid, lidRest
<1>. SUFFICES ASSUME Guarded, ~byHand'  PROVE Guarded'
  BY <1>0
<1>1. LidOK
  BY DEF AllOK
<1>2. CASE UNCHANGED <<lid, pc>>
  BY <1>2 DEF Guarded, Closing, lid, lidRest
<1>3. CASE SoftLimit \/ UNCHANGED appVars \/ Input
  BY <1>2, <1>3 DEF SoftLimit, Input, appVars
<1>4. CASE CheckBack
  BY <1>4 DEF CheckBack, Loop, Check, lid, lidRest, Guarded, Closing
<1>5. CASE CheckUpside \/ CheckOutside
  BY <1>5 DEF CheckUpside, CheckOutside, Loop, Check, Guarded
<1>6. CASE HostUnloads
  BY <1>6 DEF HostUnloads, Guarded, Closing
<1>7. CASE HostFreesDoor
  BY <1>7 DEF HostFreesDoor, lidRest, Guarded, Closing
<1>8. CASE Cylinders
  <2>1. UNCHANGED <<OpStep, drawerOut, doorOut, pc>>
    BY <1>8 DEF Cylinders
  <2>2. CASE drawerOut # "none" /\ drawer' = Nearer(drawer, "in", "out", drawerOut)
             /\ drawer' # drawer /\ UNCHANGED door
    <3>1. drawer # drawerOut
      BY <1>1, <2>2 DEF Nearer, LidOK
    <3>. QED  BY <2>1, <2>2, <3>1 DEF Guarded, Closing
  <2>3. CASE doorOut \in {"open", "close"} /\ UNCHANGED drawer /\ door' # door
             /\ door' = Nearer(door, "down", "up", IF doorOut = "close" THEN "down" ELSE "up")
    <3>1. CASE doorOut = "close"
      BY <1>1, <2>1, <2>3, <3>1 DEF Guarded, Held, Check, Closing, Nearer, LidOK
    <3>2. CASE doorOut = "open"
      <4>1. door # "up"
        BY <1>1, <2>3, <3>2 DEF Nearer, LidOK
      <4>. QED  BY <2>1, <2>3, <3>2, <4>1 DEF Guarded, Closing
    <3>. QED  BY <2>3, <3>1, <3>2
  <2>. QED  BY <1>8, <2>2, <2>3 DEF Cylinders
<1>9. CASE DoorByHand
  BY <1>9 DEF DoorByHand
<1>10. CASE UNCHANGED vars
  BY <1>2, <1>10 DEF vars, appVars
<1>. QED  BY <1>1, <1>3, <1>4, <1>5, <1>6, <1>7, <1>8, <1>9, <1>10, GuardedReset, GuardedLid
          DEF Next, App, Host, Axis

(* A drawer moves only under an open door, unless an operator has moved    *)
(* the door by hand.                                                       *)
THEOREM DrawerMovesUnderOpenDoor == Spec => []DrawerUnderOpenDoor
<1>1. Init => AllOK /\ Held /\ (byHand \/ Guarded)
  BY TypesInit DEF Init, LoopStart, Held, Guarded, Closing, Check
<1>2. AllOK /\ Held /\ (byHand \/ Guarded) /\ [Next]_vars => (AllOK /\ Held /\ (byHand \/ Guarded))'
  BY TypesNext, HeldNext, GuardedNext
<1>3. AllOK /\ Held /\ (byHand \/ Guarded) => DrawerUnderOpenDoor
  BY DEF AllOK, LidOK, Guarded, DrawerUnderOpenDoor
<1>. QED  BY <1>1, <1>2, <1>3, PTL DEF Spec
=============================================================================
