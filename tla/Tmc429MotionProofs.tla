------------------------ MODULE Tmc429MotionProofs ------------------------
(***************************************************************************)
(* What holds of the motor control whatever the number of axes, the length *)
(* of the tracks, the place of the home sensors and the host's commands.   *)
(***************************************************************************)
EXTENDS Tmc429Motion, TLAPS

(* What the assumptions say of the sizes.                                  *)
LEMMA Sizes ==
  /\ NMotors \in Nat \ {0} /\ Track \in Nat /\ LimitCount \in Nat /\ Skid \in Nat
  /\ 0 \in Axes
  BY SizeAssumption DEF Axes

(* What the assumptions say of the inputs.                                 *)
LEMMA Inputs ==
  /\ HomeZone \subseteq 0..Track /\ HomeSpeeds \subseteq Int
  /\ Targets \subseteq Int /\ StopArgs \subseteq 0..NMotors
  BY InputAssumption

-----------------------------------------------------------------------------
(* Types.                                                                  *)

(* The sign of a number is one of three.                                   *)
LEMMA SgnType ==
  ASSUME NEW v \in Int
  PROVE  Sgn(v) \in {-1, 0, 1}
  BY DEF Sgn

(* An axis ramps left, right or to a stop.                                 *)
LEMMA GoalType ==
  ASSUME TypeOK, NEW a \in Axes
  PROVE  Goal(a) \in {-1, 0, 1}
  BY SgnType DEF Goal, TypeOK, RegistersOK, FirmwareOK

(* The scan stays within the axes.                                         *)
LEMMA NextAxisType ==
  ASSUME scan \in Axes, sensor = "scan", NextAxis
  PROVE  scan' \in Axes /\ sensor' \in {"head", "scan"}
<1>1. CASE scan + 1 < NMotors
  BY <1>1, Sizes DEF NextAxis, Axes
<1>2. CASE ~(scan + 1 < NMotors)
  BY <1>2, Sizes DEF NextAxis
<1> QED
  BY <1>1, <1>2

(* Every axis is on one of the chips.                                      *)
LEMMA DevType ==
  ASSUME NEW a \in Axes
  PROVE  getTMC429_DEV(a) \in Chips
  BY DEF getTMC429_DEV, Chips

(* The types hold at power on.                                             *)
LEMMA TypeInit == Init => TypeOK
<1>1. Init => RegistersOK
  BY DEF Init, RegistersOK
<1>2. Init => limitCnt \in [Axes -> 0..LimitCount] /\ scan \in Axes
  BY Sizes DEF Init
<1>3. Init => /\ homed \in [Axes -> BOOLEAN] /\ goHome \in [Axes -> BOOLEAN]
              /\ goLimit \in [Axes -> BOOLEAN] /\ handSet \in [Axes -> BOOLEAN]
              /\ undisturbed \in [Axes -> BOOLEAN]
  BY DEF Init
<1>4. Init => homeSpeed \in [Axes -> Int] /\ slack \in [Axes -> Nat]
  BY DEF Init
<1>5. Init => inited \in BOOLEAN /\ sensor \in {"off", "asleep", "head", "scan"}
  BY DEF Init
<1> QED
  BY <1>1, <1>2, <1>3, <1>4, <1>5 DEF TypeOK, FirmwareOK

(* Every register, flag and counter keeps its range, a homing run's limit  *)
(* counter included.                                                       *)
THEOREM TypeCorrect == Spec => []TypeOK
<1>1. Init => TypeOK
  BY TypeInit
<1>2. TypeOK /\ [Next]_vars => TypeOK'
  <2> SUFFICES ASSUME TypeOK, [Next]_vars PROVE TypeOK'
    OBVIOUS
  <2>1. CASE UNCHANGED vars
    BY <2>1 DEF TypeOK, RegistersOK, FirmwareOK, Disturbs, vars, chip, homing, thread
  <2>2. CASE tmc429_hw_init
    BY <2>2 DEF tmc429_hw_init, TypeOK, RegistersOK, FirmwareOK, Disturbs, IfBits, Chips
  <2>3. CASE Reset
    <3>1. RegistersOK'
      BY <2>3 DEF Reset, TypeOK, RegistersOK, chip
    <3>2. limitCnt' \in [Axes -> 0..LimitCount] /\ scan' \in Axes
      BY <2>3, Sizes DEF Reset
    <3>3. /\ homed' \in [Axes -> BOOLEAN] /\ goHome' \in [Axes -> BOOLEAN]
          /\ goLimit' \in [Axes -> BOOLEAN] /\ handSet' \in [Axes -> BOOLEAN]
          /\ undisturbed' \in [Axes -> BOOLEAN]
      BY <2>3 DEF Reset
    <3>4. homeSpeed' \in [Axes -> Int] /\ slack' \in [Axes -> Nat]
      BY <2>3 DEF Reset
    <3>5. inited' \in BOOLEAN /\ sensor' \in {"off", "asleep", "head", "scan"}
      BY <2>3 DEF Reset
    <3> QED
      BY <3>1, <3>2, <3>3, <3>4, <3>5 DEF TypeOK, FirmwareOK
  <2>4. ASSUME NEW n \in StopArgs, StopMotorByHW(n) PROVE TypeOK'
    BY <2>4, Sizes, Inputs, ZenonT(60) DEF StopMotorByHW, TypeOK, RegistersOK, FirmwareOK, Disturbs, thread, Axes
  <2>5. ASSUME NEW a \in Axes, NEW s \in HomeSpeeds, NEW b \in BOOLEAN,
               StartHoming(a, s, b)
        PROVE  TypeOK'
    BY <2>5, SgnType, Inputs DEF StartHoming, TMC429_MotorRotate, TypeOK, RegistersOK, FirmwareOK, Disturbs, thread
  <2>6. ASSUME NEW a \in Axes, NEW s \in {-1, 0, 1}, Rotate(a, s) PROVE TypeOK'
    BY <2>6, SgnType DEF Rotate, TMC429_MotorRotate, TypeOK, RegistersOK, FirmwareOK, Disturbs, thread, homing
  <2>7. ASSUME NEW a \in Axes, NEW s \in {-1, 0, 1}, NEW op, SetSpeed(a, op, s)
        PROVE  TypeOK'
    BY <2>7, SgnType DEF SetSpeed, TypeOK, RegistersOK, FirmwareOK, Disturbs, thread, homing
  <2>8. ASSUME NEW a \in Axes, NEW p \in Targets, NEW mode,
               TMC429_MoveToPosition(a, mode, p)
        PROVE  TypeOK'
    BY <2>8, Inputs DEF TMC429_MoveToPosition, TypeOK, RegistersOK, FirmwareOK, Disturbs, thread, homing
  <2>9. ASSUME NEW a \in Axes, NEW p \in Targets, NEW op, SetPosition(a, op, p)
        PROVE  TypeOK'
    <3>1. RegistersOK'
      BY <2>9, Inputs DEF SetPosition, TypeOK, RegistersOK
    <3>2. FirmwareOK'
      BY <2>9 DEF SetPosition, TypeOK, FirmwareOK, Disturbs, thread, homing
    <3> QED
      BY <3>1, <3>2 DEF TypeOK
  <2>10. ASSUME NEW a \in Axes, NEW b \in BOOLEAN, NEW side \in {"left", "right"},
                SetLimitDisable(a, side, b)
         PROVE  TypeOK'
    BY <2>10 DEF SetLimitDisable, TypeOK, RegistersOK, FirmwareOK, Disturbs, thread, homing
  <2>11. ASSUME NEW a \in Axes, NEW b \in BOOLEAN, SetLimitSignal(a, b)
         PROVE  TypeOK'
    BY <2>11, DevType DEF SetLimitSignal, TypeOK, RegistersOK, FirmwareOK, Disturbs, thread, homing, IfBits
  <2>12. CASE SensorWake
    BY <2>12 DEF SensorWake, TypeOK, RegistersOK, FirmwareOK, Disturbs, chip, homing
  <2>13. CASE SensorCheck
    BY <2>13, Sizes DEF SensorCheck, TypeOK, RegistersOK, FirmwareOK, Disturbs, chip, homing
  <2>14. ASSUME NEW a \in Axes, LimitSensorProcess(a) PROVE TypeOK'
    <3>1. scan' \in Axes /\ sensor' \in {"off", "asleep", "head", "scan"}
      BY <2>14, NextAxisType DEF LimitSensorProcess, TypeOK, RegistersOK, FirmwareOK, Disturbs
    <3>2. CASE setPositionAsOrigin(a)
      BY <3>1, <3>2, Sizes DEF setPositionAsOrigin, TypeOK, RegistersOK, FirmwareOK, Disturbs
    <3>3. CASE CountLimit(a)
      BY <3>1, <3>3, Sizes DEF CountLimit, Polled, TypeOK, RegistersOK, FirmwareOK, Disturbs, chip, homing
    <3>4. CASE Reverse(a)
      <4>1. \E v \in Int : TMC429_MotorRotate(a, v)
        BY <3>4 DEF Reverse, Abs, TypeOK, RegistersOK, FirmwareOK, Disturbs
      <4>2. rampmode' \in [Axes -> {"ramp", "velocity"}] /\ vtarget' \in [Axes -> {-1, 0, 1}]
        BY <4>1, SgnType DEF TMC429_MotorRotate, TypeOK, RegistersOK, FirmwareOK, Disturbs
      <4>3. RegistersOK'
        BY <3>4, <4>2 DEF Reverse, TypeOK, RegistersOK
      <4>4. FirmwareOK'
        BY <3>1, <3>4, Sizes DEF Reverse, Polled, TypeOK, FirmwareOK, homing
      <4> QED
        BY <4>3, <4>4 DEF TypeOK
    <3>5. CASE NothingToDo(a)
      BY <3>1, <3>5 DEF NothingToDo, Polled, TypeOK, RegistersOK, FirmwareOK, Disturbs, chip, homing
    <3> QED
      BY <2>14, <3>2, <3>3, <3>4, <3>5 DEF LimitSensorProcess, OriginFound, LimitReached
  <2>15. ASSUME NEW a \in Axes, Accelerate(a) PROVE TypeOK'
    <3>1. vactual' \in [Axes -> {-1, 0, 1}]
      BY <2>15, GoalType DEF Accelerate, TypeOK, RegistersOK, FirmwareOK, Disturbs, Sgn
    <3>2. slack' \in [Axes -> Nat]
      BY <2>15 DEF Accelerate, WithinPoll, TypeOK, RegistersOK, FirmwareOK, Disturbs
    <3> QED
      BY <2>15, <3>1, <3>2 DEF Accelerate, TypeOK, RegistersOK, FirmwareOK, Disturbs, homing, thread
  <2>16. ASSUME NEW a \in Axes, Step(a) PROVE TypeOK'
    <3>1. slack' \in [Axes -> Nat]
      BY <2>16 DEF Step, WithinPoll, TypeOK, RegistersOK, FirmwareOK, Disturbs
    <3>2. x' \in [Axes -> 0..Track]
      BY <2>16, Sizes DEF Step, Clip, TypeOK, RegistersOK, FirmwareOK, Disturbs
    <3> QED
      BY <2>16, <3>1, <3>2 DEF Step, TypeOK, RegistersOK, FirmwareOK, Disturbs, homing, thread
  <2> QED
    BY <2>1, <2>2, <2>3, <2>4, <2>5, <2>6, <2>7, <2>8, <2>9, <2>10, <2>11, <2>12,
       <2>13, <2>14, <2>15, <2>16
    DEF Next, HostStep, SensorStep, motor_gohome_config, motor_golimit_config
<1> QED
  BY <1>1, <1>2, PTL DEF Spec

-----------------------------------------------------------------------------
(* The reference of a homed axis.                                          *)

(* The pulses of an axis do not move the zero of a homed axis.             *)
LEMMA StepKeepsZero ==
  ASSUME TypeOK, AsConfigured, FlagsNeedInit, NEW a \in Axes, Step(a),
         NEW b \in Axes, homed[b]
  PROVE  x'[b] - xactual'[b] = x[b] - xactual[b]
<1>1. inited /\ ifconf[getTMC429_DEV(b)] = {"EN_SD", "EN_REFR"} /\ refconf[b] = {}
  BY DevType DEF FlagsNeedInit, AsConfigured
<1>2. CASE b # a
  BY <1>2 DEF Step, TypeOK, RegistersOK
<1>3. CASE b = a
  <2> DEFINE v == vactual[a]
  <2>1. /\ v \in {-1, 1} /\ ~SwitchStops(a, x[a], v)
        /\ x[a] \in 0..Track /\ xactual[a] \in Int
    BY DEF Step, TypeOK, RegistersOK
  <2>2. x[a] + v \in 0..Track
    BY <1>1, <1>3, <2>1, Sizes DEF SwitchStops, LeftSwitch, RightSwitch, If
  <2>3. x'[a] = x[a] + v /\ xactual'[a] = xactual[a] + v
    BY <1>1, <1>3, <2>2, Sizes DEF Step, Clip, If, TypeOK, RegistersOK
  <2> QED
    BY <1>3, <2>1, <2>3, Sizes
<1> QED
  BY <1>2, <1>3

(* No step takes the reference of a homed axis away.                       *)
LEMMA ReferenceStep ==
  ASSUME SafeHost, ReferenceInv, TypeOK', [Next]_vars
  PROVE  ReferenceInv'
<1> USE DEF ReferenceInv
<1>1. CASE UNCHANGED vars
  BY <1>1 DEF vars, chip, homing, AsConfigured, FlagsNeedInit, HomedReferenced, Homing
<1>2. CASE tmc429_hw_init
  BY <1>2 DEF tmc429_hw_init, AsConfigured, FlagsNeedInit, HomedReferenced, Homing
<1>3. CASE Reset
  BY <1>3 DEF Reset, AsConfigured, FlagsNeedInit, HomedReferenced, Homing
<1>4. ASSUME NEW n \in StopArgs, StopMotorByHW(n) PROVE ReferenceInv'
  <2>1. n \in Axes /\ n < NMotors
    BY Sizes DEF SafeHost, Axes
  <2>2. AsConfigured'
    BY <1>4, <2>1 DEF StopMotorByHW, AsConfigured
  <2>3. FlagsNeedInit'
    <3>1. \A b \in Axes : Homing(b)' => Homing(b)
      BY <1>4, <2>1 DEF StopMotorByHW, Homing, TypeOK, FirmwareOK
    <3> QED
      BY <1>4, <3>1 DEF StopMotorByHW, FlagsNeedInit
  <2>4. HomedReferenced'
    BY <1>4 DEF StopMotorByHW, HomedReferenced
  <2> QED
    BY <2>2, <2>3, <2>4
<1>5. ASSUME NEW a \in Axes, NEW s \in HomeSpeeds, NEW lim \in BOOLEAN, NEW op,
             Host(op, a), StartHoming(a, s, lim)
      PROVE  ReferenceInv'
  <2>1. AsConfigured'
    BY <1>5 DEF StartHoming, AsConfigured
  <2>2. FlagsNeedInit'
    <3>1. inited' /\ ~homed'[a]
      BY <1>5 DEF StartHoming, Host, TypeOK, FirmwareOK
    <3>2. \A b \in Axes \ {a} : homed'[b] = homed[b] /\ (Homing(b)' <=> Homing(b))
      BY <1>5 DEF StartHoming, Homing, TypeOK, FirmwareOK
    <3> QED
      BY <3>1, <3>2 DEF FlagsNeedInit
  <2>3. HomedReferenced'
    BY <1>5 DEF StartHoming, HomedReferenced, TypeOK, FirmwareOK
  <2> QED
    BY <2>1, <2>2, <2>3
<1>6. ASSUME NEW a \in Axes, NEW s, Rotate(a, s) PROVE ReferenceInv'
  BY <1>6 DEF Rotate, homing, AsConfigured, FlagsNeedInit, HomedReferenced, Homing
<1>7. ASSUME NEW a \in Axes, NEW s, NEW op, SetSpeed(a, op, s) PROVE ReferenceInv'
  BY <1>7 DEF SetSpeed, homing, AsConfigured, FlagsNeedInit, HomedReferenced, Homing
<1>8. ASSUME NEW a \in Axes, NEW p, NEW mode, TMC429_MoveToPosition(a, mode, p)
      PROVE  ReferenceInv'
  BY <1>8 DEF TMC429_MoveToPosition, homing, AsConfigured, FlagsNeedInit,
              HomedReferenced, Homing
<1>9. ASSUME NEW a \in Axes, NEW p, NEW op, SetPosition(a, op, p) PROVE ReferenceInv'
  <2>1. AsConfigured' /\ FlagsNeedInit'
    BY <1>9 DEF SetPosition, homing, AsConfigured, FlagsNeedInit, Homing
  <2>2. HomedReferenced'
    BY <1>9 DEF SetPosition, homing, HomedReferenced, TypeOK, RegistersOK, FirmwareOK
  <2> QED
    BY <2>1, <2>2
<1>10. ASSUME NEW a \in Axes, NEW b, NEW side, SetLimitDisable(a, side, b)
       PROVE  ReferenceInv'
  BY <1>10 DEF SetLimitDisable, Host, SafeHost
<1>11. ASSUME NEW a \in Axes, NEW b, SetLimitSignal(a, b) PROVE ReferenceInv'
  BY <1>11 DEF SetLimitSignal, Host, SafeHost
<1>12. CASE SensorWake \/ SensorCheck
  BY <1>12 DEF SensorWake, SensorCheck, chip, homing, AsConfigured, FlagsNeedInit,
               HomedReferenced, Homing
<1>13. ASSUME NEW a \in Axes, AtOrigin(a) \/ AtHomeLimit(a), setPositionAsOrigin(a)
       PROVE  ReferenceInv'
  <2>1. inited /\ ifconf[getTMC429_DEV(a)] = {"EN_SD", "EN_REFR"}
    BY <1>13, DevType DEF AtOrigin, AtHomeLimit, FlagsNeedInit, Homing, AsConfigured
  <2>2. x[a] \in References
    BY <1>13, <2>1 DEF AtOrigin, AtHomeLimit, HomeSensor, AtLimit, LeftSwitch,
                       RightSwitch, If, References
  <2>3. AsConfigured' /\ FlagsNeedInit'
    BY <1>13, <2>1 DEF setPositionAsOrigin, AsConfigured, FlagsNeedInit, Homing,
                       TypeOK, FirmwareOK
  <2>4. xactual'[a] = 0 /\ x' = x /\ \A b \in Axes \ {a} :
          xactual'[b] = xactual[b] /\ homed'[b] = homed[b] /\ handSet'[b] = handSet[b]
    BY <1>13 DEF setPositionAsOrigin, TypeOK, RegistersOK, FirmwareOK
  <2>5. x[a] \in Int
    BY Sizes DEF TypeOK, RegistersOK
  <2>6. HomedReferenced'
    BY <2>2, <2>4, <2>5 DEF HomedReferenced, References
  <2> QED
    BY <2>3, <2>6
<1>14. ASSUME NEW a \in Axes, CountLimit(a) \/ Reverse(a) \/ NothingToDo(a)
       PROVE  ReferenceInv'
  BY <1>14 DEF CountLimit, Reverse, NothingToDo, chip, homing, AsConfigured,
               FlagsNeedInit, HomedReferenced, Homing
<1>15. ASSUME NEW a \in Axes, Accelerate(a) PROVE ReferenceInv'
  BY <1>15 DEF Accelerate, homing, AsConfigured, FlagsNeedInit, HomedReferenced, Homing
<1>16. ASSUME NEW a \in Axes, Step(a) PROVE ReferenceInv'
  <2>1. AsConfigured' /\ FlagsNeedInit'
    BY <1>16 DEF Step, homing, AsConfigured, FlagsNeedInit, Homing
  <2>2. ASSUME NEW b \in Axes, homed[b], ~handSet[b]
        PROVE  x'[b] - xactual'[b] \in References
    BY <1>16, <2>2, StepKeepsZero DEF HomedReferenced
  <2>3. homed' = homed /\ handSet' = handSet
    BY <1>16 DEF Step, homing
  <2> QED
    BY <2>1, <2>2, <2>3 DEF HomedReferenced, References
<1> QED
  <2>1. CASE HostStep
    BY <2>1, <1>2, <1>3, <1>4, <1>5, <1>6, <1>7, <1>8, <1>9, <1>10, <1>11
    DEF HostStep, motor_gohome_config, motor_golimit_config
  <2>2. CASE SensorStep
    BY <2>2, <1>12, <1>13, <1>14
    DEF SensorStep, LimitSensorProcess, OriginFound, LimitReached
  <2> QED
    BY <2>1, <2>2, <1>1, <1>15, <1>16 DEF Next

(* The strengthened invariant holds throughout.                            *)
LEMMA ReferenceInductive == SafeHost => (Spec => []ReferenceInv)
<1> SUFFICES ASSUME SafeHost PROVE Spec => []ReferenceInv
  OBVIOUS
<1>1. Init => ReferenceInv
  <2>1. Init => AsConfigured /\ FlagsNeedInit /\ HomedReferenced
    BY DEF Init, AsConfigured, FlagsNeedInit, HomedReferenced, Homing
  <2> QED
    BY <2>1, TypeInit DEF ReferenceInv
<1>2. ReferenceInv /\ TypeOK' /\ [Next]_vars => ReferenceInv'
  BY ReferenceStep
<1> QED
  BY <1>1, <1>2, TypeCorrect, PTL DEF Spec

(* The host that keeps the switches as configured and stops existing axes  *)
(* can trust is_homed: the position then counts from the home sensor or    *)
(* from an end switch.                                                     *)
THEOREM HomedIsReferenced == SafeHost => (Spec => []HomedReferenced)
<1> SUFFICES ASSUME SafeHost PROVE Spec => []HomedReferenced
  OBVIOUS
<1>1. ReferenceInv => HomedReferenced
  BY DEF ReferenceInv
<1> QED
  BY <1>1, ReferenceInductive, PTL

-----------------------------------------------------------------------------
(* The home sensor.                                                        *)

(* The axes MotorSensor handles before it polls axis a again, and the      *)
(* moves the axis may make until then: each of them may be stopped for     *)
(* 20 ms.                                                                  *)
Before(a) ==
  IF sensor # "scan" THEN a ELSE IF scan <= a THEN a - scan ELSE (NMotors - scan) + a
Allowance(a) == slack[a] + Skid * Before(a)
Reach == Skid * (NMotors - 1)

(* A sensor is wider than an axis moves while every other axis is stopped. *)
SensorWide == \E lo, hi \in Int : HomeZone = lo..hi /\ hi - lo >= Reach

PollInv ==
  /\ sensor # "off" => inited
  /\ \A a \in Axes : Allowance(a) <= 1 + Reach

(* A run sets out with the sign of its speed and comes back with the       *)
(* other.  It turns round at the end of the track only, is polled from     *)
(* then on, and on its way back over the sensor it stays there until the   *)
(* next poll.                                                              *)
Back(a) == -Sgn(homeSpeed[a])
NotPushing(a) == (x[a] = 0 => vactual[a] # -1) /\ (x[a] = Track => vactual[a] # 1)
TurnsAtEnd(a) ==
  Back(a) # 0 =>
    /\ vactual[a] = Back(a) => vtarget[a] = Back(a)
    /\ vtarget[a] = Back(a) =>
         /\ Polling /\ Abs(homeSpeed[a]) \div 2 > 0
         /\ vactual[a] = Back(a) \/ (vactual[a] = 0 /\ x[a] \in {0, Track})
StaysForPoll(a) ==
  vactual[a] = Back(a) /\ HomeSensor(a) =>
    /\ Back(a) = 1 => x[a] + Allowance(a) \in HomeZone
    /\ Back(a) = -1 => x[a] - Allowance(a) \in HomeZone
RunOK(a) ==
  HomesAlone(a) =>
    rampmode[a] = "velocity" /\ NotPushing(a) /\ TurnsAtEnd(a) /\ StaysForPoll(a)

LEMMA Products ==
  /\ Reach \in Nat
  /\ \A k \in Nat : Skid * k \in Nat /\ Skid * (k + 1) = Skid * k + Skid
  /\ \A k \in 0..NMotors-1 : Skid * k <= Reach
<1>1. ASSUME NEW k \in Nat
      PROVE  Skid * k \in Nat /\ Skid * (k + 1) = Skid * k + Skid
  BY Sizes
<1>2. NMotors - 1 \in Nat
  BY Sizes
<1>3. ASSUME NEW k \in 0..NMotors-1
      PROVE  Skid * k <= Reach
  <2>1. PICK d \in Nat : NMotors - 1 = k + d
    <3>1. (NMotors - 1) - k \in Nat /\ NMotors - 1 = k + ((NMotors - 1) - k)
      BY Sizes
    <3> QED
      BY <3>1
  <2>2. Reach = Skid * k + Skid * d
    BY <2>1, Sizes DEF Reach
  <2>3. Skid * k \in Nat /\ Skid * d \in Nat
    BY <2>1, <1>1
  <2> QED
    BY <2>2, <2>3
<1> QED
  BY <1>1, <1>2, <1>3 DEF Reach

AllowanceOK ==
  \A a \in Axes :
    /\ Before(a) \in 0..NMotors-1 /\ Before(a) \in Nat /\ slack[a] \in Nat
    /\ Skid * Before(a) \in Nat /\ Skid * Before(a) <= Reach
    /\ Allowance(a) \in Nat /\ Allowance(a) = slack[a] + Skid * Before(a)

LEMMA AllowanceType == TypeOK => AllowanceOK
<1> SUFFICES ASSUME TypeOK, NEW a \in Axes
             PROVE  /\ Before(a) \in 0..NMotors-1 /\ Before(a) \in Nat /\ slack[a] \in Nat
                    /\ Skid * Before(a) \in Nat /\ Skid * Before(a) <= Reach
                    /\ Allowance(a) \in Nat /\ Allowance(a) = slack[a] + Skid * Before(a)
  BY DEF AllowanceOK
<1>1. Before(a) \in 0..NMotors-1
  BY Sizes DEF Before, Axes, TypeOK, FirmwareOK
<1>2. Before(a) \in Nat /\ slack[a] \in Nat
  BY <1>1, Sizes DEF TypeOK, FirmwareOK
<1>3. Skid * Before(a) \in Nat /\ Skid * Before(a) <= Reach
  BY <1>1, <1>2, Products
<1> QED
  BY <1>1, <1>2, <1>3 DEF Allowance

LEMMA AllowanceTypeAfter == TypeOK' => AllowanceOK'
  BY AllowanceType, PTL

(* The turn passes to the next axis.                                       *)
LEMMA Turn ==
  ASSUME TypeOK, TypeOK', sensor = "scan", NextAxis, NEW a \in Axes
  PROVE  /\ a = scan => Before(a)' = NMotors - 1
         /\ a # scan => Before(a) = Before(a)' + 1
<1>1. /\ NMotors \in Nat /\ a \in Nat /\ a < NMotors /\ scan \in Nat /\ scan < NMotors
  BY Sizes DEF Axes, TypeOK, FirmwareOK
<1>2. CASE scan + 1 < NMotors
  BY <1>1, <1>2 DEF NextAxis, Before
<1>3. CASE ~(scan + 1 < NMotors)
  BY <1>1, <1>3 DEF NextAxis, Before
<1> QED
  BY <1>2, <1>3

(* A poll of one axis takes nothing from the others' next polls but Skid,  *)
(* and leaves the axis all the others' stops.                              *)
LEMMA PollAllows ==
  ASSUME TypeOK, TypeOK', PollInv, NEW b \in Axes, LimitSensorProcess(b), NEW a \in Axes
  PROVE  /\ a # b => Allowance(a)' <= Allowance(a)
         /\ Allowance(a)' <= 1 + Reach
<1>1. sensor = "scan" /\ scan = b /\ NextAxis
  BY DEF LimitSensorProcess
<1>2. /\ slack'[b] = 1
      /\ a # b => slack'[a] <= slack[a] + Skid
  <2>1. CASE OriginFound(b) \/ LimitReached(b)
    BY <2>1, Sizes DEF OriginFound, LimitReached, setPositionAsOrigin, TypeOK, FirmwareOK
  <2>2. CASE CountLimit(b) \/ Reverse(b) \/ NothingToDo(b)
    BY <2>2, Sizes DEF CountLimit, Reverse, NothingToDo, Polled, TypeOK, FirmwareOK
  <2> QED
    BY <2>1, <2>2 DEF LimitSensorProcess
<1>3. /\ Allowance(a) = slack[a] + Skid * Before(a)
      /\ Allowance(a)' = slack'[a] + Skid * Before(a)'
      /\ slack[a] \in Nat /\ slack'[a] \in Nat /\ Before(a)' \in Nat
      /\ Skid * Before(a) \in Nat /\ Skid * Before(a)' \in Nat
      /\ Skid \in Nat /\ Reach \in Nat /\ Skid * Before(a)' <= Reach
  BY AllowanceType, AllowanceTypeAfter, Products, Sizes DEF AllowanceOK
<1>4. ASSUME a # b
      PROVE  Allowance(a)' <= Allowance(a)
  <2>1. Before(a) = Before(a)' + 1
    BY <1>1, <1>4, Turn
  <2>2. Skid * Before(a) = Skid * Before(a)' + Skid
    BY <1>3, <2>1, Products
  <2> QED
    BY <1>2, <1>3, <1>4, <2>2
<1>5. Allowance(a)' <= 1 + Reach
  <2>1. CASE a = b
    BY <1>2, <1>3, <2>1
  <2>2. CASE a # b
    BY <1>3, <1>4, <2>2 DEF PollInv, AllowanceOK
  <2> QED
    BY <2>1, <2>2
<1> QED
  BY <1>4, <1>5

(* Every other step but a restart leaves the allowances or uses them.      *)
LEMMA OthersAllow ==
  ASSUME TypeOK, TypeOK', PollInv, NEW a \in Axes,
         \/ slack' = slack /\ thread' = thread
         \/ SensorWake \/ SensorCheck \/ tmc429_hw_init
         \/ \E b \in Axes : Accelerate(b) \/ Step(b)
  PROVE  Allowance(a)' <= Allowance(a)
<1>1. /\ Allowance(a) = slack[a] + Skid * Before(a)
      /\ Allowance(a)' = slack'[a] + Skid * Before(a)'
      /\ slack[a] \in Nat /\ slack'[a] \in Nat
      /\ Skid * Before(a) \in Nat /\ Skid * Before(a)' \in Nat
  BY AllowanceType, AllowanceTypeAfter DEF AllowanceOK
<1>2. Before(a)' = Before(a)
  BY Sizes DEF SensorWake, SensorCheck, tmc429_hw_init, Accelerate, Step, thread,
               PollInv, Before, Axes
<1>3. slack'[a] <= slack[a]
  BY Sizes DEF SensorWake, SensorCheck, tmc429_hw_init, Accelerate, Step, WithinPoll,
               TypeOK, FirmwareOK
<1> QED
  BY <1>1, <1>2, <1>3

(* The commands of a session leave thread, allowances and carriages alone. *)
LEMMA CommandsLeave ==
  ASSUME HostStep, ~tmc429_hw_init, ~Reset
  PROVE  slack' = slack /\ thread' = thread /\ inited' = inited /\ x' = x
  BY DEF HostStep, StopMotorByHW, motor_gohome_config, motor_golimit_config, StartHoming,
         Rotate, SetSpeed, TMC429_MoveToPosition, SetPosition, SetLimitDisable,
         SetLimitSignal

(* The allowances stay within what one scan can add.                       *)
LEMMA PollStep ==
  ASSUME TypeOK, TypeOK', PollInv, [Next]_vars
  PROVE  PollInv'
<1>1. CASE UNCHANGED vars
  BY <1>1 DEF vars, thread, PollInv, Allowance, Before
<1>2. CASE Reset
  <2>1. ASSUME NEW a \in Axes
        PROVE  Allowance(a)' <= 1 + Reach
    <3>1. slack'[a] = 0
      BY <1>2 DEF Reset
    <3> QED
      BY <3>1, AllowanceTypeAfter, Products DEF AllowanceOK
  <2> QED
    BY <1>2, <2>1 DEF Reset, PollInv
<1>3. CASE \/ SensorWake \/ SensorCheck \/ tmc429_hw_init
           \/ \E b \in Axes : Accelerate(b) \/ Step(b)
  <2>1. ASSUME NEW a \in Axes
        PROVE  Allowance(a)' <= 1 + Reach
    BY <1>3, OthersAllow, AllowanceType, AllowanceTypeAfter, Products DEF PollInv, AllowanceOK
  <2>2. sensor' # "off" => inited'
    BY <1>3 DEF SensorWake, SensorCheck, tmc429_hw_init, Accelerate, Step, thread, PollInv
  <2> QED
    BY <2>1, <2>2 DEF PollInv
<1>4. CASE HostStep /\ ~tmc429_hw_init /\ ~Reset
  BY <1>4, CommandsLeave DEF thread, PollInv, Allowance, Before
<1>5. ASSUME NEW b \in Axes, LimitSensorProcess(b)
      PROVE  PollInv'
  <2>1. inited' = inited /\ sensor = "scan"
    BY <1>5 DEF LimitSensorProcess, OriginFound, LimitReached, CountLimit, Reverse,
                NothingToDo, setPositionAsOrigin
  <2> QED
    BY <1>5, <2>1, PollAllows DEF PollInv
<1> QED
  BY <1>1, <1>2, <1>3, <1>4, <1>5 DEF Next, SensorStep

(* Places between two of the sensor are of the sensor.                     *)
LEMMA Between ==
  ASSUME SensorWide, NEW c \in HomeZone, NEW d \in HomeZone, NEW e \in Int,
         c <= e, e <= d
  PROVE  e \in HomeZone
  BY DEF SensorWide

(* A run is not disturbed by a step that leaves its axis alone.            *)
LEMMA SameRun ==
  ASSUME SensorWide, TypeOK, TypeOK', NEW a \in Axes, RunOK(a),
         HomesAlone(a)' => HomesAlone(a) /\ (Polling => Polling'),
         rampmode'[a] = rampmode[a], x'[a] = x[a], vactual'[a] = vactual[a], vtarget'[a] = vtarget[a],
         homeSpeed'[a] = homeSpeed[a],
         \/ Allowance(a)' <= Allowance(a)
         \/ ~(vactual[a] = Back(a) /\ Back(a) # 0 /\ HomeSensor(a))
  PROVE  RunOK(a)'
<1> SUFFICES ASSUME HomesAlone(a)'
             PROVE  NotPushing(a)' /\ TurnsAtEnd(a)' /\ StaysForPoll(a)'
  BY DEF RunOK
<1>1. NotPushing(a) /\ TurnsAtEnd(a) /\ StaysForPoll(a) /\ (Polling => Polling')
  BY DEF RunOK
<1>2. Back(a)' = Back(a) /\ HomeSensor(a)' = HomeSensor(a)
  BY DEF Back, HomeSensor
<1>3. NotPushing(a)' /\ TurnsAtEnd(a)'
  BY <1>1, <1>2 DEF NotPushing, TurnsAtEnd
<1>4. StaysForPoll(a)'
  <2> SUFFICES ASSUME vactual[a] = Back(a), Back(a) # 0, HomeSensor(a),
                      Allowance(a)' <= Allowance(a)
               PROVE  /\ Back(a) = 1 => x[a] + Allowance(a)' \in HomeZone
                      /\ Back(a) = -1 => x[a] - Allowance(a)' \in HomeZone
    BY <1>2 DEF StaysForPoll
  <2>1. x[a] \in HomeZone /\ x[a] \in Int
    BY Sizes DEF HomeSensor, TypeOK, RegistersOK
  <2>2. Allowance(a) \in Nat /\ Allowance(a)' \in Nat
    BY AllowanceType, AllowanceTypeAfter DEF AllowanceOK
  <2>3. CASE Back(a) = 1
    <3>1. x[a] + Allowance(a) \in HomeZone
      BY <1>1, <2>3 DEF StaysForPoll
    <3>2. x[a] <= x[a] + Allowance(a)' /\ x[a] + Allowance(a)' <= x[a] + Allowance(a)
      BY <2>1, <2>2
    <3>3. x[a] + Allowance(a)' \in Int
      BY <2>1, <2>2
    <3> QED
      BY <2>1, <2>3, <3>1, <3>2, <3>3, Between
  <2>4. CASE Back(a) = -1
    <3>1. x[a] - Allowance(a) \in HomeZone
      BY <1>1, <2>4 DEF StaysForPoll
    <3>2. x[a] - Allowance(a)' <= x[a] /\ x[a] - Allowance(a) <= x[a] - Allowance(a)'
      BY <2>1, <2>2
    <3>3. x[a] - Allowance(a)' \in Int
      BY <2>1, <2>2
    <3> QED
      BY <2>1, <2>4, <3>1, <3>2, <3>3, Between
  <2> QED
    BY <2>3, <2>4
<1> QED
  BY <1>3, <1>4

(* A command for an axis ends the run, or starts one from rest, or         *)
(* disturbs it; a command for another axis leaves it alone.                *)
LEMMA CommandsSpare ==
  ASSUME SafeHost, SensorWide, TypeOK, TypeOK', HostStep,
         ~tmc429_hw_init, ~Reset, NEW a \in Axes, RunOK(a)
  PROVE  RunOK(a)'
<1>1. slack' = slack /\ thread' = thread /\ x' = x
  BY CommandsLeave
<1>2. Allowance(a)' = Allowance(a) /\ (Polling => Polling')
  BY <1>1 DEF thread, Allowance, Before, Polling
<1>3. Allowance(a) \in Nat
  BY AllowanceType DEF AllowanceOK
<1>4. ASSUME HomesAlone(a)' => HomesAlone(a), rampmode'[a] = rampmode[a],
             vactual'[a] = vactual[a], vtarget'[a] = vtarget[a],
             homeSpeed'[a] = homeSpeed[a]
      PROVE  RunOK(a)'
  BY <1>1, <1>2, <1>3, <1>4, SameRun
<1>5. ASSUME ~HomesAlone(a)'
      PROVE  RunOK(a)'
  BY <1>5 DEF RunOK
<1>6. ASSUME NEW n \in StopArgs, StopMotorByHW(n)
      PROVE  RunOK(a)'
  <2>1. n \in Axes /\ n < NMotors
    BY Sizes DEF SafeHost, Axes
  <2>2. CASE n = a
    BY <1>5, <1>6, <2>1, <2>2 DEF StopMotorByHW, HomesAlone, TypeOK, FirmwareOK
  <2>3. CASE n # a
    BY <1>4, <1>6, <2>1, <2>3
    DEF StopMotorByHW, Disturbs, HomesAlone, TypeOK, RegistersOK, FirmwareOK
  <2> QED
    BY <2>2, <2>3
<1>7. ASSUME NEW b \in Axes, NEW s \in HomeSpeeds, NEW lim \in BOOLEAN,
             StartHoming(b, s, lim)
      PROVE  RunOK(a)'
  <2>1. CASE b # a
    BY <1>4, <1>7, <2>1 DEF StartHoming, TMC429_MotorRotate, HomesAlone
  <2>2. CASE b = a /\ ~HomesAlone(a)'
    BY <1>5, <2>2
  <2>3. CASE b = a /\ HomesAlone(a)'
    <3>0. vactual[a] = 0
      <4>1. /\ undisturbed' = [undisturbed EXCEPT ![a] = ~Homing(a) /\ vactual[a] = 0]
            /\ a \in DOMAIN undisturbed /\ undisturbed'[a]
        BY <1>7, <2>3 DEF StartHoming, HomesAlone, TypeOK, FirmwareOK
      <4>2. undisturbed'[a] = (~Homing(a) /\ vactual[a] = 0)
        BY <4>1, Zenon
      <4> QED
        BY <4>1, <4>2, Zenon
    <3>1. /\ vactual'[a] = 0 /\ vtarget'[a] = Sgn(s) /\ homeSpeed'[a] = s
          /\ rampmode'[a] = "velocity" /\ Sgn(s) \in {-1, 0, 1}
      BY <1>7, <2>3, <3>0, SgnType, Inputs
      DEF StartHoming, TMC429_MotorRotate, TypeOK, RegistersOK, FirmwareOK
    <3>2. Back(a)' = -Sgn(s)
      BY <3>1 DEF Back
    <3>3. NotPushing(a)' /\ TurnsAtEnd(a)' /\ StaysForPoll(a)'
      BY <3>1, <3>2 DEF NotPushing, TurnsAtEnd, StaysForPoll
    <3> QED
      BY <3>1, <3>3 DEF RunOK
  <2> QED
    BY <2>1, <2>2, <2>3
<1>8. ASSUME NEW b \in Axes, NEW s, NEW op,
             \/ Rotate(b, s) \/ SetSpeed(b, op, s)
             \/ TMC429_MoveToPosition(b, op, s) \/ SetPosition(b, op, s)
      PROVE  RunOK(a)'
  <2>1. Disturbs(b)
    BY <1>8 DEF Rotate, SetSpeed, TMC429_MoveToPosition, SetPosition
  <2>2. CASE b # a
    BY <1>4, <1>8, <2>1, <2>2
    DEF Rotate, SetSpeed, TMC429_MoveToPosition, SetPosition, TMC429_MotorRotate, homing,
        Disturbs, HomesAlone, TypeOK, RegistersOK, FirmwareOK
  <2>3. CASE b = a
    BY <1>5, <2>1, <2>3 DEF Disturbs, HomesAlone, TypeOK, FirmwareOK
  <2> QED
    BY <2>2, <2>3
<1>9. ASSUME NEW b \in Axes, NEW c, NEW side,
             SetLimitDisable(b, side, c) \/ SetLimitSignal(b, c)
      PROVE  RunOK(a)'
  BY <1>9 DEF SetLimitDisable, SetLimitSignal, Host, SafeHost
<1> QED
  BY <1>6, <1>7, <1>8, <1>9 DEF HostStep, motor_gohome_config, motor_golimit_config

(* A poll finds the origin of an axis on its way back over the sensor, and *)
(* turns an axis round at an end of its track only.                        *)
LEMMA PollSpares ==
  ASSUME SensorWide, TypeOK, TypeOK', AsConfigured, FlagsNeedInit, PollInv,
         NEW b \in Axes, LimitSensorProcess(b), NEW a \in Axes, RunOK(a)
  PROVE  RunOK(a)'
<1>1. sensor = "scan" /\ scan = b /\ Polling /\ Polling'
  BY DEF LimitSensorProcess, NextAxis, Polling
<1>2. CASE ~HomesAlone(a)
  BY <1>2 DEF LimitSensorProcess, OriginFound, LimitReached, CountLimit, Reverse,
              NothingToDo, setPositionAsOrigin, Disturbs, homing, RunOK, HomesAlone,
              TypeOK, FirmwareOK
<1>3. CASE HomesAlone(a) /\ a # b
  <2>1. Allowance(a)' <= Allowance(a)
    BY <1>3, PollAllows
  <2>2. /\ x'[a] = x[a] /\ vactual'[a] = vactual[a] /\ vtarget'[a] = vtarget[a]
        /\ homeSpeed'[a] = homeSpeed[a] /\ rampmode'[a] = rampmode[a]
    BY <1>3 DEF LimitSensorProcess, OriginFound, LimitReached, CountLimit, Reverse,
                NothingToDo, setPositionAsOrigin, TMC429_MotorRotate, chip, homing,
                TypeOK, RegistersOK
  <2> QED
    BY <1>1, <1>3, <2>1, <2>2, SameRun
<1>4. CASE HomesAlone(a) /\ a = b /\ AtOrigin(a)
  BY <1>4 DEF LimitSensorProcess, OriginFound, LimitReached, AtHomeLimit, CountLimit,
              Reverse, NothingToDo, setPositionAsOrigin, RunOK, HomesAlone, AtOrigin,
              TypeOK, FirmwareOK
<1>5. CASE HomesAlone(a) /\ a = b /\ ~AtOrigin(a)
  <2>1. ~(vactual[a] = Back(a) /\ Back(a) # 0 /\ HomeSensor(a))
    BY <1>5, SgnType DEF AtOrigin, ReturningHome, Back, HomesAlone, TypeOK, RegistersOK, FirmwareOK
  <2>2. CASE CountLimit(a) \/ NothingToDo(a)
    BY <1>1, <1>5, <2>1, <2>2, SameRun DEF CountLimit, NothingToDo, chip, homing
  <2>3. CASE Reverse(a)
    <3>1. ifconf[getTMC429_DEV(a)] = {"EN_SD", "EN_REFR"}
      BY <1>5, DevType DEF FlagsNeedInit, Homing, HomesAlone, AsConfigured
    <3>2. /\ NotPushing(a) /\ TurnsAtEnd(a) /\ vactual[a] \in {-1, 0, 1}
          /\ homeSpeed[a] \in Int
          /\ x' = x /\ vactual' = vactual /\ homeSpeed' = homeSpeed
      BY <1>5, <2>3 DEF RunOK, Reverse, homing, TypeOK, RegistersOK, FirmwareOK
    <3>3. Abs(homeSpeed[a]) \div 2 \in Nat
      BY <3>2 DEF Abs
    <3>4. \/ x[a] = 0 /\ vtarget'[a] = Sgn(Abs(homeSpeed[a]) \div 2)
          \/ x[a] = Track /\ vtarget'[a] = Sgn(-(Abs(homeSpeed[a]) \div 2))
      BY <2>3, <3>1 DEF Reverse, TMC429_MotorRotate, AtLimit, LeftSwitch, RightSwitch, If,
                        TypeOK, RegistersOK
    <3>5. /\ vtarget'[a] # 0 => Abs(homeSpeed[a]) \div 2 > 0
          /\ Abs(homeSpeed[a]) \div 2 > 0 =>
               \/ x[a] = 0 /\ vtarget'[a] = 1
               \/ x[a] = Track /\ vtarget'[a] = -1
      BY <3>3, <3>4 DEF Sgn
    <3>6. Back(a)' = Back(a) /\ Back(a) \in {-1, 0, 1}
      BY <3>2, SgnType DEF Back
    <3>7. NotPushing(a)' /\ StaysForPoll(a)'
      BY <2>1, <3>2, <3>6 DEF NotPushing, StaysForPoll, HomeSensor
    <3>8. TurnsAtEnd(a)'
      BY <1>1, <3>2, <3>5, <3>6, Sizes DEF TurnsAtEnd, NotPushing
    <3>9. rampmode'[a] = "velocity"
      BY <2>3 DEF Reverse, TMC429_MotorRotate, TypeOK, RegistersOK
    <3> QED
      BY <3>7, <3>8, <3>9 DEF RunOK
  <2> QED
    BY <1>5, <2>2, <2>3
    DEF LimitSensorProcess, OriginFound, LimitReached, AtHomeLimit, HomesAlone
<1> QED
  BY <1>2, <1>3, <1>4, <1>5

(* What a homing axis does, it does between two polls.                     *)
LEMMA MoveAllows ==
  ASSUME TypeOK, TypeOK', PollInv, NEW a \in Axes, Accelerate(a) \/ Step(a),
         goHome[a], Polling
  PROVE  /\ Allowance(a) >= 1 /\ Allowance(a)' = Allowance(a) - 1
         /\ Allowance(a) <= 1 + Reach
         /\ Allowance(a) \in Nat /\ Allowance(a)' \in Nat
<1>1. /\ Allowance(a) = slack[a] + Skid * Before(a)
      /\ Allowance(a)' = slack'[a] + Skid * Before(a)'
      /\ slack[a] \in Nat /\ Skid * Before(a) \in Nat
      /\ Allowance(a) \in Nat /\ Allowance(a)' \in Nat
  BY AllowanceType, AllowanceTypeAfter DEF AllowanceOK
<1>2. Before(a)' = Before(a)
  BY DEF Accelerate, Step, thread, Before
<1>3. slack[a] > 0 /\ slack'[a] = slack[a] - 1
  BY DEF Accelerate, Step, WithinPoll, Sampled, TypeOK, FirmwareOK
<1> QED
  BY <1>1, <1>2, <1>3 DEF PollInv

(* The switches of a homing axis.                                          *)
LEMMA Switches ==
  ASSUME TypeOK, AsConfigured, FlagsNeedInit, NEW a \in Axes, goHome[a],
         NEW cell, NEW v
  PROVE  /\ "EN_SD" \in If(a)
         /\ SwitchStops(a, cell, v) <=> (v = -1 /\ cell = 0) \/ (v = 1 /\ cell = Track)
  BY DevType DEF FlagsNeedInit, Homing, AsConfigured, SwitchStops, LeftSwitch, RightSwitch, If

LEMMA AccelerateSpares ==
  ASSUME SensorWide, TypeOK, TypeOK', AsConfigured, FlagsNeedInit, PollInv,
         NEW a \in Axes, Accelerate(a), RunOK(a)
  PROVE  RunOK(a)'
<1> SUFFICES ASSUME HomesAlone(a)
             PROVE  NotPushing(a)' /\ TurnsAtEnd(a)' /\ StaysForPoll(a)'
  BY DEF Accelerate, homing, RunOK, HomesAlone
<1>0. goHome[a]
  BY DEF HomesAlone
<1>1. /\ NotPushing(a) /\ TurnsAtEnd(a) /\ rampmode[a] = "velocity"
      /\ vactual[a] \in {-1, 0, 1} /\ vtarget[a] \in {-1, 0, 1} /\ x[a] \in 0..Track
      /\ Back(a) \in {-1, 0, 1}
  BY SgnType, SMTT(40) DEF RunOK, Back, TypeOK, RegistersOK, FirmwareOK
<1>2. /\ x'[a] = x[a] /\ vtarget'[a] = vtarget[a] /\ homeSpeed'[a] = homeSpeed[a]
      /\ Back(a)' = Back(a) /\ HomeSensor(a)' = HomeSensor(a) /\ Polling' = Polling
  BY DEF Accelerate, homing, thread, Back, HomeSensor, Polling
<1>3. Goal(a) = IF (vtarget[a] = -1 /\ x[a] = 0) \/ (vtarget[a] = 1 /\ x[a] = Track)
                THEN 0 ELSE vtarget[a]
  BY <1>0, <1>1, Switches DEF Goal
<1>4. vactual[a] # Goal(a) /\ vactual'[a] = vactual[a] + Sgn(Goal(a) - vactual[a])
  <2>1. ~SwitchStops(a, x[a], vactual[a])
    BY <1>0, <1>1, Switches DEF NotPushing
  <2> QED
    BY <2>1 DEF Accelerate, TypeOK, RegistersOK
<1>5. NotPushing(a)'
  BY <1>1, <1>2, <1>3, <1>4, Sizes DEF NotPushing, Sgn
(* It sets out for the way back from an end of the track.                  *)
<1>6. ASSUME Back(a) # 0, vactual'[a] = Back(a)
      PROVE  vtarget[a] = Back(a) /\ vactual[a] = 0 /\ x[a] \in {0, Track} /\ Polling
  BY <1>1, <1>3, <1>4, <1>6 DEF TurnsAtEnd, NotPushing, Sgn
<1>7. TurnsAtEnd(a)'
  <2>1. ASSUME Back(a) # 0, vtarget[a] = Back(a)
        PROVE  vactual'[a] = Back(a)
    <3>1. CASE vactual[a] = Back(a)
      BY <1>1, <1>3, <1>4, <2>1, <3>1 DEF NotPushing
    <3>2. CASE vactual[a] = 0 /\ x[a] \in {0, Track}
      BY <1>1, <1>3, <1>4, <2>1, <3>2 DEF Sgn
    <3> QED
      BY <1>1, <2>1, <3>1, <3>2 DEF TurnsAtEnd
  <2> QED
    BY <1>1, <1>2, <1>6, <2>1 DEF TurnsAtEnd
<1>8. StaysForPoll(a)'
  <2> SUFFICES ASSUME Back(a) \in {-1, 1}, vactual'[a] = Back(a), x[a] \in HomeZone
               PROVE  /\ Back(a) = 1 => x[a] + Allowance(a)' \in HomeZone
                      /\ Back(a) = -1 => x[a] - Allowance(a)' \in HomeZone
    BY <1>1, <1>2 DEF StaysForPoll, HomeSensor
  <2>1. vtarget[a] = Back(a) /\ vactual[a] = 0 /\ x[a] \in {0, Track} /\ Polling
    BY <1>6
  <2>2. x[a] = IF Back(a) = 1 THEN 0 ELSE Track
    BY <1>3, <1>4, <2>1, Sizes DEF Sgn
  <2>3. Allowance(a)' \in Nat /\ Allowance(a)' <= Reach /\ Reach \in Nat
    BY <1>0, <2>1, MoveAllows, Products
  <2>4. PICK lo \in Int, hi \in Int : HomeZone = lo..hi /\ hi - lo >= Reach
    BY DEF SensorWide
  <2>5. HomeZone \subseteq 0..Track /\ Track \in Nat
    BY Inputs, Sizes
  <2>6. lo \in HomeZone /\ hi \in HomeZone
    BY <2>3, <2>4
  <2>7. lo \in 0..Track /\ hi \in 0..Track
    BY <2>5, <2>6
  <2> QED
    BY <2>2, <2>3, <2>4, <2>5, <2>7
<1> QED
  BY <1>5, <1>7, <1>8

(* A step of a homing axis is a cell along its track, and ends at a switch *)
(* in its way.                                                             *)
LEMMA HomingStep ==
  ASSUME TypeOK, AsConfigured, FlagsNeedInit, NEW a \in Axes, Step(a), HomesAlone(a),
         RunOK(a)
  PROVE  /\ vactual[a] \in {-1, 1} /\ x[a] \in 0..Track /\ x'[a] \in 0..Track
         /\ x'[a] = x[a] + vactual[a]
         /\ vactual'[a] = IF \/ vactual[a] = -1 /\ x'[a] = 0
                             \/ vactual[a] = 1 /\ x'[a] = Track
                          THEN 0 ELSE vactual[a]
<1> DEFINE v == vactual[a]
           cell == x[a] + v
<1>0. goHome[a]
  BY DEF HomesAlone
<1>1. /\ v \in {-1, 1} /\ x[a] \in 0..Track /\ rampmode[a] = "velocity"
      /\ ~SwitchStops(a, x[a], v)
  BY DEF Step, RunOK, TypeOK, RegistersOK
<1>2. cell \in 0..Track
  BY <1>0, <1>1, Switches, Sizes
<1>3. x'[a] = cell
  BY <1>0, <1>1, <1>2, Switches, Sizes DEF Step, Clip, TypeOK, RegistersOK
<1>4. vactual'[a] = IF SwitchStops(a, x'[a], v) THEN 0 ELSE v
  BY <1>1, <1>3 DEF Step, TypeOK, RegistersOK
<1> QED
  BY <1>0, <1>1, <1>2, <1>3, <1>4, Switches

(* An axis on its way back that reaches the sensor does so at its edge,    *)
(* and the sensor is wide enough for what it may still move.               *)
LEMMA ReachesSensor ==
  ASSUME SensorWide, NEW c \in Int, c \notin HomeZone, NEW n \in Nat, n <= Reach
  PROVE  /\ c + 1 \in HomeZone => (c + 1) + n \in HomeZone
         /\ c - 1 \in HomeZone => (c - 1) - n \in HomeZone
<1>1. PICK lo \in Int, hi \in Int : HomeZone = lo..hi /\ hi - lo >= Reach
  BY DEF SensorWide
<1>2. Reach \in Nat
  BY Products
<1>3. c + 1 \in HomeZone => c + 1 = lo
  BY <1>1
<1>4. c - 1 \in HomeZone => c - 1 = hi
  BY <1>1
<1> QED
  BY <1>1, <1>2, <1>3, <1>4

LEMMA StepSpares ==
  ASSUME SensorWide, TypeOK, TypeOK', AsConfigured, FlagsNeedInit, PollInv,
         NEW a \in Axes, Step(a), RunOK(a)
  PROVE  RunOK(a)'
<1> SUFFICES ASSUME HomesAlone(a)
             PROVE  NotPushing(a)' /\ TurnsAtEnd(a)' /\ StaysForPoll(a)'
  BY DEF Step, homing, RunOK, HomesAlone
<1>0. goHome[a]
  BY DEF HomesAlone
<1>1. /\ vactual[a] \in {-1, 1} /\ x[a] \in 0..Track /\ x'[a] \in 0..Track
      /\ x'[a] = x[a] + vactual[a]
      /\ vactual'[a] = IF \/ vactual[a] = -1 /\ x'[a] = 0
                          \/ vactual[a] = 1 /\ x'[a] = Track
                       THEN 0 ELSE vactual[a]
  BY HomingStep
<1>2. /\ vtarget'[a] = vtarget[a] /\ homeSpeed'[a] = homeSpeed[a]
      /\ Back(a)' = Back(a) /\ Polling' = Polling
  BY DEF Step, homing, thread, Back, Polling
<1>3. TurnsAtEnd(a) /\ StaysForPoll(a) /\ Back(a) \in {-1, 0, 1}
  BY SgnType DEF RunOK, Back, TypeOK, FirmwareOK
<1>4. NotPushing(a)'
  BY <1>1, Sizes DEF NotPushing
<1>5. TurnsAtEnd(a)'
  BY <1>1, <1>2, <1>3, Sizes DEF TurnsAtEnd
<1>6. StaysForPoll(a)'
  <2> SUFFICES ASSUME Back(a) \in {-1, 1}, vactual'[a] = Back(a), x'[a] \in HomeZone
               PROVE  /\ Back(a) = 1 => x'[a] + Allowance(a)' \in HomeZone
                      /\ Back(a) = -1 => x'[a] - Allowance(a)' \in HomeZone
    BY <1>2, <1>3 DEF StaysForPoll, HomeSensor
  <2>1. vactual[a] = Back(a) /\ Polling
    BY <1>1, <1>3 DEF TurnsAtEnd
  <2>2. /\ Allowance(a)' = Allowance(a) - 1 /\ Allowance(a)' <= Reach
        /\ Allowance(a) \in Nat /\ Allowance(a)' \in Nat
    BY <1>0, <2>1, MoveAllows, Products
  <2>3. CASE x[a] \in HomeZone
    <3>1. x'[a] + Allowance(a)' = x[a] + Allowance(a) \/ Back(a) # 1
      BY <1>1, <2>1, <2>2
    <3>2. x'[a] - Allowance(a)' = x[a] - Allowance(a) \/ Back(a) # -1
      BY <1>1, <2>1, <2>2
    <3> QED
      BY <1>3, <2>1, <2>3, <3>1, <3>2 DEF StaysForPoll, HomeSensor
  <2>4. CASE x[a] \notin HomeZone
    BY <1>1, <2>1, <2>2, <2>4, ReachesSensor
  <2> QED
    BY <2>3, <2>4
<1> QED
  BY <1>4, <1>5, <1>6

LEMMA RunStep ==
  ASSUME SafeHost, SensorWide, ReferenceInv, PollInv,
         TypeOK', [Next]_vars, NEW a \in Axes, RunOK(a)
  PROVE  RunOK(a)'
<1> USE DEF ReferenceInv
<1>1. CASE UNCHANGED vars
  BY <1>1 DEF vars, chip, homing, thread, RunOK, NotPushing, TurnsAtEnd, StaysForPoll,
              HomesAlone, HomeSensor, Polling, Back, Allowance, Before
<1>2. CASE tmc429_hw_init \/ Reset
  BY <1>2 DEF tmc429_hw_init, Reset, RunOK, HomesAlone
<1>3. CASE HostStep /\ ~tmc429_hw_init /\ ~Reset
  BY <1>3, CommandsSpare
<1>4. CASE SensorWake \/ SensorCheck
  <2>1. Allowance(a)' <= Allowance(a)
    BY <1>4, OthersAllow
  <2>2. HomesAlone(a)' => HomesAlone(a) /\ (Polling => Polling')
    BY <1>4 DEF SensorWake, SensorCheck, homing, Polling, Homing, HomesAlone
  <2> QED
    BY <1>4, <2>1, <2>2, SameRun DEF SensorWake, SensorCheck, chip, homing
<1>5. ASSUME NEW b \in Axes, LimitSensorProcess(b)
      PROVE  RunOK(a)'
  BY <1>5, PollSpares
<1>6. ASSUME NEW b \in Axes, b # a, Accelerate(b) \/ Step(b)
      PROVE  RunOK(a)'
  <2>1. Allowance(a)' <= Allowance(a)
    BY <1>6, OthersAllow
  <2> QED
    BY <1>6, <2>1, SameRun
    DEF Accelerate, Step, homing, thread, Polling, HomesAlone, TypeOK, RegistersOK
<1>7. CASE Accelerate(a) \/ Step(a)
  BY <1>7, AccelerateSpares, StepSpares
<1> QED
  BY <1>1, <1>2, <1>3, <1>4, <1>5, <1>6, <1>7 DEF Next, SensorStep

(* The sensor is not left behind.                                          *)
LEMMA SensorKept ==
  ASSUME SensorWide, ReferenceInv, PollInv, TypeOK', [Next]_vars,
         NEW a \in Axes, RunOK(a),
         HomesAlone(a), Polling, ReturningHome(a), HomeSensor(a)
  PROVE  HomeSensor(a)' \/ ~goHome'[a]
<1> USE DEF ReferenceInv
<1>1. CASE Step(a)
  <2>1. vactual[a] \in {-1, 1} /\ x[a] \in 0..Track /\ x'[a] = x[a] + vactual[a]
    BY <1>1, HomingStep
  <2>2. vactual[a] = Back(a)
    BY <2>1, SgnType DEF ReturningHome, Back, TypeOK, FirmwareOK
  <2>3. Allowance(a) \in Nat /\ Allowance(a) >= 1
    BY <1>1, MoveAllows DEF HomesAlone
  <2>4. x[a] \in HomeZone /\ x[a] \in Int /\ x'[a] \in Int
    BY <2>1, Sizes DEF HomeSensor
  <2>5. CASE vactual[a] = 1
    <3>1. x[a] + Allowance(a) \in HomeZone
      BY <2>2, <2>5 DEF RunOK, StaysForPoll
    <3>2. x[a] <= x'[a] /\ x'[a] <= x[a] + Allowance(a)
      BY <2>1, <2>3, <2>4, <2>5
    <3> QED
      BY <2>4, <3>1, <3>2, Between DEF HomeSensor
  <2>6. CASE vactual[a] = -1
    <3>1. x[a] - Allowance(a) \in HomeZone
      BY <2>2, <2>6 DEF RunOK, StaysForPoll
    <3>2. x[a] - Allowance(a) <= x'[a] /\ x'[a] <= x[a]
      BY <2>1, <2>3, <2>4, <2>6
    <3> QED
      BY <2>4, <3>1, <3>2, Between DEF HomeSensor
  <2> QED
    BY <2>1, <2>5, <2>6
<1>2. CASE ~Step(a)
  <2>1. x'[a] = x[a]
    <3>1. CASE HostStep
      BY <3>1, CommandsLeave DEF tmc429_hw_init, Reset
    <3>2. CASE SensorStep
      BY <3>2 DEF SensorStep, SensorWake, SensorCheck, LimitSensorProcess, OriginFound,
                  LimitReached, CountLimit, Reverse, NothingToDo, setPositionAsOrigin
    <3>3. ASSUME NEW b \in Axes, Accelerate(b) \/ Step(b)
          PROVE  x'[a] = x[a]
      BY <1>2, <3>3 DEF Accelerate, Step, TypeOK, RegistersOK
    <3>4. CASE UNCHANGED vars
      BY <3>4 DEF vars
    <3> QED
      BY <3>1, <3>2, <3>3, <3>4 DEF Next
  <2> QED
    BY <2>1 DEF HomeSensor
<1> QED
  BY <1>1, <1>2

LEMMA RunsInit == Init => PollInv /\ \A a \in Axes : RunOK(a)
<1> SUFFICES ASSUME Init PROVE PollInv /\ \A a \in Axes : RunOK(a)
  OBVIOUS
<1>1. TypeOK /\ sensor = "off" /\ slack = [a \in Axes |-> 0]
  BY TypeInit DEF Init
<1>2. PollInv
  BY <1>1, AllowanceType, Products DEF PollInv, AllowanceOK
<1>3. \A a \in Axes : RunOK(a)
  BY DEF Init, RunOK, HomesAlone
<1> QED
  BY <1>2, <1>3

(* For any number of axes, speeds and sensors, and a host that commands    *)
(* any axis at any time: if a sensor is wider than an axis moves while     *)
(* every other axis is stopped for 20 ms, no axis whose run is its own     *)
(* runs past its sensor on the way back.                                   *)
THEOREM SensorNotPassed ==
  SafeHost /\ SensorWide => (Spec => OriginNotMissed)
<1> SUFFICES ASSUME SafeHost, SensorWide
             PROVE  Spec => OriginNotMissed
  OBVIOUS
<1> DEFINE Runs == PollInv /\ \A a \in Axes : RunOK(a)
<1>1. Init => Runs
  BY RunsInit
<1>2. ReferenceInv /\ TypeOK' /\ Runs /\ [Next]_vars => Runs'
  BY PollStep, RunStep DEF ReferenceInv
<1>3. ReferenceInv /\ TypeOK' /\ Runs /\ [Next]_vars =>
        [\A a \in Axes :
           HomesAlone(a) /\ Polling /\ ReturningHome(a) /\ HomeSensor(a)
             => HomeSensor(a)' \/ ~goHome'[a]]_vars
  BY SensorKept
<1> HIDE DEF Runs
<1> QED
  BY <1>1, <1>2, <1>3, TypeCorrect, ReferenceInductive, PTL
  DEF Spec, OriginNotMissed

-----------------------------------------------------------------------------
(* The way of a homing run.                                                *)

(* The end switches are beside the sensor, not under it.                   *)
SensorInside == HomeZone \subseteq 1..(Track - 1)

(* A run is driven one way or the other, and one that has turned has its   *)
(* sensor, or a part of it, still before it.                               *)
SensorAhead(a) ==
  /\ Back(a) = 1 => \E c \in HomeZone : x[a] <= c
  /\ Back(a) = -1 => \E c \in HomeZone : c <= x[a]
Driven(a) ==
  HomesAlone(a) /\ Abs(homeSpeed[a]) > 1 =>
    /\ vtarget[a] \in {-1, 1}
    /\ vtarget[a] = Back(a) => SensorAhead(a)

(* A speed that the reversal does not halve to 0 has a sign.               *)
LEMMA Speedy ==
  ASSUME NEW s \in Int, Abs(s) > 1
  PROVE  Sgn(s) \in {-1, 1} /\ Abs(s) \div 2 \in Nat \ {0}
  BY DEF Sgn, Abs

(* A run starts with the sign of its speed.                                *)
LEMMA RunStarts ==
  ASSUME TypeOK, [Next]_vars, NEW a \in Axes, ~HomesAlone(a), HomesAlone(a)'
  PROVE  vtarget'[a] = Sgn(homeSpeed'[a])
<1>1. CASE UNCHANGED vars \/ SensorStep
  BY <1>1 DEF vars, homing, SensorStep, SensorWake, SensorCheck, LimitSensorProcess,
              OriginFound, LimitReached, CountLimit, Reverse, NothingToDo,
              setPositionAsOrigin, Disturbs, HomesAlone, TypeOK, FirmwareOK
<1>2. ASSUME NEW b \in Axes, Accelerate(b) \/ Step(b)
      PROVE  FALSE
  BY <1>2 DEF Accelerate, Step, homing, HomesAlone
<1>3. CASE HostStep
  <2>1. ASSUME NEW n \in StopArgs, StopMotorByHW(n)
        PROVE  FALSE
    BY <2>1 DEF StopMotorByHW, Disturbs, HomesAlone, TypeOK, FirmwareOK
  <2>2. ASSUME NEW b \in Axes, NEW s, NEW op, NEW side,
               \/ Rotate(b, s) \/ SetSpeed(b, op, s) \/ TMC429_MoveToPosition(b, op, s)
               \/ SetPosition(b, op, s) \/ SetLimitDisable(b, side, s)
               \/ SetLimitSignal(b, s)
        PROVE  FALSE
    BY <2>2 DEF Rotate, SetSpeed, TMC429_MoveToPosition, SetPosition, SetLimitDisable,
                SetLimitSignal, Disturbs, HomesAlone, homing, TypeOK, FirmwareOK
  <2>3. ASSUME NEW b \in Axes, NEW s, StartHoming(b, s, TRUE) \/ StartHoming(b, s, FALSE)
        PROVE  vtarget'[a] = Sgn(homeSpeed'[a])
    BY <2>3 DEF StartHoming, HomesAlone, TMC429_MotorRotate, TypeOK, RegistersOK, FirmwareOK
  <2>4. ~tmc429_hw_init /\ ~Reset
    BY DEF tmc429_hw_init, Reset, HomesAlone
  <2> QED
    BY <1>3, <2>1, <2>2, <2>3, <2>4
    DEF HostStep, motor_gohome_config, motor_golimit_config
<1> QED
  BY <1>1, <1>2, <1>3 DEF Next

(* A run that goes on is left alone, but for its own moves and the         *)
(* reversal.                                                               *)
LEMMA RunGoesOn ==
  ASSUME TypeOK, FlagsNeedInit, [Next]_vars, NEW a \in Axes, HomesAlone(a), HomesAlone(a)'
  PROVE  /\ homeSpeed'[a] = homeSpeed[a]
         /\ \/ Step(a) \/ Reverse(a)
            \/ x'[a] = x[a] /\ vtarget'[a] = vtarget[a]
<1>1. CASE UNCHANGED vars \/ SensorWake \/ SensorCheck
  BY <1>1 DEF vars, chip, homing, SensorWake, SensorCheck
<1>2. ASSUME NEW b \in Axes, LimitSensorProcess(b)
      PROVE  /\ homeSpeed'[a] = homeSpeed[a]
             /\ Reverse(a) \/ (x'[a] = x[a] /\ vtarget'[a] = vtarget[a])
  BY <1>2 DEF LimitSensorProcess, OriginFound, LimitReached, CountLimit, Reverse,
              NothingToDo, TMC429_MotorRotate, setPositionAsOrigin, chip, homing,
              HomesAlone, TypeOK, RegistersOK, FirmwareOK
<1>3. ASSUME NEW b \in Axes, Accelerate(b) \/ Step(b)
      PROVE  /\ homeSpeed'[a] = homeSpeed[a]
             /\ Step(a) \/ (x'[a] = x[a] /\ vtarget'[a] = vtarget[a])
  BY <1>3 DEF Accelerate, Step, homing, TypeOK, RegistersOK, FirmwareOK
<1>4. CASE HostStep
  <2>1. ~tmc429_hw_init /\ ~Reset
    BY DEF tmc429_hw_init, Reset, HomesAlone, FlagsNeedInit, Homing
  <2>2. x'[a] = x[a]
    BY <1>4, <2>1, CommandsLeave
  <2>3. ASSUME NEW n \in StopArgs, StopMotorByHW(n)
        PROVE  vtarget'[a] = vtarget[a] /\ homeSpeed'[a] = homeSpeed[a]
    BY <2>3, Inputs, Sizes DEF StopMotorByHW, HomesAlone, Axes, TypeOK, RegistersOK, FirmwareOK
  <2>4. ASSUME NEW b \in Axes, NEW s, StartHoming(b, s, TRUE) \/ StartHoming(b, s, FALSE)
        PROVE  vtarget'[a] = vtarget[a] /\ homeSpeed'[a] = homeSpeed[a]
    BY <2>4, ZenonT(60) DEF StartHoming, Homing, HomesAlone, TMC429_MotorRotate,
                TypeOK, RegistersOK, FirmwareOK
  <2>5. ASSUME NEW b \in Axes, NEW s, NEW op, NEW side,
               \/ Rotate(b, s) \/ SetSpeed(b, op, s) \/ TMC429_MoveToPosition(b, op, s)
               \/ SetPosition(b, op, s) \/ SetLimitDisable(b, side, s)
               \/ SetLimitSignal(b, s)
        PROVE  vtarget'[a] = vtarget[a] /\ homeSpeed'[a] = homeSpeed[a]
    <3>1. Disturbs(b)
      BY <2>5 DEF Rotate, SetSpeed, TMC429_MoveToPosition, SetPosition, SetLimitDisable,
                  SetLimitSignal
    <3>2. b # a
      BY <3>1 DEF Disturbs, HomesAlone, TypeOK, FirmwareOK
    <3> QED
      BY <2>5, <3>2 DEF Rotate, SetSpeed, TMC429_MoveToPosition, SetPosition,
         SetLimitDisable, SetLimitSignal, TMC429_MotorRotate, homing,
         TypeOK, RegistersOK, FirmwareOK
  <2> QED
    BY <1>4, <2>1, <2>2, <2>3, <2>4, <2>5
    DEF HostStep, motor_gohome_config, motor_golimit_config
<1> QED
  BY <1>1, <1>2, <1>3, <1>4 DEF Next, SensorStep

(* The reversal drives an axis away from the end it stands at.             *)
LEMMA ReversesAtEnd ==
  ASSUME TypeOK, AsConfigured, FlagsNeedInit, NEW a \in Axes, Reverse(a),
         Abs(homeSpeed[a]) > 1
  PROVE  /\ x'[a] = x[a]
         /\ (x[a] = 0 /\ vtarget'[a] = 1) \/ (x[a] = Track /\ vtarget'[a] = -1)
<1>1. ifconf[getTMC429_DEV(a)] = {"EN_SD", "EN_REFR"}
  BY DevType DEF Reverse, FlagsNeedInit, Homing, AsConfigured
<1>2. homeSpeed[a] \in Int
  BY DEF TypeOK, FirmwareOK
<1>3. Abs(homeSpeed[a]) \div 2 \in Nat \ {0}
  BY <1>2, Speedy
<1>4. /\ x'[a] = x[a]
      /\ \/ x[a] = 0 /\ vtarget'[a] = Sgn(Abs(homeSpeed[a]) \div 2)
         \/ x[a] = Track /\ vtarget'[a] = Sgn(-(Abs(homeSpeed[a]) \div 2))
  BY <1>1 DEF Reverse, TMC429_MotorRotate, AtLimit, LeftSwitch, RightSwitch, If,
              TypeOK, RegistersOK
<1> QED
  BY <1>3, <1>4 DEF Sgn

(* A run that moves, moves the way it is driven.                           *)
LEMMA MovesAsDriven ==
  ASSUME TypeOK, AsConfigured, FlagsNeedInit, NEW a \in Axes,
         RunOK(a), Driven(a), HomesAlone(a), Abs(homeSpeed[a]) > 1, Step(a)
  PROVE  /\ vactual[a] = vtarget[a] /\ vtarget'[a] = vtarget[a]
         /\ x'[a] = x[a] + vtarget[a]
<1>1. vactual[a] \in {-1, 1} /\ x'[a] = x[a] + vactual[a]
  BY HomingStep
<1>2. homeSpeed[a] \in Int
  BY DEF TypeOK, FirmwareOK
<1>3. Back(a) \in {-1, 1}
  BY <1>2, Speedy DEF Back
<1>4. vtarget[a] \in {-1, 1} /\ TurnsAtEnd(a)
  BY DEF Driven, RunOK
<1>5. vactual[a] = vtarget[a]
  BY <1>1, <1>3, <1>4 DEF TurnsAtEnd
<1> QED
  BY <1>1, <1>5 DEF Step

(* A run that has turned keeps its sensor before it until it is found.     *)
LEMMA DrivenStep ==
  ASSUME SensorWide, ReferenceInv, PollInv, TypeOK',
         [Next]_vars, NEW a \in Axes, RunOK(a), Driven(a)
  PROVE  Driven(a)'
<1> USE DEF ReferenceInv
<1> SUFFICES ASSUME HomesAlone(a)', Abs(homeSpeed'[a]) > 1
             PROVE  /\ vtarget'[a] \in {-1, 1}
                    /\ vtarget'[a] = Back(a)' => SensorAhead(a)'
  BY DEF Driven
<1>0. homeSpeed'[a] \in Int /\ Back(a)' = -Sgn(homeSpeed'[a]) /\ Track \in Nat
  BY Sizes DEF TypeOK, FirmwareOK, Back
<1>1. Sgn(homeSpeed'[a]) \in {-1, 1}
  BY <1>0, Speedy
<1>2. CASE ~HomesAlone(a)
  <2>1. vtarget'[a] = Sgn(homeSpeed'[a])
    BY <1>2, RunStarts
  <2> QED
    BY <1>0, <1>1, <2>1
<1>3. CASE HomesAlone(a)
  <2>1. homeSpeed'[a] = homeSpeed[a] /\ Back(a)' = Back(a) /\ Abs(homeSpeed[a]) > 1
    BY <1>3, RunGoesOn DEF Back
  <2>2. vtarget[a] \in {-1, 1} /\ (vtarget[a] = Back(a) => SensorAhead(a))
    BY <1>3, <2>1 DEF Driven
  <2>3. CASE x'[a] = x[a] /\ vtarget'[a] = vtarget[a]
    BY <2>1, <2>2, <2>3 DEF SensorAhead
  <2>4. CASE Reverse(a)
    <3>1. (x'[a] = 0 /\ vtarget'[a] = 1) \/ (x'[a] = Track /\ vtarget'[a] = -1)
      BY <2>1, <2>4, ReversesAtEnd
    <3>2. PICK c \in HomeZone : TRUE
      <4>1. PICK lo \in Int, hi \in Int : HomeZone = lo..hi /\ hi - lo >= Reach
        BY DEF SensorWide
      <4>2. Reach \in Nat
        BY Products
      <4> QED
        BY <4>1, <4>2
    <3>3. 0 <= c /\ c <= Track
      BY <1>0, Inputs
    <3> QED
      BY <1>0, <3>1, <3>2, <3>3 DEF SensorAhead
  <2>5. CASE Step(a)
    <3>1. /\ vactual[a] = vtarget[a] /\ vtarget'[a] = vtarget[a]
          /\ x'[a] = x[a] + vtarget[a]
      BY <1>3, <2>1, <2>5, MovesAsDriven
    <3> SUFFICES ASSUME vtarget[a] = Back(a)
                 PROVE  SensorAhead(a)'
      BY <2>1, <2>2, <3>1
    <3>2. x[a] \in Int /\ x'[a] \in Int /\ HomeZone \subseteq Int
      BY <1>0, Inputs DEF TypeOK, RegistersOK
    <3>3. CASE HomeSensor(a)
      <4>1. Polling /\ ReturningHome(a)
        BY <1>0, <1>1, <1>3, <2>1, <3>1 DEF RunOK, TurnsAtEnd, ReturningHome
      <4>2. x'[a] \in HomeZone
        BY <1>3, <3>3, <4>1, SensorKept DEF HomeSensor, HomesAlone
      <4> QED
        BY <3>2, <4>2 DEF SensorAhead
    <3>4. CASE ~HomeSensor(a)
      BY <2>1, <2>2, <3>1, <3>2, <3>4 DEF SensorAhead, HomeSensor
    <3> QED
      BY <3>3, <3>4
  <2> QED
    BY <1>3, <2>3, <2>4, <2>5, RunGoesOn
<1> QED
  BY <1>2, <1>3

LEMMA RunStepAdvances ==
  ASSUME SensorInside, ReferenceInv,
         [Next]_vars, NEW a \in Axes, RunOK(a), Driven(a),
         HomesAlone(a), HomesAlone(a)', Abs(homeSpeed[a]) > 1
  PROVE  /\ CellsAhead(a)' <= CellsAhead(a)
         /\ x'[a] # x[a] => CellsAhead(a)' < CellsAhead(a)
<1> USE DEF ReferenceInv
<1>0. /\ x[a] \in 0..Track /\ Track \in Nat /\ homeSpeed[a] \in Int
      /\ Back(a) = -Sgn(homeSpeed[a]) /\ vtarget[a] \in {-1, 1}
      /\ vtarget[a] = Back(a) => SensorAhead(a)
      /\ homeSpeed'[a] = homeSpeed[a]
  BY Sizes, RunGoesOn DEF TypeOK, RegistersOK, FirmwareOK, Back, Driven
<1>1. Back(a) \in {-1, 1} /\ Sgn(homeSpeed[a]) \in {-1, 1}
  BY <1>0, Speedy
<1>2. /\ CellsAhead(a) = (IF vtarget[a] = 1 THEN Track - x[a] ELSE x[a])
                           + (IF vtarget[a] = Back(a) THEN 0 ELSE Track + 1)
      /\ CellsAhead(a)' = (IF vtarget'[a] = 1 THEN Track - x'[a] ELSE x'[a])
                            + (IF vtarget'[a] = Back(a) THEN 0 ELSE Track + 1)
  BY <1>0 DEF CellsAhead, Turned
<1>3. CASE x'[a] = x[a] /\ vtarget'[a] = vtarget[a]
  BY <1>0, <1>2, <1>3
<1>4. CASE Reverse(a)
  <2>1. /\ x'[a] = x[a]
        /\ (x[a] = 0 /\ vtarget'[a] = 1) \/ (x[a] = Track /\ vtarget'[a] = -1)
    BY <1>4, ReversesAtEnd
  <2>2. ASSUME vtarget[a] = Back(a)
        PROVE  (Back(a) = 1 => x[a] # Track) /\ (Back(a) = -1 => x[a] # 0)
    BY <1>0, <2>2 DEF SensorAhead, SensorInside
  <2>3. CASE vtarget'[a] = vtarget[a]
    BY <1>0, <1>2, <2>1, <2>3
  <2>4. CASE vtarget'[a] # vtarget[a]
    <3>1. vtarget[a] # Back(a) /\ vtarget'[a] = Back(a)
      BY <1>0, <1>1, <2>1, <2>2, <2>4
    <3>2. CellsAhead(a)' = Track
      BY <1>0, <1>2, <2>1, <3>1
    <3>3. CellsAhead(a) = Track + 1
      BY <1>0, <1>2, <2>1, <2>4, <3>1
    <3> QED
      BY <1>0, <2>1, <3>2, <3>3
  <2> QED
    BY <2>3, <2>4
<1>5. CASE Step(a)
  BY <1>0, <1>1, <1>2, <1>5, MovesAsDriven
<1> QED
  BY <1>3, <1>4, <1>5, RunGoesOn

(* A homing run that goes on comes nearer to its end with every cell, for  *)
(* any number of axes, speeds and length of the tracks: it turns round at  *)
(* most once, at an end it was driven to, and on its way back it does not  *)
(* get to the other end, where MotorSensor would turn it round again,      *)
(* before it is found on the sensor.  The sensor must be as wide as for    *)
(* SensorNotPassed, and apart from the ends: an axis that stands on both   *)
(* a switch and the sensor is not seen to return.                          *)
THEOREM RunsAdvance ==
  SafeHost /\ SensorWide /\ SensorInside => (Spec => RunAdvances)
<1> SUFFICES ASSUME SafeHost, SensorWide, SensorInside
             PROVE  Spec => RunAdvances
  OBVIOUS
<1> DEFINE Runs == PollInv /\ \A a \in Axes : RunOK(a) /\ Driven(a)
<1>1. Init => Runs
  BY RunsInit DEF Init, Driven, HomesAlone
<1>2. ReferenceInv /\ TypeOK' /\ Runs /\ [Next]_vars => Runs'
  BY PollStep, RunStep, DrivenStep DEF ReferenceInv
<1>3. ReferenceInv /\ Runs /\ [Next]_vars =>
        [\A a \in Axes :
           HomesAlone(a) /\ HomesAlone(a)' /\ Abs(homeSpeed[a]) > 1
             => /\ CellsAhead(a)' <= CellsAhead(a)
                /\ x'[a] # x[a] => CellsAhead(a)' < CellsAhead(a)]_vars
  BY RunStepAdvances
<1> HIDE DEF Runs
<1> QED
  BY <1>1, <1>2, <1>3, TypeCorrect, ReferenceInductive, PTL
  DEF Spec, RunAdvances

-----------------------------------------------------------------------------
(* The controller implements the homing contract.                          *)

(* A change of one axis is a change of that axis in the contract.          *)
LEMMA OnlyAxis ==
  ASSUME NEW a \in Axes, NEW p, NEW cell,
         Phase(a)' = p, Zero(a)' = cell,
         \A b \in Axes \ {a} : Phase(b)' = Phase(b) /\ Zero(b)' = Zero(b)
  PROVE  Contract!Become(a, p, cell)
  BY DEF Contract!Become

(* A step that changes no phase and no zero is a stutter of the contract.  *)
LEMMA SameForHost ==
  ASSUME \A b \in Axes : Phase(b)' = Phase(b) /\ Zero(b)' = Zero(b)
  PROVE  UNCHANGED Contract!vars
  BY DEF Contract!vars

(* So is one that leaves the flags and both positions alone.               *)
LEMMA FlagsKept ==
  ASSUME UNCHANGED <<homing, handSet, x, xactual>>
  PROVE  UNCHANGED Contract!vars
  BY SameForHost DEF Phase, Zero, Homing, homing

(* Every step of the controller is one of the contract, or a stutter.      *)
LEMMA ContractStep ==
  ASSUME SafeHost, ReferenceInv, TypeOK', ReferenceInv', [Next]_vars
  PROVE  [Contract!Next]_(Contract!vars)
<1> USE DEF ReferenceInv
<1>1. CASE UNCHANGED vars
  BY <1>1, FlagsKept DEF vars, chip
<1>2. CASE tmc429_hw_init \/ Reset
  <2>1. \A a \in Axes : Phase(a)' = "lost" /\ Zero(a)' = 0
    BY <1>2 DEF tmc429_hw_init, Reset, Phase, Zero, Homing
  <2> QED
    BY <2>1 DEF Contract!Next, Contract!Restart
<1>3. ASSUME NEW n \in StopArgs, StopMotorByHW(n)
      PROVE  [Contract!Next]_(Contract!vars)
  <2>1. n \in Axes /\ n < NMotors
    BY Sizes DEF SafeHost, Axes
  <2>2. /\ ~Homing(n)' /\ homed' = homed /\ handSet' = handSet
        /\ x' = x /\ xactual' = xactual
        /\ \A b \in Axes \ {n} : Homing(b)' <=> Homing(b)
    BY <1>3, <2>1 DEF StopMotorByHW, Homing, TypeOK, FirmwareOK
  <2>3. \A b \in Axes \ {n} : Phase(b)' = Phase(b) /\ Zero(b)' = Zero(b)
    BY <2>2 DEF Phase, Zero
  <2>4. CASE Homing(n)
    <3>1. Phase(n) = "seeking" /\ Phase(n)' = "lost" /\ Zero(n)' = 0
      BY <2>1, <2>2, <2>4 DEF Phase, Zero, FlagsNeedInit
    <3> QED
      BY <2>1, <2>3, <3>1, OnlyAxis DEF Contract!Next, Contract!Abandon
  <2>5. CASE ~Homing(n)
    BY <2>1, <2>2, <2>3, <2>5, SameForHost DEF Phase, Zero
  <2> QED
    BY <2>4, <2>5
<1>4. ASSUME NEW a \in Axes, NEW s \in HomeSpeeds, NEW b \in BOOLEAN,
             StartHoming(a, s, b)
      PROVE  [Contract!Next]_(Contract!vars)
  <2>1. Homing(a)' /\ \A c \in Axes \ {a} :
          (Homing(c)' <=> Homing(c)) /\ homed'[c] = homed[c]
    BY <1>4 DEF StartHoming, Homing, TypeOK, FirmwareOK
  <2>2. \A c \in Axes \ {a} : Phase(c)' = Phase(c) /\ Zero(c)' = Zero(c)
    BY <1>4, <2>1 DEF StartHoming, Phase, Zero
  <2>3. Phase(a)' = "seeking" /\ Zero(a)' = 0
    BY <2>1 DEF Phase, Zero
  <2> QED
    BY <2>2, <2>3, OnlyAxis DEF Contract!Next, Contract!Seek
<1>5. ASSUME NEW a \in Axes, NEW p, NEW op, SetPosition(a, op, p)
      PROVE  [Contract!Next]_(Contract!vars)
  <2>1. CASE op = "next_position"
    BY <1>5, <2>1, FlagsKept DEF SetPosition
  <2>2. CASE op = "actual_position"
    <3>1. /\ UNCHANGED homing /\ x' = x /\ handSet'[a] = TRUE
          /\ \A c \in Axes \ {a} : handSet'[c] = handSet[c] /\ xactual'[c] = xactual[c]
      BY <1>5, <2>2 DEF SetPosition, TypeOK, RegistersOK, FirmwareOK
    <3>2. \A c \in Axes : Homing(c)' = Homing(c) /\ homed'[c] = homed[c]
      BY <3>1 DEF homing, Homing
    <3>3. \A c \in Axes \ {a} : Phase(c)' = Phase(c) /\ Zero(c)' = Zero(c)
      BY <3>1, <3>2 DEF Phase, Zero
    <3>4. CASE Phase(a) = "homed"
      <4>1. Phase(a)' = "declared" /\ Zero(a)' = 0
        BY <3>1, <3>2, <3>4 DEF Phase, Zero
      <4> QED
        BY <3>3, <3>4, <4>1, OnlyAxis DEF Contract!Next, Contract!Declare
    <3>5. CASE Phase(a) # "homed"
      <4>1. Phase(a)' = Phase(a) /\ Zero(a)' = Zero(a)
        BY <3>1, <3>2, <3>5 DEF Phase, Zero
      <4> QED
        BY <3>3, <4>1, SameForHost
    <3> QED
      BY <3>4, <3>5
  <2> QED
    BY <1>5, <2>1, <2>2 DEF SetPosition
<1>6. ASSUME NEW a \in Axes, AtOrigin(a) \/ AtHomeLimit(a), setPositionAsOrigin(a)
      PROVE  [Contract!Next]_(Contract!vars)
  <2>1. Phase(a) = "seeking"
    BY <1>6 DEF AtOrigin, AtHomeLimit, Phase, Homing
  <2>2. /\ homed'[a] /\ ~Homing(a)' /\ ~handSet'[a]
        /\ \A c \in Axes \ {a} :
             /\ homed'[c] = homed[c] /\ handSet'[c] = handSet[c]
             /\ (Homing(c)' <=> Homing(c))
    BY <1>6 DEF setPositionAsOrigin, Homing, TypeOK, FirmwareOK
  <2>3. x' = x /\ \A c \in Axes \ {a} : xactual'[c] = xactual[c]
    BY <1>6 DEF setPositionAsOrigin, TypeOK, RegistersOK
  <2>4. \A c \in Axes \ {a} : Phase(c)' = Phase(c) /\ Zero(c)' = Zero(c)
    BY <2>2, <2>3 DEF Phase, Zero
  <2>5. Phase(a)' = "homed"
    BY <2>2 DEF Phase
  <2>6. Zero(a)' \in References
    BY <2>2, <2>5 DEF Zero, HomedReferenced, References
  <2>7. Contract!Become(a, "homed", Zero(a)')
    BY <2>4, <2>5, OnlyAxis
  <2>8. Contract!Find(a)
    BY <2>1, <2>6, <2>7 DEF Contract!Find, References
  <2> QED
    BY <2>8 DEF Contract!Next
<1>7. ASSUME NEW a \in Axes, Step(a) PROVE [Contract!Next]_(Contract!vars)
  <2>1. homed' = homed /\ handSet' = handSet /\ \A b \in Axes : Homing(b)' = Homing(b)
    BY <1>7 DEF Step, homing, Homing
  <2>2. \A b \in Axes : Phase(b)' = Phase(b)
    BY <2>1 DEF Phase
  <2>3. ASSUME NEW b \in Axes, Phase(b) = "homed"
        PROVE  x'[b] - xactual'[b] = x[b] - xactual[b]
    <3>1. homed[b]
      BY <2>3 DEF Phase
    <3> QED
      BY <1>7, <3>1, StepKeepsZero
  <2> QED
    BY <2>2, <2>3, SameForHost DEF Zero
<1> QED
  <2>1. CASE HostStep
    <3>1. ASSUME NEW a \in Axes, NEW s, Rotate(a, s) \/ \E op : SetSpeed(a, op, s)
          PROVE  UNCHANGED Contract!vars
      BY <3>1, FlagsKept DEF Rotate, SetSpeed
    <3>2. ASSUME NEW a \in Axes, NEW p, NEW mode, TMC429_MoveToPosition(a, mode, p)
          PROVE  UNCHANGED Contract!vars
      BY <3>2, FlagsKept DEF TMC429_MoveToPosition
    <3>3. ASSUME NEW a \in Axes, NEW b,
                 SetLimitSignal(a, b) \/ \E side : SetLimitDisable(a, side, b)
          PROVE  UNCHANGED Contract!vars
      BY <3>3, FlagsKept DEF SetLimitSignal, SetLimitDisable
    <3> QED
      BY <2>1, <1>2, <1>3, <1>4, <1>5, <3>1, <3>2, <3>3
      DEF HostStep, motor_gohome_config, motor_golimit_config
  <2>2. CASE SensorStep
    <3>1. CASE SensorWake \/ SensorCheck
      BY <3>1, FlagsKept DEF SensorWake, SensorCheck, chip
    <3>2. ASSUME NEW a \in Axes, CountLimit(a) \/ Reverse(a) \/ NothingToDo(a)
          PROVE  UNCHANGED Contract!vars
      BY <3>2, FlagsKept DEF CountLimit, Reverse, NothingToDo, chip
    <3> QED
      BY <2>2, <1>6, <3>1, <3>2
      DEF SensorStep, LimitSensorProcess, OriginFound, LimitReached
  <2>3. ASSUME NEW a \in Axes, Accelerate(a) PROVE UNCHANGED Contract!vars
    BY <2>3, FlagsKept DEF Accelerate
  <2> QED
    BY <2>1, <2>2, <2>3, <1>1, <1>7 DEF Next

(* Whatever the host does within SafeHost, what it sees of an axis is a    *)
(* behaviour of the homing contract.                                       *)
THEOREM ImplementsContract == SafeHost => (Spec => KeepsContract)
<1> SUFFICES ASSUME SafeHost PROVE Spec => KeepsContract
  OBVIOUS
<1>1. Init => Contract!Init
  BY DEF Init, Contract!Init, Phase, Zero, Homing
<1>2. ReferenceInv /\ TypeOK' /\ ReferenceInv' /\ [Next]_vars
        => [Contract!Next]_(Contract!vars)
  BY ContractStep
<1> QED
  BY <1>1, <1>2, ReferenceInductive, TypeCorrect, PTL
  DEF Spec, KeepsContract, Contract!Spec
=============================================================================
