------------------------- MODULE RampProfileProofs -------------------------
(***************************************************************************)
(* What holds of the ramp generators' configuration whatever the axes and  *)
(* the values the host gives.                                              *)
(***************************************************************************)
EXTENDS RampProfile, TLAPS

(* The shape of the registers, which is all that the invariants need of    *)
(* their type.                                                             *)
Shape ==
  /\ DOMAIN ramp_div = Axes /\ DOMAIN pulse_div = Axes
  /\ DOMAIN vmax = Axes /\ DOMAIN amax = Axes /\ DOMAIN pair = Axes
  /\ DOMAIN VMax = Axes /\ DOMAIN AMax = Axes
  /\ SpeedChangedFlag \in [Axes -> BOOLEAN] /\ byHand \in [Axes -> BOOLEAN]

Inv == Shape /\ PairFits /\ PositioningSpeed

(* The selection touches the axis it is for, and nothing but its divisor   *)
(* and its acceleration.                                                   *)
LEMMA SelectsOneAxis ==
  ASSUME Shape, NEW a \in Axes, NEW v, SelectAMaxByVMax(a, v)
  PROVE  /\ DOMAIN ramp_div' = Axes /\ DOMAIN AMax' = Axes
         /\ \A b \in Axes \ {a} : ramp_div'[b] = ramp_div[b] /\ AMax'[b] = AMax[b]
  BY DEF SelectAMaxByVMax, SelectLevel, Shape

(* SetAMax leaves the axis with a pair that fits, and the others alone.    *)
LEMMA SetsPair ==
  ASSUME Shape, NEW a \in Axes, NEW value, SetAMax(a, value)
  PROVE  /\ DOMAIN amax' = Axes /\ DOMAIN pair' = Axes
         /\ amax'[a] = Low11(value)
         /\ pair'[a] = Pair(Low11(value), ramp_div'[a], pulse_div[a])
         /\ \A b \in Axes \ {a} : amax'[b] = amax[b] /\ pair'[b] = pair[b]
  BY DEF SetAMax, Shape

(* No command leaves a stale pair or a stale positioning speed.            *)
LEMMA InvInductive == ASSUME Inv, [Next]_vars PROVE Inv'
<1> USE DEF Inv
<1>1. CASE UNCHANGED vars
  BY <1>1 DEF vars, Shape, PairFits, PositioningSpeed
<1>2. ASSUME NEW a \in Axes, NEW v, TMC429_MotorRotate(a, v) PROVE Inv'
  <2>1. /\ SelectAMaxByVMax(a, v) /\ SetAMax(a, AMax'[a])
        /\ SpeedChangedFlag' = [SpeedChangedFlag EXCEPT ![a] = TRUE]
        /\ vmax' = [vmax EXCEPT ![a] = 2047]
        /\ UNCHANGED <<pulse_div, VMax, byHand>>
    BY <1>2 DEF TMC429_MotorRotate
  <2>2. Shape'
    BY <2>1, SelectsOneAxis, SetsPair DEF Shape
  <2>3. PairFits'
    BY <2>1, SelectsOneAxis, SetsPair DEF PairFits
  <2>4. PositioningSpeed'
    BY <2>1, SelectsOneAxis, SetsPair DEF PositioningSpeed, Shape
  <2> QED
    BY <2>2, <2>3, <2>4
<1>3. ASSUME NEW a \in Axes, TMC429_MoveToPosition(a) PROVE Inv'
  <2>1. SetAMax(a, AMax[a])
    BY <1>3 DEF TMC429_MoveToPosition
  <2> QED
    BY <1>3, <2>1, SetsPair DEF TMC429_MoveToPosition, Shape, PairFits, PositioningSpeed
<1>4. ASSUME NEW a \in Axes, NEW v, SetVMax(a, v) PROVE Inv'
  <2>1. SetAMax(a, AMax[a])
    BY <1>4 DEF SetVMax
  <2> QED
    BY <1>4, <2>1, SetsPair DEF SetVMax, Shape, PairFits, PositioningSpeed
<1>5. ASSUME NEW a \in Axes, NEW value, SetAcceleration(a, value) PROVE Inv'
  <2>1. SetAMax(a, value)
    BY <1>5 DEF SetAcceleration
  <2> QED
    BY <1>5, <2>1, SetsPair DEF SetAcceleration, Shape, PairFits, PositioningSpeed
<1>6. ASSUME NEW a \in Axes, NEW d, SetRampDiv(a, d) \/ SetPulseDiv(a, d) PROVE Inv'
  BY <1>6 DEF SetRampDiv, SetPulseDiv, Shape, PairFits, PositioningSpeed
<1> QED
  BY <1>1, <1>2, <1>3, <1>4, <1>5, <1>6 DEF Next

(* The invariant holds throughout.                                         *)
LEMMA InvHolds == Spec => []Inv
<1>1. Init => Inv
  BY DEF Init, Inv, Shape, PairFits, PositioningSpeed
<1>2. Inv /\ [Next]_vars => Inv'
  BY InvInductive
<1> QED
  BY <1>1, <1>2, PTL DEF Spec

(* The pair in a chip fits its acceleration and divisors until a divisor   *)
(* is set by a command of its own.                                         *)
THEOREM PairAlwaysFits == Spec => []PairFits
  BY InvHolds, PTL DEF Inv

(* The positioning speed and the acceleration set last, as far as their    *)
(* registers hold them, are in force from the first positioning move to    *)
(* the next velocity ramp.                                                 *)
THEOREM PositioningSpeedKept == Spec => []PositioningSpeed
  BY InvHolds, PTL DEF Inv

-----------------------------------------------------------------------------
(* Types: what is computed for a speed fits the register as it is, what is *)
(* typed is cut to it.                                                     *)

(* The values of VMAX and AMAX, and the speeds of velocity ramps.          *)
Register == 0..2047
RampSpeed == 0..2000

(* TypeOK without the flags.                                               *)
NumbersOK ==
  /\ ramp_div \in [Axes -> 0..15] /\ pulse_div \in [Axes -> 0..15]
  /\ vmax \in [Axes -> Register] /\ amax \in [Axes -> Register]
  /\ VMax \in [Axes -> Int] /\ AMax \in [Axes -> Int]
  /\ DOMAIN pair = Axes
  /\ AMaxLevel \in {0, 1, 255}
  /\ asked \in [Axes -> RampSpeed \cup {-1}]

(* The two formulas of SelectAMaxByVMax, capped, fit the register.         *)
LEMMA AccelerationType ==
  ASSUME NEW v, v \in RampSpeed, NEW value,
         value = AtMost(SlowAMax(v), 2047) \/ value = FastAMax(v)
  PROVE  value \in Register
<1>1. v \in Nat /\ v * v \in Nat
  BY DEF RampSpeed
<1>2. \A n \in Nat : (n * 15625) \div 16384 \in Nat /\ (n * 100) \div 33924 \in Nat
  OBVIOUS
<1>3. (v * v * 15625) \div 16384 \in Nat /\ (v * v * 100) \div 33924 \in Nat
  BY <1>1, <1>2
<1> QED
  BY <1>3, SMTT(40) DEF AtMost, AtLeast, SlowAMax, FastAMax, Register

LEMMA SelectionType ==
  ASSUME NumbersOK, NEW a \in Axes, NEW v, v \in RampSpeed, SelectAMaxByVMax(a, v)
  PROVE  /\ ramp_div' \in [Axes -> 0..15] /\ AMaxLevel' \in {0, 1, 255}
         /\ AMax' \in [Axes -> Int] /\ AMax'[a] \in Register
<1>1. ramp_div' \in [Axes -> 0..15] /\ AMaxLevel' \in {0, 1, 255}
  BY DEF SelectAMaxByVMax, SelectLevel, NumbersOK
<1>2. PICK value : /\ AMax' = [AMax EXCEPT ![a] = value]
                   /\ value = AtMost(SlowAMax(v), 2047) \/ value = FastAMax(v)
  BY DEF SelectAMaxByVMax
<1>3. value \in Register
  BY <1>2, AccelerationType
<1>4. AMax' \in [Axes -> Int] /\ AMax'[a] \in Register
  BY <1>2, <1>3 DEF NumbersOK, Register
<1> QED
  BY <1>1, <1>4

(* A cut number fits the register, and one that fits is not changed.       *)
LEMMA Cut ==
  /\ \A n \in Int : Low11(n) \in Register /\ Low4(n) \in 0..15
  /\ \A n \in Register : Low11(n) = n
  BY DEF Low11, Low4, Register

LEMMA WriteType ==
  ASSUME NumbersOK, NEW a \in Axes, NEW value, value \in Int, SetAMax(a, value)
  PROVE  amax' \in [Axes -> Register] /\ DOMAIN pair' = Axes
<1>1. Low11(value) \in Register
  BY Cut
<1>2. /\ amax' = [amax EXCEPT ![a] = Low11(value)]
      /\ DOMAIN pair' = DOMAIN pair
  BY DEF SetAMax
<1> QED
  BY <1>1, <1>2 DEF NumbersOK

(* A command keeps the numbers within what the registers hold.             *)
LEMMA NumbersStep ==
  ASSUME NumbersOK, [Next]_vars
  PROVE  NumbersOK'
<1>1. CASE UNCHANGED vars
  BY <1>1 DEF vars, NumbersOK
<1>2. ASSUME NEW a \in Axes, NEW v \in Speeds, TMC429_MotorRotate(a, v)
      PROVE  NumbersOK'
  <2>1. v \in RampSpeed /\ SelectAMaxByVMax(a, v) /\ SetAMax(a, AMax'[a])
    BY <1>2, RangeAssumption DEF RampSpeed, Register, TMC429_MotorRotate
  <2>2. /\ ramp_div' \in [Axes -> 0..15] /\ AMaxLevel' \in {0, 1, 255}
        /\ AMax' \in [Axes -> Int] /\ AMax'[a] \in Int
    BY <2>1, SelectionType DEF Register
  <2>3. amax' \in [Axes -> Register] /\ DOMAIN pair' = Axes
    BY <2>1, <2>2, WriteType
  <2>4. /\ vmax' = [vmax EXCEPT ![a] = 2047] /\ asked' = [asked EXCEPT ![a] = v]
        /\ pulse_div' = pulse_div /\ VMax' = VMax
    BY <1>2 DEF TMC429_MotorRotate
  <2>5. 2047 \in Register
    BY DEF Register
  <2>6. vmax' \in [Axes -> Register]
    BY <2>4, <2>5 DEF NumbersOK
  <2>7. asked' \in [Axes -> RampSpeed \cup {-1}]
    BY <2>1, <2>4 DEF NumbersOK
  <2> QED
    BY <2>2, <2>3, <2>4, <2>6, <2>7 DEF NumbersOK
<1>3. ASSUME NEW a \in Axes, TMC429_MoveToPosition(a)
      PROVE  NumbersOK'
  <2>1. AMax[a] \in Int /\ VMax[a] \in Int /\ SetAMax(a, AMax[a])
    BY <1>3 DEF TMC429_MoveToPosition, NumbersOK
  <2>2. amax' \in [Axes -> Register] /\ DOMAIN pair' = Axes
    BY <2>1, WriteType
  <2>3. vmax' = [vmax EXCEPT ![a] = Low11(VMax[a])] /\ Low11(VMax[a]) \in Register
    BY <1>3, <2>1, Cut DEF TMC429_MoveToPosition
  <2>4. vmax' \in [Axes -> Register]
    BY <2>3 DEF NumbersOK
  <2> QED
    BY <1>3, <2>2, <2>4 DEF TMC429_MoveToPosition, NumbersOK
<1>4. ASSUME NEW a \in Axes, NEW v \in PositionSpeeds, SetVMax(a, v)
      PROVE  NumbersOK'
  <2>1. v \in Int /\ AMax[a] \in Int /\ SetAMax(a, AMax[a])
    BY <1>4, RangeAssumption DEF SetVMax, NumbersOK
  <2>2. amax' \in [Axes -> Register] /\ DOMAIN pair' = Axes
    BY <2>1, WriteType
  <2>3. vmax' = [vmax EXCEPT ![a] = Low11(v)] /\ Low11(v) \in Register
    BY <1>4, <2>1, Cut DEF SetVMax
  <2>4. vmax' \in [Axes -> Register]
    BY <2>3 DEF NumbersOK
  <2>5. VMax' = [VMax EXCEPT ![a] = v] /\ VMax' \in [Axes -> Int]
    BY <1>4, <2>1 DEF SetVMax, NumbersOK
  <2> QED
    BY <1>4, <2>2, <2>4, <2>5 DEF SetVMax, NumbersOK
<1>5. ASSUME NEW a \in Axes, NEW value \in Accelerations, SetAcceleration(a, value)
      PROVE  NumbersOK'
  <2>1. value \in Int /\ SetAMax(a, value)
    BY <1>5, RangeAssumption DEF SetAcceleration
  <2>2. amax' \in [Axes -> Register] /\ DOMAIN pair' = Axes
    BY <2>1, WriteType
  <2> QED
    BY <1>5, <2>1, <2>2 DEF SetAcceleration, NumbersOK
<1>6. ASSUME NEW a \in Axes, NEW d \in RampDivs, SetRampDiv(a, d)
      PROVE  NumbersOK'
  <2>1. Low4(d) \in 0..15
    BY RangeAssumption, Cut
  <2> QED
    BY <1>6, <2>1 DEF SetRampDiv, NumbersOK
<1>7. ASSUME NEW a \in Axes, NEW d \in PulseDivs, SetPulseDiv(a, d)
      PROVE  NumbersOK'
  <2>1. Low4(d) \in 0..15
    BY RangeAssumption, Cut
  <2> QED
    BY <1>7, <2>1 DEF SetPulseDiv, NumbersOK
<1> QED
  BY <1>1, <1>2, <1>3, <1>4, <1>5, <1>6, <1>7 DEF Next

LEMMA NumbersHold == Spec => []NumbersOK
<1>1. Init => NumbersOK
  BY DEF Init, NumbersOK, Register, RampSpeed
<1>2. NumbersOK /\ [Next]_vars => NumbersOK'
  BY NumbersStep
<1> QED
  BY <1>1, <1>2, PTL DEF Spec

(* What the formulas give for a speed, and what is left of any number the  *)
(* host types, fits the register it is written to.                         *)
THEOREM RampTypes == Spec => []TypeOK
<1>1. NumbersOK /\ Inv => TypeOK
  BY DEF NumbersOK, Inv, Shape, TypeOK, Register, RampSpeed
<1> QED
  BY <1>1, NumbersHold, InvHolds, PTL

-----------------------------------------------------------------------------
(* SetAMax finds a pair.  5 is the least acceleration it finds one for     *)
(* with both divisors a speed may select.                                  *)

Usable == 5..2047
AccelerationsSuffice == \A n \in Accelerations : Low11(n) \in Usable

(* The first nine intervals of Fits leave no gap above 5.                  *)
LEMMA SomeFits == ASSUME NEW n \in Usable PROVE \E e \in 1..9 : Fits(n, e)
<1>1. /\ 2^1 = 2 /\ 2^2 = 4 /\ 2^3 = 8 /\ 2^4 = 16 /\ 2^5 = 32 /\ 2^6 = 64
      /\ 2^7 = 128 /\ 2^8 = 256 /\ 2^9 = 512
  OBVIOUS
<1>2. n \in Int /\ 5 <= n /\ n <= 2047
  BY DEF Usable
<1>3. CASE 988 * n >= 1024000
  BY <1>1, <1>2, <1>3 DEF Fits
<1>4. CASE 512000 <= 988 * n /\ 988 * n < 1024000
  BY <1>1, <1>2, <1>4 DEF Fits
<1>5. CASE 256000 <= 988 * n /\ 988 * n < 512000
  BY <1>1, <1>2, <1>5 DEF Fits
<1>6. CASE 128000 <= 988 * n /\ 988 * n < 256000
  BY <1>1, <1>2, <1>6 DEF Fits
<1>7. CASE 64000 <= 988 * n /\ 988 * n < 128000
  BY <1>1, <1>2, <1>7 DEF Fits
<1>8. CASE 32000 <= 988 * n /\ 988 * n < 64000
  BY <1>1, <1>2, <1>8 DEF Fits
<1>9. CASE 16000 <= 988 * n /\ 988 * n < 32000
  BY <1>1, <1>2, <1>9 DEF Fits
<1>10. CASE 8000 <= 988 * n /\ 988 * n < 16000
  BY <1>1, <1>2, <1>10 DEF Fits
<1>11. CASE 988 * n < 8000
  BY <1>1, <1>2, <1>11 DEF Fits
<1> QED
  BY <1>2, <1>3, <1>4, <1>5, <1>6, <1>7, <1>8, <1>9, <1>10, <1>11

(* A pair that was found has one of the 14 values of PDIV, and NoPair has  *)
(* none of them.                                                           *)
LEMMA PairIsFound ==
  ASSUME NEW n \in Usable, NEW ramp \in {7, 12}
  PROVE  Pair(n, ramp, 8) # NoPair
<1>1. PICK e \in 1..9 : Fits(n, e)
  BY SomeFits
<1>2. e - 8 + ramp \in 0..13 /\ (e - 8 + ramp) + 8 - ramp = e
  OBVIOUS
<1>3. \E pd \in 0..13 : Fits(n, pd + 8 - ramp)
  BY <1>1, <1>2
<1> DEFINE pdiv == CHOOSE d \in 0..13 : Fits(n, d + 8 - ramp)
<1>4. pdiv \in 0..13
  BY <1>3
<1>5. Pair(n, ramp, 8) = <<(988 * n * 2^(pdiv + 8 - ramp)) \div 16000, pdiv>>
  BY <1>3 DEF Pair
<1> HIDE DEF pdiv
<1> QED
  BY <1>4, <1>5 DEF NoPair

(* What the commands leave of accelerations and divisors.                  *)
FoundInv ==
  /\ amax \in [Axes -> Usable]
  /\ DOMAIN AMax = Axes /\ \A a \in Axes : Low11(AMax[a]) \in Usable
  /\ \A a \in Axes : ~byHand[a] => pulse_div[a] = 8 /\ ramp_div[a] \in {7, 12}

(* The formulas of SelectAMaxByVMax give accelerations that have a pair.   *)
LEMMA FormulasSuffice ==
  ASSUME NEW v, v \in RampSpeed, NEW value,
         \/ v < 100 /\ value = AtMost(SlowAMax(v), 2047)
         \/ v >= 100 /\ value = FastAMax(v)
  PROVE  value \in Usable
<1>1. v \in Nat /\ v * v \in Nat
  BY DEF RampSpeed
<1>2. CASE v < 100 /\ value = AtMost(SlowAMax(v), 2047)
  <2>1. \A n \in Nat : (n * 15625) \div 16384 \in Nat
    OBVIOUS
  <2>2. (v * v * 15625) \div 16384 \in Nat
    BY <1>1, <2>1
  <2> QED
    BY <1>2, <2>2 DEF AtMost, AtLeast, SlowAMax, Usable
<1>3. CASE v >= 100 /\ value = FastAMax(v)
  <2>1. \A m, n \in Nat : m >= 100 /\ n >= 100 => m * n >= 10000
    <3>1. \A m, n \in Nat : m >= 100 /\ n >= 100 => (m - 100) * (n - 100) >= 0
      OBVIOUS
    <3>2. \A m, n \in Nat : m * n = (m - 100) * (n - 100) + 100 * m + 100 * n - 10000
      OBVIOUS
    <3> QED
      BY <3>1, <3>2
  <2>2. v * v >= 10000
    BY <1>1, <1>3, <2>1
  <2>3. \A n \in Nat : n >= 10000 => (n * 100) \div 33924 \in Nat /\ (n * 100) \div 33924 >= 5
    OBVIOUS
  <2>4. (v * v * 100) \div 33924 \in Nat /\ (v * v * 100) \div 33924 >= 5
    BY <1>1, <2>2, <2>3
  <2> QED
    BY <1>3, <2>4 DEF AtMost, FastAMax, Usable
<1> QED
  BY <1>2, <1>3

LEMMA FoundStep ==
  ASSUME AccelerationsSuffice, Shape, FoundInv, [Next]_vars
  PROVE  FoundInv'
<1>1. CASE UNCHANGED vars
  BY <1>1 DEF vars, FoundInv
<1>2. ASSUME NEW a \in Axes, NEW v \in Speeds, TMC429_MotorRotate(a, v)
      PROVE  FoundInv'
  <2>1. /\ v \in RampSpeed /\ SelectAMaxByVMax(a, v) /\ SetAMax(a, AMax'[a])
        /\ UNCHANGED <<pulse_div, byHand>>
    BY <1>2, RangeAssumption DEF RampSpeed, TMC429_MotorRotate
  <2>2. PICK value : /\ AMax' = [AMax EXCEPT ![a] = value]
                     /\ \/ v < 100 /\ value = AtMost(SlowAMax(v), 2047)
                        \/ v >= 100 /\ value = FastAMax(v)
    BY <2>1 DEF SelectAMaxByVMax
  <2>3. value \in Usable /\ Low11(value) = value
    <3>1. value \in Usable
      BY <2>1, <2>2, FormulasSuffice
    <3>2. value \in Register
      BY <3>1 DEF Usable, Register
    <3> QED
      BY <3>1, <3>2, Cut
  <2>4. /\ DOMAIN AMax' = Axes /\ AMax'[a] = value
        /\ \A b \in Axes \ {a} : AMax'[b] = AMax[b]
    BY <2>2 DEF FoundInv
  <2>5. /\ AMax'[a] = value /\ Low11(value) \in Usable
        /\ DOMAIN AMax' = Axes /\ \A b \in Axes : Low11(AMax'[b]) \in Usable
    BY <2>3, <2>4 DEF FoundInv
  <2>6. amax' = [amax EXCEPT ![a] = Low11(AMax'[a])]
    BY <2>1 DEF SetAMax
  <2>7. amax' \in [Axes -> Usable]
    BY <2>5, <2>6 DEF FoundInv
  <2>8. \A b \in Axes : ramp_div'[b] = ramp_div[b] \/ ramp_div'[b] \in {7, 12}
    BY <2>1 DEF SelectAMaxByVMax, SelectLevel, Shape
  <2> QED
    BY <2>1, <2>5, <2>7, <2>8 DEF FoundInv
<1>3. ASSUME NEW a \in Axes, NEW value, Low11(value) \in Usable, SetAMax(a, value),
             AMax' = AMax \/ AMax' = [AMax EXCEPT ![a] = value],
             UNCHANGED <<ramp_div, pulse_div, byHand>>
      PROVE  FoundInv'
  <2>1. amax' = [amax EXCEPT ![a] = Low11(value)]
    BY <1>3 DEF SetAMax
  <2>2. amax' \in [Axes -> Usable]
    BY <1>3, <2>1 DEF FoundInv
  <2>3. DOMAIN AMax' = Axes /\ \A b \in Axes : Low11(AMax'[b]) \in Usable
    BY <1>3 DEF FoundInv
  <2> QED
    BY <1>3, <2>2, <2>3 DEF FoundInv
<1>4. ASSUME NEW a \in Axes, TMC429_MoveToPosition(a) PROVE FoundInv'
  <2>1. /\ Low11(AMax[a]) \in Usable /\ SetAMax(a, AMax[a]) /\ AMax' = AMax
        /\ UNCHANGED <<ramp_div, pulse_div, byHand>>
    BY <1>4 DEF TMC429_MoveToPosition, FoundInv
  <2> QED
    BY <1>3, <2>1
<1>5. ASSUME NEW a \in Axes, NEW v, SetVMax(a, v) PROVE FoundInv'
  <2>1. /\ Low11(AMax[a]) \in Usable /\ SetAMax(a, AMax[a]) /\ AMax' = AMax
        /\ UNCHANGED <<ramp_div, pulse_div, byHand>>
    BY <1>5 DEF SetVMax, FoundInv
  <2> QED
    BY <1>3, <2>1
<1>6. ASSUME NEW a \in Axes, NEW value \in Accelerations, SetAcceleration(a, value)
      PROVE  FoundInv'
  <2>1. /\ Low11(value) \in Usable /\ SetAMax(a, value)
        /\ AMax' = [AMax EXCEPT ![a] = value]
        /\ UNCHANGED <<ramp_div, pulse_div, byHand>>
    BY <1>6 DEF SetAcceleration, AccelerationsSuffice
  <2> QED
    BY <1>3, <2>1
<1>7. ASSUME NEW a \in Axes, NEW d, SetRampDiv(a, d) \/ SetPulseDiv(a, d)
      PROVE  FoundInv'
  BY <1>7 DEF SetRampDiv, SetPulseDiv, FoundInv, Shape
<1> QED
  BY <1>1, <1>2, <1>4, <1>5, <1>6, <1>7 DEF Next

(* Until a divisor is set by a command of its own, no chip is given the -1 *)
(* that stands for no pair, whatever speeds are asked for and whatever     *)
(* accelerations the host sets whose lowest 11 bits make 5 or more.        *)
THEOREM PairAlwaysFound == AccelerationsSuffice => (Spec => []PairFound)
<1> SUFFICES ASSUME AccelerationsSuffice PROVE Spec => []PairFound
  OBVIOUS
<1>1. Init => FoundInv
  <2>1. Low11(1000) = 1000 /\ 1000 \in Usable
    BY DEF Low11, Usable
  <2> QED
    BY <2>1 DEF Init, FoundInv
<1>2. Inv /\ FoundInv /\ [Next]_vars => FoundInv'
  BY FoundStep DEF Inv
<1>3. Inv /\ FoundInv => PairFound
  BY PairIsFound DEF Inv, PairFits, FoundInv, PairFound
<1> QED
  BY <1>1, <1>2, <1>3, InvHolds, PTL DEF Spec

-----------------------------------------------------------------------------
(* The divisor.  The level is shared by all axes, so this is about one.    *)

OneAxis == \A a, b \in Axes : a = b

(* The level of the last speed, and the divisor that goes with a level.    *)
LevelInv ==
  \A a \in Axes :
    /\ asked[a] # -1 => AMaxLevel = IF asked[a] < 100 THEN 0 ELSE 1
    /\ ~byHand[a] /\ AMaxLevel = 0 => ramp_div[a] = 12
    /\ ~byHand[a] /\ AMaxLevel = 1 => ramp_div[a] = 7

(* On a single axis the divisor suits the speed of the last velocity ramp, *)
(* although it is selected only when the range of speeds changes.          *)
THEOREM DivisorFitsOneAxis == OneAxis => (Spec => []DivisorFits)
<1> SUFFICES ASSUME OneAxis PROVE Spec => []DivisorFits
  OBVIOUS
<1>1. Init => LevelInv
  <2> SUFFICES ASSUME Init, NEW a \in Axes
               PROVE  asked[a] = -1 /\ AMaxLevel # 0 /\ AMaxLevel # 1
    BY DEF LevelInv
  <2>1. asked = [b \in Axes |-> -1] /\ AMaxLevel = 255
    BY DEF Init
  <2> QED
    BY <2>1
<1>2. ASSUME Shape, DOMAIN asked = Axes, LevelInv, [Next]_vars PROVE LevelInv'
  <2>1. CASE UNCHANGED vars
    BY <1>2, <2>1 DEF vars, LevelInv
  <2>2. ASSUME NEW a \in Axes, NEW v \in Speeds, TMC429_MotorRotate(a, v)
        PROVE  LevelInv'
    BY <1>2, <2>2, RangeAssumption
       DEF OneAxis, TMC429_MotorRotate, SelectAMaxByVMax, SelectLevel, LevelInv, Shape
  <2>3. ASSUME NEW a \in Axes,
               \/ TMC429_MoveToPosition(a)
               \/ \E v : SetVMax(a, v)
               \/ \E value : SetAcceleration(a, value)
        PROVE  LevelInv'
    BY <1>2, <2>3 DEF TMC429_MoveToPosition, SetVMax, SetAcceleration, LevelInv
  <2>4. ASSUME NEW a \in Axes, NEW d, SetRampDiv(a, d) \/ SetPulseDiv(a, d)
        PROVE  LevelInv'
    BY <1>2, <2>4 DEF SetRampDiv, SetPulseDiv, LevelInv, Shape
  <2> QED
    BY <1>2, <2>1, <2>2, <2>3, <2>4 DEF Next
<1>3. NumbersOK => DOMAIN asked = Axes
  BY DEF NumbersOK
<1>4. LevelInv => DivisorFits
  BY DEF LevelInv, DivisorFits
<1> QED
  BY <1>1, <1>2, <1>3, <1>4, NumbersHold, InvHolds, PTL DEF Spec, Inv
=============================================================================
