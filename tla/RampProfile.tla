---------------------------- MODULE RampProfile ----------------------------
(***************************************************************************)
(* Speeds and accelerations of the axes: the part of the shell command     *)
(* "motor" that configures the ramp generators of the TMC429 chips.        *)
(*                                                                         *)
(* Every start of a velocity ramp (rotate, gohome, golimit, the reversal   *)
(* of a homing run) selects an acceleration, and for it a ramp divisor, by *)
(* the speed asked for.  A positioning move returns to the positioning     *)
(* speed.  A chip takes its acceleration from AMAX and the ramp divisor,   *)
(* and needs the pair PMUL, PDIV computed from AMAX and both divisors.     *)
(*                                                                         *)
(* A command is one step, as in Tmc429Motion.  The speed of a velocity     *)
(* ramp is the magnitude of a VMAX register value, which is clamped to     *)
(* 2000; every other number is used as it was typed.                       *)
(***************************************************************************)
EXTENDS Integers

CONSTANTS
  Axes,           \* the axes, of either chip
  Speeds,         \* speeds of velocity ramps, as register values
  PositionSpeeds, \* values given to "motor set speed" and "motor set VMAX"
  Accelerations,  \* values given to "motor set AMAX"
  RampDivs,       \* values given to "motor set ramp_div"
  PulseDivs       \* values given to "motor set pulse_div"

ASSUME RangeAssumption ==
  /\ Speeds \subseteq 0..2000 /\ PositionSpeeds \subseteq Int
  /\ Accelerations \subseteq Int /\ RampDivs \subseteq Int /\ PulseDivs \subseteq Int

VARIABLES
  \* registers
  ramp_div, pulse_div, vmax, amax,
  pair,       \* PMUL and PDIV
  \* motorSetting
  VMax, AMax, SpeedChangedFlag,
  AMaxLevel,  \* the range of speeds the divisors were selected for last
  \* bookkeeping of the model
  asked,      \* the speed of the last velocity ramp, -1 if none
  byHand      \* a divisor of the axis was set by a command of its own

vars == <<ramp_div, pulse_div, vmax, amax, pair, VMax, AMax, SpeedChangedFlag,
          AMaxLevel, asked, byHand>>

-----------------------------------------------------------------------------
(* The arithmetic.                                                         *)

(* The 11 bits that AMAX and VMAX hold, the 4 bits of a divisor.            *)
Low11(n) == n % 2048
Low4(n) == n % 16

AtMost(n, cap) == IF n > cap THEN cap ELSE n
AtLeast(n, low) == IF n < low THEN low ELSE n

(* 0.953674 and 0.0029478 of the source, as ratios of small integers.      *)
SlowAMax(v) == AtLeast((v * v * 15625) \div 16384, 8)
FastAMax(v) == AtMost((v * v * 100) \div 33924, 2047)

(* The loop of SetAMax looks for the pdiv that brings                      *)
(*   0.988 * AMAX / (128 * 2^(ramp_div - pulse_div)) * 8 * 2^pdiv          *)
(* into 128..255.  With e = pdiv + pulse_div - ramp_div this is            *)
(*   2048000 <= 988 * AMAX * 2^e < 4096000                                 *)
(* which, for 0 < AMAX <= 2047, no e outside 1..12 satisfies.  A search in *)
(* vain leaves -1 in both, which is written all the same.                  *)
NoPair == <<255, 255>>
Fits(a, e) ==
  e \in 1..12 /\ 2048000 \div 2^e <= 988 * a /\ 988 * a < 4096000 \div 2^e
Pair(a, ramp, pulse) ==
  IF \E pd \in 0..13 : Fits(a, pd + pulse - ramp)
  THEN LET pd == CHOOSE d \in 0..13 : Fits(a, d + pulse - ramp)
       IN  <<(988 * a * 2^(pd + pulse - ramp)) \div 16000, pd>>
  ELSE NoPair

-----------------------------------------------------------------------------
(* Variants: the pair is computed before the divisor is changed; the value  *)
(* is not cut.                                                             *)
SetAMax_Early(a, value) ==
  /\ amax' = [amax EXCEPT ![a] = Low11(value)]
  /\ pair' = [pair EXCEPT ![a] = Pair(Low11(value), ramp_div[a], pulse_div[a])]

SetAMax_Uncut(a, value) ==
  /\ amax' = [amax EXCEPT ![a] = value]
  /\ pair' = [pair EXCEPT ![a] = Pair(value, ramp_div'[a], pulse_div[a])]

(* SetAMax cuts the value to 11 bits, and writes AMAX and the pair that    *)
(* belongs to the divisors in the chip, here those the same command has    *)
(* just written.                                                           *)
SetAMax(a, value) ==
  /\ amax' = [amax EXCEPT ![a] = Low11(value)]
  /\ pair' = [pair EXCEPT ![a] = Pair(Low11(value), ramp_div'[a], pulse_div[a])]

(* The level says which range of speeds the divisor was selected for, for  *)
(* whichever axis that was.                                                *)
SelectLevel(a, level, divisor) ==
  IF AMaxLevel = level THEN UNCHANGED <<AMaxLevel, ramp_div>>
  ELSE AMaxLevel' = level /\ ramp_div' = [ramp_div EXCEPT ![a] = divisor]

(* Variants: no minimum acceleration; the divisor is never selected again.  *)
SelectAMaxByVMax_NoMinimum(a, v) ==
  \/ /\ v < 100 /\ SelectLevel(a, 0, 12)
     /\ AMax' = [AMax EXCEPT ![a] = AtMost((v * v * 15625) \div 16384, 2047)]
  \/ /\ v >= 100 /\ SelectLevel(a, 1, 7)
     /\ AMax' = [AMax EXCEPT ![a] = FastAMax(v)]
SelectAMaxByVMax_Once(a, v) ==
  \/ /\ v < 100 /\ SelectLevel(a, 0, 12)
     /\ AMax' = [AMax EXCEPT ![a] = AtMost(SlowAMax(v), 2047)]
  \/ /\ v >= 100 /\ UNCHANGED <<AMaxLevel, ramp_div>>
     /\ AMax' = [AMax EXCEPT ![a] = FastAMax(v)]

SelectAMaxByVMax(a, v) ==
  \/ /\ v < 100 /\ SelectLevel(a, 0, 12)
     /\ AMax' = [AMax EXCEPT ![a] = AtMost(SlowAMax(v), 2047)]
  \/ /\ v >= 100 /\ SelectLevel(a, 1, 7)
     /\ AMax' = [AMax EXCEPT ![a] = FastAMax(v)]

(* A variant: the axis is not marked as having left its positioning speed.  *)
MotorRotate_Unmarked(a, v) ==
  /\ SelectAMaxByVMax(a, v)
  /\ SetAMax(a, AMax'[a])
  /\ vmax' = [vmax EXCEPT ![a] = 2047]
  /\ asked' = [asked EXCEPT ![a] = v]
  /\ UNCHANGED <<pulse_div, VMax, SpeedChangedFlag, byHand>>

TMC429_MotorRotate(a, v) ==
  /\ SpeedChangedFlag' = [SpeedChangedFlag EXCEPT ![a] = TRUE]
  /\ SelectAMaxByVMax(a, v)
  /\ SetAMax(a, AMax'[a])
  /\ vmax' = [vmax EXCEPT ![a] = 2047]
  /\ asked' = [asked EXCEPT ![a] = v]
  /\ UNCHANGED <<pulse_div, VMax, byHand>>

TMC429_MoveToPosition(a) ==
  /\ SpeedChangedFlag[a]
  /\ UNCHANGED <<ramp_div, pulse_div, VMax, AMax, AMaxLevel, asked, byHand>>
  /\ vmax' = [vmax EXCEPT ![a] = Low11(VMax[a])]
  /\ SetAMax(a, AMax[a])
  /\ SpeedChangedFlag' = [SpeedChangedFlag EXCEPT ![a] = FALSE]

(* "motor set speed" and "motor set VMAX".  motorSetting keeps the number  *)
(* as it is, the register its lowest bits.                                 *)
SetVMax(a, v) ==
  /\ VMax' = [VMax EXCEPT ![a] = v]
  /\ vmax' = [vmax EXCEPT ![a] = Low11(v)]
  /\ UNCHANGED <<ramp_div, pulse_div, AMax, SpeedChangedFlag, AMaxLevel, asked,
                 byHand>>
  /\ SetAMax(a, AMax[a])

(* "motor set AMAX"                                                        *)
SetAcceleration(a, value) ==
  /\ AMax' = [AMax EXCEPT ![a] = value]
  /\ UNCHANGED <<ramp_div, pulse_div, vmax, VMax, SpeedChangedFlag, AMaxLevel, asked,
                 byHand>>
  /\ SetAMax(a, value)

(* "motor set ramp_div" and "motor set pulse_div": the pair stays.         *)
SetRampDiv(a, d) ==
  /\ ramp_div' = [ramp_div EXCEPT ![a] = Low4(d)]
  /\ byHand' = [byHand EXCEPT ![a] = TRUE]
  /\ UNCHANGED <<pulse_div, vmax, amax, pair, VMax, AMax, SpeedChangedFlag, AMaxLevel,
                 asked>>

SetPulseDiv(a, d) ==
  /\ pulse_div' = [pulse_div EXCEPT ![a] = Low4(d)]
  /\ byHand' = [byHand EXCEPT ![a] = TRUE]
  /\ UNCHANGED <<ramp_div, vmax, amax, pair, VMax, AMax, SpeedChangedFlag, AMaxLevel,
                 asked>>

(* TMC429_DefaulSetting and Init429, at the first command of a session.    *)
Init ==
  /\ ramp_div = [a \in Axes |-> 7] /\ pulse_div = [a \in Axes |-> 8]
  /\ vmax = [a \in Axes |-> 840] /\ amax = [a \in Axes |-> 1000]
  /\ pair = [a \in Axes |-> Pair(1000, 7, 8)]
  /\ VMax = [a \in Axes |-> 840] /\ AMax = [a \in Axes |-> 1000]
  /\ SpeedChangedFlag = [a \in Axes |-> TRUE]
  /\ AMaxLevel = 255
  /\ asked = [a \in Axes |-> -1] /\ byHand = [a \in Axes |-> FALSE]

Next ==
  \E a \in Axes :
    \/ \E v \in Speeds : TMC429_MotorRotate(a, v)
    \/ TMC429_MoveToPosition(a)
    \/ \E v \in PositionSpeeds : SetVMax(a, v)
    \/ \E value \in Accelerations : SetAcceleration(a, value)
    \/ \E d \in RampDivs : SetRampDiv(a, d)
    \/ \E d \in PulseDivs : SetPulseDiv(a, d)

Spec == Init /\ [][Next]_vars

-----------------------------------------------------------------------------
(* Properties.                                                             *)

TypeOK ==
  /\ ramp_div \in [Axes -> 0..15] /\ pulse_div \in [Axes -> 0..15]
  /\ vmax \in [Axes -> 0..2047] /\ amax \in [Axes -> 0..2047]
  /\ VMax \in [Axes -> Int] /\ AMax \in [Axes -> Int]
  /\ DOMAIN pair = Axes
  /\ SpeedChangedFlag \in [Axes -> BOOLEAN]
  /\ AMaxLevel \in {0, 1, 255}
  /\ asked \in [Axes -> -1..2000] /\ byHand \in [Axes -> BOOLEAN]

(* The pair in a chip belongs to the acceleration and to the divisors in   *)
(* the same chip: a ramp computed from a stale pair misses its target.     *)
PairFits ==
  \A a \in Axes : ~byHand[a] => pair[a] = Pair(amax[a], ramp_div[a], pulse_div[a])

(* SetAMax finds a pair for every speed a command can ask for, and never   *)
(* writes the -1 that stands for none.  The source documents accelerations *)
(* from 1 on, and none is found for 4.                                     *)
PairFound == \A a \in Axes : ~byHand[a] => pair[a] # NoPair

(* Once a positioning move has begun, the positioning speed and the        *)
(* acceleration set last are in force until the next velocity ramp,        *)
(* whatever is set in between: their lowest 11 bits, that is.              *)
PositioningSpeed ==
  \A a \in Axes :
    ~SpeedChangedFlag[a] => vmax[a] = Low11(VMax[a]) /\ amax[a] = Low11(AMax[a])

(* The ramp divisor suits the speed the axis was last started with (the    *)
(* comment on the acceleration asks for a divisor chosen by the speed).    *)
DivisorFits ==
  \A a \in Axes : asked[a] # -1 /\ ~byHand[a]
                    => ramp_div[a] = IF asked[a] < 100 THEN 12 ELSE 7
=============================================================================
