SPECIFICATION Spec
CONSTANTS
  Axes = {a0}
  Speeds <- MCManySpeeds
  PositionSpeeds = {4095}
  Accelerations <- MCNumbers
  RampDivs = {0, 28}
  PulseDivs = {5}
INVARIANTS TypeOK PairFits PairFound PositioningSpeed DivisorFits
