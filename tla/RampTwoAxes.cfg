SPECIFICATION Spec
CONSTANTS
  Axes = {a0, a1}
  Speeds <- MCSomeSpeeds
  PositionSpeeds = {840}
  Accelerations <- MCNone
  RampDivs <- MCNone
  PulseDivs <- MCNone
INVARIANT DivisorFits
