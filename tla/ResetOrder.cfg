SPECIFICATION Spec
CONSTANTS
  NMotors = 3
  PerChip = 2
  ShellOps <- YAndHomingX
  ShellSpeeds <- EitherWay
  Commands <- ShellCommands
  StartPlaces = {"home"}
  Projects = {"BUTTON_ONLINE"}
  Debounce = 1
  CounterMod = 4
INVARIANTS ResetOrder
CHECK_DEADLOCK FALSE
