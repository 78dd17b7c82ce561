SPECIFICATION FairSpec
CONSTANTS
  NMotors = 3
  PerChip = 2
  ShellOps <- YAndHomingX
  ShellSpeeds <- AnySpeed
  Commands <- ShellCommands
  StartPlaces = {"home"}
  Projects = {"BUTTON_ONLINE", "NMEI_IN3COLA", "LID_OPEN"}
  Debounce = 1
  CounterMod = 4
INVARIANTS TypeOK SeekerMoves DrawerUnderOpenDoor
PROPERTIES DrivesItsAxis DoorClosesOnDrawer AppGetsTurns KeyHeard LidCloses
CHECK_DEADLOCK FALSE
