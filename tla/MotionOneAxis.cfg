SPECIFICATION Spec
CONSTANTS
  NMotors = 1
  PerChip = 1
  Track = 3
  HomeZone <- MCNarrowZone
  HomeSpeeds <- MCHomeSpeeds
  Targets <- MCTargets
  HostOps = {"gohome", "golimit", "rotate", "move", "moveto", "stop", "actual_position", "next_position", "next_speed", "speed_actual", "reset"}
  StopArgs = {0}
  LimitCount = 1
  Skid = 0
  XBound = 8
INVARIANTS TypeOK HomedReferenced
PROPERTIES KeepsContract
