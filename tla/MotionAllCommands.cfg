SPECIFICATION Spec
CONSTANTS
  NMotors = 1
  PerChip = 1
  Track = 3
  HomeZone <- MCNarrowZone
  HomeSpeeds <- MCOneSpeed
  Targets <- MCTargets
  HostOps = {"gohome", "golimit", "rotate", "moveto", "next_position", "next_speed", "limit_0", "limit_1", "limit_signal", "stop", "reset"}
  StopArgs = {0, 1}
  LimitCount = 1
  Skid = 0
  XBound = 4
PROPERTIES OriginNotMissed
