SPECIFICATION FairSpec
VIEW MCSeen
CONSTANTS
  NMotors = 2
  PerChip = 1
  Track = 3
  HomeZone <- MCHomeZone
  HomeSpeeds <- MCRightOnly
  Targets <- MCNowhere
  HostOps = {"gohome", "golimit", "stop"}
  StopArgs = {0}
  LimitCount = 1
  Skid = 1
  XBound = 8
PROPERTIES OriginNotMissed RunAdvances GoHomeEnds GoLimitEnds
