SPECIFICATION Spec
CONSTANTS
  NMotors = 2
  PerChip = 1
  Track = 3
  HomeZone <- MCHomeZone
  HomeSpeeds <- MCRightOnly
  Targets <- MCNowhere
  HostOps = {"rotate", "reset"}
  StopArgs <- MCNowhere
  LimitCount = 1
  Skid = 1
  XBound = 8
INVARIANT StillAfterReset
