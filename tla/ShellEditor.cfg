SPECIFICATION FairSpec
CONSTANTS
  Printable = {"[", "A", "C", "D"}
  Names <- MCNames
  Size = 4
  RxBytes = 3
  SemRange = 3
INVARIANTS TypeOK WakeUpPending
PROPERTIES IsLineEditor KeysHandled
