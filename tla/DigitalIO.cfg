SPECIFICATION FairSpec
CONSTANTS
  Width = 2
  Extensions = {"none", "FBIO0808", "FBJFFB1615CN1"}
  AppOutputs = {1}
  ShellOutputs = {2}
  Words <- MCWords
  Sensors = {5}
  MaxEvents = 3
  RelayPort = 2
  Relays = 4
  RelayWords <- MCRelayWords
INVARIANTS TypeOK LatchFollows LastAsked RelaysReported
PROPERTIES EchoHeals
CHECK_DEADLOCK FALSE
