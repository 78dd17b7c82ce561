SPECIFICATION Spec
CONSTANTS
  Width = 2
  Extensions = {"none"}
  AppOutputs = {1}
  ShellOutputs = {2}
  Words = {}
  Sensors = {5}
  MaxEvents = 3
  RelayPort = 2
  Relays = 4
  RelayWords <- MCRelayWords
INVARIANTS AsAsked
CHECK_DEADLOCK FALSE
