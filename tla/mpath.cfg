SPECIFICATION Spec
CONSTANTS
  Kinds = {"SimpleMpathManager", "StatMpathManager"}
  Relays = {r1, r2}
  Bandwidth <- MCBandwidth
  MaxList = 2
  MaxOthers = 1
  RqBandwidth = 2
  RqRelayNum = 1
  RqLossrate = 1
  StatOn = 2
  StatOff = 1
  QueryInterval = 1
INVARIANTS Inv GivenUpForGood ReadAsSent
PROPERTIES SelectsRelays
