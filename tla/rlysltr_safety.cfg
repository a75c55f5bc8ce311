CONSTANTS
  Relays = {r1, r2}
  BootLen = 1
  MaxCandLen = 2
  MaxAdvice = 2
  RelayNum = 2
  MaxDelay = 1
  MaxAge = 2
  MaxNet = 2
  ConcurrentClose = FALSE
  WithData = FALSE
SPECIFICATION Spec
SYMMETRY Symmetry
INVARIANTS IteratorsValid CandidatesBound RelaylistBound RelaylistSorted
PROPERTIES LeavesForAReason
