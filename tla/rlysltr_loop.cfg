CONSTANTS
  Relays = {r1, r2}
  BootLen = 1
  MaxCandLen = 2
  MaxAdvice = 1
  RelayNum = 2
  MaxDelay = 1
  MaxAge = 2
  MaxNet = 2
  ConcurrentClose = TRUE
  WithData = FALSE
SPECIFICATION Spec
INVARIANTS ReleaseLoopSafe
