CONSTANTS
  Relays = {r1, r2}
  BootLen = 2
  MaxCandLen = 2
  MaxAdvice = 1
  RelayNum = 2
  MaxDelay = 0
  MaxAge = 1
  MaxNet = 1
  ConcurrentClose = FALSE
  WithData = TRUE
SPECIFICATION FairSpec
PROPERTIES CloseEnds NobodyForgotten
