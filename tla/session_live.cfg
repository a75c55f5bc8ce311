CONSTANTS
  Relays = {r1, r2}
  BootLen = 1
  MaxCandLen = 1
  MaxAdvice = 1
  RelayNum = 1
  MaxDelay = 0
  MaxAge = 1
  MaxNet = 2
  ConcurrentClose = FALSE
  WithData = TRUE
SPECIFICATION SessionFair
PROPERTIES ResourcesComeBack
