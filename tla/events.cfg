SPECIFICATION Spec
CONSTANTS
  MaxInterval = 3
  MaxNow = 5
  MaxLevs = 2
  Keys = {1, 2, 3, 4, 5, 6, 7, 8}
INVARIANTS Inv WakesInTime
PROPERTIES RefinesAgenda
CHECK_DEADLOCK FALSE
