CONSTANTS
  NFrames = 4
  FirstSeq = 6
  SeqWidth = 8
  StopLimit = 2
  MaxSlot = 3
  MaxDups = 1
SPECIFICATION FairSpec
INVARIANTS Inv
PROPERTIES PlaysForward NeverEarly StopEnds Drains
