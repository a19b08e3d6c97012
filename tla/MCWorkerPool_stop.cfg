CONSTANTS
  w1 = w1  w2 = w2
  Workers = {w1, w2}
  MaxMessages = 2
SPECIFICATION Spec
CHECK_DEADLOCK FALSE
INVARIANTS StopMeansAllDone
