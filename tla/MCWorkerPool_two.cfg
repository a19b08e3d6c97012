CONSTANTS
  w1 = w1  w2 = w2
  Workers = {w1, w2}
  MaxMessages = 6
SPECIFICATION FairSpec
CHECK_DEADLOCK FALSE
INVARIANTS TypeOK TaskInOnePlace OvertakenByFew NobodyIsStuck
PROPERTIES ImplementsMessagePool MessageIsHandled StopReturns
