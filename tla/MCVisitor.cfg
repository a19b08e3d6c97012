SPECIFICATION FairSpec
CONSTANTS
  Tabs = {t1, t2}
  Ids = {u1, u2}
  Channels = {c1}
  None = None
  Bad = Bad
  MaxPosts = 1
  MaxFaults = 1
  MaxWhims = 1
INVARIANTS
  TypeOK
  TokenIsHisOwn
PROPERTIES
  VisitorIsServed
CHECK_DEADLOCK FALSE
