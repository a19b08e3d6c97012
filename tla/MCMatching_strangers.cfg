CONSTANTS
  a = a  b = b  c = c  s1 = s1  s2 = s2  s3 = s3  v1 = v1  v2 = v2
  None = None
  Users = {a, b, c}
  Visits = {s1, s2, s3}
  Servers = {v1, v2}
  UserOf <- StrangersUserOf
  ServerOf <- TwoServers
  Leavers = {s1, s3}
  MaxIDs = 3
  MaxFaults = 1
SPECIFICATION Spec
CHECK_DEADLOCK FALSE
INVARIANTS TypeOK OneWaiter ChannelIsForOnePair TokenMeansMember EveryWaiterAccountedFor NoGhostListed
PROPERTIES ImplementsPairing
