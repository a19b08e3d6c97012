SPECIFICATION FairSpec
CONSTANTS
  u1 = u1
  u2 = u2
  s1 = s1
  s2 = s2
  s3 = s3
  Users = {u1, u2}
  Sessions = {s1, s2}
  UserOf <- Two
  Senders = {}
  Readers = {}
  Leavers = {s1, s2}
  Deleters = {u2}
  Expiring = {}
  MaxNum = 1
  MaxFaults = 0
PROPERTIES
  LeavingEndsSessions
CHECK_DEADLOCK FALSE
