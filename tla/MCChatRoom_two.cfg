SPECIFICATION Spec
CONSTANTS
  u1 = u1
  u2 = u2
  s1 = s1
  s2 = s2
  s3 = s3
  Users = {u1, u2}
  Sessions = {s1, s2}
  UserOf <- Two
  Senders = {}
  Readers = {}
  Leavers = {s1, s2}
  Deleters = {u1}
  Expiring = {u2}
  MaxNum = 1
  MaxFaults = 1
INVARIANTS
  TypeOK
  NoGhostOnline
  NotBothWaiting
CHECK_DEADLOCK FALSE
