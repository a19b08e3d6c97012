SPECIFICATION Spec
CONSTANTS
  u1 = u1
  u2 = u2
  s1 = s1
  s2 = s2
  s3 = s3
  Users = {u1, u2}
  Sessions = {s1, s2, s3}
  UserOf <- Reload
  Senders = {}
  Readers = {}
  Leavers = {s1, s3}
  Deleters = {}
  Expiring = {}
  MaxNum = 1
  MaxFaults = 1
INVARIANTS
  OpenMeansOnline
  ChangesAreAnnounced
CHECK_DEADLOCK FALSE
