SPECIFICATION Spec
CONSTANTS
  u1 = u1
  u2 = u2
  s1 = s1
  s2 = s2
  s3 = s3
  Users = {u1, u2}
  Sessions = {s1, s2}
  UserOf <- Two
  Senders = {s1, s2}
  Readers = {s2}
  Leavers = {}
  Deleters = {}
  Expiring = {}
  MaxNum = 1
  MaxFaults = 1
INVARIANTS
  FetchedOrDelivered
PROPERTIES
  ImplementsConversation
CHECK_DEADLOCK FALSE
