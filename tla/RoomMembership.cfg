\* An admin, a member that comes and goes, three acts of the admin, one crash.
CONSTANTS
  r1 = r1 a1 = a1 b1 = b1 b2 = b2 A = A B = B
  Room = {r1}
  Conn = {a1, b1, b2}
  Member = {A, B}
  Home <- MCHome
  MemberOf <- MCMemberOf
  Creator <- MCCreator
  Lead = {a1}
  MaxParticipants = 2
  MaxActiveRooms = 1
  MaxConnections = 3
  MaxActs = 3
  QuietTargets = TRUE
SPECIFICATION Spec
INVARIANTS WithinLimits  
CHECK_DEADLOCK FALSE
