SPECIFICATION Spec
CONSTANTS
  c1 = c1
  a1 = a1
  b1 = b1
  Agents = {c1, a1, b1}
  Convener = c1
  Invitees <- OneInvitee
  Announcements <- NoAnnouncements
  MaxMembers = 3
  Acquaintances = {{a1, b1}}
  MaxOps = 2
  MaxMishaps = 0
  NoRecord = NoRecord
INVARIANTS
  AddedMemberJoins
CHECK_DEADLOCK FALSE
