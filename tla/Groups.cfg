SPECIFICATION FairSpec
CONSTANTS
  c1 = c1
  a1 = a1
  b1 = b1
  Agents = {c1, a1, b1}
  Convener = c1
  Invitees <- SomeInvitees
  Announcements <- SomeAnnouncements
  MaxMembers = 3
  Acquaintances = {{a1, b1}, {b1}}
  MaxOps = 3
  MaxMishaps = 1
  NoRecord = NoRecord
INVARIANTS
  
  SettledViewsAgree
PROPERTIES
  LeaversStayOut
  CompletionSticks
  FanoutsEnd
  InviteesJoin
CHECK_DEADLOCK FALSE
