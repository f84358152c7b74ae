\* Two requests at once in each component.
CONSTANTS
  Messages = {m1, m2}
  ChatJobs = {j1, j2}
  MaxLoads = 2
  Sockets = {s1, s2, s3}
  MaxConnects = 4
  CodeValues = {x1, x2}
  Verifiers = {v1, v2}
  MaxCodes = 2
  Lifetime = 1
  MaxClock = 2
  Clerks = {k1, k2}
  Asked = {"DONE", "unlisted"}
  Edits = {{"CLOSED"}}
  MaxChanges = 3
  Mobiles = {a1, a2}
  Townships = {t1, t2}
  Invites = {i1, i2}
  Guests = {g1, g2}
  NoTownship = NoTownship
  Homes = {h1, h2}
  Movers = {w1, w2}
  Kinds = {"OWNER", "TENANT"}
  LastDay = 1
SPECIFICATION FocusSpec
SYMMETRY Alike
INVARIANTS
  CommunityTypeOK
  PresenceHasSocket
  CodeAcceptedOnce
  TicketTrail
  InvitationCompletes
  OneResidentAtATime
PROPERTIES
  MarksStay
CHECK_DEADLOCK FALSE
