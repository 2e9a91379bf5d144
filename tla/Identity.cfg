SPECIFICATION IdentitySpec
CONSTANTS
  Requests = {c1, c2}
  Members = {m1, m2, m3}
  Founder = m1
  Token = {t1, t2, t3}
  NoToken = none
  u1 = u1
  u2 = u2
  t1 = b1
  t2 = b2
  Manage = manage
  Others = {read}
  MaxRoles = 2
  MaxRequests = 2
  Device = {d1}
  Uuids = {x1, x2}
  Seqs = {s1, s2}
  MaxSessions = 2
  MaxRotations = 2
INVARIANTS
  TypesOK
  CountsStand
  RotatedOnce
  OneLivePerLogin
PROPERTIES
  OnlyStaleUnseats
  LoggedOutStays
  
  OnlyManagersWrite
  RetiredIsFinal
  RepeatIsIdempotent
  SettledStaysReported
SYMMETRY Symmetry
CHECK_DEADLOCK FALSE
