SPECIFICATION Spec
CONSTANTS
  Requests = {c1, c2}
  Members = {m1, m2}
  Founder = m1
INVARIANT OwnerRemains
CHECK_DEADLOCK FALSE
