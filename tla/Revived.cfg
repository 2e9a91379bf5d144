SPECIFICATION Spec
CONSTANTS
  Requests = {c1, c2}
  Reservation = {r1}
  Equipment = {e1}
  Horizon = 2
  None = none
PROPERTY CancelledIsImmutable
CHECK_DEADLOCK FALSE
