SPECIFICATION ScheduleSpec
CONSTANTS
  Requests = {c1, c2}
  Reservation = {r1, r2}
  Equipment = {e1}
  Booking = {b1, b2}
  Service = {s1, s2}
  Order = {o1, o2}
  Horizon = 2
  None = none
SYMMETRY Symmetry
INVARIANTS
  TypesOK
  NoDoubleRental
  DurationsPositive
  NoDoubleBooking
  OrderedOnce
PROPERTY OnlyStaleRevives
CHECK_DEADLOCK FALSE
