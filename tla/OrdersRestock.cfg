SPECIFICATION Spec
CONSTANTS
  Clients = {c1, c2}
  OrderIds = {o1}
  PaymentIds = {p1}
  Variants = {v1}
  Stores = {s1}
  Global = global
  NoId = none
  Quantities = {0, 1}
  Menu <- RestockMenu
  Opening <- OneEach
  Deltas <- Up
  MaxSupply = 1
INVARIANT PoolsBalance
CHECK_DEADLOCK FALSE
