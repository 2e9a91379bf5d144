SPECIFICATION FairSpec
CONSTANTS
  Clients = {c1, c2}
  OrderIds = {o1, o2}
  PaymentIds = {p1}
  Variants = {v1, v2}
  Stores = {s1}
  Global = global
  NoId = none
  Quantities = {0, 1}
  Menu <- LockMenu
  Opening <- StoreOnly
  Deltas <- Up
  MaxSupply = 1
PROPERTY RequestsFinish
CHECK_DEADLOCK FALSE
