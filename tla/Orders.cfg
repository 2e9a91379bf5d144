SPECIFICATION Spec
CONSTANTS
  Clients = {c1, c2}
  OrderIds = {o1, o2}
  PaymentIds = {p1, p2}
  Variants = {v1}
  Stores = {s1}
  Global = global
  NoId = none
  Quantities = {0, 1}
  Menu <- Everything
  Opening <- StoreOnly
  Deltas <- UpAndDown
  MaxSupply = 1
SYMMETRY Symmetry
INVARIANTS
  TypeOK
  PaidExactlyOnce
  CashSaleIsPaid
  NeverOversold
  UnitsConserved
PROPERTIES
  SettledIsFinal
  ImplementsLedger
CHECK_DEADLOCK FALSE
