SPECIFICATION RetailSpec
CONSTANTS
  Requests = {c1, c2}
  Variants = {v1, v2}
  MaxCarts = 2
  MaxItems = 2
  MaxUnits = 2
  MaxAmount = 1
  Codes = {k1}
  MaxRegistered = 4
  MaxCatalogued = 4
  Names = {n1, n2}
  MaxNamed = 2
  MaxAccounts = 5
  MaxListed = 3
  Times = {1, 2}
  Tags = {g1, g2}
  MaxLimit = 2
  None = none
INVARIANTS
  TypesOK
  OrderedCartClosed
  EveryRowListed
  NoRowTwice
PROPERTIES
  CartIsBasket
  HistoryKept
  OpaqueErrorsAreRaces
SYMMETRY Symmetry
CHECK_DEADLOCK FALSE
