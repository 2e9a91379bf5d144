SPECIFICATION FairSpec
CONSTANTS
  Syncers = {r1, r2}
  Ops = {o1}
  Sales = {s1, s2}
  NoOp = none
  NoSale = none
  Prices = {10, 12}
  Observed <- SeenTen
  Demand <- OneEach
  Opening = 2
  MaxCrashes = 1
INVARIANTS
  TypeOK
  AcceptedIsPaid
  ClaimSellsOnce
PROPERTIES
  ResultIsFinal
  RetriesSettle
CHECK_DEADLOCK FALSE
