SPECIFICATION Spec
CONSTANTS
  Syncers = {r1}
  Ops = {o1}
  Sales = {s1, s2}
  NoOp = none
  NoSale = none
  Prices = {10}
  Observed <- SeenTen
  Demand <- OneEach
  Opening = 2
  MaxCrashes = 1
INVARIANT SoldOnce
CHECK_DEADLOCK FALSE
