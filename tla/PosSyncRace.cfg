SPECIFICATION Spec
CONSTANTS
  Syncers = {r1, r2}
  Ops = {o1}
  Sales = {s1}
  NoOp = none
  NoSale = none
  Prices = {10}
  Observed <- SeenTen
  Demand <- OneEach
  Opening = 1
  MaxCrashes = 0
INVARIANT WinnerFinalizes
CHECK_DEADLOCK FALSE
