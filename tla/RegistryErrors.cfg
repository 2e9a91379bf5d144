SPECIFICATION RegistrySpec
CONSTANTS
  Requests = {c1}
  Codes = {k1}
  MaxRows = 2
PROPERTY BlockedDeleteIsConflict
CHECK_DEADLOCK FALSE
