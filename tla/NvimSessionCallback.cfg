CONSTANTS
  IdCount = 5
  MaxThemes = 1
  MaxFaults = 0
SPECIFICATION Spec
INVARIANT CallbackFindsClient
CHECK_DEADLOCK FALSE
