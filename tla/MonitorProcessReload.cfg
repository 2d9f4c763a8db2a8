CONSTANTS
  e1 = e1
  e2 = e2
  e3 = e3
  Clients = {e1, e2, e3}
  First = e1
  StopSticky = TRUE
SPECIFICATION Spec
INVARIANT ReloadIsActive
CHECK_DEADLOCK FALSE
