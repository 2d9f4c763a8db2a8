CONSTANTS
  e1 = e1
  e2 = e2
  e3 = e3
  Clients = {e1, e2, e3}
  First = e1
  StopSticky = TRUE
SPECIFICATION FairSpec
INVARIANT TypeOK
INVARIANT SettledAfterStop
INVARIANT EndUnderWay
PROPERTY ExitFollows
PROPERTY StopCompletes
CHECK_DEADLOCK FALSE
