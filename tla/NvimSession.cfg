CONSTANTS
  IdCount = 2
  MaxThemes = 1
  MaxFaults = 1
SPECIFICATION FairSpec
INVARIANT TypeOK
INVARIANT ResponsesMatch
INVARIANT ConnectedIsRegistered
INVARIANT QueryUnderWay
PROPERTY GetsConnected
PROPERTY QueryAnswered
CHECK_DEADLOCK FALSE
