CONSTANTS
  Editors = {e1, e2}
  First = e1
  MaxChanges = 2
  MaxAsks = 1
SPECIFICATION FairSpec
INVARIANT TypeOK
INVARIANT NoLostUpdate
INVARIANT QueryIsFresh
INVARIANT GreetedFirst
PROPERTY Converges
CHECK_DEADLOCK FALSE
