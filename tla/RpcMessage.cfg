CONSTANT MaxItems = 5
SPECIFICATION Spec
INVARIANT TypeOK
INVARIANT RequestsAreWhole
INVARIANT OnlyResultsEndThread
PROPERTY ResponseIsDelivered
CHECK_DEADLOCK FALSE
