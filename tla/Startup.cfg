CONSTANTS
  MaxPath = 4
  MaxPort = 90
  MaxTokens = 6
SPECIFICATION Spec
INVARIANT TypeOK
INVARIANT AddressIsRead
PROPERTY FileIsKept
PROPERTY SuccessIsEarned
CHECK_DEADLOCK FALSE
