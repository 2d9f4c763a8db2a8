CONSTANT N = 6
SPECIFICATION FairSpec
INVARIANT TypeOK
INVARIANT DependentsFirst
PROPERTY TeardownSpec
PROPERTY StopIsReported
CHECK_DEADLOCK FALSE
