CONSTANT Users = {P1, P2}
SPECIFICATION FairSpec
PROPERTY WaitReturns
CHECK_DEADLOCK FALSE
