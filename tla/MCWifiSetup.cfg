SPECIFICATION FairSpec
CONSTANTS
  MaxSets = 3
  Open = {2}
  Policies = {0, 2}
  QUEUE = 2
  MaxFaults = 1
  MaxCuts = 1
  WrapFails = TRUE
INVARIANTS
  RebootKeepsSettings
  PasswordNotForOlderNetwork
  SingleOwner
PROPERTIES
  AttemptsEnd
CHECK_DEADLOCK FALSE
