SPECIFICATION FairSpec
CONSTANTS
  CHARS <- CharsMC
  Phones = {"p", "q"}
  Writes <- ThreeWrites
  CMD_QUEUE = 1
  WIFI_QUEUE = 1
  MaxBehind = 2
  Overlap = FALSE
  MaxFails = 1
INVARIANTS
  HandlesMatch
  ServesTheLink
  AppliedOnce
PROPERTIES
  NobodyWaits
CHECK_DEADLOCK FALSE
