SPECIFICATION FairSpec
CONSTANTS
    RpmData <- MCRpm
    SpeedData <- MCSpeed
    InterlockData <- MCInterlock
    INTERLOCK_EVERY_N_CYCLES = 2
    VeryLate = FALSE
    MaxFaults = 3
INVARIANTS NoForeignValue
PROPERTY LinkRecovers
