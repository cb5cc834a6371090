SPECIFICATION Spec
CONSTANTS
    RpmData <- MCRpm
    SpeedData <- MCSpeed
    InterlockData <- MCInterlock
    INTERLOCK_EVERY_N_CYCLES = 2
    VeryLate = TRUE
    MaxFaults = 1
INVARIANT NoForeignValue
