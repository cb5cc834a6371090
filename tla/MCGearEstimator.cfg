SPECIFICATION Spec
CONSTANTS
    DEBOUNCE_N = 3
    DEBOUNCE_CONFIDENT = 2
    STANDSTILL_FORGET = 8
    U8_MAX = 255
    Rpms = {1357, 2150}
    Speeds = {0, 10}
    GearRegs <- W230Regs
    BandTables <- MCBandTables
INVARIANTS
    TypeOK
    NoStaleNeutral
    SteadyRatioShown
    StandstillForgets
PROPERTIES
    DebouncedCommit
    ForgottenOnlyAtStandstill
