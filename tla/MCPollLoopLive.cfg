SPECIFICATION FairSpec
CONSTANTS
    DEBOUNCE_N = 2
    DEBOUNCE_CONFIDENT = 2
    STANDSTILL_FORGET = 2
    U8_MAX = 2
    Rpms = {1357}
    Speeds = {}
    GearRegs <- W230Regs
    BandTables <- MCBandTables
    LED_QUEUE = 1
    REFRESH_EVERY = 2
    Brightness = {0}
    Gaps = {100}
    Disturbances = {"ledfault", "ota", "restart", "probation"}
PROPERTIES
    NeutralShown
    NeutralCleared
