SPECIFICATION Spec
CONSTANTS
    DEBOUNCE_N = 2
    DEBOUNCE_CONFIDENT = 2
    STANDSTILL_FORGET = 2
    U8_MAX = 2
    Rpms = {1357}
    Speeds = {10}
    GearRegs <- W230Regs
    BandTables <- MCBandTables
    LED_QUEUE = 4
    REFRESH_EVERY = 8
    Brightness = {0}
    Gaps = {100}
    Disturbances = {}
INVARIANTS
    NoStaleNOnMatrix
