\* Every sweep but that of the attributes comes to an end.
SPECIFICATION Sweeps
CONSTANTS
    MAX_ATTR_LEN = 26
    CAPACITY = 3
    EVENT_TEXT = 3
    EVENT_FRAME = 2
    TRIM = 2
    Texts <- MCTexts
    Notes <- MCNotes
    Others <- MCOthers
    Tables <- MCTables
    BINS = 300
    COUNT_MAX = 65535
    MIN_PEAK_MASS = 15
    MARKER_MAX = 5
    Window <- MCWindow
    Counts <- MCCounts
    MaxBins = 3
    RpmStep = 150
    MaxRpm = 10500
    MaxSpeed = 110
    Scheme <- MCScheme
    MAX_SSID = 2
    MAX_PSK = 3
    MaxPayload = 5
    Openings <- MCOpenings
    Alphabet <- MCAlphabet
    Addresses <- MCAddresses
    Statuses <- MCStatuses
    Usual <- MCUsual
INVARIANTS
    ClassifiedRight PeaksFound BandsFollowPeaks
    DecodesWhatWasSent PhoneShowsStatus EventsShownWhole
PROPERTIES GearFollowsRatio RenderingEnds
CHECK_DEADLOCK FALSE
