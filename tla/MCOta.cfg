SPECIFICATION FairSpec
CONSTANTS
    Images <- MCImages
    Factory <- MCFactory
    MinVersions = {0, 2}
    QUEUE = 2
    SIZE = 2
    DESC_END = 1
    CHUNK = 2
INVARIANTS
    AlwaysRecoverable
    NoDowngrade
    KeptOnlyAfterSelfTest
PROPERTIES
    WritesInactiveSlotOnly
    ImplementsContract
    WorkerServes
