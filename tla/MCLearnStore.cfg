SPECIFICATION FairSpec
CONSTANTS
    BINS = 300
    COUNT_MAX = 2
    MIN_PEAK_MASS = 2
    MARKER_MAX = 1
    Samples <- MCSamples
    MaxBoots = 3
    MaxDrops = 1
    MaxWipes = 1
    MaxReadErrors = 1
INVARIANTS CleanMeansSaved
PROPERTIES OnlyWipeForgets EverythingSaved
