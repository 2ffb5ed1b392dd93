SPECIFICATION Spec
CONSTANTS
    Saves = {s1, s2}
    MaxSamples = 5
    NotRead = NotRead
    MinSamplesForUse = 3
    Times = {0, 1, 60}
INVARIANTS
    TypeOK FirstSampleIsFirst SerialSavesLoseNothing CrashLosesOneSample
    SelectFindsAvailable
