SPECIFICATION Spec
CONSTANTS
    k1 = k1
    k2 = k2
    k3 = k3
    Keys <- MCKeys
    Sizes <- MCSizes
    Batches <- MCBatches
    MaxEntries = 2
    MaxBytes = 3
    MaxFactAge = 2
    AllowedClockSkew = 1
    MaxSafeInteger = 4
    NoTime = NoTime
    NoHit = NoHit
PROPERTY NewestObservationAlwaysKept
