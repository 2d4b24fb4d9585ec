CONSTANTS
    Poll <- MCPoll
    Write <- MCWrite
    MaxWire = 1
    MaxUndone = 1
    MaxVersion = 1
SPECIFICATION FairSpec
INVARIANTS ValidatedStays RxBounded
PROPERTIES PolledMirrorSpec OfflineDetected
