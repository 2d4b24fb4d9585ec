CONSTANTS
    MaxSends = 4
SPECIFICATION FairSpec
INVARIANTS ExecutedOnce CleanFrameExecuted RxBounded
PROPERTIES Recovers
CHECK_DEADLOCK FALSE
