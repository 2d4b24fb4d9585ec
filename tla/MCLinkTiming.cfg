CONSTANTS
    Polls = 3
    Timeout = 5
    Pause = 2
    MaxPrompt = 2
    MaxLate = 8
    MaxDisturbances = 3
    MaxWrites = 2
SPECIFICATION TimedFairSpec
INVARIANTS ShiftIsShort
PROPERTIES ShiftEnds
