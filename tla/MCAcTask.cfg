CONSTANTS
    Temp <- MCTemp
    Mode <- MCMode
    Ranges <- MCFrames
    Initial <- MCInitial
    NoValue = NoValue
    Lines <- MCLines
    MaxChanges = 2
    MaxPanel = 0
SPECIFICATION Spec
INVARIANTS TypeOK PendingKept NoCommandForgotten SetpointFollowsMode
