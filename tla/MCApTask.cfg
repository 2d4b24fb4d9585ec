CONSTANTS
    N = 1
    NoValue = NoValue
    Value <- MCValue
    MaxCommands = 2
    MaxPanel = 1
SPECIFICATION FairSpec
INVARIANTS TypeOK MutexOwner PendingKept NoCommandForgotten
PROPERTIES FlagsServed MirrorConverges
