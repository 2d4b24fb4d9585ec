CONSTANTS
    Temp <- MCTemp
    Mode <- MCMode
    Ranges <- MCModeAndSet
    Initial <- MCInitial
    NoValue = NoValue
    Lines <- MCUnreliable
    MaxChanges = 2
    MaxPanel = 1
SPECIFICATION FairSpec
PROPERTIES FlagsServed MirrorConverges
