CONSTANTS
    MaxCommands = 1
    MaxFailures = 1
    CoilRanges <- MCCoilRanges
    HoldingRanges <- MCHoldingRanges
SPECIFICATION Spec
INVARIANTS CommandComesBack RelayCommanded DocumentedStatus
PROPERTIES OneSource
