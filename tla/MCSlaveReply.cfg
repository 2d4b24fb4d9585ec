CONSTANTS
    Bits = 2
    CoilMax = 3
    HoldingMax = 3
    Word <- MCWord
    Address <- MCAddress
    MaxQty = 3
    MaxStores = 2
SPECIFICATION Spec
INVARIANTS TypeOK ReadsTrue WritesExact
