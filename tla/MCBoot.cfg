CONSTANTS
    home = home
    office = office
    key = key
    code = code
    NoString = NoString
    Sent <- MCSent
    Working <- MCWorking
    CountSize = 4
    MaxPowerLosses = 1
    MaxRefusals = 1
    MaxEarly = 1
    Year2016 = 10
    MaxSeconds = 3
SPECIFICATION FairSpec
INVARIANTS CredentialsWork CountTrue NeverMisdelivered RunTracks
PROPERTIES Provisioned
