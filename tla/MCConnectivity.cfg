CONSTANTS
    MaxLosses = 1
    MaxBreaks = 1
    MaxEvents = 2
    MaxMessages = 1
SPECIFICATION FairSpec
INVARIANTS ClientsBounded PublishedRight
PROPERTIES Recovers ReportedOnline
