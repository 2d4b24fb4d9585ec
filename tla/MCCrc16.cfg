CONSTANTS
    Byte <- MCByte
SPECIFICATION CrcSpec
INVARIANTS DamageShows
PROPERTIES RegisterSpec
