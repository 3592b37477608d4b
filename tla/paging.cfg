SPECIFICATION FairSpec
CONSTANTS
    Row <- MCRow
    Limit = 2
    NoCursor = NoCursor
INVARIANTS TypeOK NoneMissed NewestFirst
PROPERTY ListingEnds
