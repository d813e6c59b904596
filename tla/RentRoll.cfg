SPECIFICATION Spec
CONSTANTS
    Percentages = {1, 2}
    NoPercentage = NoPercentage
    MaxRows = 3
    Files <- MCFiles
    MonthOf <- MCMonthOf
    PlaceOf <- MCPlaceOf
    AmountsOf <- MCAmountsOf
    NoAmount = NoAmount
    NoMonth = 0
    EarlierReports <- MCEarlier
    TrendMonths = 3
    ChunkCounts = {0, 2}
    MaxChunksCited = 1
INVARIANTS
    LoadsAreWhole
    ChargesFollowTheirUnit
    BriefsAreGrounded
    BriefsStayOnTheDecline
CHECK_DEADLOCK FALSE
