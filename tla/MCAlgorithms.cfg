SPECIFICATION TestSpec
CONSTANTS
    Target = 3
    Half = 2
    Phases = 4
    Margin = 2
    MinBuffer = 12
    Rates <- MCRates
    Lengths <- MCLengths
    Payload = 2
    ValueBits = 5
    ByteBits = 3
    FastBits = 2
    ProbeBits = 5
    GroupBits = 2
    MaxGroups = 2
    IdLimit = 16
    Fast <- MCFast
    Primary <- MCPrimary
    LongCodes <- MCLongCodes
    Escape = 8
    Extended = 9
    Subquantizers = 2
    Codewords = 3
    SubspaceSize = 8
    PartitionCount = 1000
    Finite <- MCFinite
    Utf8 <- MCUtf8
    Kinds <- MCKinds
    Cases <- MCCases
INVARIANTS
    SelectsNearest
    LookupsAgree
    ValidatedIsReadable
    Decodes
    MatchesTransform
    DistanceIsExact
    ShapesFit
    SquelchFollowsSong
    AsksForTheRightCatalog
    WindowIsRight
CHECK_DEADLOCK FALSE
