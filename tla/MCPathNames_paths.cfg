SPECIFICATION Spec
CONSTANTS
    Users <- TheUsers
    Id <- TheId
    Banned <- TheBanned
    Upper <- TheUpper
    Reserved <- TheReserved
    MaxSegment = 3
    Code <- TheCode
    Plain <- ThePlain
    Signs <- TheSigns
    Special <- MatchesNothing
    PathChars <- ThePathChars
    FormChars <- TheFormChars
    MaxPath = 5
    MaxField = 5
INVARIANT SanitizedClean
INVARIANT LookupsAgree
INVARIANT FormRoundTrip
CHECK_DEADLOCK FALSE
