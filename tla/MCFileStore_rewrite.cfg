SPECIFICATION FairSpec
CONSTANTS
    S1 = S1
    S2 = S2
    Root = Root
    Sub = Sub
    Cat = Cat
    StarCat = StarCat
    Sessions <- TwoSessions
    Ops <- AllOps
    Folders <- OneFolder
    Stems <- TwoStems
    Clean <- ToCat
    MaxJobs = 4
    MaxFaults = 1
    MaxCrashes = 1

INVARIANT OrphansAccounted
INVARIANT AckedDeleted
CHECK_DEADLOCK FALSE

PROPERTY JobsFinish
