SPECIFICATION QSpec
CONSTANTS
    S1 = S1
    S2 = S2
    Root = Root
    Sub = Sub
    Deep = Deep
    Cat = Cat
    StarCat = StarCat
    sub = sub
    deep = deep
    NoSegment = NoSegment
    Sessions <- TwoSessions
    Ops <- AddDelete
    Folders <- RootAndDeep
    Stems <- OneStem
    Clean <- Same
    SegmentIn <- Segments
    Opens <- Begins
    PlaceholderIn <- RootOnly
    Asked <- Lists
    MaxJobs = 3
    MaxFaults = 1
    MaxCrashes = 1
    MaxQueries = 2
CHECK_DEADLOCK FALSE
INVARIANT KnownListed
INVARIANT ListedDownloadable
INVARIANT DanglingAccounted
INVARIANT AckedStored
PROPERTY CatalogSpec
