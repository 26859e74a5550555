SPECIFICATION QSpec
CONSTANTS
    S1 = S1
    S2 = S2
    Root = Root
    Sub = Sub
    Deep = Deep
    Cat = Cat
    StarCat = StarCat
    sub = sub
    deep = deep
    NoSegment = NoSegment
    Sessions <- OneSession
    Ops <- AllOps
    Folders <- AllFolders
    Stems <- OneStem
    Clean <- Same
    SegmentIn <- Segments
    Opens <- Begins
    PlaceholderIn <- RootOnly
    Asked <- LookUps
    MaxJobs = 3
    MaxFaults = 1
    MaxCrashes = 0
    MaxQueries = 1
CHECK_DEADLOCK FALSE
INVARIANT ItemsInOrder
INVARIANT FileFoundByPath
INVARIANT FolderFoundByPath
INVARIANT KeysUnique
