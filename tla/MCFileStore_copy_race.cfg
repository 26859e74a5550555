SPECIFICATION Spec
CONSTANTS
    S1 = S1
    S2 = S2
    Root = Root
    Sub = Sub
    Cat = Cat
    StarCat = StarCat
    Sessions <- TwoSessions
    Ops <- AddRewrite
    Folders <- OneFolder
    Stems <- OneStem
    Clean <- Same
    MaxJobs = 3
    MaxFaults = 0
    MaxCrashes = 0
INVARIANTS
    KeysUnique
CHECK_DEADLOCK FALSE
