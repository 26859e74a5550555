SPECIFICATION Spec
CONSTANTS
    s1 = s1
    s2 = s2
    anna = anna
    boris = boris
    p1 = p1
    p2 = p2
    Sessions <- TwoSessions
    Logins <- TwoLogins
    Passwords <- TwoPasswords
    MaxJobs = 4
    MaxFaults = 1
    MaxCrashes = 1
SYMMETRY Symmetry
CHECK_DEADLOCK FALSE
INVARIANT DuplicatesOverlap
INVARIANT TokensTrue
INVARIANT HalfRegisteredAccounted
INVARIANT DenialsAccounted
