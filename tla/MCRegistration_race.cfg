SPECIFICATION Spec
CONSTANTS
    s1 = s1
    s2 = s2
    anna = anna
    boris = boris
    p1 = p1
    p2 = p2
    Sessions <- TwoSessions
    Logins <- OneLogin
    Passwords <- TwoPasswords
    MaxJobs = 2
    MaxFaults = 0
    MaxCrashes = 0
CHECK_DEADLOCK FALSE
INVARIANT LoginsUnique
