SPECIFICATION Spec
CONSTANTS
    Requests = {"pathInf"}
    MaxRequests = 1
INVARIANTS
    WritesDoNotOverlap
CHECK_DEADLOCK FALSE
