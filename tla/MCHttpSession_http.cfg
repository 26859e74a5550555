SPECIFICATION FairSpec
CONSTANT MaxRequests = 4
CHECK_DEADLOCK FALSE
INVARIANT SingleChain
INVARIANT RepliesMatch
INVARIANT ClosesWhenTold
INVARIANT ServesCurrent
PROPERTY Answered
PROPERTY Released
