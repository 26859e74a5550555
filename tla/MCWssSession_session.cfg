SPECIFICATION FairSpec
CONSTANTS
    Requests <- RequestKinds
    MaxRequests = 3
CHECK_DEADLOCK FALSE
INVARIANT TypeOK
INVARIANT ContinuationsBounded
INVARIANT LossesBounded
INVARIANT OneOperation
INVARIANT RepliesInOrder
PROPERTY AnsweredOrClosed
PROPERTY SessionReleased
