SPECIFICATION Spec
CONSTANTS
    Schema <- Layout
    Types <- AllTypes
    Strings <- SomeStrings
    Blobs <- SomeBlobs
    Numbers <- SomeNumbers
    Received <- SomeBytes
    IntBits = 16
    Edits <- EditsOf
    MaxCalls = 1
 
INVARIANT SizeExact
INVARIANT ConcatMerges
INVARIANT BitsUnseen
CHECK_DEADLOCK FALSE
