SPECIFICATION Spec
CONSTANTS
    OtherEncodings <- EncodingsOf
    OtherAnswer <- AnswerOf
    OtherHeld <- HeldBy
    Kinds <- AllKinds
    Values <- MCValues
    MaxRows <- MCMaxRows
    MaxRanges = 2
    WordBits = 3
    ValueBits = 3
    BlockSizes = {2, 3, 4}
    MaxDepth = 2
INVARIANTS
    RunLengthAgrees
    MainlyConstantAgrees
    DeltaAgrees
    PackedAgrees
    PartitionAgrees
    BlockPartitionAgrees
    FramesAgree
    ReorderedAgrees
