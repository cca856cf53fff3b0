SPECIFICATION Spec
CONSTANTS
    OtherEncodings <- EncodingsOf
    OtherAnswer <- AnswerOf
    OtherHeld <- HeldBy
    Kinds = {"BlockFORFPE"}
    Values <- WideValues
    MaxRows <- MCMaxRows
    MaxRanges = 2
    WordBits = 3
    ValueBits = 3
    BlockSizes = {2, 3, 4}
    MaxDepth = 2
INVARIANTS
    AnyWidthIsRead
