CONSTANTS
    Datasets = {"a", "a2", "a3", "b", "c", "e"}
    RowCount <- MCRowCount
    Size <- MCSize
    Payload <- MCPayload
    OuterAddrs = {o1, o2, o3}
    ViewAddrs = {v1, v2, v3, v4}
    Splits = 2
    Kind <- MCKind
    Setups <- MCSetups
    None = None
SPECIFICATION Spec
SYMMETRY MCAddresses
INVARIANTS
    TypeOK
    ReadsWhatItIsGiven
    RightRowCount
