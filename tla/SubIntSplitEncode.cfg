CONSTANTS
    Width = 3
    MaxRows = 2
    Configs <- MCConfigs
    Inputs <- MCInputs
    None = None
SPECIFICATION Spec
INVARIANTS
    TypeOK
    RoundTrip
    TasksUseLiveArrays
PROPERTIES
    EveryEncodeEnds
