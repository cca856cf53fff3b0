CONSTANTS
    Width = 3
    Inf = 50
    Is64 = FALSE
    Families <- MCFamilies
SPECIFICATION Spec
CHECK_DEADLOCK FALSE
INVARIANTS
    TypeOK
    FindsTheCheapest
    PlanConfigures
    CollapseIsCheapest
PROPERTIES
    MergingPays
    MergingEnds
