\* Two encoders, one of them a SubIntSplitAuto, on two streams; a cache of one
\* entry (Options' default, and 0, which is clamped) or of two.
SPECIFICATION Spec
CONSTANTS
    Autos = {auto}
    Encoders = {auto, plain}
    Streams = {s1, s2}
    Plans = {p, q}
    Bounds = {0, 1, 2}
    Warmup = 1
    Iterations = 2
    None = None
INVARIANTS
    TypeOK
    IndexFindsEntries
    LeastRecentlyUsedGoes
    HeldIsWhatWasAsked
    MeasuresOnePlan
    HeldDecodes
