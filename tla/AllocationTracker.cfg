CONSTANTS
    Main = Main
    Workers = {w}
    Background = {b}
    Sizes = {1}
    MaxBlocks = 2
    MaxGuards = 2
SPECIFICATION Spec
INVARIANTS
    TypeOK
    ReportedIsThePeak
    CountIsExactWhenQuiet
PROPERTIES
    PeakOnlyRises
