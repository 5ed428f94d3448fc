CONSTANTS
    Origin = origin
    Positions = {origin, a, b}
    MaxWalks = 3
    Window = 2
SPECIFICATION Spec
INVARIANTS TypeOK RestMeansAgreement
PROPERTIES ComesToRest ReportHeals
CHECK_DEADLOCK FALSE
