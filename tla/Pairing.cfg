SPECIFICATION FairSpec
CONSTANTS
    Enterers = {"e1"}
    MaxCode = 2
    MaxFaults = 1
    Late = FALSE
    Together = FALSE
INVARIANTS WithdrawnIsDead ScreenIsTrue
PROPERTIES CodesEnd
CHECK_DEADLOCK FALSE
