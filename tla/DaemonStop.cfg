SPECIFICATION FairSpec
CONSTANTS
    NoAccount = none
    MaxTunnels = 4
    Events = {"connect", "cisco", "idle", "stop"}
    Accounts = {a1}
    Pages = {}
    Mfa = "none"
    MaxWindow = 1
    MaxEdits = 0
    MaxRestarts = 1
    CiscoAnswers = {TRUE, FALSE}
    Preconditions = {"ok"}
    Reads = {"ok"}
    StartErrors = {}
INVARIANTS EndsClean
PROPERTIES StopEnds BlockedEnds
CHECK_DEADLOCK FALSE
