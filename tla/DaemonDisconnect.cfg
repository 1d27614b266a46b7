SPECIFICATION Spec
CONSTANTS
    NoAccount = none
    MaxTunnels = 4
    Events = {"connect", "disconnect", "slow", "offline", "traffic", "resume"}
    Accounts = {a1}
    Pages = {p1}
    Mfa = "none"
    MaxWindow = 1
    MaxEdits = 0
    MaxRestarts = 0
    CiscoAnswers = {FALSE}
    Preconditions = {"ok"}
    Reads = {"ok"}
    StartErrors = {}
INVARIANTS OneTunnel
PROPERTIES DisconnectHonoured
