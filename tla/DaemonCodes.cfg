SPECIFICATION FairSpec
CONSTANTS
    NoAccount = none
    MaxTunnels = 4
    Events = {"connect", "disconnect"}
    Accounts = {a1}
    Pages = {}
    Mfa = "totp_append"
    MaxWindow = 3
    MaxEdits = 0
    MaxRestarts = 0
    CiscoAnswers = {FALSE}
    Preconditions = {"ok"}
    Reads = {"ok"}
    StartErrors = {}
PROPERTIES NoCodeTwice DisconnectReturns DisconnectingEnds
