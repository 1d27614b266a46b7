SPECIFICATION Spec
CONSTANTS
    NoAccount = none
    MaxTunnels = 4
    Events = {"connect", "disconnect", "code", "cancel", "password", "totp", "slow", "setup"}
    Accounts = {a1, a2}
    Pages = {}
    Mfa = "totp_append"
    MaxWindow = 1
    MaxEdits = 1
    MaxRestarts = 0
    CiscoAnswers = {FALSE}
    Preconditions = {"ok", "not_elevated", "saml"}
    Reads = {"ok", "keyring", "auth_failed"}
    StartErrors = {"keyring", "auth_failed", "error"}
INVARIANTS TunnelsConsistent VerdictIsCurrent
SYMMETRY AccountsAlike
