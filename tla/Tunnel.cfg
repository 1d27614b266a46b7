SPECIFICATION KindSpec
CONSTANTS
    Factors = {"none", "totp_field", "totp_append", "duo_push", "typed"}
    Asks = {"one", "two", "web", "nothing"}
    Stoppers = {"user"}
    Outlives = {FALSE}
    MaxMoves = 1
    Addresses = {"a", "b"}
    MaxReports = 2
    WinStoppers = {"user"}
    Clients = {"c1", "c2"}
INVARIANTS SecretGone RefusedOnce VerdictNamesFactor SignsInOnce
PROPERTIES RightSignInComesUp StopsReturn EveryKindIsLoops NothingLeftOpen
CHECK_DEADLOCK FALSE
