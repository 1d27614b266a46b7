SPECIFICATION Spec
CONSTANTS
    Systems = {"macOS", "linux", "windows"}
    Events = {"user", "service", "clock", "fail", "crash", "update"}
    MaxSetups = 2
    MaxRules = 1
    MaxChanges = 1
    MaxFaults = 1
    MaxTroubles = 1
INVARIANTS RestoredOnRemoval BrowsersFollow
CHECK_DEADLOCK FALSE
