SPECIFICATION Spec
CONSTANTS
    Devices = {1, 2}
    Creators = {1, 2}
    Texts = {}
    Sites = {s}
    Secrets = {}
    Values = {"a"}
    Default = "a"
    MaxTime = 2
    MaxGroup = 1
    MaxFaults = 1
    Events = {"edit", "lost", "offline", "refuse", "end"}
INVARIANTS InStep
PROPERTIES NothingSentBack LaterChangeWins
