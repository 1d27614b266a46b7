SPECIFICATION FairSpec
CONSTANTS
    Devices = {1, 2}
    Creators = {1}
    Texts = {}
    Sites = {}
    Secrets = {pw}
    Values = {"a", "b"}
    Default = "a"
    MaxTime = 1
    MaxGroup = 2
    MaxFaults = 1
    Events = {"edit", "editMidRound", "remove", "lost", "expire"}
PROPERTIES KeepsItsPlace Converges
CHECK_DEADLOCK FALSE
