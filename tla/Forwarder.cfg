SPECIFICATION Spec
CONSTANTS
    Conns = {c1}
    Kinds = {"listed", "other", "scan"}
    MaxChanges = 2
    MaxCloses = 2
INVARIANTS DoneIsNoDemand DirectOnlyWhileAway
PROPERTIES ConnectionsEnd
CHECK_DEADLOCK FALSE
