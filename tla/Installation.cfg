SPECIFICATION FairSpec
CONSTANTS
    Always = {"exe", "app"}
    Odd = {"lib"}
    Even = {"add"}
    Own = {"openconnect"}
    Unchanged = {"openconnect"}
    MaxRelease = 3
    Olds = 2
    MaxFaults = 1
    MaxEnds = 1
INVARIANTS FilesListed WholeRelease
PROPERTIES RemovalHolds UpdatesArrive
CHECK_DEADLOCK FALSE
