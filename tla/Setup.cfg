SPECIFICATION BothSpec
CONSTANTS
    Systems = {"linux", "macOS", "windows"}
    MaxRuns = 3
    MaxFaults = 2
    MaxJobs = 2
    MaxTokens = 3
    MaxMishaps = 1
INVARIANTS RemovalIsExact SetupIsTrue NoFutileRepair UsedStays NothingLeft
CHECK_DEADLOCK FALSE
