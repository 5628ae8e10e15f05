SPECIFICATION DwSpec
CONSTANTS
    MaxJobs = 2
    MaxChannels = 2
    InfoMayFail = TRUE
    DwMayFail = TRUE
INVARIANTS NoJobOnDeletedChannel
CHECK_DEADLOCK FALSE
