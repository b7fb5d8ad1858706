SPECIFICATION MCSpec
CONSTANTS
    Contents <- MCContents
    Boot <- MCBoot
    MaxWrites = 3
    Absent = Absent
    MaxRenewals = 3
    Unread = Unread
    ServerConfigs <- MCServerConfigs
INVARIANTS     DrainBeforeClose
PROPERTY ShutdownCompletes
CHECK_DEADLOCK FALSE
