SPECIFICATION FairSpec
CONSTANTS
    Servers = {"remote", "mcp"}
    KindOf <- RemoteAndMCP
    Tools = {t1}
    Absent = Absent
    Free = Free
    MaxEnv = 1
    MaxFaults = 1
    MaxCrashes = 1
PROPERTIES
    ToolsConverge
    DeletedRowsRemoved
CHECK_DEADLOCK FALSE
