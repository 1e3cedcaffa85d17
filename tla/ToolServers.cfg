SPECIFICATION Spec
CONSTANTS
    Servers = {"remote", "service"}
    KindOf <- RemoteAndService
    Tools = {t1, t2}
    Absent = Absent
    Free = Free
    MaxEnv = 1
    MaxFaults = 1
    MaxCrashes = 1
INVARIANTS
    TypeOK
    StatusTellsRows
    DeletedRowsLeft
SYMMETRY ToolSymmetry
CHECK_DEADLOCK FALSE
