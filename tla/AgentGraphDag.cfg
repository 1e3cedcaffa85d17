SPECIFICATION Spec
CONSTANTS
    a1 = a1
    a2 = a2
    a3 = a3
    a4 = a4
    Agents <- FourAgents
    ToolLists <- FourLists
    Absent = Absent
    MAX_DEPTH = 10
    MaxChanges = 0
    MaxCrashes = 0
INVARIANT DagAccepted
CHECK_DEADLOCK FALSE
