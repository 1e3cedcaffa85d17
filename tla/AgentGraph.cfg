SPECIFICATION Spec
CONSTANTS
    a1 = a1
    a2 = a2
    a3 = a3
    a4 = a4
    Agents <- ThreeAgents
    ToolLists <- ThreeLists
    Absent = Absent
    MAX_DEPTH = 3
    MaxChanges = 1
    MaxCrashes = 1
SYMMETRY Symmetry
INVARIANT TypeOK
INVARIANT VerdictExact
INVARIANT AcceptedAcyclic
CHECK_DEADLOCK FALSE
