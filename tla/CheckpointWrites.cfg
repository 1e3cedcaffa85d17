SPECIFICATION LgSpec
CONSTANTS
    LgTasks = {1, 2}
    Writes <- UnequalWrites
    MaxSteps = 3
    MaxLgCrashes = 2
    MaxLgDeletes = 1
INVARIANT WritesRecovered
CHECK_DEADLOCK FALSE
