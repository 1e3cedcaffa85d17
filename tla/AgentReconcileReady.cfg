SPECIFICATION Spec
CONSTANTS
    Specs = {s1, s2}
    Models = {m1}
    Kinds <- TwoKinds
    Manifest <- TwoManifest
    ConfigKinds <- MCConfigKinds
    Absent = Absent
    Static = Static
    Edited = Edited
    MaxEnv = 2
    MaxFaults = 0
    MaxVersions = 4
    MaxRaces = 0
    MaxCrashes = 0
INVARIANT ReadyIsCurrent
SYMMETRY SpecSymmetry
CHECK_DEADLOCK FALSE
