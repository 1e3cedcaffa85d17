SPECIFICATION Spec
CONSTANTS
    Specs = {s1, s2}
    Models = {m1}
    Kinds <- WithLeftover
    Manifest <- TwoManifest
    ConfigKinds <- MCConfigKinds
    Absent = Absent
    Static = Static
    Edited = Edited
    MaxEnv = 1
    MaxFaults = 1
    MaxVersions = 2
    MaxRaces = 1
    MaxCrashes = 1
INVARIANTS
    TypeOK
    QuiescentAcceptedConverged
    AcceptedMeansStored
    NoOrphanRow
VIEW WithoutPods
SYMMETRY SpecSymmetry
CHECK_DEADLOCK FALSE
