SPECIFICATION ControlSpec
CONSTANTS
    Specs = {s1}
    Models = {m1}
    Kinds <- ThreeKinds
    Manifest <- ThreeManifest
    ConfigKinds <- MCConfigKinds
    Absent = Absent
    Static = Static
    Edited = Edited
    MaxEnv = 1
    MaxFaults = 1
    MaxVersions = 1
    MaxRaces = 0
    MaxCrashes = 0
    Clients = {1, 2}
    MaxRequests = 2
    Users = {"a"}
    UserSpecs <- SomeSpecs
    Used <- SomeObjects
    Lost = Lost
    MaxEdits = 2
    A2AAgents = {"a", "b"}
    CardSpecs = {"x", "y"}
    MaxAgentEdits = 4
    MaxHandlerFaults = 1
    MaxRestarts = 1
    Callers = {"c", "d"}
    DbModels = {"x", "y"}
    MaxManagerCalls = 3
    MaxManagerFaults = 1
    ApiClients = {1, 2}
    ApiAgents = {"a", "b"}
    ToolSets = {{}, {"a"}, {"b"}}
    NoTools = NoTools
    Waiting = Waiting
    MaxApplied = 1
    MaxAgentRequests = 3
INVARIANTS
    ControlTypeOK
    HashTellsSecrets
    PromisedKeyIsStored
    RenderedIsCurrent
    MuxServesAgents
    PostsCloseNoCycle
PROPERTIES
    Settles
    DeletedRowRemoved
    SuccessTellsTables
CHECK_DEADLOCK FALSE
