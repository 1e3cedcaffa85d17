SPECIFICATION EnginesSpec
CONSTANTS
    Messages <- SomeMessages
    NoEvent = NoEvent
    MaxSends = 4
    MaxAsks = 3
    MaxFaults = 1
    MaxCrashes = 1
    MaxAdkRequests = 2
    MaxAdkEvents = 3
    MaxAdkFaults = 1
    Engines = {"a", "b"}
    MaxEvents = 2
    MaxEdits = 2
    MaxLost = 1
    LgTasks = {1}
    Writes <- OneTask
    MaxSteps = 3
    MaxLgCrashes = 2
    MaxLgDeletes = 1
    CrewRequests = {"r1", "r2"}
    RequestSession <- SomeSessions
    CrewTasks = {"plan", "plan a trip"}
    Containing <- SomeTexts
    FlowMethods = {"m"}
    Nobody = Nobody
    MaxCrewCalls = 3
    Samples <- SomeSamples
    None = None
    MaxClock = 3
    Absent = Absent
    Unset = Unset
    Deployers = {1, 2}
    Manifests <- SomeManifests
    AgentName = "x"
    ApiKey = "KEY"
    sanitizeForSecretName <- SomeSecretNames
    sanitizeForSecretKey <- SomeSecretKeys
    ToLower <- SomeLower
    MaxDeploys = 2
    MaxDeployFaults = 1
    ChatAgents = {"a", "b"}
    ChatSessions = {"p", "r"}
    OwnerAtStart <- SomeOwners
    AnswerLen = 2
    MaxKeys = 6
    MaxSubmits = 2
    MaxUnderWay = 2
    MaxChatFaults = 1
    MaxTyped = 3
    MaxBacks = 2
    MaxTabs = 1
    Adders = {1, 2}
    Servers <- SomeServers
    Idle = Idle
    MaxAdds = 3
    MaxAddFaults = 1
INVARIANTS
    EnginesTypeOK
    StoredTellsGraph
    FinalTellsRun
    MemoryTellsSession
    StepsApplied
    SessionsApart
    MemoryFindsLast
    
    OneConversation
    AnswersRead
    SessionOfAgent
    ResultIsValid
    ResultTellsPages
    AddedIsWhole
PROPERTIES
    RequestsEnd
    LifeOfTask
    LifeOfDialog
    RefinesFake
CHECK_DEADLOCK FALSE
