SPECIFICATION ConfigSpec
CONSTANTS
    Clients = {}
    MaxRequests = 3
INVARIANT SecretChangesDetected
CHECK_DEADLOCK FALSE
