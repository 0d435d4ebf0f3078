SPECIFICATION Spec
CONSTANTS
    Sends = {}
    Streams = {"m1", "m2"}
    Cancels = {}
    Deletes = {}
    Gets = {}
    Seeds = {}
    SeedStates = {}
    Contexts = {"c1"}
    ContextOf <- MCContextOf
    TargetOf <- MCTargetOf
    NoSession = NoSession
    MaxRequests = 2
    MaxRestarts = 0
    ClientsLeave = FALSE
PROPERTIES LaterTurnsShareASession
