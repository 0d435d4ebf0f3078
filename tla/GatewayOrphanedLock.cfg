SPECIFICATION Spec
CONSTANTS
    Sends = {"s1"}
    Streams = {"m1"}
    Cancels = {}
    Deletes = {}
    Gets = {}
    Seeds = {}
    SeedStates = {}
    Contexts = {"c1"}
    ContextOf <- MCContextOf
    TargetOf <- MCTargetOf
    NoSession = NoSession
    MaxRequests = 2
    MaxRestarts = 0
    ClientsLeave = TRUE
INVARIANTS AnsweredSendsGetATask
