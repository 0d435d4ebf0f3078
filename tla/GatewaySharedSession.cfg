SPECIFICATION Spec
CONSTANTS
    Sends = {"s1", "s2"}
    Streams = {}
    Cancels = {}
    Deletes = {}
    Gets = {}
    Seeds = {}
    SeedStates = {}
    Contexts = {"c1"}
    ContextOf <- MCContextOf
    TargetOf <- MCTargetOf
    NoSession = NoSession
    MaxRequests = 2
    MaxRestarts = 0
    ClientsLeave = FALSE
INVARIANTS ContextsShareASession
