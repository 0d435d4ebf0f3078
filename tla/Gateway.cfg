SPECIFICATION Spec
CONSTANTS
    Sends = {"s1"}
    Streams = {"m1", "m2"}
    Cancels = {"cancel-t0", "cancel-s1"}
    Deletes = {"delete-t0", "delete-s1"}
    Gets = {"get-t0"}
    Seeds = {"t0"}
    SeedStates = {"working", "input_required"}
    Contexts = {"c1"}
    ContextOf <- MCContextOf
    TargetOf <- MCTargetOf
    NoSession = NoSession
    MaxRequests = 3
    MaxRestarts = 1
    ClientsLeave = TRUE
INVARIANTS AnswersAreDurable DurableTasksHaveSessions CountsAreBacked DeletesAreDurable TransactionsAreOwned ErrorsAreCounted
PROPERTIES LaterTurnsContinue IsTaskLedger EveryRequestEnds
