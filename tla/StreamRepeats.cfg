SPECIFICATION RelaySpec
CONSTANTS
    Chunks = 2
    ConnectRetries = 3
    TimeoutRetries = 2
INVARIANTS NothingIsRepeated
