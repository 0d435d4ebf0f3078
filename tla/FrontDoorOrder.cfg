SPECIFICATION DoorSpec
CONSTANTS
    Clients = {a, b}
    TokenCost = 3
    Capacity = 6
    Refill = 2
    MaxTime = 4
    Second = 2
    Expiry = 2
    Grace = 1
    MaxTokens = 2
    MaxTurned = 3
INVARIANTS StrangersAreLimited
