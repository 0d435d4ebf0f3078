SPECIFICATION Spec
CONSTANTS
    Clients = {c1, c2}
    Events = {e1}
    MaxTicks = 2
    c1 = c1
    c2 = c2
    e1 = e1
INVARIANTS LockIsOwned NoGhosts EverybodyHears
PROPERTIES IterationSafe WaitersAreServed StopEnds
CHECK_DEADLOCK FALSE
