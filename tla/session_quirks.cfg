CONSTANTS
    Route <- MCRoute
    MaxFaults = 1
    MaxOpens = 1
    Quirks = {"cache", "halfCreated", "gone", "stuck"}
SPECIFICATION Spec
INVARIANT RoutesAreShortest
PROPERTY KeepsWork
CHECK_DEADLOCK FALSE
