CONSTANTS
    Nodes <- MCNodes
    Ids = {3, 4, 9}
    Handlers <- MCHandlers
    Root = 1
    Route <- MCRoute
    Owner = Owner
    Clients = {Owner, c1}
    Worker = Worker
    Free = Free
    Calls = {"goto", "skew", "start"}
    HandlerCalls = {"skew", "jump"}
    HandlersThrow = TRUE
    OpenIsExclusive = TRUE
SPECIFICATION Spec
INVARIANTS PathLeadsToTarget
CHECK_DEADLOCK FALSE
