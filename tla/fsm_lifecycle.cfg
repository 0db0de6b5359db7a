CONSTANTS
    Nodes <- MCNodes
    Ids = {4}
    Handlers <- MCHandlers
    Root = 1
    Route <- MCRoute
    Owner = Owner
    Clients = {Owner, c1}
    Worker = Worker
    Free = Free
    Calls = {"goto", "waitInactive", "waitFor", "start", "stop"}
    HandlerCalls = {"skew", "jump"}
    HandlersThrow = FALSE
    OpenIsExclusive = TRUE
SPECIFICATION FairSpec
INVARIANTS EngineInv NoLostWakeup RestsOutsideHandler
PROPERTIES StopLeavesNoThread StopTerminates RequestsServed
CHECK_DEADLOCK FALSE
