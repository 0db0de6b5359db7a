CONSTANTS
    Port <- MCPorts
    Client = {"p", "q"}
    Capacity = 3
    MaxShort = 6
    MaxLoss = 1
    SizeOf <- MCSizes
    KindsOf <- MCKinds
    Quirks <- MCQuirks
    MaxCalls <- MCCalls
    MaxPid = 2
    MaxCrashes = 1
SPECIFICATION Spec
INVARIANTS WholeMessages AnswersLag
PROPERTIES StopLeavesNoChild CallsReturn
CHECK_DEADLOCK FALSE
