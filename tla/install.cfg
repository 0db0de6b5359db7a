CONSTANTS
    Retries = 2
    MaxFaults = 2
    MaxCalls = 2
    MaxStops = 1
    MaxAborts = 2
    UIQuirks = {}
SPECIFICATION Spec
INVARIANTS HandsOutGood RunsWhatItMay
PROPERTIES CallsEnd AbortWaits
CHECK_DEADLOCK FALSE
