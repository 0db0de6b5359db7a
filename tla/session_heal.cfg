CONSTANTS
    Route <- MCRoute
    MaxFaults = 2
    MaxOpens = 1
    Quirks = {}
SPECIFICATION FairSpec
INVARIANTS HonestState Obeys OneFaultIsHealed KnowsItsMedia
PROPERTIES ResumesItsData Settles
CHECK_DEADLOCK FALSE
