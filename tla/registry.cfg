CONSTANTS
    MaxGuid = 3
    Name <- MCNames
    Left <- MCLeft
    FirstName <- MCFirst
    Wanted = {"a", "b"}
    MaxVMs = 4
    MaxLoads = 1
    MaxOpens = 2
    MaxOutside = 1
    MaxDies = 1
SPECIFICATION Spec
INVARIANTS ThreadsAreOpen OneSessionPerName KeepsWhatLives
PROPERTIES LoadsEnd
CHECK_DEADLOCK FALSE
