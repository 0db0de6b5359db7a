CONSTANTS
    a = a
    b = b
    t1 = t1
    t2 = t2
    Config = {a, b}
    Thread = {t1, t2}
    Home <- TwoProcesses
    RootKey = {k}
    GroupKey = {g}
    Value <- Values
    Second = 2
    MaxTime = 2
    MaxOps = 2
    Calls <- Syncing
    Quirks = {}
SPECIFICATION FairSpec
PROPERTIES KeepsOurs Spreads
CHECK_DEADLOCK FALSE
