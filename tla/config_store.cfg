CONSTANTS
    a = a
    b = b
    t1 = t1
    t2 = t2
    Config = {a, b}
    Thread = {t1, t2}
    Home <- OneProcess
    RootKey = {k}
    GroupKey = {g}
    Value <- Values
    Second = 1
    MaxTime = 0
    MaxOps = 3
    Calls <- Changes
    Quirks = {"sameSecond"}
SPECIFICATION Spec
SYMMETRY Symmetry
INVARIANT NothingUnsaved
PROPERTIES IsAConfigStore
CHECK_DEADLOCK FALSE
