SPECIFICATION Spec
CONSTANTS
    Thread = {t1}
    PipeSize = 2
    ReadSize = 1
    MaxOut = 2
    Retries = 2
    MaxAdapters = 4
    MaxCalls = 1
    MaxOthers = 1
    MaxAborts = 1
CHECK_DEADLOCK FALSE
INVARIANTS SuccessIsWhole AdapterServed CreatesOnce
PROPERTIES CallsReturn
