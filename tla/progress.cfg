CONSTANTS
    root = root
    part = part
    load = load
    flag = flag
    Object = {root, part, load, flag}
    Event <- Events
    Listener = {l}
    Kind <- Kinds
    Root = root
    Unit = 12
    MaxSlots = 2
    MaxSize = 2
    MaxOps = 6
SPECIFICATION Spec
INVARIANTS CompletionIsTold CompletedOnce
PROPERTIES NeverBackwards Finishes
CHECK_DEADLOCK FALSE
