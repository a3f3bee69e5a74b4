\* A removal between the unlocked test and the snapshot of a dispatch:
\* the defaultdict puts an empty entry back into _events.
CONSTANTS
    EventTypes = {"e1"}
    Listeners = {"l1", "l2", "l3"}
    Timeouts = {1, 2}
    Threads = {"t1", "t2", "t3"}
    Program <- MC_Program
    SelfUnregister = {"l2"}
    InitialEvents <- MC_InitialEvents
SPECIFICATION Spec
INVARIANT NoEmptyEntry
CHECK_DEADLOCK FALSE
