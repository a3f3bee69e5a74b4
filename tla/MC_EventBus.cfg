\* Dispatches racing additions, removals and self-unregistering listeners,
\* with listeners that may hang.  Every call returns, so final states stop.
CONSTANTS
    EventTypes = {"e1"}
    Listeners = {"l1", "l2", "l3"}
    Timeouts = {1, 2}
    Threads = {"t1", "t2", "t3"}
    Program <- MC_Program
    SelfUnregister = {"l2"}
    InitialEvents <- MC_InitialEvents
SPECIFICATION FairSpec
INVARIANT TypeOK JoinRespectsTimeout
PROPERTY CallsReturn ListenerTableSpec
CHECK_DEADLOCK FALSE
