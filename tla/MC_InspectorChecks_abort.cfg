\* A resoto search whose template does not parse (c1): spec 4.D says a single
\* bad check never aborts the batch.
CONSTANTS
    Checks = {"c1", "c2", "c3", "c4"}
    Resources = {"r1", "r2", "r3", "r4"}
    AllAccounts = {"a1", "a2"}
    NoAccount = NoAccount
    Account <- MC_Account
    Detect <- MC_Detect
    Detection <- MC_Detection
    Broken = {"c1"}
    ParallelChecks = 2
SPECIFICATION Spec
INVARIANT NoBatchAbort
CHECK_DEADLOCK FALSE
