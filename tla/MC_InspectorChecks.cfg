\* __perform_checks with and without a failing CLI command (c2): completeness, termination, and refinement of the abstract CheckResults.  The call returns, so its final states have no successor.
CONSTANTS
    Checks = {"c1", "c2", "c3", "c4"}
    Resources = {"r1", "r2", "r3", "r4"}
    AllAccounts = {"a1", "a2"}
    NoAccount = NoAccount
    Account <- MC_Account
    Detect <- MC_Detect
    Detection <- MC_Detection
    Broken = {"c2"}
    ParallelChecks = 2
SPECIFICATION FairSpec
INVARIANT TypeOK ResultComplete
PROPERTY Terminates AbsFairSpec
CHECK_DEADLOCK FALSE
