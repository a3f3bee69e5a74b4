\* perform_benchmarks(sync_security_section=True) on two benchmarks whose
\* checks are all distinct, with every account filter and cursor failures,
\* then load_benchmarks.  After the load nothing is left to do.
CONSTANTS
    Checks = {"c1", "c2", "c3"}
    Resources = {"r1", "r2", "r3"}
    AllAccounts = {"a1", "a2"}
    NoAccount = NoAccount
    Account <- MC_Account
    Detect <- MC_Detect
    Detection <- MC_Detection
    Broken = {}
    ParallelChecks = 2
    Collections = {"bA", "kA2", "bB"}
    Benchmarks = {"bA", "bB"}
    Children <- MC_Children
    CheckNames = {"c1", "c2", "c3", "c9"}
    CollChecks <- MC_CollChecks
SPECIFICATION SyncSpec
INVARIANT SyncTypeOK IssuesMaterialized RoundTrip
CHECK_DEADLOCK FALSE
