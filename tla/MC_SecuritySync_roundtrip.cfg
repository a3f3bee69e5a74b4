\* c1 listed in two collections of bA and c2 in both requested benchmarks:
\* load_benchmarks counts their failing nodes once per issue, twice in all.
CONSTANTS
    Checks = {"c1", "c2", "c3"}
    Resources = {"r1", "r2", "r3"}
    AllAccounts = {"a1", "a2"}
    NoAccount = NoAccount
    Account <- MC_Account
    Detect <- MC_Detect
    Detection <- MC_Detection
    Broken = {}
    ParallelChecks = 2
    Collections = {"bA", "kA2", "bB"}
    Benchmarks = {"bA", "bB"}
    Children <- MC_Children
    CheckNames = {"c1", "c2", "c3", "c9"}
    CollChecks <- MC_CollChecksListedTwice
SPECIFICATION SyncSpec
INVARIANT RoundTrip
CHECK_DEADLOCK FALSE
