\* User benchmarks and checks stored and deleted in any order, with an
\* update_benchmark that validates and writes in two steps.
CONSTANTS
    BenchIds = {"b1", "b2"}
    BenchBodies = {"x1", "x2"}
    BenchChecks <- MC_BenchChecks
    PredefBench <- MC_PredefBench
    CheckIds = {"c1", "c2", "c3"}
    Severities = {"low", "medium", "high"}
    Prio <- MC_Prio
    Kinds = {"k"}
    PredefChecks <- MC_PredefChecks
    CheckCandidates <- MC_CheckCandidates
    Callers = {"u1", "u2"}
    Performers = {"p1"}
    IgnoreChecks = {"c3"}
    None = None
SPECIFICATION Spec
INVARIANT TypeOK ListChecksExact PerformedChecksAllowed
