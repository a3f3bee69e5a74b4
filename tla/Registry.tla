------------------------------ MODULE Registry ------------------------------
(***************************************************************************)
(* The benchmark and check registry of InspectorService                    *)
(* (report/inspector_service.py): predefined benchmarks and checks, loaded *)
(* once by benchmarks_from_file and checks_from_file (lru_cache), and user *)
(* entries in benchmark_db and report_check_db that override them by id.   *)
(*                                                                         *)
(* A benchmark is an id with a body (a model value) whose nested checks    *)
(* are BenchChecks[body].  A check is a record of the attributes that      *)
(* selection and validation read.                                          *)
(***************************************************************************)
EXTENDS Naturals, FiniteSets, Functions, TLC

CONSTANTS
    BenchIds,       \* benchmark ids
    BenchBodies,    \* benchmark contents
    BenchChecks,    \* BenchChecks[b]: nested_checks() of content b
    PredefBench,    \* benchmarks_from_file(): id -> content
    CheckIds,       \* check ids
    Severities,     \* the members of ReportSeverity
    Prio,           \* ReportSeverity.prio()
    Kinds,          \* resource kinds
    PredefChecks,   \* checks_from_file(): id -> check
    CheckCandidates,\* the checks users may submit to update_check
    Callers,        \* concurrent API requests
    Performers,     \* concurrent perform_checks requests
    IgnoreChecks,   \* report_config().ignore_checks
    None

DetectKeys == {"resoto", "resoto_cmd", "manual"}

(* The attributes of a ReportCheck that list_checks and __validate_check   *)
(* read: `detect` holds the keys with a truthy value, `parses` says        *)
(* whether the template expander or the CLI accepts the detection,         *)
(* `mentioned` the kinds whose names occur in the detection string, and    *)
(* `complete` whether title, risk and severity are set.                    *)
Checks ==
    [id : CheckIds, severity : Severities, detect : SUBSET DetectKeys,
     parses : BOOLEAN, kinds : SUBSET Kinds, mentioned : SUBSET Kinds,
     remText : BOOLEAN, remUrl : BOOLEAN, complete : BOOLEAN]

ASSUME RegistryAssumption ==
    /\ BenchChecks \in [BenchBodies -> SUBSET CheckIds]
    /\ DOMAIN PredefBench \subseteq BenchIds
    /\ \A b \in DOMAIN PredefBench : PredefBench[b] \in BenchBodies
    /\ Prio \in [Severities -> Nat]
    /\ DOMAIN PredefChecks \subseteq CheckIds
    /\ \A c \in DOMAIN PredefChecks : PredefChecks[c] \in Checks
                                      /\ PredefChecks[c].id = c
    /\ CheckCandidates \subseteq Checks
    /\ None \notin BenchIds \X BenchBodies
    /\ \A ids \in SUBSET CheckIds : None # ids
    /\ IgnoreChecks \subseteq CheckIds

VARIABLES
    benchDb,    \* benchmark_db: id -> content
    checkDb,    \* report_check_db: id -> check
    validated,  \* validated[u]: <<id, content>> that update_benchmark of u
                \* has validated and not yet written, or None
    perform     \* perform[p]: the perform_checks call of u, or None: the
                \* ids of the on-demand benchmark, the severity of its
                \* context and the checks performed (None until looked up)

vars == <<benchDb, checkDb, validated, perform>>

(* includes_severity: no threshold, or prio(threshold) <= prio(s) *)
IncludesSeverity(threshold, s) == threshold = None \/ Prio[threshold] <= Prio[s]

(* list_benchmarks: the predefined benchmarks, overwritten by the user ones *)
ListBenchmarks ==
    [id \in DOMAIN PredefBench \cup DOMAIN benchDb |->
        IF id \in DOMAIN benchDb THEN benchDb[id] ELSE PredefBench[id]]

(* benchmark(bid): the database first, then the file, else None *)
Benchmark(bid) ==
    IF bid \in DOMAIN benchDb THEN benchDb[bid]
    ELSE IF bid \in DOMAIN PredefBench THEN PredefBench[bid]
    ELSE None

(* Mutant: a user check does not pop the predefined check of its id. *)
FilterChecksNoPop(accepted) ==
    {PredefChecks[id] : id \in {i \in DOMAIN PredefChecks : PredefChecks[i] \in accepted}}
    \cup {checkDb[id] : id \in {i \in DOMAIN checkDb : checkDb[i] \in accepted}}

(* filter_checks(report_filter), with `accepted` the checks report_filter *)
(* accepts: the predefined checks that pass, then every user check pops   *)
(* its id and is put back if it passes.                                   *)
FilterChecks(accepted) ==
    {PredefChecks[id] : id \in {i \in DOMAIN PredefChecks \ DOMAIN checkDb :
                                    PredefChecks[i] \in accepted}}
    \cup {checkDb[id] : id \in {i \in DOMAIN checkDb : checkDb[i] \in accepted}}

(* list_checks(kind, check_ids, context(severity), ignore_checks): the    *)
(* selectors of inspection_matches that the inspector passes; None is an  *)
(* absent selector, and an absent ignore list is {}.                      *)
ListChecks(kind, ids, severity, ignore) ==
    LET Matches(c) == /\ kind = None \/ kind \in c.kinds
                      /\ ids = None \/ c.id \in ids
                      /\ IncludesSeverity(severity, c.severity)
                      /\ c.id \notin ignore
    IN  FilterChecks({c \in Checks : Matches(c)})

(* __validate_check: the errors found, in the order of the code.  A       *)
(* detection that does not parse raises into the except branch, and a     *)
(* manual check returns [] before the other fields are looked at.         *)
ValidateCheck(c) ==
    LET Err(cond, e) == IF cond THEN {e} ELSE {}
        searched == "resoto" \in c.detect \/ "resoto_cmd" \in c.detect
        fields == Err(c.kinds = {}, "no_kinds")
                  \cup {<<"kind_not_detected", k>> : k \in c.kinds \ c.mentioned}
                  \cup Err(~c.remText, "no_remediation_text")
                  \cup Err(~c.remUrl, "no_remediation_url")
                  \cup Err(~c.complete, "missing_prop")
    IN  CASE searched /\ ~c.parses   -> {"invalid"}
          [] searched                -> fields
          [] "manual" \in c.detect   -> {}
          [] OTHER                   -> {"no_detect"} \cup fields

(* __validate_benchmark: the nested checks that filter_checks() lacks *)
ValidateBenchmark(body) ==
    BenchChecks[body] \ {c.id : c \in FilterChecks(Checks)}

(* list_failing_resources: the check of id cid, or NotFoundError. *)
FailingResourcesCheck(cid) ==
    LET checks == ListChecks(None, {cid}, None, {})
    IN  IF checks = {} THEN "NotFoundError" ELSE CHOOSE c \in checks : TRUE

(* db.update(entity): the entity is stored under its key, replacing the   *)
(* one stored there.                                                       *)
DbUpdate(db, key, entity) ==
    [k \in DOMAIN db \cup {key} |-> IF k = key THEN entity ELSE db[k]]

Init ==
    /\ benchDb = [id \in {} |-> None]
    /\ checkDb = [id \in {} |-> None]
    /\ validated = [u \in Callers |-> None]
    /\ perform = [u \in Performers |-> None]
-----------------------------------------------------------------------------
(* delete_benchmark: refused for a predefined id, else a database delete. *)
DeleteBenchmark(bid) ==
    /\ bid \notin DOMAIN PredefBench
    /\ benchDb' = Restrict(benchDb, DOMAIN benchDb \ {bid})
    /\ UNCHANGED <<checkDb, validated, perform>>

(* update_benchmark up to its write: refused for a predefined id, then    *)
(* validated against the checks that exist now.                           *)
UpdateBenchmarkValidate(u, bid, body) ==
    /\ validated[u] = None
    /\ bid \notin DOMAIN PredefBench
    /\ ValidateBenchmark(body) = {}
    /\ validated' = [validated EXCEPT ![u] = <<bid, body>>]
    /\ UNCHANGED <<benchDb, checkDb, perform>>

UpdateBenchmarkWriteSwapped(u) ==
    /\ validated[u] # None
    /\ benchDb' = DbUpdate(benchDb, validated[u][2], validated[u][1])
    /\ validated' = [validated EXCEPT ![u] = None]
    /\ UNCHANGED <<checkDb, perform>>

(* await self.benchmark_db.update(benchmark), after the validation. *)
UpdateBenchmarkWrite(u) ==
    /\ validated[u] # None
    /\ benchDb' = DbUpdate(benchDb, validated[u][1], validated[u][2])
    /\ validated' = [validated EXCEPT ![u] = None]
    /\ UNCHANGED <<checkDb, perform>>

DeleteCheck(cid) ==
    /\ checkDb' = Restrict(checkDb, DOMAIN checkDb \ {cid})
    /\ UNCHANGED <<benchDb, validated, perform>>

(* update_check: stored only when __validate_check finds nothing. *)
UpdateCheck(c) ==
    /\ ValidateCheck(c) = {}
    /\ checkDb' = DbUpdate(checkDb, c.id, c)
    /\ UNCHANGED <<benchDb, validated, perform>>

(* perform_checks of u has selected its checks and not yet looked them up *)
Pending(u) == perform[u] # None /\ perform[u].performed = None

(* Mutant: the first lookup does not pass config.ignore_checks. *)
PerformChecksSelectNoIgnore(u, kind, ids, sev) ==
    /\ ~Pending(u)
    /\ perform' = [perform EXCEPT ![u] =
           [ids |-> {c.id : c \in ListChecks(kind, ids, sev, {})},
            sev |-> sev, performed |-> None]]
    /\ UNCHANGED <<benchDb, checkDb, validated>>

(* perform_checks up to its first await after list_checks: the checks     *)
(* matching the selectors, the severity and not ignored become the ids of *)
(* the on-demand benchmark.  The accounts default (__list_accounts) and   *)
(* the title do not touch the registry.                                   *)
PerformChecksSelect(u, kind, ids, sev) ==
    /\ ~Pending(u)
    /\ perform' = [perform EXCEPT ![u] =
           [ids |-> {c.id : c \in ListChecks(kind, ids, sev, IgnoreChecks)},
            sev |-> sev, performed |-> None]]
    /\ UNCHANGED <<benchDb, checkDb, validated>>

(* Mutant: the second lookup drops the context's severity. *)
PerformChecksRunNoContext(u) ==
    /\ Pending(u)
    /\ perform' = [perform EXCEPT ![u].performed =
                       ListChecks(None, perform[u].ids, None, {})]
    /\ UNCHANGED <<benchDb, checkDb, validated>>

(* perform_checks after the awaits: list_checks(check_ids=benchmark.     *)
(* nested_checks(), context) against the registry as it is now; those    *)
(* checks are performed and returned.                                     *)
PerformChecksRun(u) ==
    /\ Pending(u)
    /\ perform' = [perform EXCEPT ![u].performed =
                       ListChecks(None, perform[u].ids, perform[u].sev, {})]
    /\ UNCHANGED <<benchDb, checkDb, validated>>

Next ==
    \/ \E bid \in BenchIds : DeleteBenchmark(bid)
    \/ \E u \in Callers, bid \in BenchIds, body \in BenchBodies :
           UpdateBenchmarkValidate(u, bid, body)
    \/ \E u \in Callers : UpdateBenchmarkWrite(u)
    \/ \E cid \in CheckIds : DeleteCheck(cid)
    \/ \E c \in CheckCandidates : UpdateCheck(c)
    \/ \E u \in Performers, kind \in {None} \cup Kinds, ids \in {None} \cup SUBSET CheckIds,
           sev \in {None} \cup Severities : PerformChecksSelect(u, kind, ids, sev)
    \/ \E u \in Performers : PerformChecksRun(u)

Spec == Init /\ [][Next]_vars
-----------------------------------------------------------------------------
(* Properties *)

(* The checks in force: a user check replaces the predefined one by id. *)
EffectiveChecks ==
    [id \in DOMAIN PredefChecks \cup DOMAIN checkDb |->
        IF id \in DOMAIN checkDb THEN checkDb[id] ELSE PredefChecks[id]]

(* The state of a perform_checks call (see the variable perform). *)
PerformCalls ==
    [ids : SUBSET CheckIds, sev : {None} \cup Severities,
     performed : {None} \cup SUBSET Checks]

(* Every variable has its type. *)
TypeOK ==
    /\ DOMAIN benchDb \subseteq BenchIds
    /\ \A b \in DOMAIN benchDb : benchDb[b] \in BenchBodies
    /\ DOMAIN checkDb \subseteq CheckIds
    /\ \A c \in DOMAIN checkDb : checkDb[c] \in Checks /\ checkDb[c].id = c
    /\ validated \in [Callers -> (BenchIds \X BenchBodies) \cup {None}]
    /\ perform \in [Performers -> {None} \cup PerformCalls]

(* Spec 8.8 with the override of 4.C: list_checks returns exactly the     *)
(* checks in force that have one of the requested ids, are not ignored    *)
(* and reach the severity threshold; a user check that fails the filter   *)
(* hides the predefined check with its id.                                 *)
ListChecksExact ==
    /\ \A kind \in {None} \cup Kinds, ids \in {None} \cup SUBSET CheckIds,
          sev \in {None} \cup Severities, ignore \in SUBSET CheckIds :
           ListChecks(kind, ids, sev, ignore) =
               {c \in Range(EffectiveChecks) :
                   /\ kind = None \/ kind \in c.kinds
                   /\ ids = None \/ c.id \in ids
                   /\ sev = None \/ Prio[sev] <= Prio[c.severity]
                   /\ c.id \notin ignore}
    /\ \A cid \in CheckIds :
           FailingResourcesCheck(cid) =
               IF cid \in DOMAIN EffectiveChecks THEN EffectiveChecks[cid]
               ELSE "NotFoundError"

(* perform_checks looks the checks up twice, and update_check and         *)
(* delete_check may run between the two lookups: still every check it     *)
(* performs is one of the on-demand benchmark, is not in the configured   *)
(* ignore list and reaches the requested severity as it is when run.      *)
PerformedChecksAllowed ==
    \A u \in Performers : perform[u] # None /\ perform[u].performed # None =>
        \A c \in perform[u].performed :
            /\ c.id \in perform[u].ids
            /\ c.id \notin IgnoreChecks
            /\ IncludesSeverity(perform[u].sev, c.severity)

(* Spec 4.F: a check is valid when exactly one detection is given, the   *)
(* detection parses, its result kinds are non-empty and all mentioned,    *)
(* and remediation text, url, id, title, risk and severity are set.       *)
SpecValid(c) ==
    /\ Cardinality(c.detect) = 1
    /\ ("resoto" \in c.detect \/ "resoto_cmd" \in c.detect) => c.parses
    /\ c.kinds # {} /\ c.kinds \subseteq c.mentioned
    /\ c.remText /\ c.remUrl /\ c.complete

(* update_check stores only checks that are valid in the sense of 4.F. *)
StoredChecksValid == \A id \in DOMAIN checkDb : SpecValid(checkDb[id])
=============================================================================
