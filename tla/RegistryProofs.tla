---------------------------- MODULE RegistryProofs ----------------------------
(***************************************************************************)
(* Proofs about the benchmark and check registry of InspectorService      *)
(* (Registry), for every set of ids, checks, callers and perform_checks    *)
(* requests.                                                               *)
(***************************************************************************)
EXTENDS Registry, TLAPS

-----------------------------------------------------------------------------
(* Lemmas about the operators of the model. *)

(* filter_checks returns only checks its filter accepts. *)
LEMMA FilterChecksAccepted ==
    ASSUME NEW accepted
    PROVE  FilterChecks(accepted) \subseteq accepted
BY DEF FilterChecks

(* The checks filter_checks returns are checks, when the database holds   *)
(* checks.                                                                 *)
LEMMA FilterChecksType ==
    ASSUME TypeOK, NEW accepted
    PROVE  FilterChecks(accepted) \subseteq Checks
BY RegistryAssumption DEF FilterChecks, TypeOK

(* What list_checks returns meets all of its selectors. *)
LEMMA ListChecksMatch ==
    ASSUME TypeOK, NEW kind, NEW ids, NEW sev, NEW ignore,
           NEW c \in ListChecks(kind, ids, sev, ignore)
    PROVE  /\ c \in Checks
           /\ kind = None \/ kind \in c.kinds
           /\ ids = None \/ c.id \in ids
           /\ IncludesSeverity(sev, c.severity)
           /\ c.id \notin ignore
<1> DEFINE acc == {x \in Checks : /\ kind = None \/ kind \in x.kinds
                                  /\ ids = None \/ x.id \in ids
                                  /\ IncludesSeverity(sev, x.severity)
                                  /\ x.id \notin ignore}
<1>1. ListChecks(kind, ids, sev, ignore) = FilterChecks(acc)
  BY DEF ListChecks
<1>2. c \in acc
  BY <1>1, FilterChecksAccepted
<1>3. QED
  BY <1>2

-----------------------------------------------------------------------------
(* Type correctness. *)

LEMMA TypeStep == TypeOK /\ [Next]_vars => TypeOK'
<1> SUFFICES ASSUME TypeOK, [Next]_vars PROVE TypeOK'
  OBVIOUS
<1>1. ASSUME NEW bid \in BenchIds, DeleteBenchmark(bid) PROVE TypeOK'
  BY <1>1 DEF DeleteBenchmark, TypeOK, Restrict
<1>2. ASSUME NEW u \in Callers, NEW bid \in BenchIds, NEW body \in BenchBodies,
             UpdateBenchmarkValidate(u, bid, body)
      PROVE  TypeOK'
  BY <1>2 DEF UpdateBenchmarkValidate, TypeOK
<1>3. ASSUME NEW u \in Callers, UpdateBenchmarkWrite(u) PROVE TypeOK'
  <2>1. validated[u] \in BenchIds \X BenchBodies
    BY <1>3, RegistryAssumption DEF UpdateBenchmarkWrite, TypeOK
  <2>2. QED
    BY <1>3, <2>1 DEF UpdateBenchmarkWrite, TypeOK, DbUpdate
<1>4. ASSUME NEW cid \in CheckIds, DeleteCheck(cid) PROVE TypeOK'
  BY <1>4 DEF DeleteCheck, TypeOK, Restrict
<1>5. ASSUME NEW c \in CheckCandidates, UpdateCheck(c) PROVE TypeOK'
  <2>1. c \in Checks
    BY RegistryAssumption
  <2>2. QED
    BY <1>5, <2>1 DEF UpdateCheck, TypeOK, Checks, DbUpdate
<1>6. ASSUME NEW u \in Performers, NEW kind \in {None} \cup Kinds,
             NEW ids \in {None} \cup SUBSET CheckIds,
             NEW sev \in {None} \cup Severities,
             PerformChecksSelect(u, kind, ids, sev)
      PROVE  TypeOK'
  <2>1. {c.id : c \in ListChecks(kind, ids, sev, IgnoreChecks)} \subseteq CheckIds
    BY ListChecksMatch DEF Checks
  <2>2. QED
    BY <1>6, <2>1 DEF PerformChecksSelect, TypeOK, PerformCalls
<1>7. ASSUME NEW u \in Performers, PerformChecksRun(u) PROVE TypeOK'
  <2>1. perform[u] \in PerformCalls
    BY <1>7 DEF PerformChecksRun, Pending, TypeOK
  <2>2. ListChecks(None, perform[u].ids, perform[u].sev, {}) \subseteq Checks
    BY ListChecksMatch
  <2>3. QED
    BY <1>7, <2>1, <2>2 DEF PerformChecksRun, TypeOK, PerformCalls
<1>8. CASE UNCHANGED vars
  BY <1>8 DEF vars, TypeOK
<1>9. QED
  BY <1>1, <1>2, <1>3, <1>4, <1>5, <1>6, <1>7, <1>8 DEF Next

(* Every variable of the registry keeps its type. *)
THEOREM TypeInvariance == Spec => []TypeOK
<1>1. Init => TypeOK
  BY DEF Init, TypeOK
<1>2. QED
  BY <1>1, TypeStep, PTL DEF Spec

-----------------------------------------------------------------------------
(* list_checks and list_failing_resources hold in every typed state. *)

(* The checks in force are checks, each stored under its own id. *)
LEMMA EffectiveChecksType ==
    ASSUME TypeOK
    PROVE  /\ \A i \in DOMAIN EffectiveChecks :
                  EffectiveChecks[i] \in Checks /\ EffectiveChecks[i].id = i
           /\ Range(EffectiveChecks) =
                  {PredefChecks[i] : i \in DOMAIN PredefChecks \ DOMAIN checkDb}
                  \cup {checkDb[i] : i \in DOMAIN checkDb}
<1>1. \A i \in DOMAIN EffectiveChecks :
          EffectiveChecks[i] \in Checks /\ EffectiveChecks[i].id = i
  BY RegistryAssumption DEF EffectiveChecks, TypeOK
<1>2. Range(EffectiveChecks) =
          {PredefChecks[i] : i \in DOMAIN PredefChecks \ DOMAIN checkDb}
          \cup {checkDb[i] : i \in DOMAIN checkDb}
  <2>1. ASSUME NEW x PROVE x \in Range(EffectiveChecks) <=>
            \/ \E i \in DOMAIN PredefChecks \ DOMAIN checkDb : x = PredefChecks[i]
            \/ \E i \in DOMAIN checkDb : x = checkDb[i]
    BY DEF EffectiveChecks, Range
  <2>2. QED
    BY <2>1, Zenon
<1>3. QED
  BY <1>1, <1>2

LEMMA ListChecksExactHolds == TypeOK => ListChecksExact
<1> SUFFICES ASSUME TypeOK PROVE ListChecksExact
  OBVIOUS
<1>1. ASSUME NEW kind, NEW ids, NEW sev, NEW ignore
      PROVE  ListChecks(kind, ids, sev, ignore) =
               {c \in Range(EffectiveChecks) :
                   /\ kind = None \/ kind \in c.kinds
                   /\ ids = None \/ c.id \in ids
                   /\ sev = None \/ Prio[sev] <= Prio[c.severity]
                   /\ c.id \notin ignore}
  <2> DEFINE M(c) == /\ kind = None \/ kind \in c.kinds
                     /\ ids = None \/ c.id \in ids
                     /\ sev = None \/ Prio[sev] <= Prio[c.severity]
                     /\ c.id \notin ignore
             acc == {c \in Checks : M(c)}
             R == Range(EffectiveChecks)
  <2>1. ListChecks(kind, ids, sev, ignore) = FilterChecks(acc)
    BY DEF ListChecks, IncludesSeverity
  <2>2. FilterChecks(acc) = {x \in R : x \in acc}
    <3>1. R = {PredefChecks[i] : i \in DOMAIN PredefChecks \ DOMAIN checkDb}
              \cup {checkDb[i] : i \in DOMAIN checkDb}
      BY EffectiveChecksType
    <3>2. QED
      BY <3>1, Zenon DEF FilterChecks
  <2>3. R \subseteq Checks
    BY EffectiveChecksType DEF Range
  <2>4. QED
    BY <2>1, <2>2, <2>3
<1>2. ASSUME NEW cid \in CheckIds
      PROVE  FailingResourcesCheck(cid) =
               IF cid \in DOMAIN EffectiveChecks THEN EffectiveChecks[cid]
               ELSE "NotFoundError"
  <2>1. ListChecks(None, {cid}, None, {}) =
          IF cid \in DOMAIN EffectiveChecks THEN {EffectiveChecks[cid]} ELSE {}
    <3>1. ListChecks(None, {cid}, None, {}) = {c \in Range(EffectiveChecks) : c.id \in {cid}}
      <4>1. {cid} # None
        BY RegistryAssumption
      <4>2. ListChecks(None, {cid}, None, {}) =
              {c \in Range(EffectiveChecks) :
                  /\ None = None \/ None \in c.kinds
                  /\ {cid} = None \/ c.id \in {cid}
                  /\ None = None \/ Prio[None] <= Prio[c.severity]
                  /\ c.id \notin {}}
        BY <1>1
      <4>3. QED
        BY <4>1, <4>2
    <3>0. ASSUME NEW x PROVE x \in Range(EffectiveChecks) /\ x.id \in {cid} <=>
                              cid \in DOMAIN EffectiveChecks /\ x = EffectiveChecks[cid]
      <4>1. \A i \in DOMAIN EffectiveChecks : EffectiveChecks[i].id = i
        BY EffectiveChecksType
      <4>2. QED
        BY <4>1 DEF Range
    <3>2. CASE cid \in DOMAIN EffectiveChecks
      BY <3>0, <3>1, <3>2
    <3>3. CASE cid \notin DOMAIN EffectiveChecks
      BY <3>0, <3>1, <3>3
    <3>4. QED
      BY <3>2, <3>3
  <2>2. QED
    BY <2>1 DEF FailingResourcesCheck
<1>3. QED
  BY <1>1, <1>2 DEF ListChecksExact

(* Spec 8.8 with the override of 4.C: list_checks returns exactly the      *)
(* checks in force that match its selectors (a user check hides the        *)
(* predefined check of its id), and list_failing_resources finds exactly   *)
(* the check in force or raises NotFoundError.                             *)
THEOREM ListChecksInvariance == Spec => []ListChecksExact
BY TypeInvariance, ListChecksExactHolds, PTL

-----------------------------------------------------------------------------
(* perform_checks.  PerformedChecksAllowed is not inductive either: the    *)
(* second lookup does not pass the ignore list, so the strengthening says  *)
(* that the ids selected by the first lookup avoid it.                     *)

SelectionNotIgnored ==
    \A u \in Performers : perform[u] # None => perform[u].ids \cap IgnoreChecks = {}

PerformInv == TypeOK /\ SelectionNotIgnored /\ PerformedChecksAllowed

LEMMA PerformInvStep == PerformInv /\ [Next]_vars => PerformInv'
<1> SUFFICES ASSUME PerformInv, [Next]_vars PROVE PerformInv'
  OBVIOUS
<1>1. TypeOK'
  BY TypeStep DEF PerformInv
<1> USE DEF PerformInv
<1>2. CASE UNCHANGED perform
  BY <1>1, <1>2 DEF SelectionNotIgnored, PerformedChecksAllowed
<1>3. ASSUME NEW u \in Performers, NEW kind, NEW ids, NEW sev,
             PerformChecksSelect(u, kind, ids, sev)
      PROVE  PerformInv'
  <2>1. \A c \in ListChecks(kind, ids, sev, IgnoreChecks) : c.id \notin IgnoreChecks
    BY ListChecksMatch
  <2>2. SelectionNotIgnored'
    BY <1>3, <2>1 DEF PerformChecksSelect, SelectionNotIgnored, TypeOK
  <2>3. PerformedChecksAllowed'
    BY <1>3 DEF PerformChecksSelect, PerformedChecksAllowed, TypeOK
  <2>4. QED
    BY <1>1, <2>2, <2>3
<1>4. ASSUME NEW u \in Performers, PerformChecksRun(u) PROVE PerformInv'
  <2> DEFINE run == ListChecks(None, perform[u].ids, perform[u].sev, {})
             new == [perform[u] EXCEPT !.performed = run]
  <2>0. TypeOK
    OBVIOUS
  <2>1. perform[u] \in PerformCalls /\ perform[u] # None
    BY <1>4 DEF PerformChecksRun, Pending, TypeOK
  <2>2. perform' = [perform EXCEPT ![u] = new]
    BY <1>4 DEF PerformChecksRun
  <2>3. ASSUME NEW c \in run
        PROVE  c.id \in perform[u].ids /\ IncludesSeverity(perform[u].sev, c.severity)
    <3>1. perform[u].ids # None
      BY <2>1, RegistryAssumption DEF PerformCalls
    <3>2. QED
      BY <2>0, <3>1, ListChecksMatch
  <2>4. new.ids = perform[u].ids /\ new.sev = perform[u].sev /\ new.performed = run
    BY <2>1 DEF PerformCalls
  <2>5. ASSUME NEW v \in Performers, v # u PROVE perform'[v] = perform[v]
    BY <2>2, <2>5 DEF TypeOK
  <2>6. perform'[u] = new
    BY <2>2 DEF TypeOK
  <2>7. SelectionNotIgnored'
    BY <2>1, <2>4, <2>5, <2>6 DEF SelectionNotIgnored, PerformCalls
  <2>8. PerformedChecksAllowed'
    BY <2>1, <2>3, <2>4, <2>5, <2>6 DEF SelectionNotIgnored, PerformedChecksAllowed, PerformCalls
  <2>9. QED
    BY <1>1, <2>7, <2>8
<1>5. QED
  BY <1>2, <1>3, <1>4 DEF Next, DeleteBenchmark, UpdateBenchmarkValidate,
     UpdateBenchmarkWrite, DeleteCheck, UpdateCheck, vars

(* perform_checks looks the checks up twice, and update_check and          *)
(* delete_check may run in between: every check it performs is one of the  *)
(* on-demand benchmark, not in the configured ignore list, and reaches the *)
(* requested severity.                                                     *)
THEOREM PerformedChecksInvariance == Spec => []PerformedChecksAllowed
<1>1. Init => PerformInv
  BY DEF Init, PerformInv, TypeOK, SelectionNotIgnored, PerformedChecksAllowed
<1>2. QED
  BY <1>1, PerformInvStep, PTL DEF Spec, PerformInv
=============================================================================
