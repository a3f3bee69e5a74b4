------------------------- MODULE SecuritySyncProofs --------------------------
(***************************************************************************)
(* Proofs about the security-section sync of perform_benchmarks, for every *)
(* tree of collections, every set of checks and every evaluation           *)
(* (SecuritySync).                                                         *)
(***************************************************************************)
EXTENDS SecuritySync, InspectorChecksProofs, FiniteSetTheorems, TLAPS

(* Every step of __perform_checks happens while the call runs. *)
LEMMA NextRunning == Next => outcome = "running"
BY DEF Next, Start, DetectionRaises, OpenCursor, CursorExhausted, CursorRaises,
       RunCommand, SkipManual, NextRow, Collect

(* The collections of a requested benchmark are collections. *)
LEMMA SubtreeCollections ==
    ASSUME NEW b \in Benchmarks PROVE Subtree(b) \subseteq Collections
BY SyncAssumption, Zenon DEF Subtree, Descendants, Tree

(* walk_collection appends an issue at least once exactly when some        *)
(* collection of the benchmark, at any depth, lists the check.             *)
LEMMA OccurrencesPositive ==
    ASSUME NEW b \in Benchmarks, NEW c
    PROVE  /\ Occurrences(b, c) \in Nat
           /\ Occurrences(b, c) > 0 <=> c \in Nested(b)
<1> DEFINE S == {d \in Subtree(b) : c \in CollChecks[d]}
<1>1. IsFiniteSet(S)
  BY SubtreeCollections, SyncAssumption, FS_Subset
<1>2. Cardinality(S) \in Nat /\ (Cardinality(S) = 0 <=> S = {})
  BY <1>1, FS_EmptySet, FS_CardinalityType
<1>3. S # {} <=> c \in Nested(b)
  BY DEF Nested
<1>4. QED
  BY <1>2, <1>3 DEF Occurrences

-----------------------------------------------------------------------------
(* IssuesMaterialized speaks of the issues after the sync.  It is not      *)
(* inductive: a later step could change the evaluation the issues were    *)
(* computed from.  The strengthening says that the sync only runs once     *)
(* __perform_checks has returned, after which no evaluation step is        *)
(* possible, and that the security sections hold what lines 233-242 wrote. *)

SyncedInv ==
    /\ phase \in {"evaluating", "synced", "loaded"}
    /\ phase # "evaluating" =>
          /\ outcome = "ok"
          /\ issues = [n \in Resources |-> SecurityIssues(n)]

LEMMA SyncedInvStep == SyncedInv /\ [SyncNext]_allVars => SyncedInv'
<1> SUFFICES ASSUME SyncedInv, [SyncNext]_allVars PROVE SyncedInv'
  OBVIOUS
<1>1. CASE Evaluate
  <2>1. phase = "evaluating"
    BY <1>1, NextRunning DEF Evaluate, SyncedInv
  <2>2. QED
    BY <1>1, <2>1 DEF Evaluate, syncVars, SyncedInv
<1>2. CASE SyncSecuritySection
  <2>1. UNCHANGED vars
    BY <1>2 DEF SyncSecuritySection
  <2>2. \A n \in Resources : SecurityIssues(n)' = SecurityIssues(n)
    BY <2>1 DEF vars, SecurityIssues, Result
  <2>3. QED
    BY <1>2, <2>1, <2>2 DEF SyncSecuritySection, vars, SyncedInv
<1>3. CASE LoadBenchmarks
  <2>1. UNCHANGED vars
    BY <1>3 DEF LoadBenchmarks
  <2>2. \A n \in Resources : SecurityIssues(n)' = SecurityIssues(n)
    BY <2>1 DEF vars, SecurityIssues, Result
  <2>3. QED
    BY <1>3, <2>1, <2>2 DEF LoadBenchmarks, vars, SyncedInv
<1>4. CASE UNCHANGED allVars
  <2>1. \A n \in Resources : SecurityIssues(n)' = SecurityIssues(n)
    BY <1>4 DEF allVars, vars, SecurityIssues, Result
  <2>2. QED
    BY <1>4, <2>1 DEF allVars, vars, syncVars, SyncedInv
<1>5. QED
  BY <1>1, <1>2, <1>3, <1>4 DEF SyncNext

LEMMA SyncedInvImpliesProperty == SyncedInv => IssuesMaterialized
<1> SUFFICES ASSUME SyncedInv, phase # "evaluating",
                    NEW n \in Resources, NEW c \in Checks, NEW b \in Benchmarks
             PROVE  issues[n][<<c, b>>] > 0 <=> (c \in Nested(b) /\ n \in Result(c))
  BY DEF IssuesMaterialized
<1>1. issues[n][<<c, b>>] = IF n \in Result(c) THEN Occurrences(b, c) ELSE 0
  BY DEF SyncedInv, SecurityIssues, Issue
<1>2. QED
  BY <1>1, OccurrencesPositive

(* After the sync, and after load_benchmarks, a node carries an issue for  *)
(* check c of benchmark b exactly when a collection of b at any depth      *)
(* lists c and the evaluation reported the node as failing c: the theorem  *)
(* for the property IssuesMaterialized, for every tree of collections.     *)
THEOREM IssuesMaterializedInvariance == SyncSpec => []IssuesMaterialized
<1>1. SyncInit => SyncedInv
  BY DEF SyncInit, SyncedInv
<1>2. QED
  BY <1>1, SyncedInvStep, SyncedInvImpliesProperty, PTL DEF SyncSpec

-----------------------------------------------------------------------------
(* The reload.                                                             *)
(*                                                                         *)
(* SyncTypeOK and RoundTrip speak of what load_benchmarks returned.  The   *)
(* strengthening LoadInv says what each phase holds: nothing is written    *)
(* while the checks are evaluated, the sync writes the issues once (as     *)
(* SyncedInv says), and load_benchmarks computes the counts once, from     *)
(* issues and an evaluation that no later step changes.  SoundInv          *)
(* (InspectorChecksProofs) gives that every reported node was reached from *)
(* a start node in the requested accounts; when no detection leads from   *)
(* one account into another, the node is then in those accounts, and the *)
(* query of load_benchmarks finds it again.                                *)

NoIssues == [n \in Resources |-> [i \in Issue |-> 0]]

NotLoaded == [b \in Benchmarks |-> [c \in {} |-> 0]]

Loaded ==
    [b \in Benchmarks |-> [c \in Nested(b) \cap Checks |->
                             [a \in Accounts |-> LoadCount(c, a)]]]

LoadInv ==
    /\ SoundInv
    /\ SyncedInv
    /\ phase = "evaluating" => issues = NoIssues
    /\ phase # "loaded" => loaded = NotLoaded
    /\ phase = "loaded" => loaded = Loaded

(* The condition under which RoundTrip holds (run sync_pass), and without  *)
(* which it fails (run sync_roundtrip): every check is listed by one       *)
(* collection of one requested benchmark.                                  *)
ListedOnce ==
    \A c \in Checks, b1, b2 \in Benchmarks :
        \A d1 \in Subtree(b1), d2 \in Subtree(b2) :
            c \in CollChecks[d1] /\ c \in CollChecks[d2] => b1 = b2 /\ d1 = d2

(* The second condition of RoundTrip: no detection returns a node of an   *)
(* account other than that of the node it started from.  The account      *)
(* filter narrows the start nodes only (inspector_service.py line 330 and  *)
(* combine), so a traversal into another account would be reported under  *)
(* a requested account and not found by the account filter of the load.   *)
NoCrossAccount ==
    \A c \in Checks : \A e \in Detection[c] :
        Account[e[1]] # NoAccount /\ Account[e[2]] # NoAccount
            => Account[e[2]] = Account[e[1]]

(* Under NoCrossAccount every reported node lies in the requested accounts. *)
LEMMA ReportedInScope ==
    ASSUME SoundInv, NoCrossAccount, NEW c \in Checks, NEW r \in Result(c)
    PROVE  r \in Resources /\ InScope(r)
<1>1. r \in Matching(c) /\ Account[r] # NoAccount
  BY DEF SoundInv, RowsMatch, Result
<1>2. PICK e \in Detection[c] : e[2] = r /\ InScope(e[1])
  BY <1>1 DEF Matching
<1>3. CASE contextAccounts = {}
  BY <1>1, <1>3 DEF InScope, Matching
<1>4. CASE contextAccounts # {}
  <2>1. Account[e[1]] \in contextAccounts
    BY <1>2, <1>4 DEF InScope
  <2>2. Account[e[1]] # NoAccount
    BY <2>1, ConstantsAssumption DEF SoundInv, TypeOK
  <2>3. Account[r] = Account[e[1]]
    BY <1>1, <1>2, <2>2 DEF NoCrossAccount
  <2>4. QED
    BY <1>1, <2>1, <2>3 DEF InScope, Matching
<1>5. QED
  BY <1>3, <1>4

(* Every step of the sync is a step of the evaluation or leaves it alone. *)
LEMMA SyncNextEvaluation == [SyncNext]_allVars => [Next]_vars
BY DEF SyncNext, Evaluate, SyncSecuritySection, LoadBenchmarks, allVars

LEMMA LoadInvStep == LoadInv /\ [SyncNext]_allVars => LoadInv'
<1> SUFFICES ASSUME LoadInv, [SyncNext]_allVars PROVE LoadInv'
  OBVIOUS
<1>1. SoundInv' /\ SyncedInv'
  BY SyncNextEvaluation, SoundInvInductive, SyncedInvStep DEF LoadInv
<1>2. CASE Evaluate
  <2>1. phase = "evaluating"
    BY <1>2, NextRunning DEF Evaluate, LoadInv, SyncedInv
  <2>2. QED
    BY <1>1, <1>2, <2>1 DEF Evaluate, syncVars, LoadInv, NoIssues, NotLoaded
<1>3. CASE SyncSecuritySection
  BY <1>1, <1>3 DEF SyncSecuritySection, LoadInv, NotLoaded
<1>4. CASE LoadBenchmarks
  <2>1. UNCHANGED <<issues, vars>>
    BY <1>4 DEF LoadBenchmarks
  <2>2. Loaded' = Loaded
    BY <2>1 DEF vars, Loaded, LoadCount, LoadedNodes
  <2>3. QED
    BY <1>1, <1>4, <2>2 DEF LoadBenchmarks, LoadInv, Loaded
<1>5. CASE UNCHANGED allVars
  <2>1. Loaded' = Loaded /\ NoIssues' = NoIssues
    BY <1>5 DEF allVars, vars, syncVars, Loaded, LoadCount, LoadedNodes, NoIssues
  <2>2. QED
    BY <1>1, <1>5, <2>1 DEF allVars, syncVars, LoadInv, NotLoaded
<1>6. QED
  BY <1>2, <1>3, <1>4, <1>5 DEF SyncNext

LEMMA LoadInvInit == SyncInit => LoadInv
BY ConstantsAssumption
   DEF SyncInit, Init, LoadInv, SoundInv, TypeOK, Phases, RowsMatch, StreamingIsSearch,
       SyncedInv, NoIssues, NotLoaded

(* walk_collection appends an issue at most once per collection. *)
LEMMA OccurrencesBound ==
    ASSUME NEW b \in Benchmarks, NEW c
    PROVE  Occurrences(b, c) \in 0..Cardinality(Collections)
<1> DEFINE S == {d \in Subtree(b) : c \in CollChecks[d]}
<1>1. S \subseteq Collections
  BY SubtreeCollections
<1>2. Cardinality(S) <= Cardinality(Collections)
      /\ Cardinality(S) \in Nat /\ Cardinality(Collections) \in Nat
  BY <1>1, SyncAssumption, FS_Subset, FS_CardinalityType
<1>3. QED
  BY <1>2 DEF Occurrences

(* When every issue count is at most K, load_benchmarks counts finitely    *)
(* many appends.                                                           *)
LEMMA LoadCountNat ==
    ASSUME NEW K \in Nat, issues \in [Resources -> [Issue -> 0..K]],
           NEW c \in Checks, NEW a
    PROVE  LoadCount(c, a) \in Nat
<1> DEFINE hits == {n \in LoadedNodes : Account[n] = a} \X Benchmarks
           A == UNION {{<<p, k>> : k \in 1..issues[p[1]][<<c, p[2]>>]} : p \in hits}
<1>1. IsFiniteSet(Benchmarks)
  BY SyncAssumption, FS_Subset
<1>2. IsFiniteSet({n \in LoadedNodes : Account[n] = a})
  BY SyncAssumption, FS_Subset DEF LoadedNodes
<1>3. IsFiniteSet(hits \X (1..K))
  <2>1. IsFiniteSet(hits)
    BY <1>1, <1>2, FS_Product
  <2>2. IsFiniteSet(1..K)
    BY FS_Interval
  <2>3. QED
    BY <2>1, <2>2, FS_Product
<1>4. A \subseteq hits \X (1..K)
  <2> SUFFICES ASSUME NEW x \in A PROVE x \in hits \X (1..K)
    OBVIOUS
  <2>1. PICK p \in hits : x \in {<<p, k>> : k \in 1..issues[p[1]][<<c, p[2]>>]}
    OBVIOUS
  <2>2. PICK k \in 1..issues[p[1]][<<c, p[2]>>] : x = <<p, k>>
    BY <2>1
  <2>3. p[1] \in Resources /\ <<c, p[2]>> \in Issue
    BY DEF LoadedNodes, Issue
  <2>4. issues[p[1]][<<c, p[2]>>] \in 0..K
    BY <2>3
  <2>5. QED
    BY <2>2, <2>4
<1>5. IsFiniteSet(A)
  BY <1>3, <1>4, FS_Subset
<1>6. QED
  BY <1>5, FS_CardinalityType DEF LoadCount

(* Every issue count is bounded by the number of collections. *)
LEMMA IssuesBounded ==
    LoadInv => issues \in [Resources -> [Issue -> 0..Cardinality(Collections)]]
<1> SUFFICES ASSUME LoadInv
             PROVE  issues \in [Resources -> [Issue -> 0..Cardinality(Collections)]]
  OBVIOUS
<1>1. Cardinality(Collections) \in Nat
  BY SyncAssumption, FS_CardinalityType
<1>2. CASE phase = "evaluating"
  BY <1>1, <1>2 DEF LoadInv, NoIssues
<1>3. CASE phase # "evaluating"
  <2>1. \A n \in Resources, i \in Issue :
          SecurityIssues(n)[i] \in 0..Cardinality(Collections)
    BY <1>1, OccurrencesBound DEF SecurityIssues, Issue
  <2>2. QED
    BY <1>3, <2>1 DEF LoadInv, SyncedInv, SecurityIssues
<1>4. QED
  BY <1>2, <1>3

(* Whatever the tree of collections and the evaluation, the security       *)
(* sections hold natural issue counts and load_benchmarks returns a        *)
(* natural count per account for every check it returns: the theorem for   *)
(* the property SyncTypeOK.                                                *)
THEOREM SyncTypeInvariance == SyncSpec => []SyncTypeOK
<1>1. LoadInv => SyncTypeOK
  <2> SUFFICES ASSUME LoadInv PROVE SyncTypeOK
    OBVIOUS
  <2>1. issues \in [Resources -> [Issue -> Nat]]
    BY IssuesBounded
  <2>2. \A c \in Checks, a \in Accounts : LoadCount(c, a) \in Nat
    BY IssuesBounded, LoadCountNat, SyncAssumption, FS_CardinalityType
  <2>3. CASE phase = "loaded"
    <3>1. loaded = Loaded
      BY <2>3 DEF LoadInv
    <3>2. \A b \in DOMAIN loaded : \A c \in DOMAIN loaded[b] :
             loaded[b][c] \in [Accounts -> Nat]
      BY <2>2, <3>1 DEF Loaded
    <3>3. QED
      BY <2>1, <2>3, <3>2 DEF SyncTypeOK
  <2>4. CASE phase # "loaded"
    BY <2>1, <2>4 DEF LoadInv, SyncedInv, SyncTypeOK, NotLoaded
  <2>5. QED
    BY <2>3, <2>4
<1>2. QED
  BY <1>1, LoadInvInit, LoadInvStep, PTL DEF SyncSpec

(* A check listed once is appended once for its benchmark, never for      *)
(* another.                                                                *)
LEMMA OccurrencesOnce ==
    ASSUME ListedOnce, NEW c \in Checks, NEW b \in Benchmarks, c \in Nested(b),
           NEW b2 \in Benchmarks
    PROVE  Occurrences(b2, c) = IF b2 = b THEN 1 ELSE 0
<1> DEFINE S == {d \in Subtree(b2) : c \in CollChecks[d]}
<1>1. PICK d0 \in Subtree(b) : c \in CollChecks[d0]
  BY DEF Nested
<1>2. CASE b2 = b
  <2>1. S = {d0}
    BY <1>1, <1>2 DEF ListedOnce
  <2>2. QED
    BY <1>2, <2>1, FS_Singleton DEF Occurrences
<1>3. CASE b2 # b
  <2>1. S = {}
    BY <1>1, <1>3 DEF ListedOnce
  <2>2. QED
    BY <1>3, <2>1, FS_EmptySet DEF Occurrences
<1>4. QED
  BY <1>2, <1>3

(* After the reload, the count of check c of benchmark b for account a is  *)
(* the number of nodes of a the evaluation reported as failing c: the map  *)
(* r |-> <<<<r, b>>, 1>> is a bijection from those nodes onto the appends.  *)
LEMMA CountsMatch ==
    ASSUME LoadInv, ListedOnce, NoCrossAccount, phase = "loaded",
           NEW b \in Benchmarks, NEW c \in Nested(b) \cap Checks, NEW a \in Accounts
    PROVE  LoadCount(c, a) = Cardinality({r \in Result(c) : Account[r] = a})
<1> DEFINE R == {r \in Result(c) : Account[r] = a}
           hits == {n \in LoadedNodes : Account[n] = a} \X Benchmarks
           A == UNION {{<<p, k>> : k \in 1..issues[p[1]][<<c, p[2]>>]} : p \in hits}
           f == [r \in R |-> <<<<r, b>>, 1>>]
<1>1. \A n \in Resources, b2 \in Benchmarks :
        issues[n][<<c, b2>>] = IF n \in Result(c) /\ b2 = b THEN 1 ELSE 0
  BY OccurrencesOnce DEF LoadInv, SyncedInv, SecurityIssues, Issue
<1>2. \A r \in R : r \in Resources /\ InScope(r) /\ Account[r] # NoAccount
  <2> SUFFICES ASSUME NEW r \in R PROVE r \in Resources /\ InScope(r) /\ Account[r] # NoAccount
    OBVIOUS
  <2>1. r \in Resources /\ InScope(r)
    BY ReportedInScope DEF LoadInv
  <2>2. QED
    BY <2>1 DEF Result
<1>3. \A r \in R : <<r, b>> \in hits
  <2> SUFFICES ASSUME NEW r \in R PROVE <<r, b>> \in hits
    OBVIOUS
  <2>1. issues[r][<<c, b>>] > 0 /\ <<c, b>> \in Issue
    BY <1>1, <1>2 DEF Issue, Result
  <2>2. QED
    BY <1>2, <2>1 DEF LoadedNodes, InScope
<1>4. f \in [R -> A]
  <2> SUFFICES ASSUME NEW r \in R PROVE <<<<r, b>>, 1>> \in A
    OBVIOUS
  <2>1. issues[r][<<c, b>>] = 1
    BY <1>1, <1>2 DEF Result
  <2>2. <<<<r, b>>, 1>> \in {<<<<r, b>>, k>> : k \in 1..issues[r][<<c, b>>]}
    BY <2>1
  <2>3. \E p \in hits : <<<<r, b>>, 1>> \in {<<p, k>> : k \in 1..issues[p[1]][<<c, p[2]>>]}
    BY <1>3, <2>2
  <2>4. QED
    BY <2>3
<1>5. \A x \in A : \E r \in R : f[r] = x
  <2> SUFFICES ASSUME NEW x \in A PROVE \E r \in R : f[r] = x
    OBVIOUS
  <2>1. PICK p \in hits : x \in {<<p, k>> : k \in 1..issues[p[1]][<<c, p[2]>>]}
    OBVIOUS
  <2>2. PICK k \in 1..issues[p[1]][<<c, p[2]>>] : x = <<p, k>>
    BY <2>1
  <2>3. p[1] \in Resources /\ p[2] \in Benchmarks /\ Account[p[1]] = a
        /\ p = <<p[1], p[2]>>
    BY DEF LoadedNodes
  <2>4. p[1] \in Result(c) /\ p[2] = b /\ k = 1
    BY <1>1, <2>2, <2>3
  <2>5. p[1] \in R /\ f[p[1]] = x
    BY <2>2, <2>3, <2>4
  <2>6. QED
    BY <2>5
<1>6. f \in Bijection(R, A)
  BY <1>4, <1>5 DEF Bijection, Injection, Surjection, IsInjective
<1>7. IsFiniteSet(R)
  <2>1. R \subseteq Resources
    BY <1>2
  <2>2. QED
    BY <2>1, SyncAssumption, FS_Subset
<1>8. Cardinality(A) = Cardinality(R)
  BY <1>6, <1>7, FS_Bijection DEF ExistsBijection
<1>9. QED
  BY <1>8 DEF LoadCount

(* When every check is listed by one collection of one requested           *)
(* benchmark and no detection leads from one account into another,        *)
(* load_benchmarks rebuilds what perform_benchmarks reported: the same     *)
(* failing count per account for every check of every requested           *)
(* benchmark, for every tree of collections, every account filter and      *)
(* every evaluation.  The theorem for the property RoundTrip; without      *)
(* ListedOnce the run sync_roundtrip refutes it.                           *)
THEOREM RoundTripInvariance ==
    ASSUME ListedOnce, NoCrossAccount PROVE SyncSpec => []RoundTrip
<1>1. LoadInv => RoundTrip
  <2> SUFFICES ASSUME LoadInv, phase = "loaded",
                      NEW b \in Benchmarks, NEW c \in Nested(b) \cap Checks,
                      NEW a \in Accounts
               PROVE  loaded[b][c][a] = Cardinality({r \in Result(c) : Account[r] = a})
    BY DEF RoundTrip
  <2>1. loaded[b][c][a] = LoadCount(c, a)
    <3>1. loaded = Loaded
      BY DEF LoadInv
    <3>2. QED
      BY <3>1 DEF Loaded
  <2>2. QED
    BY <2>1, CountsMatch
<1>2. QED
  BY <1>1, LoadInvInit, LoadInvStep, PTL DEF SyncSpec

=============================================================================
