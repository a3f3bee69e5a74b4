---------------------------- MODULE SecuritySync ----------------------------
(***************************************************************************)
(* perform_benchmarks with sync_security_section, then load_benchmarks     *)
(* (report/inspector_service.py), composed with the check evaluation of    *)
(* InspectorChecks.  The evaluated checks are turned into benchmark        *)
(* results (__to_result), flattened into one list of SecurityIssue per     *)
(* node (__benchmarks_to_security_iterator) and written to the graph       *)
(* (update_security_section); load_benchmarks reads them back and counts   *)
(* the failing resources of every check per account.                      *)
(*                                                                         *)
(* A benchmark is a tree of check collections: Children gives the child    *)
(* collections and CollChecks the check ids a collection lists.  The ids   *)
(* in Checks are those list_checks kept (the lookup of __to_result).       *)
(***************************************************************************)
EXTENDS InspectorChecks, Graphs, Functions

CONSTANTS
    Collections,   \* the check collections of the requested benchmarks
    Benchmarks,    \* the requested benchmarks (the roots)
    Children,      \* Children[cc]: the child collections of cc
    CheckNames,    \* every check id a collection may list
    CollChecks     \* CollChecks[cc]: the check ids collection cc lists

ASSUME SyncAssumption ==
    /\ IsFiniteSet(Collections)
    /\ IsFiniteSet(Resources)
    /\ Benchmarks \subseteq Collections
    /\ Children \in [Collections -> SUBSET Collections]
    /\ Checks \subseteq CheckNames
    /\ CollChecks \in [Collections -> SUBSET CheckNames]

VARIABLES
    issues,   \* issues[n][<<c, b>>]: the SecurityIssue(check=c, benchmarks={b})
              \* entries in the security section of node n
    loaded,   \* loaded[b][c][a]: count_by_account of check c in benchmark b
              \* as load_benchmarks returns it
    phase     \* "evaluating", "synced" or "loaded"

syncVars == <<issues, loaded, phase>>
allVars == <<vars, syncVars>>

Tree == [node |-> Collections,
         edge |-> {e \in Collections \X Collections : e[2] \in Children[e[1]]}]

(* The collections of benchmark b: b and its descendants. *)
Subtree(b) == {b} \cup Descendants(Tree, b)

(* nested_checks() of benchmark b *)
Nested(b) == UNION {CollChecks[d] : d \in Subtree(b)}

Issue == Checks \X Benchmarks

(* Mutant: walk_collection does not descend into the children. *)
OccurrencesTopLevel(b, c) == Cardinality({d \in {b} : c \in CollChecks[d]})

(* Mutant: one occurrence too few. *)
OccurrencesOffByOne(b, c) == Cardinality({d \in Subtree(b) : c \in CollChecks[d]}) - 1

(* walk_collection appends (b, check) once per collection of b that lists *)
(* the check, for every failing node of the check.                        *)
Occurrences(b, c) == Cardinality({d \in Subtree(b) : c \in CollChecks[d]})

(* iterate_nodes: the SecurityIssue list of node n, as counts per issue. *)
SecurityIssues(n) ==
    [i \in Issue |-> IF n \in Result(i[1]) THEN Occurrences(i[2], i[1]) ELSE 0]

(* The nodes the query of load_benchmarks returns: with an issue of a     *)
(* requested benchmark, in the requested accounts; line 203 then drops    *)
(* those without an account id.                                           *)
LoadedNodes ==
    {n \in Resources : /\ \E i \in Issue : issues[n][i] > 0
                       /\ contextAccounts = {} \/ Account[n] \in contextAccounts
                       /\ Account[n] # NoAccount}

(* check_results[c][a]: every issue of check c on a node of account a     *)
(* appends the node once, whatever benchmark the issue names: one append  *)
(* per node, benchmark and occurrence of the issue in the node's list.    *)
LoadCount(c, a) ==
    LET hits == {n \in LoadedNodes : Account[n] = a} \X Benchmarks
    IN  Cardinality(UNION {{<<p, k>> : k \in 1..issues[p[1]][<<c, p[2]>>]} : p \in hits})

Accounts == AllAccounts \cup {NoAccount}

SyncInit ==
    /\ Init
    /\ issues = [n \in Resources |-> [i \in Issue |-> 0]]
    /\ loaded = [b \in Benchmarks |-> [c \in {} |-> 0]]
    /\ phase = "evaluating"

(* The checks are evaluated (InspectorChecks). *)
Evaluate == Next /\ UNCHANGED syncVars

(* Lines 233-242 with update_security_section (spec 4.D.6, 6: the list   *)
(* of each node is written as given): after __perform_checks returned.    *)
SyncSecuritySection ==
    /\ outcome = "ok" /\ phase = "evaluating"
    /\ issues' = [n \in Resources |-> SecurityIssues(n)]
    /\ phase' = "synced"
    /\ UNCHANGED <<loaded, vars>>

(* load_benchmarks with the same accounts, lines 191-211. *)
LoadBenchmarks ==
    /\ phase = "synced"
    /\ loaded' = [b \in Benchmarks |->
                    [c \in Nested(b) \cap Checks |->
                        [a \in Accounts |-> LoadCount(c, a)]]]
    /\ phase' = "loaded"
    /\ UNCHANGED <<issues, vars>>

SyncNext == Evaluate \/ SyncSecuritySection \/ LoadBenchmarks

SyncSpec == SyncInit /\ [][SyncNext]_allVars
-----------------------------------------------------------------------------
(* Properties *)

(* Every variable of the sync has its type. *)
SyncTypeOK ==
    /\ issues \in [Resources -> [Issue -> Nat]]
    /\ phase \in {"evaluating", "synced", "loaded"}
    /\ \A b \in DOMAIN loaded : \A c \in DOMAIN loaded[b] :
           loaded[b][c] \in [Accounts -> Nat]

(* After the sync, node n carries an issue for check c of benchmark b     *)
(* exactly when c is one of b's checks and the evaluation reported n as   *)
(* failing c, whatever the depth of the collection that lists c.          *)
IssuesMaterialized ==
    phase # "evaluating" =>
        \A n \in Resources, c \in Checks, b \in Benchmarks :
            issues[n][<<c, b>>] > 0 <=> (c \in Nested(b) /\ n \in Result(c))

(* Spec 4.D: load_benchmarks rebuilds the result of perform_benchmarks:   *)
(* every check of every requested benchmark has the same failing count    *)
(* per account.                                                            *)
RoundTrip ==
    phase = "loaded" =>
        \A b \in Benchmarks : \A c \in Nested(b) \cap Checks, a \in Accounts :
            loaded[b][c][a] = Cardinality({r \in Result(c) : Account[r] = a})
=============================================================================
