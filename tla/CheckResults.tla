---------------------------- MODULE CheckResults ----------------------------
(***************************************************************************)
(* What __perform_checks promises its caller, without tasks, slots or      *)
(* rows: each check finishes at once, with exactly the failures it should  *)
(* report, or, when its cursor failed, with some of them; a detection      *)
(* that fails to parse or to run ends the call; otherwise the call returns *)
(* the result of every check.  InspectorChecksRefinement shows that        *)
(* InspectorChecks implements it.                                          *)
(***************************************************************************)
CONSTANTS Checks, Resources, AllAccounts, NoAccount, Account, Detect, Detection

VARIABLES
    accounts,  \* the requested accounts ({} for all)
    done,      \* the checks that have their result
    failed,    \* the checks whose search failed
    res,       \* res[c]: the failing resources reported for check c
    status     \* "running", "ok" or "raised"

absVars == <<accounts, done, failed, res, status>>

(* The resources check c should report: the accounted rows its detection *)
(* returns from a start node in the requested accounts.                  *)
Expected(c) ==
    IF Detect[c] = "manual" THEN {}
    ELSE {e[2] : e \in {e \in Detection[c] :
                         (accounts = {} \/ Account[e[1]] \in accounts)
                         /\ Account[e[2]] # NoAccount}}

Init ==
    /\ accounts \in SUBSET AllAccounts
    /\ done = {}
    /\ failed = {}
    /\ res = [c \in Checks |-> {}]
    /\ status = "running"

Complete(c) ==
    /\ status = "running" /\ c \notin done
    /\ done' = done \cup {c}
    /\ res' = [res EXCEPT ![c] = Expected(c)]
    /\ UNCHANGED <<accounts, failed, status>>

(* Only a search reads a cursor that can fail; it keeps part of its rows. *)
Fail(c) ==
    /\ status = "running" /\ c \notin done
    /\ Detect[c] = "resoto"
    /\ done' = done \cup {c}
    /\ failed' = failed \cup {c}
    /\ \E part \in SUBSET Expected(c) : res' = [res EXCEPT ![c] = part]
    /\ UNCHANGED <<accounts, status>>

Raise ==
    /\ status = "running"
    /\ \E c \in Checks \ done : Detect[c] # "manual"
    /\ status' = "raised"
    /\ UNCHANGED <<accounts, done, failed, res>>

Return ==
    /\ status = "running" /\ done = Checks
    /\ status' = "ok"
    /\ UNCHANGED <<accounts, done, failed, res>>

Next == (\E c \in Checks : Complete(c) \/ Fail(c)) \/ Raise \/ Return

(* Checks keep finishing while the call runs, and it then returns. *)
FairSpec == /\ Init /\ [][Next]_absVars
            /\ WF_absVars(\E c \in Checks : Complete(c) \/ Fail(c))
            /\ WF_absVars(Return)

Spec == Init /\ [][Next]_absVars
=============================================================================
