--------------------------- MODULE InspectorChecks ---------------------------
(***************************************************************************)
(* The concurrent evaluation of report checks by the inspector service     *)
(* (src/resotocore/resotocore/report/inspector_service.py):                *)
(*                                                                         *)
(*   __perform_checks      pipe.map(perform_single, ordered=False,         *)
(*                         task_limit=context.parallel_checks) over the    *)
(*                         list of checks, collected into a dict;          *)
(*   __perform_check       groups the rows of one check by account;        *)
(*   __list_failing_resources  parses the detection (resoto search),       *)
(*                         runs the CLI command (resoto_cmd) or yields     *)
(*                         nothing (manual), filtering by account.         *)
(*                                                                         *)
(* One task per check.  A task is "idle" until pipe.map starts it,         *)
(* "started" until its first await (the template expander or the CLI),     *)
(* "streaming" while a graph cursor feeds it rows, and "done" when it has  *)
(* returned its result.  An exception escaping a task ends the whole call  *)
(* (outcome "raised"); the call returns (outcome "ok") once every task is  *)
(* done.  A row is a resource: the resource-data projection is injective   *)
(* in node_id, so the model keeps the resource itself.                     *)
(*                                                                         *)
(* A detection is a relation from the nodes its first executed part        *)
(* selects to the rows it returns: a detection without navigation returns  *)
(* the nodes it selects, one that traverses returns the nodes it reaches   *)
(* from them, which may belong to other accounts.                          *)
(***************************************************************************)
EXTENDS Naturals, FiniteSets

CONSTANTS
    Checks,          \* the ids of the checks handed to __perform_checks
    Resources,       \* the nodes of the graph
    AllAccounts,     \* the account ids present in the graph
    NoAccount,       \* a node without ancestors.account.reported.id
    Account,         \* Account[r]: the account id of resource r, or NoAccount
    Detect,          \* Detect[c]: which key of check.detect is set
    Detection,       \* Detection[c]: pairs <<s, r>>: the first part of the
                     \* detection of c selects s, and c then returns row r
    Broken,          \* checks whose detection may fail to expand or to run
    ParallelChecks   \* CheckContext.parallel_checks, the pipe.map task_limit

DetectKinds == {"resoto", "resoto_cmd", "manual"}

ASSUME ConstantsAssumption ==
    /\ IsFiniteSet(Checks)
    /\ NoAccount \notin AllAccounts
    /\ Account \in [Resources -> AllAccounts \cup {NoAccount}]
    /\ Detect \in [Checks -> DetectKinds]
    /\ Detection \in [Checks -> SUBSET (Resources \X Resources)]
    /\ Broken \subseteq Checks

ASSUME ParallelChecksAssumption == ParallelChecks \in Nat \ {0}

Phases == {"idle", "started", "streaming", "done"}

VARIABLES
    contextAccounts, \* CheckContext.accounts; {} stands for None and for []
    broken,          \* the checks whose detection the expander or the CLI
                     \* rejects in this call (it depends on the overrides)
    pc,              \* pc[c]: the phase of the task of check c
    yielded,         \* yielded[c]: the rows the cursor or CLI gave check c
    cursorFailed,    \* the checks whose cursor raised (logged and swallowed)
    outcome          \* "running", "ok" (dict returned) or "raised"

vars == <<contextAccounts, broken, pc, yielded, cursorFailed, outcome>>

(***************************************************************************)
(* `if context.accounts:` in perform_search and perform_cmd: a non-empty   *)
(* account list adds `ancestors.account.reported.id in [...]`.  For a      *)
(* search, Query.by(filter).combine(query) fuses the filter into the first *)
(* executed part of the detection (model.py combine); for a command, it is *)
(* a search piped into the command.  Either way it narrows the start       *)
(* nodes, not the rows a traversal returns.                                *)
(***************************************************************************)
InScope(r) ==
    contextAccounts = {} \/ Account[r] \in contextAccounts

(* The rows the graph returns for the account-narrowed detection of c:    *)
(* those reached from a start node in the requested accounts.             *)
Matching(c) == {r \in Resources : \E e \in Detection[c] : e[2] = r /\ InScope(e[1])}

(* Mutant: rows without an account id are kept. *)
ResultKeepsUnaccounted(c) == {r \in yielded[c] : TRUE}

(* __perform_check keeps a row only if it has an account id. *)
Result(c) == {r \in yielded[c] : Account[r] # NoAccount}

(* The SingleCheckResult: account id -> failing resources of that account. *)
ResultByAccount(c) ==
    [a \in {Account[r] : r \in Result(c)} |-> {r \in Result(c) : Account[r] = a}]

(* Mutant: a task keeps its slot after it returned. *)
InFlightLeaky == {c \in Checks : pc[c] \in {"started", "streaming", "done"}}

(* The tasks pipe.map has started and that have not returned yet. *)
InFlight == {c \in Checks : pc[c] \in {"started", "streaming"}}

-----------------------------------------------------------------------------

Init ==
    /\ contextAccounts \in SUBSET AllAccounts
    /\ broken \in SUBSET Broken
    /\ pc = [c \in Checks |-> "idle"]
    /\ yielded = [c \in Checks |-> {}]
    /\ cursorFailed = {}
    /\ outcome = "running"

(* pipe.map starts the task of the next check while fewer than task_limit  *)
(* tasks are running.                                                      *)
Start(c) ==
    /\ outcome = "running"
    /\ pc[c] = "idle"
    /\ Cardinality(InFlight) < ParallelChecks
    /\ pc' = [pc EXCEPT ![c] = "started"]
    /\ UNCHANGED <<contextAccounts, broken, yielded, cursorFailed, outcome>>

(* parse_query (resoto) or execute_cli_command (resoto_cmd) raises.  Both  *)
(* calls sit outside the try blocks, so the exception leaves the task and  *)
(* pipe.map cancels every other task: the whole call raises.               *)
DetectionRaises(c) ==
    /\ outcome = "running"
    /\ pc[c] = "started"
    /\ Detect[c] \in {"resoto", "resoto_cmd"}
    /\ c \in broken
    /\ outcome' = "raised"
    /\ UNCHANGED <<contextAccounts, broken, pc, yielded, cursorFailed>>

(* The search parsed: search_list opens a cursor on the graph. *)
OpenCursor(c) ==
    /\ outcome = "running"
    /\ pc[c] = "started"
    /\ Detect[c] = "resoto"
    /\ c \notin broken
    /\ pc' = [pc EXCEPT ![c] = "streaming"]
    /\ UNCHANGED <<contextAccounts, broken, yielded, cursorFailed, outcome>>

(* Mutant: the grouping key (the account id) is appended, not the row. *)
NextRowAppendsKey(c, r) ==
    /\ outcome = "running"
    /\ pc[c] = "streaming"
    /\ r \in Matching(c) \ yielded[c]
    /\ yielded' = [yielded EXCEPT ![c] = @ \cup {Account[r]}]
    /\ UNCHANGED <<contextAccounts, broken, pc, cursorFailed, outcome>>

(* The cursor yields one more row; __perform_check appends it. *)
NextRow(c, r) ==
    /\ outcome = "running"
    /\ pc[c] = "streaming"
    /\ r \in Matching(c) \ yielded[c]
    /\ yielded' = [yielded EXCEPT ![c] = @ \cup {r}]
    /\ UNCHANGED <<contextAccounts, broken, pc, cursorFailed, outcome>>

(* Mutant: the task returns before the last row is read. *)
CursorExhaustedEarly(c) ==
    /\ outcome = "running"
    /\ pc[c] = "streaming"
    /\ Cardinality(Matching(c) \ yielded[c]) <= 1
    /\ pc' = [pc EXCEPT ![c] = "done"]
    /\ UNCHANGED <<contextAccounts, broken, yielded, cursorFailed, outcome>>

(* The cursor is exhausted: the generator ends and the task returns. *)
CursorExhausted(c) ==
    /\ outcome = "running"
    /\ pc[c] = "streaming"
    /\ yielded[c] = Matching(c)
    /\ pc' = [pc EXCEPT ![c] = "done"]
    /\ UNCHANGED <<contextAccounts, broken, yielded, cursorFailed, outcome>>

(* Opening or reading the cursor raises: the except in perform_search logs *)
(* "Assume empty result." and ends the generator; the rows appended before *)
(* stay in the result.                                                     *)
CursorRaises(c) ==
    /\ outcome = "running"
    /\ pc[c] = "streaming"
    /\ pc' = [pc EXCEPT ![c] = "done"]
    /\ cursorFailed' = cursorFailed \cup {c}
    /\ UNCHANGED <<contextAccounts, broken, yielded, outcome>>

(* execute_cli_command collects the whole output with list_sink; the loop  *)
(* over cli_result[0] then yields every row without suspending.            *)
RunCommand(c) ==
    /\ outcome = "running"
    /\ pc[c] = "started"
    /\ Detect[c] = "resoto_cmd"
    /\ c \notin broken
    /\ yielded' = [yielded EXCEPT ![c] = Matching(c)]
    /\ pc' = [pc EXCEPT ![c] = "done"]
    /\ UNCHANGED <<contextAccounts, broken, cursorFailed, outcome>>

(* A manual check (or one without detection) yields the empty stream. *)
SkipManual(c) ==
    /\ outcome = "running"
    /\ pc[c] = "started"
    /\ Detect[c] = "manual"
    /\ pc' = [pc EXCEPT ![c] = "done"]
    /\ UNCHANGED <<contextAccounts, broken, yielded, cursorFailed, outcome>>

(* Mutant: the result is returned before the manual checks' tasks ended. *)
CollectSkipsManual ==
    /\ outcome = "running"
    /\ \A c \in Checks : pc[c] = "done" \/ Detect[c] = "manual"
    /\ outcome' = "ok"
    /\ UNCHANGED <<contextAccounts, broken, pc, yielded, cursorFailed>>

(* The stream is exhausted: the dict of all results is returned. *)
Collect ==
    /\ outcome = "running"
    /\ \A c \in Checks : pc[c] = "done"
    /\ outcome' = "ok"
    /\ UNCHANGED <<contextAccounts, broken, pc, yielded, cursorFailed>>

Next ==
    \/ \E c \in Checks :
          \/ Start(c)
          \/ DetectionRaises(c)
          \/ OpenCursor(c)
          \/ CursorExhausted(c)
          \/ CursorRaises(c)
          \/ RunCommand(c)
          \/ SkipManual(c)
          \/ \E r \in Resources : NextRow(c, r)
    \/ Collect

(***************************************************************************)
(* The asyncio event loop runs every ready task, and a cursor that is      *)
(* read is eventually answered: every step of a task is weakly fair.       *)
(* Failures (DetectionRaises, CursorRaises) are not forced.                *)
(***************************************************************************)
Fairness ==
    /\ \A c \in Checks :
          /\ WF_vars(Start(c))
          /\ WF_vars(DetectionRaises(c))
          /\ WF_vars(OpenCursor(c))
          /\ WF_vars(CursorExhausted(c))
          /\ WF_vars(RunCommand(c))
          /\ WF_vars(SkipManual(c))
          /\ WF_vars(\E r \in Resources : NextRow(c, r))
    /\ WF_vars(Collect)

Spec == Init /\ [][Next]_vars

FairSpec == Spec /\ Fairness

-----------------------------------------------------------------------------
(* Properties *)

TypeOK ==
    /\ contextAccounts \in SUBSET AllAccounts
    /\ broken \subseteq Checks
    /\ pc \in [Checks -> Phases]
    /\ yielded \in [Checks -> SUBSET Resources]
    /\ cursorFailed \subseteq Checks
    /\ outcome \in {"running", "ok", "raised"}

(* What a check should report (spec 4.D.4): the rows its detection       *)
(* returns when composed with the account filter, that is from a start    *)
(* node in the requested accounts, that carry an account id; nothing if   *)
(* the check is manual.                                                    *)
Expected(c) ==
    IF Detect[c] = "manual" THEN {}
    ELSE {e[2] : e \in {e \in Detection[c] : InScope(e[1]) /\ Account[e[2]] # NoAccount}}

(* When __perform_checks returns, every check whose cursor did not fail    *)
(* reports exactly what it should: every row its stream gave, none lost    *)
(* while the task waited for a slot or shared the loop with others, and    *)
(* none dropped but those without an account id.                           *)
ResultComplete ==
    outcome = "ok" =>
        \A c \in Checks \ cursorFailed : Result(c) = Expected(c)

(* Every call of __perform_checks ends: it returns or raises.  Rests on    *)
(* pipe.map releasing a task slot when a task returns.                     *)
Terminates == <>(outcome # "running")

(* Spec 4.D/7: "a single bad check never aborts the batch": a detection    *)
(* that fails to parse, or a failing CLI command, must not make the        *)
(* evaluation of the other checks raise.                                   *)
NoBatchAbort == outcome # "raised"

(* Spec 7: a per-check cursor error is "logged ... and demoted to an empty *)
(* result": a check whose cursor raised reports no resource.               *)
CursorErrorYieldsEmpty ==
    outcome = "ok" => \A c \in cursorFailed : Result(c) = {}

=============================================================================
