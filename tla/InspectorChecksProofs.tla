------------------------ MODULE InspectorChecksProofs ------------------------
(***************************************************************************)
(* Proofs about the check evaluation of __perform_checks, for every set of *)
(* checks, every graph and every task_limit (InspectorChecks).             *)
(***************************************************************************)
EXTENDS InspectorChecks, FiniteSetTheorems, TLAPS

(* Actions of one task that never start a task: they leave the task       *)
(* phase "idle" alone and move a started task forward or stop it.          *)
TaskStep(c) ==
    \/ DetectionRaises(c)
    \/ OpenCursor(c)
    \/ CursorExhausted(c)
    \/ CursorRaises(c)
    \/ RunCommand(c)
    \/ SkipManual(c)
    \/ \E r \in Resources : NextRow(c, r)

LEMMA NextSplit ==
    [Next]_vars <=> \/ \E c \in Checks : Start(c)
                    \/ \E c \in Checks : TaskStep(c)
                    \/ Collect
                    \/ UNCHANGED vars
BY DEF Next, TaskStep

-----------------------------------------------------------------------------
(* Type correctness. *)

LEMMA TypeStep == TypeOK /\ [Next]_vars => TypeOK'
<1> SUFFICES ASSUME TypeOK, [Next]_vars PROVE TypeOK'
  OBVIOUS
<1>1. ASSUME NEW c \in Checks, Start(c) PROVE TypeOK'
  BY <1>1 DEF Start, TypeOK, Phases
<1>2. ASSUME NEW c \in Checks, DetectionRaises(c) PROVE TypeOK'
  BY <1>2 DEF DetectionRaises, TypeOK
<1>3. ASSUME NEW c \in Checks, OpenCursor(c) PROVE TypeOK'
  BY <1>3 DEF OpenCursor, TypeOK, Phases
<1>4. ASSUME NEW c \in Checks, NEW r \in Resources, NextRow(c, r)
      PROVE TypeOK'
  BY <1>4 DEF NextRow, TypeOK
<1>5. ASSUME NEW c \in Checks, CursorExhausted(c) PROVE TypeOK'
  BY <1>5 DEF CursorExhausted, TypeOK, Phases
<1>6. ASSUME NEW c \in Checks, CursorRaises(c) PROVE TypeOK'
  BY <1>6 DEF CursorRaises, TypeOK, Phases
<1>7. ASSUME NEW c \in Checks, RunCommand(c) PROVE TypeOK'
  BY <1>7, ConstantsAssumption DEF RunCommand, TypeOK, Phases, Matching
<1>8. ASSUME NEW c \in Checks, SkipManual(c) PROVE TypeOK'
  BY <1>8 DEF SkipManual, TypeOK, Phases
<1>9. CASE Collect
  BY <1>9 DEF Collect, TypeOK
<1>10. CASE UNCHANGED vars
  BY <1>10 DEF vars, TypeOK
<1>11. QED
  BY <1>1, <1>2, <1>3, <1>4, <1>5, <1>6, <1>7, <1>8, <1>9, <1>10, NextSplit
     DEF TaskStep

(* Every variable of the evaluation keeps its type: the requested        *)
(* accounts, the task phases, the rows each task appended, the failed     *)
(* cursors and the outcome of __perform_checks.                          *)
THEOREM TypeInvariance == Spec => []TypeOK
<1>1. Init => TypeOK
  BY ConstantsAssumption DEF Init, TypeOK, Phases
<1>2. QED
  BY <1>1, TypeStep, PTL DEF Spec

-----------------------------------------------------------------------------
(* Where rows come from.                                                   *)
(*                                                                         *)
(* Every row a task was given answers its account-narrowed detection, a    *)
(* manual check is given none, and only a resoto search has an open        *)
(* cursor.                                                                 *)

RowsMatch ==
    \A c \in Checks :
        /\ yielded[c] \subseteq Matching(c)
        /\ Detect[c] = "manual" => yielded[c] = {}

StreamingIsSearch ==
    \A c \in Checks : pc[c] = "streaming" => Detect[c] = "resoto"

SoundInv == TypeOK /\ RowsMatch /\ StreamingIsSearch

(* Every step leaves the requested accounts, hence Matching, alone. *)
LEMMA MatchingStable ==
    ASSUME [Next]_vars, NEW c \in Checks
    PROVE  Matching(c)' = Matching(c)
<1>1. contextAccounts' = contextAccounts
  BY DEF Next, vars, Start, DetectionRaises, OpenCursor, NextRow,
         CursorExhausted, CursorRaises, RunCommand, SkipManual, Collect
<1>2. QED
  BY <1>1 DEF Matching, InScope

LEMMA SoundInvInductive == SoundInv /\ [Next]_vars => SoundInv'
<1> SUFFICES ASSUME SoundInv, [Next]_vars PROVE SoundInv'
  OBVIOUS
<1>1. TypeOK'
  BY TypeStep DEF SoundInv
<1>2. ASSUME NEW c \in Checks, Start(c) PROVE RowsMatch' /\ StreamingIsSearch'
  BY <1>2, MatchingStable DEF Start, SoundInv, RowsMatch, StreamingIsSearch, TypeOK
<1>3. ASSUME NEW c \in Checks, DetectionRaises(c) \/ CursorExhausted(c) \/ CursorRaises(c)
      PROVE RowsMatch' /\ StreamingIsSearch'
  BY <1>3, MatchingStable
     DEF DetectionRaises, CursorExhausted, CursorRaises, SoundInv, RowsMatch,
         StreamingIsSearch, TypeOK
<1>4. ASSUME NEW c \in Checks, OpenCursor(c) PROVE RowsMatch' /\ StreamingIsSearch'
  BY <1>4, MatchingStable DEF OpenCursor, SoundInv, RowsMatch, StreamingIsSearch, TypeOK
<1>5. ASSUME NEW c \in Checks, NEW r \in Resources, NextRow(c, r)
      PROVE RowsMatch' /\ StreamingIsSearch'
  <2>1. Detect[c] = "resoto"
    BY <1>5 DEF NextRow, SoundInv, StreamingIsSearch
  <2>2. QED
    BY <1>5, <2>1, MatchingStable
       DEF NextRow, SoundInv, RowsMatch, StreamingIsSearch, TypeOK
<1>6. ASSUME NEW c \in Checks, RunCommand(c) PROVE RowsMatch' /\ StreamingIsSearch'
  BY <1>6, MatchingStable DEF RunCommand, SoundInv, RowsMatch, StreamingIsSearch, TypeOK
<1>7. ASSUME NEW c \in Checks, SkipManual(c) PROVE RowsMatch' /\ StreamingIsSearch'
  BY <1>7, MatchingStable DEF SkipManual, SoundInv, RowsMatch, StreamingIsSearch, TypeOK
<1>8. ASSUME Collect \/ UNCHANGED vars PROVE RowsMatch' /\ StreamingIsSearch'
  <2>1. UNCHANGED <<contextAccounts, pc, yielded>>
    BY <1>8 DEF Collect, vars
  <2>2. QED
    BY <2>1 DEF SoundInv, RowsMatch, StreamingIsSearch, Matching, InScope
<1>9. QED
  BY <1>1, <1>2, <1>3, <1>4, <1>5, <1>6, <1>7, <1>8, NextSplit
     DEF SoundInv, TaskStep

-----------------------------------------------------------------------------
(* Completeness.                                                           *)
(*                                                                         *)
(* ResultComplete speaks of the returned result only.  It is not inductive: *)
(* Collect must know that every task has returned with its whole stream.   *)
(* The strengthening says that a search or command task that returned      *)
(* without a cursor error holds exactly the rows its narrowed detection    *)
(* selects (CursorExhausted and RunCommand), that the result is only       *)
(* returned when every task has returned, and, through SoundInv, that a    *)
(* manual check holds no row.                                              *)

DoneExact ==
    \A c \in Checks :
        pc[c] = "done" /\ c \notin cursorFailed /\ Detect[c] # "manual"
            => yielded[c] = Matching(c)

OkAllDone ==
    outcome = "ok" => \A c \in Checks : pc[c] = "done"

CompleteInv == SoundInv /\ DoneExact /\ OkAllDone

(* The accounted rows of the narrowed detection are what a check that    *)
(* is not manual should report.                                          *)
LEMMA MatchingExpected ==
    ASSUME NEW c \in Checks, Detect[c] # "manual"
    PROVE  {r \in Matching(c) : Account[r] # NoAccount} = Expected(c)
<1>1. Detection[c] \subseteq Resources \X Resources
  BY ConstantsAssumption
<1>2. QED
  BY <1>1 DEF Matching, Expected

LEMMA CompleteInvImpliesProperty == CompleteInv => ResultComplete
<1> SUFFICES ASSUME CompleteInv, outcome = "ok", NEW c \in Checks \ cursorFailed
             PROVE  Result(c) = Expected(c)
  BY DEF ResultComplete
<1>1. pc[c] = "done"
  BY DEF CompleteInv, OkAllDone
<1>2. CASE Detect[c] = "manual"
  BY <1>2 DEF CompleteInv, SoundInv, RowsMatch, Result, Expected
<1>3. CASE Detect[c] # "manual"
  <2>1. yielded[c] = Matching(c)
    BY <1>1, <1>3 DEF CompleteInv, DoneExact
  <2>2. QED
    BY <1>3, <2>1, MatchingExpected DEF Result
<1>4. QED
  BY <1>2, <1>3

LEMMA CompleteInvInductive == CompleteInv /\ [Next]_vars => CompleteInv'
<1> SUFFICES ASSUME CompleteInv, [Next]_vars PROVE CompleteInv'
  OBVIOUS
<1>1. SoundInv'
  BY SoundInvInductive DEF CompleteInv
<1> USE DEF CompleteInv, SoundInv, TypeOK
<1>2. ASSUME NEW c \in Checks, Start(c) \/ OpenCursor(c) \/ DetectionRaises(c)
      PROVE DoneExact' /\ OkAllDone'
  BY <1>2, MatchingStable DEF Start, OpenCursor, DetectionRaises, DoneExact, OkAllDone
<1>3. ASSUME NEW c \in Checks, NEW r \in Resources, NextRow(c, r)
      PROVE DoneExact' /\ OkAllDone'
  BY <1>3, MatchingStable DEF NextRow, DoneExact, OkAllDone
<1>4. ASSUME NEW c \in Checks, CursorExhausted(c) PROVE DoneExact' /\ OkAllDone'
  BY <1>4, MatchingStable DEF CursorExhausted, DoneExact, OkAllDone
<1>5. ASSUME NEW c \in Checks, CursorRaises(c) PROVE DoneExact' /\ OkAllDone'
  BY <1>5, MatchingStable DEF CursorRaises, DoneExact, OkAllDone
<1>6. ASSUME NEW c \in Checks, RunCommand(c) PROVE DoneExact' /\ OkAllDone'
  BY <1>6, MatchingStable DEF RunCommand, DoneExact, OkAllDone
<1>7. ASSUME NEW c \in Checks, SkipManual(c) PROVE DoneExact' /\ OkAllDone'
  BY <1>7, MatchingStable DEF SkipManual, DoneExact, OkAllDone
<1>8. ASSUME Collect \/ UNCHANGED vars PROVE DoneExact' /\ OkAllDone'
  <2>1. UNCHANGED <<contextAccounts, pc, yielded, cursorFailed>>
    BY <1>8 DEF Collect, vars
  <2>2. outcome' = "ok" => \A c \in Checks : pc[c] = "done"
    BY <1>8 DEF Collect, vars, OkAllDone
  <2>3. QED
    BY <2>1, <2>2 DEF DoneExact, OkAllDone, Matching, InScope
<1>9. QED
  BY <1>1, <1>2, <1>3, <1>4, <1>5, <1>6, <1>7, <1>8, NextSplit DEF TaskStep

(* Whatever order the tasks start, interleave and return in, the result    *)
(* __perform_checks returns gives every check whose cursor did not fail    *)
(* exactly the accounted rows its detection returns from a start node in   *)
(* the requested accounts: the theorem for the property ResultComplete.    *)
THEOREM ResultCompleteInvariance == Spec => []ResultComplete
<1>1. Init => CompleteInv
  BY ConstantsAssumption
     DEF Init, CompleteInv, SoundInv, TypeOK, Phases, RowsMatch, StreamingIsSearch,
         DoneExact, OkAllDone
<1>2. QED
  BY <1>1, CompleteInvInductive, CompleteInvImpliesProperty, PTL DEF Spec

=============================================================================
