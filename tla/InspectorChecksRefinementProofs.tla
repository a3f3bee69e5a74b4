------------------- MODULE InspectorChecksRefinementProofs -------------------
(***************************************************************************)
(* The task-level model of __perform_checks implements the abstract        *)
(* CheckResults under the mapping of InspectorChecksRefinement, for every  *)
(* set of checks, every graph and every task_limit.                        *)
(*                                                                         *)
(* The argument: a task step that does not end its task maps to a stutter, *)
(* since a check that is not done maps to the empty result; a task that    *)
(* returns maps to Complete or Fail; a detection that raises to Raise, and *)
(* Collect to Return.  The invariant SoundInv of InspectorChecksProofs     *)
(* supplies what the abstract guards need: a streaming check is a search   *)
(* (Fail needs one), and the rows a check holds match its detection (the   *)
(* partial result of Fail lies within Expected, and a manual check holds   *)
(* none).                                                                  *)
(***************************************************************************)
EXTENDS InspectorChecksProofs, InspectorChecksRefinement

absDone == {c \in Checks : pc[c] = "done"}
absRes == [c \in Checks |-> IF pc[c] = "done" THEN Result(c) ELSE {}]

(* The abstract expectation, seen through the mapping, is Expected. *)
LEMMA ExpectedMapped ==
    ASSUME NEW c \in Checks
    PROVE  Abs!Expected(c) = Expected(c)
BY DEF Abs!Expected, Expected, InScope

LEMMA InitMapped == Init => Abs!Init
BY DEF Init, Abs!Init, Result

(* A step that leaves every task's phase and rows alone, and the outcome,  *)
(* maps to a stutter.                                                      *)
LEMMA StutterMapped ==
    ASSUME TypeOK, [Next]_vars, NEW c \in Checks,
           pc[c] # "done", pc'[c] # "done",
           pc' = [pc EXCEPT ![c] = pc'[c]],
           yielded' = [yielded EXCEPT ![c] = yielded'[c]],
           UNCHANGED <<contextAccounts, cursorFailed, outcome>>
    PROVE  UNCHANGED Abs!absVars
<1>1. {d \in Checks : pc'[d] = "done"} = absDone
  BY DEF TypeOK, absDone
<1>2. [d \in Checks |-> IF pc'[d] = "done" THEN Result(d)' ELSE {}] = absRes
  BY DEF TypeOK, absRes, Result
<1>3. QED
  BY <1>1, <1>2 DEF Abs!absVars, absDone, absRes

(* A task that returns with rows `rows` maps to a step that gives check c *)
(* the result computed from them.                                          *)
LEMMA ReturnMapped ==
    ASSUME TypeOK, NEW c \in Checks, pc[c] # "done",
           pc' = [pc EXCEPT ![c] = "done"],
           NEW rows, yielded' = [yielded EXCEPT ![c] = rows]
    PROVE  /\ {d \in Checks : pc'[d] = "done"} = absDone \cup {c}
           /\ [d \in Checks |-> IF pc'[d] = "done" THEN Result(d)' ELSE {}]
              = [absRes EXCEPT ![c] = {r \in rows : Account[r] # NoAccount}]
<1>1. {d \in Checks : pc'[d] = "done"} = absDone \cup {c}
  BY DEF TypeOK, absDone
<1>2. [d \in Checks |-> IF pc'[d] = "done" THEN Result(d)' ELSE {}]
      = [absRes EXCEPT ![c] = {r \in rows : Account[r] # NoAccount}]
  BY DEF TypeOK, absRes, Result
<1>3. QED
  BY <1>1, <1>2

LEMMA StepMapped == SoundInv /\ [Next]_vars => [Abs!Next]_(Abs!absVars)
<1> SUFFICES ASSUME SoundInv, [Next]_vars PROVE [Abs!Next]_(Abs!absVars)
  OBVIOUS
<1> USE DEF SoundInv
<1>1. ASSUME NEW c \in Checks, Start(c) \/ OpenCursor(c)
      PROVE UNCHANGED Abs!absVars
  BY <1>1, StutterMapped DEF Start, OpenCursor, TypeOK
<1>2. ASSUME NEW c \in Checks, NEW r \in Resources, NextRow(c, r)
      PROVE UNCHANGED Abs!absVars
  BY <1>2, StutterMapped DEF NextRow, TypeOK
<1>3. ASSUME NEW c \in Checks, DetectionRaises(c) PROVE Abs!Raise
  <2>1. c \in Checks \ absDone /\ Detect[c] # "manual"
    BY <1>3 DEF DetectionRaises, absDone
  <2>2. UNCHANGED <<absDone, cursorFailed, absRes>>
    BY <1>3 DEF DetectionRaises, absDone, absRes, Result
  <2>3. QED
    BY <1>3, <2>1, <2>2 DEF DetectionRaises, Abs!Raise, absDone, absRes
<1>4. ASSUME NEW c \in Checks, CursorExhausted(c) PROVE Abs!Complete(c)
  <2>1. Detect[c] = "resoto"
    BY <1>4 DEF CursorExhausted, StreamingIsSearch
  <2>2. {r \in Matching(c) : Account[r] # NoAccount} = Abs!Expected(c)
    BY <2>1, ExpectedMapped, MatchingExpected
  <2>3. yielded' = [yielded EXCEPT ![c] = yielded[c]] /\ yielded[c] = Matching(c)
    BY <1>4 DEF CursorExhausted, TypeOK
  <2>4. QED
    BY <1>4, <2>2, <2>3, ReturnMapped DEF CursorExhausted, Abs!Complete, absDone, absRes
<1>5. ASSUME NEW c \in Checks, CursorRaises(c) PROVE Abs!Fail(c)
  <2>1. Detect[c] = "resoto"
    BY <1>5 DEF CursorRaises, StreamingIsSearch
  <2>2. Result(c) \in SUBSET Abs!Expected(c)
    BY <2>1, ExpectedMapped, MatchingExpected DEF RowsMatch, Result
  <2>3. yielded' = [yielded EXCEPT ![c] = yielded[c]]
    BY <1>5 DEF CursorRaises, TypeOK
  <2>4. QED
    BY <1>5, <2>1, <2>2, <2>3, ReturnMapped
       DEF CursorRaises, Abs!Fail, absDone, absRes, Result
<1>6. ASSUME NEW c \in Checks, RunCommand(c) PROVE Abs!Complete(c)
  <2>1. {r \in Matching(c) : Account[r] # NoAccount} = Abs!Expected(c)
    BY <1>6, ExpectedMapped, MatchingExpected DEF RunCommand
  <2>2. QED
    BY <1>6, <2>1, ReturnMapped DEF RunCommand, Abs!Complete, absDone, absRes
<1>7. ASSUME NEW c \in Checks, SkipManual(c) PROVE Abs!Complete(c)
  <2>1. {r \in yielded[c] : Account[r] # NoAccount} = Abs!Expected(c)
    BY <1>7, ExpectedMapped DEF SkipManual, RowsMatch, Expected
  <2>2. QED
    <3>1. UNCHANGED <<contextAccounts, cursorFailed, outcome>> /\ outcome = "running"
      BY <1>7 DEF SkipManual
    <3>2. /\ {d \in Checks : pc'[d] = "done"} = absDone \cup {c}
          /\ [d \in Checks |-> IF pc'[d] = "done" THEN Result(d)' ELSE {}]
             = [absRes EXCEPT ![c] = Abs!Expected(c)]
      BY <1>7, <2>1 DEF SkipManual, absDone, absRes, Result, TypeOK
    <3>3. c \notin absDone
      BY <1>7 DEF SkipManual, absDone
    <3>4. QED
      BY <3>1, <3>2, <3>3 DEF Abs!Complete, absDone, absRes
<1>8. ASSUME Collect PROVE Abs!Return
  <2>1. absDone = Checks
    BY <1>8 DEF Collect, absDone
  <2>2. UNCHANGED <<contextAccounts, absDone, cursorFailed, absRes>>
    BY <1>8 DEF Collect, absDone, absRes, Result
  <2>3. QED
    <3>1. outcome = "running" /\ outcome' = "ok"
      BY <1>8 DEF Collect
    <3>2. QED
      BY <3>1, <2>1, <2>2 DEF Abs!Return, absDone, absRes
<1>9. CASE UNCHANGED vars
  BY <1>9 DEF vars, Abs!absVars, Result
<1>10. QED
  BY <1>1, <1>2, <1>3, <1>4, <1>5, <1>6, <1>7, <1>8, <1>9, NextSplit
     DEF TaskStep, Abs!Next

(* Every behaviour of the task-level model, whatever the interleaving of   *)
(* the tasks and whichever cursors and detections fail, is a behaviour of  *)
(* CheckResults: the safety part of the property AbsFairSpec that run      *)
(* checks_pass checks.  A check reports what its detection returns from    *)
(* start nodes in the requested accounts, also rows of other accounts a    *)
(* traversal reaches.                                                      *)
THEOREM Refinement == Spec => Abs!Spec
<1>1. Init => SoundInv
  BY ConstantsAssumption DEF Init, SoundInv, TypeOK, Phases, RowsMatch, StreamingIsSearch
<1>2. QED
  BY <1>1, InitMapped, SoundInvInductive, StepMapped, PTL DEF Spec, Abs!Spec
=============================================================================
