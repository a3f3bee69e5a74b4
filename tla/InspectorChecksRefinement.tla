----------------------- MODULE InspectorChecksRefinement -----------------------
(***************************************************************************)
(* The refinement mapping from the task-level model of __perform_checks    *)
(* to the abstract CheckResults: a check is done when its task returned,   *)
(* its result is what __perform_check built from the rows it was given,   *)
(* and the checks whose cursor raised are the failed ones.                 *)
(***************************************************************************)
EXTENDS InspectorChecks

Abs == INSTANCE CheckResults WITH
           accounts <- contextAccounts,
           done <- {c \in Checks : pc[c] = "done"},
           failed <- cursorFailed,
           res <- [c \in Checks |-> IF pc[c] = "done" THEN Result(c) ELSE {}],
           status <- outcome

(* InspectorChecks, under its fairness, implements CheckResults with its  *)
(* fairness: the interleaved tasks of pipe.map, row by row, give the      *)
(* caller nothing that an atomic evaluation of each check could not.      *)
AbsFairSpec == Abs!FairSpec
=============================================================================
