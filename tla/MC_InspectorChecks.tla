------------------------- MODULE MC_InspectorChecks -------------------------
(* A model of __perform_checks on three checks, one of each detection kind,*)
(* over four resources in two accounts (one without account), with two    *)
(* task slots, so that a third task has to wait for a slot.  One search  *)
(* traverses into another account.                                        *)
EXTENDS InspectorChecksRefinement

MC_Account == [r \in Resources |->
                 CASE r = "r1" -> "a1" [] r = "r2" -> "a1"
                   [] r = "r3" -> "a2" [] r = "r4" -> NoAccount]

MC_Detect == [c \in Checks |->
                 CASE c = "c1" -> "resoto" [] c = "c2" -> "resoto_cmd"
                   [] c = "c3" -> "manual" [] c = "c4" -> "resoto"]

(* c4 traverses: from r2 (account a1) it reaches r3 (account a2). *)
MC_Detection == [c \in Checks |->
                 CASE c = "c1" -> {<<"r1", "r1">>, <<"r3", "r3">>, <<"r4", "r4">>}
                   [] c = "c2" -> {<<"r2", "r2">>, <<"r3", "r3">>}
                   [] c = "c3" -> {<<"r1", "r1">>}
                   [] c = "c4" -> {<<"r2", "r3">>}]
=============================================================================
