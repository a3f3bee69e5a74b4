--------------------------- MODULE MC_SecuritySync ---------------------------
(* Two benchmarks: bA with a child collection kA2, and bB.  The searches  *)
(* c1 and c3 and the command c2 fail on resources of two accounts and on  *)
(* one without an account; c9 is listed but was dropped by list_checks.   *)
EXTENDS SecuritySync

MC_Account == "r1" :> "a1" @@ "r2" :> "a2" @@ "r3" :> NoAccount
MC_Detect == "c1" :> "resoto" @@ "c2" :> "resoto_cmd" @@ "c3" :> "resoto"
(* c1 returns r1 and also traverses from r1 to r3 and from r3 (without  *)
(* account) to r1; no detection leads from one account into another.    *)
MC_Detection == "c1" :> {<<"r1", "r1">>, <<"r1", "r3">>, <<"r3", "r1">>}
             @@ "c2" :> {<<"r1", "r1">>, <<"r2", "r2">>}
             @@ "c3" :> {<<"r2", "r2">>}

MC_Children == "bA" :> {"kA2"} @@ "kA2" :> {} @@ "bB" :> {}

(* Every check appears once in the requested benchmarks. *)
MC_CollChecks == "bA" :> {"c1", "c9"} @@ "kA2" :> {"c2"} @@ "bB" :> {"c3"}

(* c1 appears in two collections of bA, c2 in both benchmarks. *)
MC_CollChecksListedTwice ==
    "bA" :> {"c1", "c9"} @@ "kA2" :> {"c1", "c2"} @@ "bB" :> {"c2", "c3"}
=============================================================================
