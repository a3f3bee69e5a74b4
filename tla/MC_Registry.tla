----------------------------- MODULE MC_Registry -----------------------------
(* Two benchmark ids, b1 predefined; three check ids, c1 and c2          *)
(* predefined; candidate user checks that override c2, add c3, and make   *)
(* c1 manual without remediation.                                         *)
EXTENDS Registry

Chk(id, sev, detect, parses, kinds, mentioned, text, url) ==
    [id |-> id, severity |-> sev, detect |-> detect, parses |-> parses,
     kinds |-> kinds, mentioned |-> mentioned, remText |-> text,
     remUrl |-> url, complete |-> TRUE]

MC_BenchChecks == "x1" :> {"c1"} @@ "x2" :> {"c1", "c3"}
MC_PredefBench == "b1" :> "x1"
MC_Prio == "low" :> 1 @@ "medium" :> 2 @@ "high" :> 3

MC_PredefChecks ==
    "c1" :> Chk("c1", "high", {"resoto"}, TRUE, {"k"}, {"k"}, TRUE, TRUE)
    @@ "c2" :> Chk("c2", "low", {"resoto_cmd"}, TRUE, {"k"}, {"k"}, TRUE, TRUE)

MC_CheckCandidates ==
    { Chk("c2", "high", {"resoto"}, TRUE, {"k"}, {"k"}, TRUE, TRUE),
      Chk("c3", "medium", {"resoto"}, TRUE, {"k"}, {"k"}, TRUE, TRUE),
      Chk("c3", "low", {"resoto"}, FALSE, {"k"}, {"k"}, TRUE, TRUE),
      Chk("c1", "high", {"manual"}, FALSE, {}, {}, FALSE, FALSE) }
=============================================================================
