--------------------------- MODULE MC_AncestorLift ---------------------------
(***************************************************************************)
(* Predicates on a plain property, on two ancestor/descendant paths, on a *)
(* resolved ancestor property and on a malformed ancestor name of two     *)
(* segments; a node for every valuation of them.  Two hand-written        *)
(* merges: one named like a lifted merge, one not.                        *)
(***************************************************************************)
EXTENDS AncestorLift

Kind == <<"reported", "kind">>
AccountId == <<"ancestors", "account", "id">>
VolumeSize == <<"descendants", "volume", "size">>
CloudId == <<"ancestors", "cloud", "id">>
Malformed == <<"ancestors", "account">>

MC_PredNames == {Kind, AccountId, VolumeSize, CloudId, Malformed}
MC_Resolved == {CloudId}

(* A node is the set of predicates that hold for it. *)
MC_Nodes == SUBSET PredNames
MC_Sat == [n \in PredNames |-> {v \in MC_Nodes : n \in v}]

MC_UserMerges ==
    {[name |-> <<"ancestors", "account">>, query |-> "user"],
     [name |-> <<"owner">>, query |-> "user"]}
=============================================================================
