--------------------------- MODULE MC_QueryBuilder ---------------------------
(***************************************************************************)
(* Three nodes: a chain of default edges ending in a loop, and a cycle of *)
(* delete edges; two absolute property names, reported.kind and          *)
(* ancestors.kind.                                                       *)
(***************************************************************************)
EXTENDS QueryBuilder

MC_Nodes == {"n1", "n2", "n3"}

MC_Edges ==
    [e \in {"default", "delete"} |->
        IF e = "default" THEN {<<"n1", "n2">>, <<"n2", "n3">>, <<"n3", "n3">>}
        ELSE {<<"n1", "n2">>, <<"n2", "n3">>, <<"n3", "n1">>}]

MC_Rank == [n \in MC_Nodes |-> CASE n = "n1" -> 1 [] n = "n2" -> 2 [] n = "n3" -> 3]

Kind == [root |-> FALSE, path |-> <<"reported", "kind">>]
AncestorKind == [root |-> FALSE, path |-> <<"ancestors", "kind">>]

MC_Names == {Kind, AncestorKind}

MC_Sat == Kind :> {"n1", "n2"} @@ AncestorKind :> {"n2", "n3"}

Nav(start, until, edge, dir) == [start |-> start, until |-> until, edge |-> edge, dir |-> dir]

(* traverse_out(), traverse_in(0, Max) and a traversal of delete edges. *)
MC_Travs ==
    {Nav(1, 1, "default", "out"), Nav(0, Max, "default", "in"),
     Nav(1, 1, "delete", "out")}

MC_SortNames == {Kind}
MC_StartNames == {Kind, AncestorKind}
=============================================================================
