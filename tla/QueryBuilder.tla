----------------------------- MODULE QueryBuilder -----------------------------
(***************************************************************************)
(* The fluent query builder of resotocore (core/query/model.py): a Query   *)
(* is a non-empty list of Parts stored in reverse execution order (index 1 *)
(* here, parts[0] in the code, is the current part), each with a term, a  *)
(* tag, a with clause, a sort list, a limit and a navigation to the next   *)
(* part.  Two queries, `left` and `right`, are built by interleaved calls  *)
(* of filter, traverse, add_sort, with_limit, tag, filter_with, group_by,  *)
(* merge_preamble and left.combine(right).                                 *)
(*                                                                         *)
(* What a query means is stated here, not taken from the code: over a      *)
(* small graph, a part keeps the nodes its term holds for, the first       *)
(* `limit` of them in a fixed order, and follows its navigation by walks   *)
(* whose length lies between start and until (until = Max: unbounded).    *)
(* Sort and with clauses do not change which nodes a part keeps here.      *)
(***************************************************************************)
EXTENDS Naturals, Sequences, FiniteSets, Functions, TLC

CONSTANTS
    Nodes,          \* the nodes of the graph
    EdgeTypes,      \* EdgeType.all
    Edges,          \* Edges[e]: the edges of type e
    Rank,           \* the order a limit takes nodes in
    Segments,       \* the segments of a dotted property path
    Names,          \* the property names predicates are written on
    Sat,            \* Sat[n]: the nodes a predicate on name n holds for
    Max,            \* Navigation.Max
    Travs,          \* the traverse(start, until, edge_type, direction) calls
    Tags, SortNames, Withs, Limits, Aggs,
    PreambleKeys, PreambleValues,
    StartNames,     \* Query.by(...) of a predicate on one of these names
    MaxCalls,       \* the number of builder calls explored
    None

Directions == {"out", "in", "inout"}

(* A property name: a leading "/" (root) and its dotted path. *)
Name == [root : BOOLEAN, path : Seq(Segments)]

Navigation == [start : Nat, until : Nat, edge : EdgeTypes, dir : Directions]

ASSUME QueryBuilderAssumption ==
    /\ Edges \in [EdgeTypes -> SUBSET (Nodes \X Nodes)]
    /\ Rank \in [Nodes -> Nat]
    /\ Names \subseteq Name /\ Sat \in [Names -> SUBSET Nodes]
    /\ Max \in Nat \ {0}
    /\ Travs \subseteq Navigation
    /\ \A t \in Travs : t.start <= t.until /\ t.until <= Max
    /\ Limits \subseteq Nat \ {0}
    /\ StartNames \subseteq Names
    /\ MaxCalls \in Nat

-----------------------------------------------------------------------------
(* variable_to_absolute and variable_to_relative *)

PathRoot == "/"

(* variable_to_absolute(section, name); no section is the root. *)
VariableToAbsolute(section, n) ==
    IF n.root THEN [n EXCEPT !.root = FALSE]
    ELSE IF section # None THEN [n EXCEPT !.path = <<section>> \o n.path]
    ELSE n

(* Mutant: the section prefix is stripped without comparing it. *)
VariableToRelativeAnySection(section, n) ==
    IF n.root THEN n
    ELSE IF Len(n.path) > 1 THEN [n EXCEPT !.path = Tail(n.path)]
    ELSE [n EXCEPT !.root = TRUE]

(* variable_to_relative(section, name) *)
VariableToRelative(section, n) ==
    IF n.root THEN n
    ELSE IF Len(n.path) > 1 /\ n.path[1] = section
         THEN [n EXCEPT !.path = Tail(n.path)]
    ELSE [n EXCEPT !.root = TRUE]

-----------------------------------------------------------------------------
(* Terms: all, a predicate on a name, and/or of two terms. *)

AllTerm == [kind |-> "all", name |-> None, left |-> None, right |-> None]

Predicate(n) == [kind |-> "pred", name |-> n, left |-> None, right |-> None]

CombinedTerm(l, op, r) == [kind |-> op, name |-> None, left |-> l, right |-> r]

(* Term.and_term: `all` is the neutral element. *)
AndTerm(l, r) ==
    CASE l = AllTerm -> r
      [] r = AllTerm -> l
      [] OTHER       -> CombinedTerm(l, "and", r)

(* Term.or_term: `all` absorbs. *)
OrTerm(l, r) ==
    IF l = AllTerm \/ r = AllTerm THEN AllTerm ELSE CombinedTerm(l, "or", r)

(* Part(term) with every other field at its default. *)
Part(term) ==
    [term |-> term, tag |-> None, with |-> None, sort |-> <<>>,
     limit |-> None, nav |-> None]

(* Query.mk_term(term, *terms): the terms reduced left to right with     *)
(* "and"; a string argument is an is() term, here a predicate name.       *)
MkTerm(ts) ==
    LET and[i \in 1 .. Len(ts)] ==
            IF i = 1 THEN ts[1] ELSE CombinedTerm(and[i - 1], "and", ts[i])
    IN  and[Len(ts)]

(* Query.by(term, *terms) *)
QueryBy(ts) ==
    [parts |-> <<Part(MkTerm(ts))>>, preamble |-> [k \in {} |-> None],
     aggregate |-> None]

-----------------------------------------------------------------------------
(* The builder operations; q.parts[1] is the current part. *)

(* filter(term, *terms): AND into the current part, or a new part after *)
(* a navigation.                                                          *)
Filter(q, ts) ==
    LET first == q.parts[1]
        t == MkTerm(ts)
    IN  IF first.nav = None
        THEN [q EXCEPT !.parts[1] = Part(CombinedTerm(first.term, "and", t))]
        ELSE [q EXCEPT !.parts = <<Part(t)>> \o q.parts]

FilterWith(q, w) == [q EXCEPT !.parts[1].with = w]

(* Mutant: the sums are not capped at Max. *)
TraverseUncapped(q, nav) ==
    LET p0 == q.parts[1]
    IN  IF p0.nav = None
        THEN [q EXCEPT !.parts[1].nav = nav]
        ELSE IF p0.nav.edge = nav.edge /\ p0.nav.dir = nav.dir
        THEN [q EXCEPT !.parts[1].nav =
                 [nav EXCEPT !.start = nav.start + p0.nav.start,
                             !.until = nav.until + p0.nav.until]]
        ELSE [q EXCEPT !.parts = <<[Part(AllTerm) EXCEPT !.nav = nav]>> \o q.parts]

(* Mutant: navigations of the same edge type add up whatever their *)
(* direction.                                                       *)
TraverseAnyDirection(q, nav) ==
    LET p0 == q.parts[1]
        Cap(x) == IF x < Max THEN x ELSE Max
    IN  IF p0.nav = None
        THEN [q EXCEPT !.parts[1].nav = nav]
        ELSE IF p0.nav.edge = nav.edge
        THEN [q EXCEPT !.parts[1].nav =
                 [nav EXCEPT !.start = Cap(nav.start + p0.nav.start),
                             !.until = Cap(nav.until + p0.nav.until)]]
        ELSE [q EXCEPT !.parts = <<[Part(AllTerm) EXCEPT !.nav = nav]>> \o q.parts]

(* traverse: the same edge type and direction add up, capped at Max. *)
Traverse(q, nav) ==
    LET p0 == q.parts[1]
        Cap(x) == IF x < Max THEN x ELSE Max
    IN  IF p0.nav = None
        THEN [q EXCEPT !.parts[1].nav = nav]
        ELSE IF p0.nav.edge = nav.edge /\ p0.nav.dir = nav.dir
        THEN [q EXCEPT !.parts[1].nav =
                 [nav EXCEPT !.start = Cap(nav.start + p0.nav.start),
                             !.until = Cap(nav.until + p0.nav.until)]]
        ELSE [q EXCEPT !.parts = <<[Part(AllTerm) EXCEPT !.nav = nav]>> \o q.parts]

(* The part __change_current_part hands to fn: a part with a navigation  *)
(* is closed, so a fresh part is opened.                                 *)
OpenPart(q) == IF q.parts[1].nav # None THEN Part(AllTerm) ELSE q.parts[1]

(* __change_current_part: fn's part p becomes the current part, in front *)
(* of a closed part or in place of the open one.                         *)
ChangeCurrentPart(q, p) ==
    IF q.parts[1].nav # None
    THEN [q EXCEPT !.parts = <<p>> \o q.parts]
    ELSE [q EXCEPT !.parts[1] = p]

AddSort(q, s) == ChangeCurrentPart(q, [OpenPart(q) EXCEPT !.sort = Append(@, s)])

WithLimit(q, n) == ChangeCurrentPart(q, [OpenPart(q) EXCEPT !.limit = n])

Tag(q, name) == ChangeCurrentPart(q, [OpenPart(q) EXCEPT !.tag = name])

GroupBy(q, agg) == [q EXCEPT !.aggregate = agg]

MergePreamble(q, pre) == [q EXCEPT !.preamble = pre @@ q.preamble]

(* The AttributeError combine raises, or None. *)
CombineError(self, other) ==
    LET l == self.parts[1]
        r == other.parts[Len(other.parts)]
    IN  IF self.aggregate # None /\ other.aggregate # None THEN "aggregates"
        ELSE IF l.nav # None THEN None
        ELSE IF l.with # None /\ r.with # None THEN "with_clauses"
        ELSE IF l.tag # None /\ r.tag # None THEN "tags"
        ELSE None

(* combine_optional(l, r, min) on two limits: the smaller when both are *)
(* set, else the one that is set.                                        *)
CombineLimits(l, r) ==
    IF l # None /\ r # None THEN (IF l < r THEN l ELSE r)
    ELSE IF l # None THEN l ELSE r

(* Mutant: the parts are always concatenated, never fused. *)
CombineConcat(self, other) ==
    [parts |-> other.parts \o self.parts,
     preamble |-> other.preamble @@ self.preamble,
     aggregate |-> IF self.aggregate # None THEN self.aggregate ELSE other.aggregate]

(* self.combine(other): self runs first, then other. *)
Combine(self, other) ==
    LET l == self.parts[1]
        r == other.parts[Len(other.parts)]
        fused ==
            [term |-> AndTerm(l.term, r.term),
             tag |-> IF l.tag # None THEN l.tag ELSE r.tag,
             with |-> IF l.with # None THEN l.with ELSE r.with,
             sort |-> l.sort \o r.sort,   \* combine_optional(.., l + r): [] is unset
             limit |-> CombineLimits(l.limit, r.limit),
             nav |-> r.nav]
        parts ==
            IF l.nav # None THEN other.parts \o self.parts
            ELSE SubSeq(other.parts, 1, Len(other.parts) - 1)
                 \o <<fused>> \o Tail(self.parts)
    IN  [parts |-> parts,
         preamble |-> other.preamble @@ self.preamble,
         aggregate |-> IF self.aggregate # None THEN self.aggregate
                       ELSE other.aggregate]
(* The variable functions on_section and relative_to_section pass to    *)
(* change_variable.                                                       *)
Rename(toAbsolute, section, n) ==
    IF toAbsolute THEN VariableToAbsolute(section, n)
    ELSE VariableToRelative(section, n)

(* Term.change_variable: the name of every predicate renamed. *)
RECURSIVE ChangeTermVariable(_, _, _)
ChangeTermVariable(t, toAbsolute, section) ==
    CASE t.kind = "pred"         -> Predicate(Rename(toAbsolute, section, t.name))
      [] t.kind \in {"and", "or"} ->
             CombinedTerm(ChangeTermVariable(t.left, toAbsolute, section), t.kind,
                          ChangeTermVariable(t.right, toAbsolute, section))
      [] OTHER                   -> t

(* Query.change_variable through Part.change_variable and                *)
(* Sort.change_variable: the terms and the sort names of every part.      *)
ChangeVariable(q, toAbsolute, section) ==
    [q EXCEPT !.parts =
        [i \in DOMAIN q.parts |->
            [q.parts[i] EXCEPT
                !.term = ChangeTermVariable(@, toAbsolute, section),
                !.sort = [j \in DOMAIN @ |-> Rename(toAbsolute, section, @[j])]]]]

(* on_section(section) *)
OnSection(q, section) == ChangeVariable(q, TRUE, section)

(* relative_to_section(section) *)
RelativeToSection(q, section) ==
    IF section = PathRoot THEN q
    ELSE ChangeVariable(q, FALSE, section)

-----------------------------------------------------------------------------
(* What a query means over the graph. *)

(* The nodes a term holds for. *)
RECURSIVE Holds(_)
Holds(t) ==
    CASE t.kind = "all"  -> Nodes
      [] t.kind = "pred" -> Sat[t.name]
      [] t.kind = "and"  -> Holds(t.left) \cap Holds(t.right)
      [] t.kind = "or"   -> Holds(t.left) \cup Holds(t.right)

(* One step along the edges of type e in direction d. *)
Step(S, e, d) ==
    {m \in Nodes : \E n \in S :
        \/ d \in {"out", "inout"} /\ <<n, m>> \in Edges[e]
        \/ d \in {"in", "inout"} /\ <<m, n>> \in Edges[e]}

RECURSIVE Walk(_, _, _, _)
Walk(S, k, e, d) == IF k = 0 THEN S ELSE Step(Walk(S, k - 1, e, d), e, d)

(* The nodes reached from S by walks of length start..until; until = Max *)
(* puts no upper bound on the length.                                    *)
Reach(S, nav) ==
    LET top == IF nav.until = Max THEN nav.start + Cardinality(Nodes) ELSE nav.until
    IN  UNION {Walk(S, k, nav.edge, nav.dir) : k \in nav.start .. top}

(* The first n nodes of S in the order of Rank. *)
FirstOf(S, n) == {x \in S : Cardinality({y \in S : Rank[y] < Rank[x]}) < n}

(* What one part makes of the nodes S it is given. *)
RunPart(S, p) ==
    LET kept == Holds(p.term) \cap S
        limited == IF p.limit = None THEN kept ELSE FirstOf(kept, p.limit)
    IN  IF p.nav = None THEN limited ELSE Reach(limited, p.nav)

(* The parts run from the last (the first in execution) to the first. *)
RECURSIVE RunParts(_, _)
RunParts(S, parts) ==
    IF parts = <<>> THEN S
    ELSE RunPart(RunParts(S, Tail(parts)), Head(parts))

Eval(q) == RunParts(Nodes, q.parts)
-----------------------------------------------------------------------------
Sides == {"left", "right"}

VARIABLES
    q,        \* q[s]: the query built on side s
    calls,    \* the builder calls made so far
    error     \* the AttributeError of the last combine, or None

vars == <<q, calls, error>>

Init ==
    /\ q \in [Sides -> {QueryBy(<<Predicate(n)>>) : n \in StartNames}]
    /\ calls = 0
    /\ error = None

(* The name arguments of a filter call: one or two terms. *)
FilterArgs == {<<n>> : n \in Names} \cup (Names \X Names)

(* One fluent call on side s, returning the query `new`. *)
Call(s, new) ==
    /\ calls < MaxCalls
    /\ q' = [q EXCEPT ![s] = new]
    /\ calls' = calls + 1
    /\ UNCHANGED error

FilterCall(s, ns) == Call(s, Filter(q[s], [i \in DOMAIN ns |-> Predicate(ns[i])]))
TraverseCall(s, nav) == Call(s, Traverse(q[s], nav))
AddSortCall(s, n) == Call(s, AddSort(q[s], n))
WithLimitCall(s, k) == Call(s, WithLimit(q[s], k))
TagCall(s, t) == Call(s, Tag(q[s], t))
FilterWithCall(s, w) == Call(s, FilterWith(q[s], w))
GroupByCall(s, a) == Call(s, GroupBy(q[s], a))
MergePreambleCall(s, k, v) == Call(s, MergePreamble(q[s], k :> v))

(* left.combine(right) returns the combined query. *)
CombineOk ==
    /\ CombineError(q["left"], q["right"]) = None
    /\ Call("left", Combine(q["left"], q["right"]))

(* left.combine(right) raises: both sides keep their query. *)
CombineRaises ==
    /\ calls < MaxCalls
    /\ CombineError(q["left"], q["right"]) # None
    /\ error' = CombineError(q["left"], q["right"])
    /\ calls' = calls + 1
    /\ UNCHANGED q

Next ==
    \/ \E s \in Sides :
          \/ \E ns \in FilterArgs : FilterCall(s, ns)
          \/ \E nav \in Travs : TraverseCall(s, nav)
          \/ \E n \in SortNames : AddSortCall(s, n)
          \/ \E k \in Limits : WithLimitCall(s, k)
          \/ \E t \in Tags : TagCall(s, t)
          \/ \E w \in Withs : FilterWithCall(s, w)
          \/ \E a \in Aggs : GroupByCall(s, a)
          \/ \E k \in PreambleKeys, v \in PreambleValues : MergePreambleCall(s, k, v)
    \/ CombineOk
    \/ CombineRaises

Spec == Init /\ [][Next]_vars
-----------------------------------------------------------------------------
(* Properties *)

(* Every variable has its type; a term is checked at its root only. *)
TypeOK ==
    /\ \A s \in Sides :
          /\ Len(q[s].parts) \in 1 .. MaxCalls + 1
          /\ \A i \in DOMAIN q[s].parts :
                LET p == q[s].parts[i]
                IN  /\ p.term.kind \in {"all", "pred", "and", "or"}
                    /\ p.tag \in Tags \cup {None}
                    /\ p.with \in Withs \cup {None}
                    /\ p.sort \in Seq(SortNames)
                    /\ p.limit \in Limits \cup {None}
                    /\ p.nav = None \/ (p.nav \in Navigation /\ p.nav.until <= Max)
          /\ q[s].aggregate \in Aggs \cup {None}
          /\ q[s].preamble \in UNION {[D -> PreambleValues] : D \in SUBSET PreambleKeys}
    /\ calls \in 0 .. MaxCalls
    /\ error \in {None, "aggregates", "with_clauses", "tags"}

(* Spec 3: adjacent parts are joined by a navigation.  Every part but the *)
(* current one leads on to the next by its navigation, whatever filter,   *)
(* traverse, sort, limit, tag and combine calls built the query; a part   *)
(* without one would silently end the query before the parts after it.    *)
PartsLinked ==
    \A s \in Sides : \A i \in 2 .. Len(q[s].parts) : q[s].parts[i].nav # None

(* Spec 4.B filter: filter(term, *terms) narrows what the query returns  *)
(* to the nodes every term holds for, whether it ANDs them into the       *)
(* current part or opens a part after a navigation.                       *)
FilterNarrows ==
    [][\A s \in Sides, ns \in FilterArgs :
          FilterCall(s, ns) =>
              Eval(q'[s]) = {x \in Eval(q[s]) : \A i \in DOMAIN ns : x \in Sat[ns[i]]}]_vars

(* Spec 4.B traverse and 8.5: traverse(start, until) walks on from what    *)
(* the query returned, also when it adds the walk to the navigation the   *)
(* current part already has (capped at Navigation.Max).                   *)
TraverseComposes ==
    [][\A s \in Sides, nav \in Travs :
          TraverseCall(s, nav) => Eval(q'[s]) = Reach(Eval(q[s]), nav)]_vars

(* Spec 4.B combine: left.combine(right) runs left and then right on what *)
(* left returned, also when it fuses left's current part with right's     *)
(* first part (AND of the terms, the tighter limit).                      *)
CombineSequential ==
    [][CombineOk =>
          Eval(q'["left"]) = RunParts(Eval(q["left"]), q["right"].parts)]_vars

(* Spec 8.4: on_section(s) after relative_to_section(s) gives back the    *)
(* query, for every query the builder makes on absolute names.            *)
SectionRoundTrip ==
    \A s \in Sides, sec \in Segments :
        OnSection(RelativeToSection(q[s], sec), sec) = q[s]
=============================================================================
