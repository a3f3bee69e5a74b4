----------------------------- MODULE AncestorLift -----------------------------
(***************************************************************************)
(* Part.rewrite_for_ancestors_descendants (core/query/model.py): a         *)
(* predicate on ancestors.<kind>.<path> or descendants.<kind>.<path> is    *)
(* lifted into a merge query {ancestors.<kind>: is(<kind>) <-[1:]- all}    *)
(* and the term is split into a pre filter that does not depend on merged  *)
(* data and a post filter that does.                                       *)
(*                                                                         *)
(* The term under rewrite is built by the Term constructors (and, or, not, *)
(* a merge term around it) from a few predicates, so that every shape the  *)
(* walk distinguishes occurs.  A merge query is a record of its name and   *)
(* of the query it runs: "lifted" for the one merge_query_for makes, or a  *)
(* model value for one written by the user.                                *)
(***************************************************************************)
EXTENDS Naturals, Sequences, FiniteSets, SequencesExt, TLC

CONSTANTS
    Nodes,       \* nodes, enough to tell apart every valuation of the predicates
    PredNames,   \* the dotted property paths predicates are written on
    Resolved,    \* GraphResolver.resolved_property_names
    Sat,         \* Sat[n]: the nodes a predicate on n holds for
    UserMerges,  \* merge queries written by hand
    MaxSize,     \* the number of constructor steps explored
    None

ASSUME AncestorLiftAssumption ==
    /\ \A n \in PredNames : n \in Seq(STRING) /\ Len(n) >= 1
    /\ \A n \in Resolved : n \in Seq(STRING)
    /\ Sat \in [PredNames -> SUBSET Nodes]
    /\ \A m \in UserMerges : m.query # "lifted"
    /\ MaxSize \in Nat

AllTerm == [kind |-> "all", name |-> None, left |-> None, right |-> None, merge |-> <<>>]

Predicate(n) == [kind |-> "pred", name |-> n, left |-> None, right |-> None, merge |-> <<>>]

CombinedTerm(l, op, r) == [kind |-> op, name |-> None, left |-> l, right |-> r, merge |-> <<>>]

NotTerm(t) == [kind |-> "not", name |-> None, left |-> t, right |-> None, merge |-> <<>>]

(* MergeTerm(pre_filter, merge, post_filter); no post filter is None. *)
MergeTerm(pre, merge, post) ==
    [kind |-> "merge", name |-> None, left |-> pre, right |-> post, merge |-> merge]

(* Term.and_term, the `&` of the walk. *)
AndTerm(l, r) ==
    CASE l = AllTerm -> r
      [] r = AllTerm -> l
      [] OTHER       -> CombinedTerm(l, "and", r)
-----------------------------------------------------------------------------
(* is_ancestor_descendant: not a resolved property, and in the ancestors  *)
(* or descendants section ("ancestors." is a prefix).                     *)
IsAncestorDescendant(n) ==
    /\ n \notin Resolved
    /\ Len(n) > 1
    /\ n[1] \in {"ancestors", "descendants"}

RECURSIVE HasAncestorDescendant(_)
HasAncestorDescendant(t) ==
    CASE t.kind = "pred"          -> IsAncestorDescendant(t.name)
      [] t.kind \in {"and", "or"} -> HasAncestorDescendant(t.left)
                                     \/ HasAncestorDescendant(t.right)
      [] t.kind = "merge"         -> HasAncestorDescendant(t.left)
                                     \/ (t.right # None /\ HasAncestorDescendant(t.right))
      [] t.kind = "not"           -> HasAncestorDescendant(t.left)
      [] OTHER                    -> FALSE

(* The ancestor/descendant predicates of t, left to right. *)
RECURSIVE AncestorDescendantPredicates(_)
AncestorDescendantPredicates(t) ==
    CASE t.kind = "pred"          -> IF IsAncestorDescendant(t.name) THEN <<t>> ELSE <<>>
      [] t.kind \in {"and", "or"} -> AncestorDescendantPredicates(t.left)
                                     \o AncestorDescendantPredicates(t.right)
      [] t.kind = "merge"         -> AncestorDescendantPredicates(t.left)
                                     \o (IF t.right # None
                                         THEN AncestorDescendantPredicates(t.right)
                                         ELSE <<>>)
      [] t.kind = "not"           -> AncestorDescendantPredicates(t.left)
      [] OTHER                    -> <<>>

(* Mutant: the side without ancestor predicates is mixed up. *)
RECURSIVE WalkTermSwapped(_, _)
WalkTermSwapped(t, acc) ==
    CASE t.kind = "or"  -> [acc EXCEPT !.after = AndTerm(@, t)]
      [] t.kind = "and" ->
            LET l == HasAncestorDescendant(t.left)
                r == HasAncestorDescendant(t.right)
            IN  CASE l /\ r -> WalkTermSwapped(t.right, WalkTermSwapped(t.left, acc))
                  [] l      -> WalkTermSwapped(t.left, [acc EXCEPT !.before = AndTerm(@, t.left)])
                  [] r      -> WalkTermSwapped(t.right, [acc EXCEPT !.before = AndTerm(@, t.left)])
                  [] OTHER  -> [acc EXCEPT !.error = "NotImplementedError"]
      [] t.kind = "merge" ->
            IF t.right # None THEN WalkTermSwapped(CombinedTerm(t.left, "and", t.right), acc)
            ELSE WalkTermSwapped(t.left, acc)
      [] OTHER -> [acc EXCEPT !.after = AndTerm(@, t)]

(* Mutant: `&` replaced by CombinedTerm, which keeps `all`. *)
RECURSIVE WalkTermNoSimplify(_, _)
WalkTermNoSimplify(t, acc) ==
    CASE t.kind = "or"  -> [acc EXCEPT !.after = CombinedTerm(@, "and", t)]
      [] t.kind = "and" ->
            LET l == HasAncestorDescendant(t.left)
                r == HasAncestorDescendant(t.right)
            IN  CASE l /\ r -> WalkTermNoSimplify(t.right, WalkTermNoSimplify(t.left, acc))
                  [] l      -> WalkTermNoSimplify(t.left, [acc EXCEPT !.before = CombinedTerm(@, "and", t.right)])
                  [] r      -> WalkTermNoSimplify(t.right, [acc EXCEPT !.before = CombinedTerm(@, "and", t.left)])
                  [] OTHER  -> [acc EXCEPT !.error = "NotImplementedError"]
      [] t.kind = "merge" ->
            IF t.right # None THEN WalkTermNoSimplify(CombinedTerm(t.left, "and", t.right), acc)
            ELSE WalkTermNoSimplify(t.left, acc)
      [] OTHER -> [acc EXCEPT !.after = CombinedTerm(@, "and", t)]

(* walk_term on the accumulators acc = [before, after, error]. *)
RECURSIVE WalkTerm(_, _)
WalkTerm(t, acc) ==
    CASE t.kind = "or"  -> [acc EXCEPT !.after = AndTerm(@, t)]
      [] t.kind = "and" ->
            LET l == HasAncestorDescendant(t.left)
                r == HasAncestorDescendant(t.right)
            IN  CASE l /\ r -> WalkTerm(t.right, WalkTerm(t.left, acc))
                  [] l      -> WalkTerm(t.left, [acc EXCEPT !.before = AndTerm(@, t.right)])
                  [] r      -> WalkTerm(t.right, [acc EXCEPT !.before = AndTerm(@, t.left)])
                  [] OTHER  -> [acc EXCEPT !.error = "NotImplementedError"]
      [] t.kind = "merge" ->
            IF t.right # None THEN WalkTerm(CombinedTerm(t.left, "and", t.right), acc)
            ELSE WalkTerm(t.left, acc)
      [] OTHER -> [acc EXCEPT !.after = AndTerm(@, t)]

(* name_predicate: split(".", 2) into ancestors|descendants, kind and the *)
(* rest; a name of two segments does not unpack.                          *)
NamePredicate(p) == IF Len(p.name) < 3 THEN None ELSE <<p.name[1], p.name[2]>>

(* Mutant: the merge query collects every ancestor (only_first=False). *)
MergeQueryForAll(key) == [name |-> key, query |-> "lifted", only_first |-> FALSE]

(* merge_query_for(anc_dec, kind) *)
MergeQueryFor(key) == [name |-> key, query |-> "lifted"]

(* The keys of group_by(name_predicate, ...), in the order they first    *)
(* occur.                                                                  *)
Distinct(seq) ==
    FoldLeft(LAMBDA acc, k : IF Contains(acc, k) THEN acc ELSE Append(acc, k), <<>>, seq)

(* list({**created, **existing}.values()): the created names, then the     *)
(* existing names not created; an existing query wins on its name.         *)
MergeQueries(createdKeys, existing) ==
    LET exNames == [i \in DOMAIN existing |-> existing[i].name]
        order == createdKeys \o SelectSeq(Distinct(exNames),
                                         LAMBDA k : ~Contains(createdKeys, k))
        LastNamed(k) == existing[CHOOSE i \in DOMAIN existing :
                                /\ existing[i].name = k
                                /\ \A j \in DOMAIN existing : existing[j].name = k => j <= i]
    IN  [i \in DOMAIN order |->
            IF Contains(exNames, order[i]) THEN LastNamed(order[i]) ELSE MergeQueryFor(order[i])]

(* rewrite_for_ancestors_descendants on a part with term t: the new term, *)
(* or the exception it raises.                                             *)
Rewrite(t) ==
    IF ~HasAncestorDescendant(t) THEN [term |-> t, error |-> None]
    ELSE
    LET acc == WalkTerm(t, [before |-> AllTerm, after |-> AllTerm, error |-> None])
        preds == AncestorDescendantPredicates(acc.after)
        keys == [i \in DOMAIN preds |-> NamePredicate(preds[i])]
        existing == IF t.kind = "merge" THEN t.merge ELSE <<>>
    IN  IF acc.error # None THEN [term |-> t, error |-> acc.error]
        ELSE IF Contains(keys, None) THEN [term |-> t, error |-> "ValueError"]
        ELSE [term |-> MergeTerm(acc.before, MergeQueries(Distinct(keys), existing),
                                 acc.after),
              error |-> None]
-----------------------------------------------------------------------------
(* The nodes a term holds for; a merge term filters by its pre and post   *)
(* filters, the merge only adds data.                                     *)
RECURSIVE Holds(_)
Holds(t) ==
    CASE t.kind = "all"   -> Nodes
      [] t.kind = "pred"  -> Sat[t.name]
      [] t.kind = "and"   -> Holds(t.left) \cap Holds(t.right)
      [] t.kind = "or"    -> Holds(t.left) \cup Holds(t.right)
      [] t.kind = "not"   -> Nodes \ Holds(t.left)
      [] t.kind = "merge" -> Holds(t.left) \cap (IF t.right = None THEN Nodes ELSE Holds(t.right))

(* Every merge query anywhere in t. *)
RECURSIVE MergesOf(_)
MergesOf(t) ==
    CASE t.kind \in {"and", "or"} -> MergesOf(t.left) \cup MergesOf(t.right)
      [] t.kind = "not"           -> MergesOf(t.left)
      [] t.kind = "merge"         -> {t.merge[i] : i \in DOMAIN t.merge}
                                     \cup MergesOf(t.left)
                                     \cup (IF t.right = None THEN {} ELSE MergesOf(t.right))
      [] OTHER                    -> {}
-----------------------------------------------------------------------------
VARIABLES
    term,     \* the term of the part
    size,     \* the constructor steps taken
    failed    \* the exception the last rewrite raised, or None

vars == <<term, size, failed>>

Init ==
    /\ term \in {Predicate(n) : n \in PredNames}
    /\ size = 0
    /\ failed = None

Build(t) ==
    /\ size < MaxSize
    /\ term' = t
    /\ size' = size + 1
    /\ UNCHANGED failed

(* `term & P(n)` or `P(n) & term`, as filter and combine make them. *)
AndWith(n) ==
    \/ Build(CombinedTerm(term, "and", Predicate(n)))
    \/ Build(CombinedTerm(Predicate(n), "and", term))

OrWith(n) == Build(CombinedTerm(term, "or", Predicate(n)))

Negate == Build(NotTerm(term))

(* term {m}, and P(n) {m} term: a merge term with or without post filter. *)
WrapMerge(m) == Build(MergeTerm(term, <<m>>, None))

WrapMergePost(n, m) == Build(MergeTerm(Predicate(n), <<m>>, term))

(* The part is rewritten. *)
RewritePart ==
    /\ Rewrite(term).error = None
    /\ term' = Rewrite(term).term
    /\ UNCHANGED <<size, failed>>

(* The rewrite raises. *)
RewriteRaises ==
    /\ Rewrite(term).error # None
    /\ failed' = Rewrite(term).error
    /\ UNCHANGED <<term, size>>

Next ==
    \/ \E n \in PredNames : AndWith(n) \/ OrWith(n)
    \/ Negate
    \/ \E m \in UserMerges : WrapMerge(m) \/ \E n \in PredNames : WrapMergePost(n, m)
    \/ RewritePart
    \/ RewriteRaises

Spec == Init /\ [][Next]_vars
-----------------------------------------------------------------------------
(* Properties *)

(* Every variable has its type (a term at its root). *)
TypeOK ==
    /\ term.kind \in {"all", "pred", "and", "or", "not", "merge"}
    /\ \A i \in DOMAIN term.merge : DOMAIN term.merge[i] = {"name", "query"}
    /\ size \in 0 .. MaxSize
    /\ failed \in {None, "ValueError", "NotImplementedError"}

(* Spec 4.B step 2 ("the logic of the query is not changed"): the pre and *)
(* post filter of the rewritten term hold for exactly the nodes the term  *)
(* held for, whatever and/or/not/merge nesting the term has.              *)
LiftPreservesLogic ==
    Rewrite(term).error = None => Holds(Rewrite(term).term) = Holds(term)

(* Spec 8.6: rewriting a rewritten part changes nothing, also when the    *)
(* rewritten term was combined with further ancestor predicates.          *)
LiftIdempotent ==
    Rewrite(term).error = None =>
        Rewrite(Rewrite(term).term) = Rewrite(term)

(* Spec 4.B step 4: the merge queries the term had are kept (an existing  *)
(* one wins over a lifted one of the same name).                          *)
MergesKept ==
    Rewrite(term).error = None =>
        \A m \in MergesOf(term) : \E k \in MergesOf(Rewrite(term).term) : k.name = m.name

(* Spec 4.B, edge cases: a malformed ancestor name surfaces the structured *)
(* AttributeError that quotes the expected shape.                          *)
MalformedNameStructured ==
    Rewrite(term).error \in {None, "AttributeError"}
=============================================================================
