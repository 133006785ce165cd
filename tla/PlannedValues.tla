--------------------------- MODULE PlannedValues ---------------------------
(***************************************************************************)
(* The pure part of planning and applying one resource: the proposed value *)
(* (internal/provider), the masked comparison that names the action        *)
(* (internal/plan), and what apply does with a reviewed value that still   *)
(* has unknown leaves (internal/apply).                                    *)
(*                                                                         *)
(* Types and paths are Projection's; an object type also has its computed  *)
(* attributes and its nested blocks.  Objects, maps and lists have their   *)
(* members in f.  A set is the bag of its elements, because elements with  *)
(* unknown parts do not coalesce.                                          *)
(***************************************************************************)
EXTENDS Projection

Unknown == [t |-> "unknown"]
Unset == {Null, Unknown}
Named == {"obj", "map", "list"}

RECURSIVE WhollyKnown(_)
WhollyKnown(v) ==
    CASE v.t = "unknown" -> FALSE
      [] v.t \in Named   -> \A n \in DOMAIN v.f : WhollyKnown(v.f[n])
      [] v.t = "set"     -> \A x \in DOMAIN v.b : WhollyKnown(x)
      [] OTHER           -> TRUE

\* The set of the images of a set's elements: equal known ones become one.
ImageSet(F(_), b) ==
    [t |-> "set", b |-> [y \in {F(x) : x \in DOMAIN b} |->
        IF WhollyKnown(y) THEN 1 ELSE MapThenSumSet(LAMBDA x : b[x], {x \in DOMAIN b : F(x) = y})]]

Member(ty, n) == IF ty.k = "obj" THEN ty.f[n] ELSE ty.e
Place(ty, inst, n) ==
    IF ty.k = "obj" THEN Attr(inst, n) ELSE Index(inst, IF ty.k = "list" THEN ToString(n) ELSE n)

----------------------------------------------------------------------------
\* What is proposed to the provider.

\* Mutation of ProposedNew: the configuration is the proposal.
ProposedConfig(ty, prior, cfg) == cfg

\* A computed attribute that the author left out keeps its value.  Elements of
\* a nested set cannot be correlated with earlier ones.
RECURSIVE ProposedNew(_, _, _)
ProposedNew(ty, prior, cfg) ==
    LET Was(v, n) == IF v \notin Unset /\ n \in DOMAIN v.f THEN v.f[n] ELSE Null
        Block(t, p, c) ==
            IF c \in Unset \/ t.k = "set" THEN c
            ELSE IF t.k = "obj" THEN ProposedNew(t, p, c)
            ELSE [c EXCEPT !.f = [n \in DOMAIN c.f |-> ProposedNew(t.e, Was(p, n), c.f[n])]]
    IN IF cfg \in Unset \/ prior = Unknown THEN cfg
       ELSE [cfg EXCEPT !.f = [n \in DOMAIN ty.f |->
               IF n \in ty.blocks THEN Block(ty.f[n], Was(prior, n), cfg.f[n])
               ELSE IF n \in ty.computed /\ cfg.f[n] = Null THEN Was(prior, n)
               ELSE cfg.f[n]]]

----------------------------------------------------------------------------
\* What is compared, and what is written to the plan.

\* Mutation of Untouched: sensitive leaves of set elements are masked too.
UntouchedAbove(mode, spec, ty, l) ==
    /\ HasSet(spec, l)
    /\ mode = "mask" \/ ty.k \notin {"str", "map"}

\* A composite or, to Mask, anything that stands above, at or in a set whose
\* identity depends on sensitive leaves.
Untouched(mode, spec, ty, l) ==
    /\ HasSet(spec, l) \/ Covered(l, spec.sets)
    /\ mode = "mask" \/ ty.k \notin {"str", "map"}

\* transform, from the leaves up; "unknown" or "mask".
RECURSIVE Transform(_, _, _, _, _, _)
Transform(mode, spec, ty, v, inst, l) ==
    LET w == CASE v.t \in Named ->
                    [v EXCEPT !.f = [n \in DOMAIN v.f |->
                        Transform(mode, spec, Member(ty, n), v.f[n], Place(ty, inst, n),
                                  IF ty.k = "obj" THEN Attr(l, n) ELSE l)]]
               [] v.t = "set" ->
                    ImageSet(LAMBDA x : Transform(mode, spec, ty.e, x, Index(inst, "*"), l), v.b)
               [] OTHER -> v
    IN IF ~Covered(l, spec.paths) \/ Exempted(spec, inst, w) \/ Untouched(mode, spec, ty, l)
       THEN w
       ELSE IF mode = "mask" \/ v = Null THEN Null ELSE Unknown

Masked(spec, ty, v) == Transform("mask", spec, ty, v, <<>>, <<>>)
WithUnknowns(spec, ty, v) == Transform("unknown", spec, ty, v, <<>>, <<>>)

\* replaceRequired, for top-level attributes.
ReplaceRequired(prior, planned, names) ==
    \E n \in names : prior.f[n] # planned.f[n] \/ ~WhollyKnown(planned.f[n])

Classify(prior, planned, names, spec, ty) ==
    LET before == Masked(spec, ty, prior)
        after == Masked(spec, ty, planned)
    IN CASE prior = Null -> "create"
         [] prior # Null /\ planned = Null -> "delete"
         [] OTHER -> IF ReplaceRequired(before, after, names) THEN "replace"
                     ELSE IF before = after THEN "no-op" ELSE "update"

----------------------------------------------------------------------------
\* What apply makes of the reviewed value.

\* Unknown leaves take the configuration's value, except in sets.
RECURSIVE ResolvePlannedUnknowns(_, _)
ResolvePlannedUnknowns(planned, cfg) ==
    LET aligned == cfg \notin Unset /\ (planned.t = "list" => Len(cfg.f) = Len(planned.f))
        Sub(n) == IF aligned /\ n \in DOMAIN cfg.f THEN cfg.f[n] ELSE Null
    IN CASE planned = Unknown -> IF cfg \in Unset THEN planned ELSE cfg
         [] planned.t \in Named ->
               [planned EXCEPT !.f = [n \in DOMAIN planned.f |->
                  ResolvePlannedUnknowns(planned.f[n], Sub(n))]]
         [] OTHER -> planned

\* reviewedSetNeedsReplan: an unknown at or below a set.
RECURSIVE NeedsReplan(_, _)
NeedsReplan(ty, v) ==
    CASE v = Unknown    -> TypeSets(ty, <<>>) # {}
      [] v.t = "set"    -> ~WhollyKnown(v)
      [] v.t \in Named  -> \E n \in DOMAIN v.f : NeedsReplan(Member(ty, n), v.f[n])
      [] OTHER          -> FALSE

BagSeq(b) == FoldSet(LAMBDA x, s : s \o [i \in 1..b[x] |-> x], <<>>, DOMAIN b)

\* One augmenting path from left; seen and owner as the search leaves them.
RECURSIVE Augment(_, _, _, _)
Augment(edges, left, seen, owner) ==
    FoldLeft(LAMBDA a, right :
                IF a.found \/ right \in a.seen THEN a
                ELSE LET now == a.seen \cup {right}
                         freed == IF a.owner[right] = 0
                                  THEN [found |-> TRUE, seen |-> now, owner |-> a.owner]
                                  ELSE Augment(edges, a.owner[right], now, a.owner)
                     IN IF freed.found THEN [freed EXCEPT !.owner[right] = left] ELSE freed,
             [found |-> FALSE, seen |-> seen, owner |-> owner],
             edges[left])

PerfectBipartiteMatch(edges, rightCount) ==
    /\ Len(edges) = rightCount
    /\ FoldLeft(LAMBDA a, left :
                   IF ~a.found THEN a ELSE Augment(edges, left, {}, a.owner),
                [found |-> TRUE, seen |-> {}, owner |-> [j \in 1..rightCount |-> 0]],
                [i \in DOMAIN edges |-> i]).found

\* Mutation of SetMatches: every reviewed element has some counterpart.
SetMatchesSome(edges, rightCount) ==
    Len(edges) = rightCount /\ \A i \in DOMAIN edges : edges[i] # <<>>

\* How the elements of two sets are matched.
SetMatches(edges, rightCount) == PerfectBipartiteMatch(edges, rightCount)

\* plannedContractMatches: unknown reviewed leaves are wildcards.
RECURSIVE ContractMatches(_, _)
ContractMatches(reviewed, current) ==
    CASE reviewed = Unknown -> TRUE
      [] reviewed # Unknown /\ reviewed.t \in Named ->
            /\ current.t = reviewed.t
            /\ DOMAIN reviewed.f = DOMAIN current.f
            /\ \A n \in DOMAIN reviewed.f : ContractMatches(reviewed.f[n], current.f[n])
      [] reviewed.t = "set" ->
            /\ current.t = "set"
            /\ LET r == BagSeq(reviewed.b)
                   c == BagSeq(current.b)
               IN SetMatches([i \in DOMAIN r |->
                                SelectSeq([j \in DOMAIN c |-> j],
                                          LAMBDA j : ContractMatches(r[i], c[j]))],
                             Len(c))
      [] OTHER -> reviewed = current

----------------------------------------------------------------------------
\* What apply reports about the provider's answer.

\* Mutation of DivergesWhole: unknown parts of the plan are compared as well.
DivergesAnyway(planned, cfg, applied) == cfg # Null /\ planned # applied

\* compareConsistencyWhole
DivergesWhole(planned, cfg, applied) ==
    cfg # Null /\ WhollyKnown(cfg) /\ WhollyKnown(planned) /\ planned # applied

\* walkConsistency: what is not configured is not promised.  Of a map, keys that
\* only the plan has may go.
RECURSIVE Diverges(_, _, _)
Diverges(planned, cfg, applied) ==
    LET lengths == {Len(planned.f), Len(cfg.f), Len(applied.f)}
        Below(n) == Diverges(planned.f[n], cfg.f[n], applied.f[n])
        AtKey(n) == IF n \notin DOMAIN applied.f THEN n \in DOMAIN cfg.f
                    ELSE IF n \notin DOMAIN planned.f THEN TRUE
                    ELSE n \in DOMAIN cfg.f /\ Below(n)
    IN IF cfg \in Unset \/ planned = Unknown THEN FALSE
       ELSE IF planned.t \in Named /\ applied \in Unset THEN TRUE
       ELSE CASE planned.t = "obj" -> \E n \in DOMAIN planned.f : Below(n)
              [] planned.t = "map" -> \E n \in DOMAIN planned.f \cup DOMAIN applied.f : AtKey(n)
              [] planned.t = "list" /\ Cardinality(lengths) = 1 -> \E n \in DOMAIN planned.f : Below(n)
              [] OTHER -> DivergesWhole(planned, cfg, applied)
=============================================================================
