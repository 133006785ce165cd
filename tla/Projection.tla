----------------------------- MODULE Projection -----------------------------
(***************************************************************************)
(* The pure part of internal/sensitive: which parts of a resource's value  *)
(* are withheld from its public JSON, the contract that carries them, and  *)
(* the way back.                                                           *)
(*                                                                         *)
(* An array that stands for a set is the bag of its elements.  A digest of *)
(* a JSON value is the value.                                              *)
(***************************************************************************)
EXTENDS Paths

\* walkTypeSets: the logical paths of all sets.
RECURSIVE TypeSets(_, _)
TypeSets(ty, l) ==
    CASE ty.k = "str" -> {}
      [] ty.k = "obj" -> UNION {TypeSets(ty.f[n], Attr(l, n)) : n \in DOMAIN ty.f}
      [] ty.k = "set" -> {l} \cup TypeSets(ty.e, l)
      [] OTHER        -> TypeSets(ty.e, l)

\* The paths for which schemaPathExists holds.
RECURSIVE SchemaPaths(_, _)
SchemaPaths(ty, l) ==
    CASE ty.k = "str" -> {}
      [] ty.k = "obj" -> UNION {{Attr(l, n)} \cup SchemaPaths(ty.f[n], Attr(l, n)) :
                                   n \in DOMAIN ty.f}
      [] OTHER        -> SchemaPaths(ty.e, l)

\* walkRaw: the places of the raw configuration where a literal stands at a
\* sensitive path outside the affected sets.  Members of the root that lead to
\* no sensitive path are dropped: nothing below them can become one.
RECURSIVE WalkRaw(_, _, _, _, _)
WalkRaw(raw, l, inst, paths, sets) ==
    IF raw.t = "str" /\ l \in paths /\ ~Covered(l, sets)
    THEN {<<inst, raw>>}
    ELSE CASE raw.t = "obj" ->
                UNION {LET c == Attr(l, n) IN
                       IF Leads(c, paths)
                       THEN WalkRaw(raw.f[n], c, Attr(inst, n), paths, sets)
                       ELSE IF inst = <<>> THEN {}
                       ELSE WalkRaw(raw.f[n], l, Index(inst, n), paths, sets) :
                          n \in DOMAIN raw.f}
           [] raw.t = "arr" ->
                UNION {WalkRaw(raw.s[i], l, Index(inst, ToString(i)), paths, sets) :
                          i \in DOMAIN raw.s}
           [] OTHER -> {}

----------------------------------------------------------------------------
\* typeHasAffectedSet
HoldsSet(spec, ty, l) == TypeSets(ty, l) \cap spec.sets # {}

RecoversMap(spec, ty, l) ==
    ty.k = "map" /\ Covered(l, spec.paths) /\ HoldsSet(spec, ty, l)

----------------------------------------------------------------------------
\* Projection.

\* ctyjson.Marshal
RECURSIVE Encode(_)
Encode(v) ==
    CASE v.t \in {"obj", "map"} -> [t |-> "obj", f |-> [n \in DOMAIN v.f |-> Encode(v.f[n])]]
      [] v.t = "list"           -> [t |-> "arr", s |-> [i \in DOMAIN v.s |-> Encode(v.s[i])]]
      [] v.t = "set"            -> [t |-> "bag", b |-> SetToBag({Encode(e) : e \in v.e})]
      [] OTHER                  -> v

\* ctyjson.Unmarshal: equal elements of a set become one.
RECURSIVE Decode(_, _)
Decode(ty, j) ==
    IF j = Null THEN Null
    ELSE CASE ty.k = "obj"  -> [t |-> "obj", f |-> [n \in DOMAIN ty.f |-> Decode(ty.f[n], j.f[n])]]
           [] ty.k = "map"  -> [t |-> "map", f |-> [n \in DOMAIN j.f |-> Decode(ty.e, j.f[n])]]
           [] ty.k = "list" -> [t |-> "list", s |-> [i \in DOMAIN j.s |-> Decode(ty.e, j.s[i])]]
           [] ty.k = "set"  -> [t |-> "set", e |-> {Decode(ty.e, x) : x \in BagToSet(j.b)}]
           [] OTHER         -> j

\* literalMatches: the value is the literal of the configuration.
Exempted(spec, inst, v) == v # Null /\ <<inst, v>> \in spec.exempt

\* The parts of a value, each with its type and place.
Part(ty, v, inst, l) == [ty |-> ty, v |-> v, inst |-> inst, l |-> l]

Parts(ty, v, inst, l) ==
    CASE ty.k = "obj"  -> [n \in DOMAIN ty.f |-> Part(ty.f[n], v.f[n], Attr(inst, n), Attr(l, n))]
      [] ty.k = "map"  -> [n \in DOMAIN v.f |-> Part(ty.e, v.f[n], Index(inst, n), l)]
      [] ty.k = "list" -> [i \in DOMAIN v.s |-> Part(ty.e, v.s[i], Index(inst, ToString(i)), l)]
      [] ty.k = "set"  -> LET s == SetToSeq(v.e)
                          IN [i \in DOMAIN s |-> Part(ty.e, s[i], Index(inst, ToString(i)), l)]
      [] OTHER         -> <<>>

\* What is shown of v when c is what is shown of its parts.
Shown(ty, v, c) ==
    CASE ty.k \in {"obj", "map"} -> [t |-> "obj", f |-> [n \in DOMAIN c |-> c[n].json]]
      [] ty.k = "list" -> [t |-> "arr", s |-> [i \in DOMAIN c |-> c[i].json]]
      [] ty.k = "set"  -> [t |-> "bag", b |-> [x \in {c[i].json : i \in DOMAIN c} |->
                                               Cardinality({i \in DOMAIN c : c[i].json = x})]]
      [] OTHER         -> v

Assembled(ty, v, noted, kept, c) ==
    Projected(Shown(ty, v, c), noted \cup UNION {c[n].redacted : n \in DOMAIN c},
              kept \cup UNION {c[n].values : n \in DOMAIN c})

\* projectValue.  inside: within a set that is recovered whole; inherited: the
\* parent is sensitive.
RECURSIVE ProjectValue(_, _, _, _, _, _, _)
ProjectValue(spec, ty, v, inst, l, inside, inherited) ==
    LET exempt == Exempted(spec, inst, v)
        here == (inherited \/ l \in spec.paths) /\ ~exempt
        noted == IF l \in spec.paths /\ ~exempt /\ v # Null THEN {inst} ELSE {}
        whole == ty.k = "set" /\ l \in spec.sets /\ ~inside /\ v # Null
        within == inside \/ whole
        direct == ~within /\ here /\ ~HasSet(spec, l)
        kept == IF whole \/ direct THEN {[path |-> inst, value |-> v]} ELSE {}
        Each(parts) ==
            [n \in DOMAIN parts |->
                LET x == parts[n]
                IN ProjectValue(spec, x.ty, x.v, x.inst, x.l, within, here)]
    IN IF RecoversMap(spec, ty, l) /\ ~inside
       THEN Projected(Null, noted, {[path |-> inst, value |-> v]})
       ELSE IF \/ v = Null
               \/ here /\ (ty.k \in {"str", "map"} \/ (~within /\ ~HasSet(spec, l)))
       THEN Projected(Null, noted, kept)
       ELSE Assembled(ty, v, noted, kept, Each(Parts(ty, v, inst, l)))

----------------------------------------------------------------------------
\* Restoration.

\* collectExpectedRecovery, by generation: where the contract must have a value.
\* Null public values of sets were null; a public value at a map that is
\* recovered whole is an error, which "bad" stands for.
RECURSIVE Expected(_, _, _, _, _, _, _)
Expected(spec, ty, j, l, inst, version, direct) ==
    LET here(null) == {[path |-> inst, type |-> ty, logical |-> l, public |-> j,
                        allowNull |-> null, bad |-> null /\ j # Null]}
    IN IF version = 4 /\ RecoversMap(spec, ty, l) THEN here(TRUE)
       ELSE IF ty.k = "set" /\ l \in spec.sets THEN (IF j = Null THEN {} ELSE here(FALSE))
       ELSE IF version = 4 /\ l \in direct /\ j = Null THEN here(TRUE)
       ELSE IF j = Null THEN {}
       ELSE CASE ty.k = "obj" ->
                   UNION {Expected(spec, ty.f[n], j.f[n], Attr(l, n), Attr(inst, n), version, direct) :
                             n \in DOMAIN ty.f}
              [] ty.k = "map" ->
                   UNION {Expected(spec, ty.e, j.f[n], l, Index(inst, n), version, direct) :
                             n \in DOMAIN j.f}
              [] ty.k = "list" ->
                   UNION {Expected(spec, ty.e, j.s[i], l, Index(inst, ToString(i)), version, direct) :
                             i \in DOMAIN j.s}
              [] OTHER -> {}

\* setJSONPath
RECURSIVE Put(_, _, _)
Put(j, steps, value) ==
    IF steps = <<>> THEN value
    ELSE IF j.t = "obj"
    THEN [j EXCEPT !.f[Head(steps)] = Put(@, Tail(steps), value)]
    ELSE LET i == CHOOSE n \in DOMAIN j.s : ToString(n) = Head(steps)
         IN [j EXCEPT !.s[i] = Put(@, Tail(steps), value)]

Steps(path) == FoldLeft(LAMBDA a, b : a \o b, <<>>, path)

\* restoreGeneration, from generation 0 (no contract) and the current one.
RestoreGeneration(schema, public, contract, paths, version) ==
    LET old == Spec(IF contract = NoContract THEN paths ELSE contract.paths, {}, schema.sets)
        want == Expected(old, schema.type, public, <<>>, <<>>,
                         IF contract = NoContract THEN version ELSE 4,
                         IF contract = NoContract THEN {} ELSE contract.direct)
    IN IF contract = NoContract
       THEN IF version = 4 \/ want # {} THEN Failed
            ELSE [ok |-> TRUE, value |-> Decode(schema.type, public)]
       ELSE IF /\ contract.public = public
               /\ {e.path : e \in want} = {x.path : x \in contract.values}
               /\ \A e \in want : \A x \in contract.values :
                     x.path = e.path =>
                        /\ ~e.bad
                        /\ e.allowNull \/ x.value # Null
                        /\ ProjectValue(old, e.type, x.value, e.logical, e.logical, FALSE,
                                        Covered(e.logical, old.paths)).json = e.public
            THEN [ok |-> TRUE,
                  value |-> Decode(schema.type,
                     FoldSet(LAMBDA x, j : Put(j, Steps(x.path), Encode(x.value)),
                             public, contract.values))]
            ELSE Failed

----------------------------------------------------------------------------
\* What a provider's read leaves out.

\* What stands for no value that could be found in the earlier one.
Gone == [t |-> "gone"]

\* was is what stood at the place of v.  An omission at a persisted path takes
\* the configuration's literal or what was there; below an index, a missing
\* parent, or above a persisted path it cannot be attributed.
RECURSIVE Carry(_, _, _, _, _, _, _)
Carry(exempt, paths, ty, v, was, inst, l) ==
    LET literals == {x \in exempt : x[1] = inst /\ ty.k = "str"}
        Below(t, n, p) == Carry(exempt, paths, t, v.f[n],
                                IF ty.k = "obj" /\ was \notin {Gone, Null} THEN was.f[n] ELSE Gone,
                                p, IF ty.k = "obj" THEN Attr(l, n) ELSE l)
        Members(c) == [ok |-> \A n \in DOMAIN c : c[n].ok,
                       value |-> [v EXCEPT !.f = [n \in DOMAIN c |-> c[n].value]]]
        Items(c) == [ok |-> \A x \in c : x.ok, value |-> [t |-> "set", e |-> {x.value : x \in c}]]
    IN IF v = Null
       THEN IF ~Covered(l, paths) THEN [ok |-> ~Leads(l, paths), value |-> Null]
            ELSE IF literals # {} THEN [ok |-> TRUE, value |-> (CHOOSE x \in literals : TRUE)[2]]
            ELSE [ok |-> was # Gone, value |-> was]
       ELSE CASE ty.k = "obj" -> Members([n \in DOMAIN ty.f |-> Below(ty.f[n], n, Attr(inst, n))])
              [] ty.k = "map" -> Members([n \in DOMAIN v.f |-> Below(ty.e, n, Index(inst, n))])
              [] ty.k = "set" -> Items({Carry(exempt, paths, ty.e, x, Gone, Index(inst, "*"), l) : x \in v.e})
              [] ty.k = "list" ->
                    LET c == [i \in DOMAIN v.s |-> Carry(exempt, paths, ty.e, v.s[i], Gone,
                                                         Index(inst, ToString(i)), l)]
                    IN [ok |-> \A i \in DOMAIN c : c[i].ok,
                        value |-> [t |-> "list", s |-> [i \in DOMAIN c |-> c[i].value]]]
              [] OTHER -> [ok |-> TRUE, value |-> v]

CarryForwardValue(exempt, ty, prior, refreshed, persisted) ==
    IF prior = Null \/ refreshed = Null \/ persisted = {}
    THEN [ok |-> TRUE, value |-> refreshed]
    ELSE Carry(exempt, persisted, ty, refreshed, prior, <<>>, <<>>)

----------------------------------------------------------------------------
\* Without a schema.

\* The JSON within j, and j with what is left of it.
Within(j) ==
    CASE j.t = "obj" -> j.f
      [] j.t = "arr" -> j.s
      [] j.t = "bag" -> [x \in DOMAIN j.b |-> x]
      [] OTHER       -> <<>>

Reduced(j, c) ==
    [json |-> CASE j.t = "obj" -> [t |-> "obj", f |-> [n \in DOMAIN c |-> c[n].json]]
                [] j.t = "arr" -> [t |-> "arr", s |-> [i \in DOMAIN c |-> c[i].json]]
                [] j.t = "bag" ->
                      [t |-> "bag", b |-> [y \in {c[x].json : x \in DOMAIN c} |->
                          MapThenSumSet(LAMBDA x : j.b[x], {x \in DOMAIN c : c[x].json = y})]]
                [] OTHER       -> j,
     changed |-> UNION {c[n].changed : n \in DOMAIN c}]

\* RedactJSONValue: object members may be attributes or map keys.
RECURSIVE RedactJSONValue(_, _, _)
RedactJSONValue(j, l, paths) ==
    LET At(n) == IF j.t = "obj" /\ Leads(Attr(l, n), paths) THEN Attr(l, n) ELSE l
        Each(parts) == [n \in DOMAIN parts |-> RedactJSONValue(parts[n], At(n), paths)]
    IN IF l \in paths THEN [json |-> Null, changed |-> IF j = Null THEN {} ELSE {l}]
       ELSE Reduced(j, Each(Within(j)))

----------------------------------------------------------------------------
\* For the properties: the strings of a public value, each with its place.
RECURSIVE TextsIn(_, _, _)
TextsIn(ty, j, l) ==
    IF j = Null THEN {}
    ELSE CASE ty.k = "obj"  -> UNION {TextsIn(ty.f[n], j.f[n], Attr(l, n)) : n \in DOMAIN ty.f}
           [] ty.k = "map"  -> UNION {TextsIn(ty.e, j.f[n], l) : n \in DOMAIN j.f}
           [] ty.k = "list" -> UNION {TextsIn(ty.e, j.s[i], l) : i \in DOMAIN j.s}
           [] ty.k = "set"  -> UNION {TextsIn(ty.e, x, l) : x \in BagToSet(j.b)}
           [] OTHER         -> {<<l, j.v>>}
=============================================================================
