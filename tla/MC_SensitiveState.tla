------------------------- MODULE MC_SensitiveState -------------------------
(* A small instance of SensitiveState for TLC.                             *)
EXTENDS SensitiveState

Pure == INSTANCE Projection

Text == [k |-> "str"]
Object(f) == [k |-> "obj", f |-> f]
SetOf(e) == [k |-> "set", e |-> e]

\* A plain attribute, a set of objects and a map of sets.
Kind == Object([a |-> Text, s |-> SetOf(Object([k |-> Text, x |-> Text])),
                m |-> [k |-> "map", e |-> SetOf(Text)]])

A == <<<<"a">>>>
S == <<<<"s">>>>
K == <<<<"s">>, <<"k">>>>
M == <<<<"m">>>>

OneSchema == [type |-> Kind, sensitive |-> {},
              sets |-> {S, M}, paths |-> {A, S, K, <<<<"s">>, <<"x">>>>, M}]
ASSUME OneSchema.sets = Pure!TypeSets(Kind, <<>>)
ASSUME OneSchema.paths = Pure!SchemaPaths(Kind, <<>>)
Policies == {{}, {A, K, M}}

Pair(k, x) == [t |-> "obj", f |-> [k |-> Str(k), x |-> Str(x)]]
Value(a, s, m) == [t |-> "obj", f |-> [a |-> a, s |-> s, m |-> m]]

\* Two elements that differ only where they are sensitive; a map with a set.
Rich == Value(Str("secret"),
              [t |-> "set", e |-> {Pair("secret", "x"), Pair("secret2", "x")}],
              [t |-> "map", f |-> [a |-> [t |-> "set", e |-> {Str("secret")}]]])
\* The literal of the configuration, and nulls.
Poor == Value(Str("literal"), [t |-> "set", e |-> {}], Null)
Samples == {Rich, Poor}

\* A whole read, and one that leaves out what is sensitive.
Omitted == {Rich, Value(Null, [t |-> "set", e |-> {}], Null)}

\* The configuration spells a out and refers to something for s.
Spelled == [t |-> "obj", f |-> [a |-> Str("literal"), s |-> [t |-> "ref"]]]
Bodies == {Spelled}

Old == {{}, {A}}
Both == {{1, 2}, {2}}
Live == {{1, 2}, {2}}
Hushed == {"secret", "secret2"}

\* internal/sensitive for this schema.
LiteralsOf(raw, paths) ==
    Pure!WalkRaw(raw, <<>>, <<>>, paths, Affected(OneSchema.sets, paths))
ProjectionOf(spec, v) == Pure!ProjectValue(spec, Kind, v, <<>>, <<>>, FALSE, FALSE)
Restoration(public, contract, paths, version) ==
    Pure!RestoreGeneration(OneSchema, public, contract, paths, version)
Carried(exempt, prior, refreshed, persisted) ==
    Pure!CarryForwardValue(exempt, Kind, prior, refreshed, persisted)
Redaction(json, paths) == Pure!RedactJSONValue(json, <<>>, paths)
TextsOf(json) == Pure!TextsIn(Kind, json, <<>>)
=============================================================================
