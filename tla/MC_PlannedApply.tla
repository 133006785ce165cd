-------------------------- MODULE MC_PlannedApply --------------------------
(* A small instance of PlannedApply for TLC.                               *)
EXTENDS PlannedApply

Text == [k |-> "str"]
Object(f, computed, blocks) == [k |-> "obj", f |-> f, computed |-> computed, blocks |-> blocks]

\* A plain and a computed attribute, a map, a nested list with a computed
\* attribute and a set whose elements have a sensitive one.
Kind == Object(
    [a |-> Text, id |-> Text, m |-> [k |-> "map", e |-> Text],
     l |-> [k |-> "list", e |-> Object([v |-> Text, n |-> Text], {"n"}, {})],
     s |-> [k |-> "set", e |-> Object([k |-> Text, x |-> Text], {}, {})]],
    {"id"}, {"l", "s"})

OneSchema == [type |-> Kind, sensitive |-> {<<<<"s">>, <<"k">>>>, <<<<"a">>>>}]

Obj(f) == [t |-> "obj", f |-> f]
Value(a, m, l, s) == Obj([a |-> a, id |-> Null, m |-> m, l |-> [t |-> "list", f |-> l],
                          s |-> [t |-> "set", b |-> SetToBag(s)]])
Pair(k, x) == Obj([k |-> k, x |-> x])
Item(v) == Obj([v |-> v, n |-> Null])
Map(f) == [t |-> "map", f |-> f]

V == Str("v")
W == Str("w")
D == Str("d")

\* Two elements alike but for the secret, one of them behind a reference.
Writers == {
    Value(V, Map([p |-> V]), <<Item(V)>>, {Pair(Ref, V), Pair(W, V)}),
    Value(Ref, Null, <<Item(Ref), Item(W)>>, {Pair(V, Ref)})}

Two == {V, W}

\* One leaf, key, item or element is not what it was.
Meddled(v) ==
    IF v.t # "obj" THEN {}
    ELSE {[v EXCEPT !.f.a = Null], [v EXCEPT !.f.id = W]}
         \cup (IF v.f.m.t = "map" THEN {[v EXCEPT !.f.m = Map([q |-> V])]} ELSE {})
         \cup (IF v.f.l.t = "list" /\ v.f.l.f # <<>> THEN {[v EXCEPT !.f.l.f = Tail(@)]} ELSE {})
         \cup (IF v.f.s.t = "set" /\ DOMAIN v.f.s.b # {}
               THEN {[v EXCEPT !.f.s.b = SetToBag({Pair(W, V)})],
                     [v EXCEPT !.f.s.b = SetToBag({Pair(V, V), Pair(V, W)})]} ELSE {})

Replacements == {{}, {"a"}, {"s"}}
=============================================================================
