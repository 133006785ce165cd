-------------------------- MODULE MC_SensitiveLaws --------------------------
(* An instance of SensitiveLaws for TLC, on which internal/sensitive, as   *)
(* Projection has it, keeps the laws; older engines knew sets' attributes. *)
EXTENDS MC_SensitiveState, SensitiveLaws

OldK == {{}, {A}, {K}}

\* The attributes of the schema, and of the elements of a redacted set.
Element(key) == <<<<"s", key>>, <<"k">>>>
Paths5 == {A, K, M, Element("1"), Element("2")}

\* A set with withheld attributes, one of which the provider returns none, the
\* empty one and none; a map with a set, and one with a null; all in any mixture.
Sets ==
    {Null, Rich.f.s, Poor.f.s,
     [t |-> "set", e |-> {[t |-> "obj", f |-> [k |-> Null, x |-> Str("x")]]}]}
Maps == {Null, Rich.f.m, [t |-> "map", f |-> [a |-> Null]]}
Every == {Value(a, s, m) : a \in {Null, Str("secret"), Str("literal")}, s \in Sets, m \in Maps}

\* What an older engine wrote, and what redactions have left of it.
Old5 ==
    {Redaction(ProjectionOf(Spec(P, {}, OneSchema.sets), v).json, Q).json :
        P \in OldK, v \in Samples, Q \in SUBSET Paths5}
=============================================================================
