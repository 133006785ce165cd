-------------------------- MODULE DependencyGraph --------------------------
(***************************************************************************)
(* The reference graph between resource addresses, as internal/config      *)
(* orders it and internal/apply walks it.  Addresses are natural numbers   *)
(* in their lexical order.  deps[a] holds the addresses whose attributes   *)
(* a's configuration references.                                           *)
(***************************************************************************)
EXTENDS Naturals, Sequences, FiniteSets, SequencesExt

\* Reversed edges: who references an address.
Dependents(deps) == [b \in DOMAIN deps |-> {a \in DOMAIN deps : b \in deps[a]}]

\* The addresses in known and those one edge away from them.
Around(edges, known) == known \cup UNION {edges[b] : b \in known}

\* Within(edges, a)[n]: everything one to n + 1 edges away from a.
Within(edges, a) ==
    LET within[n \in 0..Cardinality(DOMAIN edges)] ==
          IF n = 0 THEN edges[a] ELSE Around(edges, within[n - 1])
    IN  within

\* Everything one or more edges away from a.
Closure(edges, a) == Within(edges, a)[Cardinality(DOMAIN edges)]

\* The addresses not yet ordered all of whose dependencies are.
Ready(decl, deps, order) ==
    {a \in decl \ ToSet(order) : deps[a] \subseteq ToSet(order)}

\* Kahn's algorithm with the ready set sorted before every pop: the next
\* address is the least one that is ready.
Popped(decl, deps, order) ==
    IF Ready(decl, deps, order) = {} THEN order
    ELSE Append(order, Min(Ready(decl, deps, order)))

\* Pops(decl, deps)[n]: what n pops order.
Pops(decl, deps) ==
    LET order[n \in 0..Cardinality(decl)] ==
          IF n = 0 THEN <<>> ELSE Popped(decl, deps, order[n - 1])
    IN  order

\* With a cycle the result stops short of decl.
TopoOrder(decl, deps) == Pops(decl, deps)[Cardinality(decl)]

\* A set in lexical order: without references only the address decides.
Lexical(S) == TopoOrder(S, [a \in S |-> {}])

\* What the first members of a sequence contribute when x comes next.
Keep(kept, x, S) == IF x \in S THEN Append(kept, x) ELSE kept

\* Kept(seq, S)[n]: the members of S among the first n of seq, in their order.
Kept(seq, S) ==
    LET kept[n \in 0..Len(seq)] ==
          IF n = 0 THEN <<>> ELSE Keep(kept[n - 1], seq[n], S)
    IN  kept

\* The members of S, in the order they have in seq.
Selected(seq, S) == Kept(seq, S)[Len(seq)]

\* Every reference is to a declared resource and there is no cycle.
Orderable(decl, deps) ==
    /\ \A a \in decl : deps[a] \subseteq decl
    /\ Len(TopoOrder(decl, deps)) = Cardinality(decl)
============================================================================
