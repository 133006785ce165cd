---------------------------- MODULE ConfigOrder ----------------------------
(***************************************************************************)
(* Config.Order (internal/config/refs.go): Kahn's algorithm over the       *)
(* references between resources, one pop per step, and the walk that names *)
(* a cycle, one address per step.  Every run starts from another           *)
(* configuration.  The sorted ready slice is a set whose least member is   *)
(* popped.                                                                 *)
(***************************************************************************)
EXTENDS DependencyGraph

CONSTANT Addrs  \* resource addresses, naturals in lexical order

ASSUME AddrsAssumption == Addrs \subseteq Nat /\ IsFiniteSet(Addrs)

VARIABLES decl,      \* the declared addresses
          refs,      \* refs[a]: the addresses a's attributes reference
          indegree,  \* references of an address not yet ordered
          ready,     \* addresses with indegree zero, not yet popped
          order,     \* the addresses popped so far
          path,      \* the cycle walk so far
          phase      \* "build", "pop", "walk", or how Order returned

vars == <<decl, refs, indegree, ready, order, path, phase>>

Returned == {"ordered", "undeclared", "cycle"}

Init ==
    /\ decl \in SUBSET Addrs
    /\ refs \in [decl -> SUBSET Addrs]
    /\ indegree = [a \in decl |-> 0]
    /\ ready = {}
    /\ order = <<>>
    /\ path = <<>>
    /\ phase = "build"

\* Mutation of Edges: a reference to oneself is not counted.
EdgesToOthers(a) == Cardinality(refs[a] \ {a})

\* One edge per referenced address, however many attributes are referenced.
Edges(a) == Cardinality(refs[a])

\* buildDependencyEdges and the first ready set.
Build ==
    /\ phase = "build"
    /\ IF \A a \in decl : refs[a] \subseteq decl
       THEN /\ indegree' = [a \in decl |-> Edges(a)]
            /\ ready' = {a \in decl : refs[a] = {}}
            /\ phase' = "pop"
       ELSE /\ phase' = "undeclared"
            /\ UNCHANGED <<indegree, ready>>
    /\ UNCHANGED <<decl, refs, order, path>>

\* Mutation of FirstReady: the ready slice is used as a stack.
FirstReadyLast == Max(ready)

\* ready[0] of the sorted slice.
FirstReady == Min(ready)

\* The least ready address is ordered; its dependents lose one reference.
Pop ==
    /\ phase = "pop"
    /\ ready # {}
    /\ LET next == FirstReady
           dependents == Dependents(refs)[next]
       IN  /\ order' = Append(order, next)
           /\ indegree' = [a \in decl |-> IF a \in dependents THEN indegree[a] - 1
                                          ELSE indegree[a]]
           /\ ready' = (ready \ {next}) \cup {a \in dependents : indegree'[a] = 0}
    /\ UNCHANGED <<decl, refs, path, phase>>

\* Mutation of Drained: configurations are taken to be acyclic.
DrainedAcyclic ==
    /\ phase = "pop"
    /\ ready = {}
    /\ Len(order) = Cardinality(decl)
    /\ phase' = "ordered"
    /\ UNCHANGED <<decl, refs, indegree, ready, order, path>>

\* Everything is ordered, or the walk starts at the least address left over.
Drained ==
    /\ phase = "pop"
    /\ ready = {}
    /\ IF Len(order) = Cardinality(decl)
       THEN phase' = "ordered" /\ UNCHANGED path
       ELSE /\ phase' = "walk"
            /\ path' = <<Min({a \in decl : indegree[a] > 0})>>
    /\ UNCHANGED <<decl, refs, indegree, ready, order>>

\* Mutation of Closed: the way to the cycle is reported with it.
ClosedUntrimmed(next) == Append(path, next)

\* The walk from its first visit to next, closed by next.
Closed(next) ==
    Append(SubSeq(path, SelectInSeq(path, LAMBDA a : a = next), Len(path)), next)

\* To the least unordered reference; a revisit closes the cycle.
Walk ==
    /\ phase = "walk"
    /\ LET next == Min({b \in refs[Last(path)] : indegree[b] > 0})
       IN  IF next \in ToSet(path)
           THEN /\ path' = Closed(next)
                /\ phase' = "cycle"
           ELSE path' = Append(path, next) /\ UNCHANGED phase
    /\ UNCHANGED <<decl, refs, indegree, ready, order>>

Return == phase \in Returned /\ UNCHANGED vars

Next == Build \/ Pop \/ Drained \/ Walk \/ Return

\* A sequential loop: it runs as long as it can take a step.
Spec == Init /\ [][Next]_vars /\ WF_vars(Next)

----------------------------------------------------------------------------
\* The loop's bookkeeping: indegree counts exactly the references that are
\* not ordered yet, and no address is ready twice or too early.
IndegreeExact ==
    phase = "pop" =>
        /\ \A a \in decl : indegree[a] = Cardinality(refs[a] \ ToSet(order))
        /\ ready = {a \in decl \ ToSet(order) : refs[a] \subseteq ToSet(order)}
        /\ IsInjective(order)

\* Order succeeds exactly on closed acyclic configurations, and its result
\* is the order Apply executes in: each address once, the least possible one
\* first.
OrderIsLeastTopological ==
    /\ phase = "ordered" => /\ order = TopoOrder(decl, refs)
                            /\ ToSet(order) = decl
    /\ phase = "cycle" => \E a \in decl : a \in Closure(refs, a)
    /\ phase = "undeclared" => \E a \in decl : ~(refs[a] \subseteq decl)

\* The cycle the diagnostic names exists in the configuration, is closed and
\* visits nothing twice.
CycleIsReal ==
    phase = "cycle" =>
        /\ Len(path) > 1
        /\ path[1] = Last(path)
        /\ IsInjective(Tail(path))
        /\ \A i \in 1..(Len(path) - 1) : path[i + 1] \in refs[path[i]]

\* Order returns on every configuration: the walk cannot run forever.
OrderReturns == <>(phase \in Returned)
============================================================================
