------------------------- MODULE ConfigOrder_proofs -------------------------
(***************************************************************************)
(* Config.Order, step by step, against the graph facts of                  *)
(* DependencyGraph_proofs.  The inductive invariant says that the loop has *)
(* popped a prefix of the topological order and that its counters are      *)
(* those of the references left, and that the walk follows references      *)
(* between addresses that could not be ordered.                            *)
(***************************************************************************)
EXTENDS ConfigOrder, DependencyGraph_proofs

\* Where Order can be.
Phases == {"build", "pop", "walk"} \cup Returned

\* Every variable has its type.
OrderTypes ==
    /\ decl \in SUBSET Addrs
    /\ refs \in [decl -> SUBSET Addrs]
    /\ indegree \in [decl -> Nat]
    /\ ready \in SUBSET decl
    /\ order \in Seq(decl)
    /\ path \in Seq(decl)
    /\ phase \in Phases

\* The loop has made its first pops and counts the references left.
Looping ==
    /\ refs \in [decl -> SUBSET decl]
    /\ Topological(decl, refs, order)
    /\ Len(order) \in 0..Cardinality(decl)
    /\ order = Pops(decl, refs)[Len(order)]
    /\ \A a \in decl : indegree[a] = Cardinality(refs[a] \ ToSet(order))
    /\ ready = Ready(decl, refs, order)

\* Each address of a sequence references the next.
Trail(s) == \A i \in 1..(Len(s) - 1) : s[i + 1] \in refs[s[i]]

\* The walk so far: through addresses that wait for others, without a return.
Walking ==
    /\ path # <<>>
    /\ Distinct(path)
    /\ Trail(path)
    /\ \A i \in 1..Len(path) : indegree[path[i]] > 0

\* What the diagnostic names.
Circle ==
    /\ Len(path) > 1
    /\ path[1] = path[Len(path)]
    /\ \A i, j \in 2..Len(path) : path[i] = path[j] => i = j
    /\ Trail(path)

\* The inductive invariant: what each phase may rely on.
OrderInv ==
    /\ OrderTypes
    /\ phase = "build" => order = <<>> /\ path = <<>>
    /\ phase \in {"pop", "walk", "cycle", "ordered"} => Looping
    /\ phase = "pop" => path = <<>>
    /\ phase = "walk" => ready = {} /\ Walking
    /\ phase = "cycle" => Circle
    /\ phase = "ordered" => Len(order) = Cardinality(decl)
    /\ phase = "undeclared" => \E a \in decl : ~(refs[a] \subseteq decl)

----------------------------------------------------------------------------
\* The counters.

\* Any configuration is finite and its addresses have an order.
LEMMA DeclaredFinite ==
    ASSUME OrderTypes
    PROVE  /\ decl \in SUBSET Nat /\ IsFiniteSet(decl) /\ Cardinality(decl) \in Nat
           /\ \A a \in decl : IsFiniteSet(refs[a])
  <1>1. decl \in SUBSET Nat /\ IsFiniteSet(decl)
    BY AddrsAssumption, FS_Subset DEF OrderTypes
  <1>2. \A a \in decl : IsFiniteSet(refs[a])
    BY AddrsAssumption, FS_Subset DEF OrderTypes
  <1> QED
    BY <1>1, <1>2, FS_CardinalityType

\* An address waits for others as long as its count is not zero.
LEMMA CountZero ==
    ASSUME OrderTypes, Looping, NEW a \in decl
    PROVE  /\ indegree[a] \in Nat
           /\ indegree[a] > 0 <=> ~(refs[a] \subseteq ToSet(order))
  <1>1. IsFiniteSet(refs[a] \ ToSet(order))
    <2>1. refs[a] \ ToSet(order) \in SUBSET refs[a]
      OBVIOUS
    <2>2. IsFiniteSet(refs[a])
      BY DeclaredFinite
    <2> QED
      BY <2>1, <2>2, FS_Subset
  <1>2. indegree[a] = Cardinality(refs[a] \ ToSet(order)) /\ indegree[a] \in Nat
    BY DEF Looping, OrderTypes
  <1>3. indegree[a] = 0 <=> refs[a] \ ToSet(order) = {}
    BY <1>1, <1>2, FS_EmptySet
  <1> QED
    BY <1>2, <1>3

\* What is ordered references only what is ordered.
LEMMA OrderedClosed ==
    ASSUME OrderTypes, Looping
    PROVE  /\ ToSet(order) = {order[i] : i \in 1..Len(order)}
           /\ ToSet(order) \subseteq decl
           /\ \A a \in ToSet(order) : refs[a] \subseteq ToSet(order)
  <1>1. /\ ToSet(order) = {order[i] : i \in 1..Len(order)} /\ ToSet(order) \subseteq decl
        /\ Len(order) \in Nat
    BY ToSetOfSeq, LenProperties DEF OrderTypes
  <1>2. \A i \in 1..Len(order) : refs[order[i]] \subseteq {order[k] : k \in 1..(i - 1)}
    BY DEF Looping, Topological
  <1>3. \A i \in 1..Len(order) : \A k \in 1..(i - 1) : k \in 1..Len(order)
    BY <1>1
  <1>4. ASSUME NEW i \in 1..Len(order), NEW b \in refs[order[i]]
        PROVE  b \in ToSet(order)
    <2>1. PICK k \in 1..(i - 1) : b = order[k]
      BY <1>2, <1>4
    <2> QED
      BY <1>1, <1>3, <2>1
  <1> QED
    BY <1>1, <1>4

----------------------------------------------------------------------------
\* The steps.

\* Nothing is ordered yet.
LEMMA InitOrder == Init => OrderInv
  <1> SUFFICES ASSUME Init PROVE OrderInv
    OBVIOUS
  <1>1. indegree \in [decl -> Nat] /\ order \in Seq(decl) /\ path \in Seq(decl)
    BY EmptySeq DEF Init
  <1>2. OrderTypes
    BY <1>1 DEF Init, OrderTypes, Phases
  <1> QED
    BY <1>2 DEF Init, OrderInv

\* buildDependencyEdges counts every reference, or reports one that is not
\* declared.
LEMMA BuildKeeps ==
    ASSUME OrderInv, Build
    PROVE  OrderInv'
  <1>1. OrderTypes /\ order = <<>> /\ path = <<>> /\ phase = "build"
    BY DEF OrderInv, Build
  <1>2. UNCHANGED <<decl, refs, order, path>>
    BY DEF Build
  <1>3. CASE \A a \in decl : refs[a] \subseteq decl
    <2>1. /\ indegree' = [a \in decl |-> Cardinality(refs[a])]
          /\ ready' = {a \in decl : refs[a] = {}} /\ phase' = "pop"
      BY <1>3 DEF Build, Edges
    <2>2. \A a \in decl : Cardinality(refs[a]) \in Nat
      BY <1>1, DeclaredFinite, FS_CardinalityType
    <2>3. indegree' \in [decl -> Nat]
      BY <2>1, <2>2
    <2>4. OrderTypes'
      BY <1>1, <1>2, <2>1, <2>3 DEF OrderTypes, Phases
    <2>5. ToSet(order) = {} /\ Len(order) = 0
      <3>0. order \in Seq(decl)
        BY <1>1 DEF OrderTypes
      <3>1. ToSet(order) = {order[i] : i \in 1..Len(order)}
        BY <3>0, ToSetOfSeq
      <3>2. Len(order) = 0
        BY <1>1
      <3>3. \A i \in 1..Len(order) : FALSE
        BY <3>2
      <3> QED
        BY <3>1, <3>2, <3>3
    <2>6. Topological(decl, refs, order)
      <3>1. order \in Seq(decl)
        BY <1>1 DEF OrderTypes
      <3> QED
        BY <2>5, <3>1 DEF Topological, Distinct
    <2>7. Pops(decl, refs)[0] = <<>>
      BY <1>1, DeclaredFinite, PopsUnfolds
    <2>8. ready' = Ready(decl, refs, order)
      BY <2>1, <2>5 DEF Ready
    <2>9. \A a \in decl : indegree'[a] = Cardinality(refs[a] \ ToSet(order))
      <3> SUFFICES ASSUME NEW a \in decl
                   PROVE  indegree'[a] = Cardinality(refs[a] \ ToSet(order))
        OBVIOUS
      <3>1. refs[a] \ ToSet(order) = refs[a]
        BY <2>5
      <3>2. indegree'[a] = Cardinality(refs[a])
        BY <2>1
      <3> QED
        BY <3>1, <3>2
    <2>10. refs \in [decl -> SUBSET decl]
      BY <1>1, <1>3 DEF OrderTypes
    <2>11. Len(order) \in 0..Cardinality(decl)
      BY <1>1, <2>5, DeclaredFinite
    <2>12. Looping'
      BY <1>1, <1>2, <2>5, <2>6, <2>7, <2>8, <2>9, <2>10, <2>11 DEF Looping
    <2> QED
      BY <1>1, <1>2, <2>1, <2>4, <2>12 DEF OrderInv
  <1>4. CASE ~(\A a \in decl : refs[a] \subseteq decl)
    <2>1. phase' = "undeclared" /\ UNCHANGED <<indegree, ready>>
      BY <1>4 DEF Build
    <2>2. OrderTypes'
      BY <1>1, <1>2, <2>1 DEF OrderTypes, Phases, Returned
    <2> QED
      BY <1>2, <1>4, <2>1, <2>2 DEF OrderInv
  <1> QED
    BY <1>3, <1>4

\* A pop takes the next address of the topological order, and its dependents
\* wait for one reference less.
LEMMA PopKeeps ==
    ASSUME OrderInv, Pop
    PROVE  OrderInv'
  <1> DEFINE next == FirstReady
             dependents == Dependents(refs)[next]
  <1>1. OrderTypes /\ Looping /\ phase = "pop" /\ path = <<>> /\ ready # {}
    BY DEF OrderInv, Pop
  <1>2. /\ order' = Append(order, next)
        /\ indegree' = [a \in decl |-> IF a \in dependents THEN indegree[a] - 1
                                       ELSE indegree[a]]
        /\ ready' = (ready \ {next}) \cup {a \in dependents : indegree'[a] = 0}
        /\ UNCHANGED <<decl, refs, path, phase>>
    BY DEF Pop
  <1>3. decl \in SUBSET Nat /\ IsFiniteSet(decl) /\ Cardinality(decl) \in Nat
    BY <1>1, DeclaredFinite
  <1>4. next \in ready /\ next \in decl
    <2>1. ready \in SUBSET Nat /\ ready \in SUBSET decl
      BY <1>1, <1>3 DEF OrderTypes
    <2>2. next \in ready
      BY <1>1, <2>1, MinProperties DEF FirstReady
    <2> QED
      BY <2>1, <2>2
  <1>5. ready = Ready(decl, refs, order) /\ refs \in [decl -> SUBSET decl]
        /\ Topological(decl, refs, order)
    BY <1>1 DEF Looping
  <1>6. next \notin ToSet(order) /\ refs[next] \subseteq ToSet(order)
    BY <1>4, <1>5 DEF Ready
  <1>7. order' = Popped(decl, refs, order)
    BY <1>1, <1>2, <1>5 DEF Popped, FirstReady
  <1>8. \A a \in decl : a \in dependents <=> next \in refs[a]
    BY <1>4, <1>5 DEF Dependents
  <1>9. dependents \subseteq decl
    BY <1>4, <1>5 DEF Dependents
  <1> HIDE DEF next, dependents
  <1>10. /\ order' \in Seq(decl) /\ Len(order') = Len(order) + 1
         /\ ToSet(order') = ToSet(order) \cup {next}
    <2>1. order \in Seq(decl) /\ Len(order) \in Nat
      BY <1>1, LenProperties DEF OrderTypes
    <2>2. /\ order' \in Seq(decl) /\ Len(order') = Len(order) + 1
          /\ \A i \in 1..Len(order) : order'[i] = order[i]
          /\ order'[Len(order) + 1] = next
      BY <1>2, <1>4, <2>1, AppendProperties
    <2>3. /\ ToSet(order') = {order'[i] : i \in 1..Len(order')}
          /\ ToSet(order) = {order[i] : i \in 1..Len(order)}
      BY <2>1, <2>2, ToSetOfSeq
    <2>4. 1..Len(order') = 1..Len(order) \cup {Len(order) + 1}
      BY <2>1, <2>2
    <2> QED
      BY <2>2, <2>3, <2>4
  <1>11. \A a \in decl : indegree'[a] = Cardinality(refs[a] \ ToSet(order'))
    <2> SUFFICES ASSUME NEW a \in decl
                 PROVE  indegree'[a] = Cardinality(refs[a] \ ToSet(order'))
      OBVIOUS
    <2>1. refs[a] \ ToSet(order') = (refs[a] \ ToSet(order)) \ {next}
      BY <1>10
    <2>2. IsFiniteSet(refs[a] \ ToSet(order))
      <3>1. refs[a] \ ToSet(order) \in SUBSET refs[a] /\ IsFiniteSet(refs[a])
        BY <1>1, DeclaredFinite
      <3> QED
        BY <3>1, FS_Subset
    <2>3. indegree[a] = Cardinality(refs[a] \ ToSet(order))
      BY <1>1 DEF Looping
    <2>4. Cardinality((refs[a] \ ToSet(order)) \ {next})
            = IF next \in refs[a] \ ToSet(order)
              THEN Cardinality(refs[a] \ ToSet(order)) - 1
              ELSE Cardinality(refs[a] \ ToSet(order))
      BY <2>2, FS_RemoveElement
    <2>5. next \in refs[a] \ ToSet(order) <=> a \in dependents
      BY <1>6, <1>8
    <2>6. indegree'[a] = IF a \in dependents THEN indegree[a] - 1 ELSE indegree[a]
      BY <1>2
    <2> QED
      BY <2>1, <2>3, <2>4, <2>5, <2>6
  <1>12. \A a \in decl : /\ IsFiniteSet(refs[a] \ ToSet(order'))
                         /\ indegree'[a] \in Nat
                         /\ indegree'[a] = 0 <=> refs[a] \subseteq ToSet(order')
    <2> SUFFICES ASSUME NEW a \in decl
                 PROVE  /\ IsFiniteSet(refs[a] \ ToSet(order'))
                        /\ indegree'[a] \in Nat
                        /\ indegree'[a] = 0 <=> refs[a] \subseteq ToSet(order')
      OBVIOUS
    <2>1. refs[a] \ ToSet(order') \in SUBSET refs[a] /\ IsFiniteSet(refs[a])
      BY <1>1, DeclaredFinite
    <2>2. IsFiniteSet(refs[a] \ ToSet(order'))
      BY <2>1, FS_Subset
    <2>3. Cardinality(refs[a] \ ToSet(order')) = 0 <=> refs[a] \ ToSet(order') = {}
      BY <2>2, FS_EmptySet
    <2>4. Cardinality(refs[a] \ ToSet(order')) \in Nat
      BY <2>2, FS_CardinalityType
    <2>5. indegree'[a] = Cardinality(refs[a] \ ToSet(order'))
      BY <1>11
    <2> QED
      BY <2>2, <2>3, <2>4, <2>5
  <1>13. ready' = Ready(decl, refs, order')
    <2>1. \A a \in ToSet(order) : refs[a] \subseteq ToSet(order)
      BY <1>1, OrderedClosed
    <2>2. ASSUME NEW a \in ready' PROVE a \in Ready(decl, refs, order')
      <3>1. CASE a \in ready \ {next}
        BY <1>5, <1>10, <3>1 DEF Ready
      <3>2. CASE a \in dependents /\ indegree'[a] = 0
        <4>1. a \in decl /\ next \in refs[a] /\ refs[a] \subseteq ToSet(order')
          BY <1>8, <1>9, <1>12, <3>2
        <4>2. a \notin ToSet(order)
          BY <1>6, <2>1, <4>1
        <4>3. a # next
          BY <1>6, <4>1
        <4> QED
          BY <1>10, <4>1, <4>2, <4>3 DEF Ready
      <3> QED
        BY <1>2, <2>2, <3>1, <3>2
    <2>3. ASSUME NEW a \in Ready(decl, refs, order') PROVE a \in ready'
      <3>1. a \in decl /\ a \notin ToSet(order) /\ a # next /\ refs[a] \subseteq ToSet(order')
        BY <1>10, <2>3 DEF Ready
      <3>2. CASE next \in refs[a]
        <4>1. a \in dependents /\ indegree'[a] = 0
          BY <1>8, <1>12, <3>1, <3>2
        <4> QED
          BY <1>2, <4>1
      <3>3. CASE next \notin refs[a]
        <4>1. refs[a] \subseteq ToSet(order)
          BY <1>10, <3>1, <3>3
        <4>2. a \in ready \ {next}
          BY <1>5, <3>1, <4>1 DEF Ready
        <4> QED
          BY <1>2, <4>2
      <3> QED
        BY <3>2, <3>3
    <2> QED
      BY <2>2, <2>3
  <1>14. Topological(decl, refs, order')
    BY <1>3, <1>5, <1>7, PoppedTopological
  <1>15. Len(order') \in 0..Cardinality(decl) /\ Len(order) \in Nat
    <2>1. order' \in Seq(decl) /\ Distinct(order')
      BY <1>14 DEF Topological
    <2>2. Len(order) \in Nat
      BY <1>1, LenProperties DEF OrderTypes
    <2> QED
      BY <1>3, <2>1, <2>2, DistinctFits
  <1>16. order' = Pops(decl, refs)[Len(order')]
    <2>1. Len(order') \in 1..Cardinality(decl) /\ Len(order') - 1 = Len(order)
      BY <1>3, <1>10, <1>15
    <2>2. Pops(decl, refs)[Len(order')]
            = Popped(decl, refs, Pops(decl, refs)[Len(order') - 1])
      BY <1>3, <2>1, PopsUnfolds
    <2>3. order = Pops(decl, refs)[Len(order)]
      BY <1>1 DEF Looping
    <2> QED
      BY <1>7, <2>1, <2>2, <2>3
  <1>17. Looping'
    BY <1>2, <1>5, <1>11, <1>13, <1>14, <1>15, <1>16 DEF Looping
  <1>18. OrderTypes'
    <2>1. indegree' \in [decl -> Nat]
      BY <1>2, <1>12
    <2>2. ready' \in SUBSET decl
      BY <1>13 DEF Ready
    <2> QED
      BY <1>1, <1>2, <1>10, <2>1, <2>2 DEF OrderTypes
  <1> QED
    BY <1>1, <1>2, <1>17, <1>18 DEF OrderInv

\* The addresses left over all wait for one of each other.
LEMMA LeftOver ==
    ASSUME OrderTypes, Looping, ready = {}
    PROVE  /\ \A a \in decl : indegree[a] > 0 <=> a \notin ToSet(order)
           /\ \A a \in decl : indegree[a] > 0 =>
                 {b \in refs[a] : indegree[b] > 0} # {}
  <1>1. Ready(decl, refs, order) = {} /\ refs \in [decl -> SUBSET decl]
    BY DEF Looping
  <1>2. \A a \in decl : indegree[a] > 0 <=> ~(refs[a] \subseteq ToSet(order))
    BY CountZero
  <1>3. \A a \in decl : indegree[a] > 0 <=> a \notin ToSet(order)
    <2>1. \A a \in ToSet(order) : refs[a] \subseteq ToSet(order)
      BY OrderedClosed
    <2>2. \A a \in decl \ ToSet(order) : ~(refs[a] \subseteq ToSet(order))
      BY <1>1 DEF Ready
    <2> QED
      BY <1>2, <2>1, <2>2
  <1>4. ASSUME NEW a \in decl, indegree[a] > 0
        PROVE  \E b \in refs[a] : indegree[b] > 0
    <2>1. PICK b \in refs[a] : b \notin ToSet(order)
      BY <1>2, <1>4
    <2>2. b \in decl
      BY <1>1, <2>1
    <2> QED
      BY <1>3, <2>1, <2>2
  <1> QED
    BY <1>3, <1>4

\* The order is complete, or the walk begins at an address left over.
LEMMA DrainedKeeps ==
    ASSUME OrderInv, Drained
    PROVE  OrderInv'
  <1>1. OrderTypes /\ Looping /\ phase = "pop" /\ path = <<>> /\ ready = {}
    BY DEF OrderInv, Drained
  <1>2. UNCHANGED <<decl, refs, indegree, ready, order>>
    BY DEF Drained
  <1>3. CASE Len(order) = Cardinality(decl)
    <2>1. phase' = "ordered" /\ UNCHANGED path
      BY <1>3 DEF Drained
    <2>2. OrderTypes'
      BY <1>1, <1>2, <2>1 DEF OrderTypes, Phases, Returned
    <2>3. Looping'
      BY <1>1, <1>2 DEF Looping
    <2> QED
      BY <1>2, <1>3, <2>1, <2>2, <2>3 DEF OrderInv
  <1>4. CASE Len(order) # Cardinality(decl)
    <2> DEFINE left == {a \in decl : indegree[a] > 0}
    <2>1. phase' = "walk" /\ path' = <<Min(left)>>
      BY <1>4 DEF Drained
    <2>2. left # {} /\ left \in SUBSET decl /\ left \in SUBSET Nat
      <3>1. \A a \in decl : indegree[a] > 0 <=> a \notin ToSet(order)
        BY <1>1, LeftOver
      <3>2. decl # ToSet(order)
        <4> SUFFICES ASSUME decl = ToSet(order) PROVE FALSE
          OBVIOUS
        <4>1. order \in Seq(decl) /\ Distinct(order)
          BY <1>1 DEF Looping, Topological
        <4>2. Len(order) = Cardinality(decl)
          BY <1>1, <4>1, DeclaredFinite, CompleteLength
        <4> QED
          BY <1>4, <4>2
      <3>3. ToSet(order) \subseteq decl
        BY <1>1, OrderedClosed
      <3>4. decl \in SUBSET Nat
        BY <1>1, DeclaredFinite
      <3> QED
        BY <3>1, <3>2, <3>3, <3>4
    <2>3. Min(left) \in left
      <3> HIDE DEF left
      <3> QED
        BY <2>2, MinProperties
    <2> DEFINE first == Min(left)
    <2>4. first \in decl /\ indegree[first] > 0
      BY <2>3
    <2> HIDE DEF left, first
    <2>5. path' = <<first>>
      BY <2>1 DEF first
    <2>6. /\ path' \in Seq(decl) /\ Len(path') = 1 /\ path' # <<>> /\ path'[1] = first
      BY <2>4, <2>5
    <2>7. Walking'
      <3>1. \A i \in 1..Len(path') : path'[i] = first
        BY <2>6
      <3>2. Distinct(path')
        BY <2>6 DEF Distinct
      <3>3. \A i \in 1..(Len(path') - 1) : FALSE
        BY <2>6
      <3> QED
        BY <1>2, <2>4, <2>6, <3>1, <3>2, <3>3 DEF Walking, Trail
    <2>8. OrderTypes'
      BY <1>1, <1>2, <2>1, <2>6 DEF OrderTypes, Phases
    <2>9. Looping'
      BY <1>1, <1>2 DEF Looping
    <2> QED
      BY <1>1, <1>2, <2>1, <2>7, <2>8, <2>9 DEF OrderInv
  <1> QED
    BY <1>3, <1>4

----------------------------------------------------------------------------
\* The walk.

\* The first position of a member.
LEMMA FirstPosition ==
    ASSUME NEW A, NEW s \in Seq(A), NEW x \in ToSet(s)
    PROVE  /\ SelectInSeq(s, LAMBDA a : a = x) \in 1..Len(s)
           /\ s[SelectInSeq(s, LAMBDA a : a = x)] = x
  <1> DEFINE I == {i \in 1..Len(s) : s[i] = x}
  <1>1. ToSet(s) = {s[i] : i \in 1..Len(s)} /\ Len(s) \in Nat
    BY ToSetOfSeq, LenProperties
  <1>2. I # {} /\ I \in SUBSET Nat
    BY <1>1
  <1>3. SelectInSeq(s, LAMBDA a : a = x) = IF I # {} THEN Min(I) ELSE 0
    BY DEF SelectInSeq
  <1>4. Min(I) \in I
    <2> HIDE DEF I
    <2> QED
      BY <1>2, MinProperties
  <1> QED
    BY <1>2, <1>3, <1>4

\* A revisit closes a cycle: from the first visit to the last address and
\* back.
LEMMA ClosedCircle ==
    ASSUME OrderTypes, Walking, NEW next \in ToSet(path), next \in refs[path[Len(path)]],
           path' = Closed(next), UNCHANGED <<decl, refs>>
    PROVE  path' \in Seq(decl) /\ Circle'
  <1> DEFINE k == SelectInSeq(path, LAMBDA a : a = next)
             L == Len(path)
             loop == SubSeq(path, k, L)
  <1>1. path \in Seq(decl) /\ L \in Nat
    BY LenProperties DEF OrderTypes
  <1>2. k \in 1..L /\ path[k] = next /\ next \in decl
    <2>1. k \in 1..L /\ path[k] = next
      BY <1>1, FirstPosition
    <2>2. next \in decl
      BY <1>1, ToSetOfSeq
    <2> QED
      BY <2>1, <2>2
  <1>3. path' = Append(loop, next)
    BY DEF Closed
  <1>4. \A i, j \in 1..L : path[i] = path[j] => i = j
    BY DEF Walking, Distinct
  <1>5. \A i \in 1..(L - 1) : path[i + 1] \in refs[path[i]]
    BY DEF Walking, Trail
  <1>6. \A i \in 1..L : path[i] \in decl
    BY <1>1, ElementOfSeq
  <1>7. next \in refs[path[L]]
    OBVIOUS
  <1> HIDE DEF k, L
  <1>8. /\ loop \in Seq(decl) /\ Len(loop) = L - k + 1
        /\ \A i \in 1..(L - k + 1) : loop[i] = path[k + i - 1]
    <2>1. k \in Int /\ L \in Int /\ \A i \in k..L : path[i] \in decl
      BY <1>1, <1>2, <1>6
    <2>2. k <= L
      BY <1>2
    <2> QED
      BY <2>1, <2>2, SubSeqProperties
  <1> DEFINE M == L - k + 1
  <1>9. M \in Nat /\ M >= 1 /\ \A i \in 1..M : k + i - 1 \in 1..L
    BY <1>1, <1>2
  <1> HIDE DEF loop
  <1>10. /\ path' \in Seq(decl) /\ Len(path') = M + 1
         /\ \A i \in 1..M : path'[i] = path[k + i - 1]
         /\ path'[M + 1] = next
    <2>1. /\ path' \in Seq(decl) /\ Len(path') = Len(loop) + 1
          /\ \A i \in 1..Len(loop) : path'[i] = loop[i]
          /\ path'[Len(loop) + 1] = next
      BY <1>2, <1>3, <1>8, AppendProperties
    <2> QED
      BY <1>8, <2>1
  <1>11. path'[1] = path'[Len(path')]
    <2>1. 1 \in 1..M /\ k + 1 - 1 = k
      BY <1>2, <1>9
    <2>2. path'[1] = path[k]
      BY <1>10, <2>1
    <2> QED
      BY <1>2, <1>10, <2>2
  <1>12. ASSUME NEW i \in 2..(M + 1), NEW j \in 2..(M + 1), path'[i] = path'[j]
         PROVE  i = j
    <2> DEFINE at(n) == IF n = M + 1 THEN k ELSE k + n - 1
    <2>1. \A n \in 2..(M + 1) : at(n) \in 1..L /\ path'[n] = path[at(n)]
      BY <1>2, <1>9, <1>10
    <2>2. at(i) = at(j)
      BY <1>4, <1>12, <2>1
    <2> QED
      BY <1>2, <1>9, <2>2
  <1>13. ASSUME NEW i \in 1..M
         PROVE  path'[i + 1] \in refs[path'[i]]
    <2>1. CASE i = M
      <3>1. k + i - 1 = L
        BY <1>1, <1>2, <2>1 DEF M
      <3>2. path'[i] = path[L] /\ path'[i + 1] = next
        BY <1>10, <2>1, <3>1
      <3> QED
        BY <1>7, <3>2
    <2>2. CASE i # M
      <3>1. i \in 1..M /\ i + 1 \in 1..M /\ k + i - 1 \in 1..(L - 1)
            /\ k + (i + 1) - 1 = (k + i - 1) + 1
        BY <1>1, <1>2, <1>9, <2>2 DEF M
      <3>2. path'[i] = path[k + i - 1] /\ path'[i + 1] = path[(k + i - 1) + 1]
        BY <1>10, <3>1
      <3> QED
        BY <1>5, <3>1, <3>2
    <2> QED
      BY <2>1, <2>2
  <1>14. Len(path') > 1 /\ Len(path') - 1 = M
    BY <1>9, <1>10
  <1>15. Circle'
    <2>1. \A i \in 1..(Len(path') - 1) : path'[i + 1] \in refs'[path'[i]]
      BY <1>13, <1>14
    <2> QED
      BY <1>10, <1>11, <1>12, <1>14, <2>1 DEF Circle, Trail
  <1> QED
    BY <1>10, <1>15

\* The walk goes on to an address left over, or is closed.
LEMMA WalkKeeps ==
    ASSUME OrderInv, Walk
    PROVE  OrderInv'
  <1> DEFINE last == path[Len(path)]
             left == {b \in refs[last] : indegree[b] > 0}
             next == Min(left)
  <1>1. OrderTypes /\ Looping /\ phase = "walk" /\ ready = {} /\ Walking
    BY DEF OrderInv, Walk
  <1>2. UNCHANGED <<decl, refs, indegree, ready, order>>
    BY DEF Walk
  <1>3. /\ next \in ToSet(path) => path' = Closed(next) /\ phase' = "cycle"
        /\ next \notin ToSet(path) => path' = Append(path, next) /\ phase' = phase
    BY DEF Walk, Last
  <1>4. path \in Seq(decl) /\ Len(path) \in Nat /\ path # <<>> /\ Len(path) >= 1
    <2>1. path \in Seq(decl) /\ path # <<>>
      BY <1>1 DEF OrderTypes, Walking
    <2>2. Len(path) \in Nat /\ Len(path) # 0
      BY <2>1, LenProperties, EmptySeq
    <2> QED
      BY <2>1, <2>2
  <1>5. last \in decl /\ indegree[last] > 0
    <2>1. Len(path) \in 1..Len(path)
      BY <1>4
    <2> QED
      BY <1>1, <1>4, <2>1, ElementOfSeq DEF Walking
  <1>6. left # {} /\ left \in SUBSET Nat /\ left \in SUBSET decl
    <2>1. refs[last] \in SUBSET decl
      BY <1>1, <1>5 DEF Looping
    <2>2. decl \in SUBSET Nat
      BY <1>1, DeclaredFinite
    <2>3. left # {}
      BY <1>1, <1>5, LeftOver
    <2> QED
      BY <2>1, <2>2, <2>3
  <1>7. next \in left
    <2> HIDE DEF left
    <2> QED
      BY <1>6, MinProperties
  <1>8. next \in decl /\ next \in refs[last] /\ indegree[next] > 0
    BY <1>6, <1>7
  <1> HIDE DEF next, left
  <1>9. Looping'
    BY <1>1, <1>2 DEF Looping
  <1>10. CASE next \in ToSet(path)
    <2>1. path' \in Seq(decl) /\ Circle'
      BY <1>1, <1>2, <1>3, <1>8, <1>10, ClosedCircle
    <2>2. phase' = "cycle"
      BY <1>3, <1>10
    <2>3. OrderTypes'
      BY <1>1, <1>2, <2>1, <2>2 DEF OrderTypes, Phases, Returned
    <2> QED
      BY <1>9, <2>1, <2>2, <2>3 DEF OrderInv
  <1>11. CASE next \notin ToSet(path)
    <2>1. path' = Append(path, next) /\ phase' = "walk"
      BY <1>1, <1>3, <1>11
    <2>2. /\ path' \in Seq(decl) /\ Len(path') = Len(path) + 1
          /\ \A i \in 1..Len(path) : path'[i] = path[i]
          /\ path'[Len(path) + 1] = next
      BY <1>4, <1>8, <2>1, AppendProperties
    <2>3. \A i \in 1..Len(path) : path[i] # next
      BY <1>4, <1>11, ToSetOfSeq
    <2>4. \A i \in 1..Len(path') : i \in 1..Len(path) \/ i = Len(path) + 1
      BY <1>4, <2>2
    <2>5. Distinct(path')
      <3> SUFFICES ASSUME NEW i \in 1..Len(path'), NEW j \in 1..Len(path'),
                          path'[i] = path'[j]
                   PROVE  i = j
        BY DEF Distinct
      <3>1. CASE i \in 1..Len(path) /\ j \in 1..Len(path)
        <4>1. path[i] = path[j]
          BY <2>2, <3>1
        <4> QED
          BY <1>1, <3>1, <4>1 DEF Walking, Distinct
      <3>2. CASE i = Len(path) + 1 /\ j \in 1..Len(path)
        BY <2>2, <2>3, <3>2
      <3>3. CASE i \in 1..Len(path) /\ j = Len(path) + 1
        BY <2>2, <2>3, <3>3
      <3>4. CASE i = Len(path) + 1 /\ j = Len(path) + 1
        BY <3>4
      <3> QED
        BY <2>4, <3>1, <3>2, <3>3, <3>4
    <2>6. \A i \in 1..(Len(path') - 1) : path'[i + 1] \in refs[path'[i]]
      <3> SUFFICES ASSUME NEW i \in 1..(Len(path') - 1)
                   PROVE  path'[i + 1] \in refs[path'[i]]
        OBVIOUS
      <3>1. i \in 1..Len(path) /\ path'[i] = path[i]
        BY <1>4, <2>2
      <3>2. CASE i = Len(path)
        BY <1>8, <2>2, <3>1, <3>2
      <3>3. CASE i # Len(path)
        <4>1. i \in 1..(Len(path) - 1) /\ i + 1 \in 1..Len(path)
          BY <1>4, <3>1, <3>3
        <4>2. path[i + 1] \in refs[path[i]]
          BY <1>1, <4>1 DEF Walking, Trail
        <4> QED
          BY <2>2, <3>1, <4>1, <4>2
      <3> QED
        BY <3>2, <3>3
    <2>7. \A i \in 1..Len(path') : indegree[path'[i]] > 0
      <3>1. \A i \in 1..Len(path) : indegree[path[i]] > 0
        BY <1>1 DEF Walking
      <3> QED
        BY <1>8, <2>2, <2>4, <3>1
    <2>8. path' # <<>>
      BY <1>4, <2>2
    <2>9. Walking'
      BY <1>2, <2>5, <2>6, <2>7, <2>8 DEF Walking, Trail
    <2>10. OrderTypes'
      BY <1>1, <1>2, <2>1, <2>2 DEF OrderTypes, Phases
    <2> QED
      BY <1>1, <1>2, <1>9, <2>1, <2>9, <2>10 DEF OrderInv
  <1> QED
    BY <1>10, <1>11

\* Hence the loop and the walk are always sound: one case per action.
LEMMA OrderAlways == Spec => []OrderInv
  <1>1. Init => OrderInv
    BY InitOrder
  <1>2. OrderInv /\ [Next]_vars => OrderInv'
    <2> SUFFICES ASSUME OrderInv, [Next]_vars PROVE OrderInv'
      OBVIOUS
    <2>1. CASE Build
      BY <2>1, BuildKeeps
    <2>2. CASE Pop
      BY <2>2, PopKeeps
    <2>3. CASE Drained
      BY <2>3, DrainedKeeps
    <2>4. CASE Walk
      BY <2>4, WalkKeeps
    <2>5. CASE UNCHANGED vars
      BY <2>5 DEF vars, OrderInv, OrderTypes, Looping, Walking, Circle, Trail
    <2> QED
      BY <2>1, <2>2, <2>3, <2>4, <2>5 DEF Next, Return
  <1> QED
    BY <1>1, <1>2, PTL DEF Spec

----------------------------------------------------------------------------
\* What follows.

\* The counters are exact in every configuration of any size: no address is
\* ready too early, twice, or never.
THEOREM CountersAreExact == Spec => []IndegreeExact
  <1>1. OrderInv => IndegreeExact
    <2> SUFFICES ASSUME OrderInv, phase = "pop" PROVE IndegreeExact
      BY DEF IndegreeExact
    <2>1. OrderTypes /\ Looping
      BY DEF OrderInv
    <2>2. ready = {a \in decl \ ToSet(order) : refs[a] \subseteq ToSet(order)}
      BY <2>1 DEF Looping, Ready
    <2>3. IsInjective(order)
      <3>1. DOMAIN order = 1..Len(order)
        BY <2>1, LenProperties DEF OrderTypes
      <3>2. Distinct(order)
        BY <2>1 DEF Looping, Topological
      <3> QED
        BY <3>1, <3>2 DEF IsInjective, Distinct
    <2>4. \A a \in decl : indegree[a] = Cardinality(refs[a] \ ToSet(order))
      BY <2>1 DEF Looping
    <2> QED
      BY <2>2, <2>3, <2>4 DEF IndegreeExact
  <1> QED
    BY <1>1, OrderAlways, PTL

\* The cycle the diagnostic names exists: its addresses reference each other
\* in turn, and none twice.
THEOREM CyclesAreReal == Spec => []CycleIsReal
  <1>1. OrderInv => CycleIsReal
    <2> SUFFICES ASSUME OrderInv, phase = "cycle" PROVE CycleIsReal
      BY DEF CycleIsReal
    <2>1. path \in Seq(decl) /\ Circle
      BY DEF OrderInv, OrderTypes
    <2>2. Len(path) \in Nat /\ Len(path) > 1 /\ path # <<>>
      BY <2>1, LenProperties, EmptySeq DEF Circle
    <2>3. IsInjective(Tail(path))
      <3>1. /\ Tail(path) \in Seq(decl) /\ Len(Tail(path)) = Len(path) - 1
            /\ \A i \in 1..Len(Tail(path)) : Tail(path)[i] = path[i + 1]
        BY <2>1, <2>2, HeadTailProperties
      <3>2. DOMAIN Tail(path) = 1..Len(Tail(path))
        BY <3>1, LenProperties
      <3> DEFINE t == Tail(path)
      <3> HIDE DEF t
      <3>3. ASSUME NEW i \in 1..Len(t), NEW j \in 1..Len(t), t[i] = t[j]
            PROVE  i = j
        <4>1. i + 1 \in 2..Len(path) /\ j + 1 \in 2..Len(path)
          BY <2>2, <3>1 DEF t
        <4>2. path[i + 1] = path[j + 1]
          BY <3>1, <3>3 DEF t
        <4>3. i + 1 = j + 1
          BY <2>1, <4>1, <4>2 DEF Circle
        <4> QED
          BY <4>3
      <3> QED
        BY <3>2, <3>3 DEF t, IsInjective
    <2> QED
      BY <2>1, <2>2, <2>3 DEF CycleIsReal, Circle, Trail, Last
  <1> QED
    BY <1>1, OrderAlways, PTL

\* An address of a closed trail reaches itself.
LEMMA CircleReached ==
    ASSUME OrderTypes, Looping, Circle
    PROVE  path[1] \in decl /\ path[1] \in Closure(refs, path[1])
  <1> DEFINE L == Len(path)
             X == Closure(refs, path[1])
             S == {n \in 0..(L - 2) : path[n + 2] \in X}
  <1>1. path \in Seq(decl) /\ L \in Nat /\ L > 1 /\ L - 2 \in Nat
    <2>1. path \in Seq(decl) /\ L \in Nat
      BY LenProperties DEF OrderTypes
    <2>2. L > 1
      BY DEF Circle
    <2> QED
      BY <2>1, <2>2
  <1>2. path[1] \in decl
    BY <1>1, ElementOfSeq
  <1>3. refs[path[1]] \subseteq X /\ \A b \in X : refs[b] \subseteq X
    <2>1. refs \in [decl -> SUBSET decl] /\ IsFiniteSet(decl)
      BY DeclaredFinite DEF Looping
    <2> QED
      BY <1>2, <2>1, ClosureClosed
  <1>4. \A i \in 1..(L - 1) : path[i + 1] \in refs[path[i]]
    BY DEF Circle, Trail
  <1>5. path[1] = path[L]
    BY DEF Circle
  <1> HIDE DEF X, L
  <1>6. 0 \in S
    <2>1. 1 \in 1..(L - 1) /\ 0 \in 0..(L - 2)
      BY <1>1
    <2>2. path[1 + 1] \in refs[path[1]]
      BY <1>4, <2>1
    <2>3. path[0 + 2] \in X
      BY <1>3, <2>2
    <2> QED
      BY <2>1, <2>3
  <1>7. ASSUME NEW n \in 0..((L - 2) - 1), n \in S PROVE n + 1 \in S
    <2>1. n + 2 \in 1..(L - 1) /\ (n + 2) + 1 = (n + 1) + 2 /\ n + 1 \in 0..(L - 2)
      BY <1>1
    <2>2. path[(n + 1) + 2] \in refs[path[n + 2]]
      BY <1>4, <2>1
    <2>3. path[n + 2] \in X
      BY <1>7
    <2>4. path[(n + 1) + 2] \in X
      BY <1>3, <2>2, <2>3
    <2> QED
      BY <2>1, <2>4
  <1>8. L - 2 \in S
    <2> DEFINE N == L - 2
    <2>1. N \in Nat
      BY <1>1
    <2> HIDE DEF S
    <2>2. \A n \in 0..(N - 1) : n \in S => n + 1 \in S
      BY <1>7
    <2> HIDE DEF N
    <2>3. N \in S
      BY <1>6, <2>1, <2>2, Induction
    <2> QED
      BY <2>3 DEF N
  <1>9. path[L] \in X
    <2>1. (L - 2) + 2 = L
      BY <1>1
    <2> QED
      BY <1>8, <2>1
  <1> QED
    BY <1>2, <1>5, <1>9 DEF X

\* Order answers with the least topological order of the whole configuration,
\* or reports what is really wrong with it: a cycle, or a reference to an
\* address that is not declared.
THEOREM OrdersAreTopological == Spec => []OrderIsLeastTopological
  <1>1. OrderInv => OrderIsLeastTopological
    <2> SUFFICES ASSUME OrderInv PROVE OrderIsLeastTopological
      OBVIOUS
    <2>1. OrderTypes
      BY DEF OrderInv
    <2>2. ASSUME phase = "ordered"
          PROVE  order = TopoOrder(decl, refs) /\ ToSet(order) = decl
      <3>1. Looping /\ Len(order) = Cardinality(decl)
        BY <2>2 DEF OrderInv
      <3>2. order = TopoOrder(decl, refs)
        BY <3>1 DEF Looping, TopoOrder
      <3>3. order \in Seq(decl) /\ Distinct(order)
        BY <3>1 DEF Looping, Topological
      <3>4. ToSet(order) = decl
        BY <2>1, <3>1, <3>3, FullOrder, DeclaredFinite
      <3> QED
        BY <3>2, <3>4
    <2>3. ASSUME phase = "cycle" PROVE \E a \in decl : a \in Closure(refs, a)
      BY <2>1, <2>3, CircleReached DEF OrderInv
    <2>4. ASSUME phase = "undeclared" PROVE \E a \in decl : ~(refs[a] \subseteq decl)
      BY <2>4 DEF OrderInv
    <2> QED
      BY <2>2, <2>3, <2>4 DEF OrderIsLeastTopological
  <1> QED
    BY <1>1, OrderAlways, PTL

\* Order succeeds only on acyclic configurations, and reports a cycle only of
\* others: whatever it returns, the other answer would have been wrong.
THEOREM AnswersAreExclusive ==
    Spec => [](/\ phase = "ordered" => \A a \in decl : a \notin Closure(refs, a)
               /\ phase = "cycle" => ~Orderable(decl, refs))
  <1>1. OrderInv /\ OrderIsLeastTopological =>
          (/\ phase = "ordered" => \A a \in decl : a \notin Closure(refs, a)
           /\ phase = "cycle" => ~Orderable(decl, refs))
    <2> SUFFICES ASSUME OrderInv, OrderIsLeastTopological, phase \in {"ordered", "cycle"}
                 PROVE  /\ phase = "ordered" => \A a \in decl : a \notin Closure(refs, a)
                        /\ phase = "cycle" => ~Orderable(decl, refs)
      OBVIOUS
    <2>1. OrderTypes /\ Looping
      BY DEF OrderInv
    <2>2. decl \in SUBSET Nat /\ IsFiniteSet(decl) /\ refs \in [decl -> SUBSET decl]
      BY <2>1, DeclaredFinite DEF Looping
    <2>3. Orderable(decl, refs) <=> \A a \in decl : a \notin Closure(refs, a)
      BY <2>2, OrderableIffAcyclic
    <2>4. ASSUME phase = "ordered" PROVE Orderable(decl, refs)
      <3>1. order = TopoOrder(decl, refs) /\ Len(order) = Cardinality(decl)
        BY <2>4 DEF OrderInv, OrderIsLeastTopological
      <3> QED
        BY <2>2, <3>1 DEF Orderable
    <2>5. ASSUME phase = "cycle" PROVE \E a \in decl : a \in Closure(refs, a)
      BY <2>5 DEF OrderIsLeastTopological
    <2> QED
      BY <2>3, <2>4, <2>5
  <1> QED
    BY <1>1, OrderAlways, OrdersAreTopological, PTL
=============================================================================
