----------------------- MODULE DependencyGraph_proofs -----------------------
(***************************************************************************)
(* Facts about the operators of DependencyGraph for every graph.  They     *)
(* are recursive functions over 0..N; Recursion turns each into its        *)
(* equations, and Induction, an induction over the SET of numbers at       *)
(* which something holds, proves what it computes.                         *)
(***************************************************************************)
EXTENDS DependencyGraph, Integers, FiniteSetTheorems, FunctionTheorems,
        SequenceTheorems, TLAPS

\* Induction over the set of numbers at which something holds.
LEMMA Induction ==
    ASSUME NEW S, NEW N \in Nat, 0 \in S,
           \A n \in 0..(N - 1) : n \in S => n + 1 \in S
    PROVE  N \in S
  <1> SUFFICES ASSUME N \notin S PROVE FALSE
    OBVIOUS
  <1> DEFINE B == {n \in 0..N : n \notin S}
             f == [n \in B |-> n - 1]
  <1>1. IsFiniteSet(B)
    <2>1. IsFiniteSet(0..N)
      BY FS_Interval
    <2>2. B \in SUBSET (0..N)
      OBVIOUS
    <2> QED
      BY <2>1, <2>2, FS_Subset
  <1>2. \A n \in B : n - 1 \in B
    OBVIOUS
  <1>3. f \in [B -> B]
    BY <1>2
  <1>4. \A m, n \in B : f[m] = f[n] => m = n
    OBVIOUS
  <1>5. f \in Injection(B, B)
    BY <1>3, <1>4, Fun_IsInj
  <1>6. f \in Surjection(B, B)
    BY <1>1, <1>5, FS_Injection
  <1>7. N \in B /\ f \in [B -> B] /\ \E n \in B : f[n] = N
    BY <1>3, <1>6, Fun_SurjectionProperties
  <1> QED
    BY <1>7

\* A recursion over 0..N whose step maps D into D has a solution.
LEMMA Recursion ==
    ASSUME NEW D, NEW b \in D, NEW N \in Nat, NEW F \in [1..N -> [D -> D]]
    PROVE  \E g \in [0..N -> D] :
               g[0] = b /\ \A n \in 1..N : g[n] = F[n][g[n - 1]]
  <1> DEFINE P(n) == \E g \in [0..n -> D] :
                         g[0] = b /\ \A k \in 1..n : g[k] = F[k][g[k - 1]]
             S == {n \in 0..N : P(n)}
  <1>1. P(0)
    <2> DEFINE g == [k \in 0..0 |-> b]
    <2>1. g \in [0..0 -> D] /\ g[0] = b
      OBVIOUS
    <2>2. \A k \in 1..0 : g[k] = F[k][g[k - 1]]
      OBVIOUS
    <2> HIDE DEF g
    <2> QED
      BY <2>1, <2>2
  <1>2. ASSUME NEW n \in 0..(N - 1), P(n) PROVE P(n + 1)
    <2>1. PICK g \in [0..n -> D] :
              g[0] = b /\ \A k \in 1..n : g[k] = F[k][g[k - 1]]
      BY <1>2
    <2> DEFINE h == [k \in 0..(n + 1) |-> IF k = n + 1 THEN F[n + 1][g[n]] ELSE g[k]]
    <2>2. F[n + 1][g[n]] \in D
      OBVIOUS
    <2>3. h \in [0..(n + 1) -> D]
      BY <2>2
    <2>4. h[0] = b /\ \A k \in 1..(n + 1) : h[k] = F[k][h[k - 1]]
      BY <2>1
    <2> QED
      BY <2>3, <2>4
  <1> HIDE DEF P
  <1>3. 0 \in S /\ \A n \in 0..(N - 1) : n \in S => n + 1 \in S
    BY <1>1, <1>2
  <1> HIDE DEF S
  <1>4. N \in S
    BY <1>3, Induction
  <1> QED
    BY <1>4 DEF S, P

\* Min returns a least member.
LEMMA MinProperties ==
    ASSUME NEW S \in SUBSET Nat, S # {}
    PROVE  Min(S) \in S /\ \A x \in S : Min(S) <= x
  <1> DEFINE T == {n \in Nat : \A x \in S : n <= x}
  <1>1. \E x \in S : \A y \in S : x <= y
    <2> SUFFICES ASSUME \A x \in S : \E y \in S : ~(x <= y) PROVE FALSE
      OBVIOUS
    <2>1. PICK s \in S : TRUE
      OBVIOUS
    <2>2. 0 \in T
      OBVIOUS
    <2>3. \A n \in 0..s : n \in T => n + 1 \in T
      OBVIOUS
    <2> HIDE DEF T
    <2>4. s + 1 \in T
      BY <2>2, <2>3, Induction
    <2> QED
      BY <2>4 DEF T
  <1> QED
    BY <1>1 DEF Min

----------------------------------------------------------------------------

\* A recursively defined sequence stays in the set its steps stay in.
LEMMA StaysIn ==
    ASSUME NEW D, NEW N \in Nat, NEW h, h[0] \in D,
           \A n \in 1..N : h[n - 1] \in D => h[n] \in D
    PROVE  \A n \in 0..N : h[n] \in D
  <1> SUFFICES ASSUME NEW m \in 0..N PROVE h[m] \in D
    OBVIOUS
  <1> DEFINE S == {n \in 0..N : h[n] \in D}
  <1>1. 0 \in S
    OBVIOUS
  <1>2. ASSUME NEW n \in 0..(m - 1), n \in S PROVE n + 1 \in S
    <2>1. n + 1 \in 1..N /\ (n + 1) - 1 = n
      OBVIOUS
    <2> QED
      BY <1>2, <2>1
  <1> HIDE DEF S
  <1>3. m \in S
    BY <1>1, <1>2, Induction
  <1> QED
    BY <1>3 DEF S

\* The equations of Within: the closures, one distance at a time.
LEMMA WithinUnfolds ==
    ASSUME NEW A, IsFiniteSet(A), NEW edges \in [A -> SUBSET A], NEW a \in A
    PROVE  /\ Within(edges, a) \in [0..Cardinality(A) -> SUBSET A]
           /\ Within(edges, a)[0] = edges[a]
           /\ \A n \in 1..Cardinality(A) :
                 Within(edges, a)[n] = Around(edges, Within(edges, a)[n - 1])
  <1> DEFINE N == Cardinality(A)
             D == SUBSET A
             F == [n \in 1..N |-> [d \in D |-> Around(edges, d)]]
             Body(f) == [n \in 0..N |-> IF n = 0 THEN edges[a]
                                        ELSE Around(edges, f[n - 1])]
             within == Within(edges, a)
  <1>1. N \in Nat /\ edges[a] \in D
    BY FS_CardinalityType
  <1>2. \A d \in D : Around(edges, d) \in D
    BY DEF Around
  <1>3. within = CHOOSE f : f = Body(f)
    BY DEF Within, Around
  <1> HIDE DEF N, D, within
  <1>4. F \in [1..N -> [D -> D]]
    BY <1>2
  <1>5. \E g \in [0..N -> D] :
            g[0] = edges[a] /\ \A n \in 1..N : g[n] = F[n][g[n - 1]]
    <2> DEFINE b == edges[a]
    <2>1. b \in D
      BY <1>1
    <2> HIDE DEF F, b
    <2>2. \E g \in [0..N -> D] : g[0] = b /\ \A n \in 1..N : g[n] = F[n][g[n - 1]]
      BY <1>1, <1>4, <2>1, Recursion
    <2> QED
      BY <2>2 DEF b
  <1>6. PICK g \in [0..N -> D] :
            g[0] = edges[a] /\ \A n \in 1..N : g[n] = F[n][g[n - 1]]
    BY <1>5
  <1>7. g = Body(g)
    <2>1. \A n \in 1..N : n - 1 \in 0..N /\ g[n - 1] \in D
      BY <1>1
    <2>2. \A n \in 1..N : g[n] = Around(edges, g[n - 1])
      BY <1>6, <2>1
    <2> QED
      BY <1>1, <1>6, <2>2
  <1>8. within = Body(within)
    <2> HIDE DEF Body
    <2> QED
      BY <1>3, <1>7
  <1>9. /\ DOMAIN within = 0..N
        /\ within[0] = edges[a]
        /\ \A n \in 1..N : within[n] = Around(edges, within[n - 1])
    <2>1. 0 \in 0..N /\ \A n \in 1..N : n \in 0..N /\ n # 0
      BY <1>1
    <2>2. \A n \in 0..N : within[n] = IF n = 0 THEN edges[a]
                                      ELSE Around(edges, within[n - 1])
      BY <1>8
    <2>3. within = [n \in 0..N |-> IF n = 0 THEN edges[a]
                                   ELSE Around(edges, within[n - 1])]
      BY <1>8
    <2> QED
      BY <2>1, <2>2, <2>3
  <1>10. \A n \in 0..N : within[n] \in D
    BY <1>1, <1>2, <1>9, StaysIn
  <1>11. within \in [0..N -> D]
    <2>1. within = [n \in 0..N |-> within[n]]
      BY <1>8
    <2> QED
      BY <1>10, <2>1
  <1> QED
    BY <1>9, <1>11 DEF within, N, D

\* Whatever holds everything next to a, and next to what it holds, holds the
\* closure.
LEMMA ClosureLeast ==
    ASSUME NEW A, IsFiniteSet(A), NEW edges \in [A -> SUBSET A], NEW a \in A,
           NEW X, edges[a] \subseteq X, \A b \in X \cap A : edges[b] \subseteq X
    PROVE  Closure(edges, a) \subseteq X /\ Closure(edges, a) \subseteq A
  <1> DEFINE N == Cardinality(A)
             within == Within(edges, a)
             S == {n \in 0..N : within[n] \subseteq X}
  <1>1. N \in Nat /\ DOMAIN edges = A
    BY FS_CardinalityType
  <1>2. /\ within \in [0..N -> SUBSET A]
        /\ within[0] = edges[a]
        /\ \A n \in 1..N :
              within[n] = Around(edges, within[n - 1])
    BY WithinUnfolds
  <1> HIDE DEF within, N
  <1>3. 0 \in S
    BY <1>1, <1>2
  <1>4. \A n \in 0..(N - 1) : n \in S => n + 1 \in S
    <2> SUFFICES ASSUME NEW n \in 0..(N - 1), n \in S
                 PROVE  n + 1 \in S
      OBVIOUS
    <2>1. n + 1 \in 1..N /\ n + 1 \in 0..N /\ n \in 0..N /\ (n + 1) - 1 = n
      BY <1>1
    <2>2. within[n] \subseteq X /\ within[n] \subseteq A
      BY <1>2, <2>1
    <2>3. within[n + 1] = Around(edges, within[n])
      BY <1>2, <2>1
    <2>4. within[n + 1] \subseteq X
      BY <2>2, <2>3 DEF Around
    <2> QED
      BY <2>1, <2>4
  <1> HIDE DEF S
  <1>5. N \in S
    BY <1>1, <1>3, <1>4, Induction
  <1> QED
    BY <1>1, <1>2, <1>5 DEF Closure, S, within, N

\* The equations of Pops: Kahn's algorithm, one pop at a time.
LEMMA PopsUnfolds ==
    ASSUME NEW decl \in SUBSET Nat, IsFiniteSet(decl), NEW deps
    PROVE  /\ Pops(decl, deps) \in [0..Cardinality(decl) -> Seq(decl)]
           /\ Pops(decl, deps)[0] = <<>>
           /\ \A n \in 1..Cardinality(decl) :
                 Pops(decl, deps)[n] = Popped(decl, deps, Pops(decl, deps)[n - 1])
  <1> DEFINE N == Cardinality(decl)
             D == Seq(decl)
             F == [n \in 1..N |-> [d \in D |-> Popped(decl, deps, d)]]
             Body(f) == [n \in 0..N |-> IF n = 0 THEN <<>>
                                        ELSE Popped(decl, deps, f[n - 1])]
             order == Pops(decl, deps)
  <1>1. N \in Nat /\ <<>> \in D
    BY FS_CardinalityType, EmptySeq
  <1>2. \A n \in 1..N : \A d \in D : Popped(decl, deps, d) \in D
    <2>1. ASSUME NEW d \in D, Ready(decl, deps, d) # {}
          PROVE  Min(Ready(decl, deps, d)) \in decl
      <3>1. Ready(decl, deps, d) \in SUBSET Nat
        BY DEF Ready
      <3> QED
        BY <2>1, <3>1, MinProperties DEF Ready
    <2> QED
      BY <2>1, AppendProperties DEF Popped
  <1>3. order = CHOOSE f : f = Body(f)
    BY DEF Pops
  <1> HIDE DEF N, D, order
  <1>4. F \in [1..N -> [D -> D]]
    BY <1>2
  <1>5. \E g \in [0..N -> D] :
            g[0] = <<>> /\ \A n \in 1..N : g[n] = F[n][g[n - 1]]
    <2> DEFINE b == <<>>
    <2>1. b \in D
      BY <1>1
    <2> HIDE DEF F, b
    <2>2. \E g \in [0..N -> D] : g[0] = b /\ \A n \in 1..N : g[n] = F[n][g[n - 1]]
      BY <1>1, <1>4, <2>1, Recursion
    <2> QED
      BY <2>2 DEF b
  <1>6. PICK g \in [0..N -> D] :
            g[0] = <<>> /\ \A n \in 1..N : g[n] = F[n][g[n - 1]]
    BY <1>5
  <1>7. g = Body(g)
    <2>1. \A n \in 1..N : n - 1 \in 0..N /\ g[n - 1] \in D
      BY <1>1
    <2>2. \A n \in 1..N : g[n] = Popped(decl, deps, g[n - 1])
      BY <1>6, <2>1
    <2> QED
      BY <1>1, <1>6, <2>2
  <1>8. order = Body(order)
    <2> HIDE DEF Body
    <2> QED
      BY <1>3, <1>7
  <1>9. /\ DOMAIN order = 0..N
        /\ order[0] = <<>>
        /\ \A n \in 1..N : order[n] = Popped(decl, deps, order[n - 1])
    <2>1. 0 \in 0..N /\ \A n \in 1..N : n \in 0..N /\ n # 0
      BY <1>1
    <2>2. order = [n \in 0..N |-> IF n = 0 THEN <<>>
                                  ELSE Popped(decl, deps, order[n - 1])]
      BY <1>8
    <2> QED
      BY <2>1, <2>2
  <1>10. \A n \in 0..N : order[n] \in D
    BY <1>1, <1>2, <1>9, StaysIn
  <1>11. order \in [0..N -> D]
    <2>1. order = [n \in 0..N |-> order[n]]
      BY <1>8
    <2> QED
      BY <1>10, <2>1
  <1> QED
    BY <1>9, <1>11 DEF order, N, D

\* The equations of Kept: the filtering loop, one element at a time.
LEMMA KeptUnfolds ==
    ASSUME NEW A, NEW seq \in Seq(A), NEW S
    PROVE  /\ Kept(seq, S) \in [0..Len(seq) -> Seq(A)]
           /\ Kept(seq, S)[0] = <<>>
           /\ \A n \in 1..Len(seq) :
                 Kept(seq, S)[n] = Keep(Kept(seq, S)[n - 1], seq[n], S)
  <1> DEFINE N == Len(seq)
             D == Seq(A)
             F == [n \in 1..N |-> [d \in D |-> Keep(d, seq[n], S)]]
             Body(f) == [n \in 0..N |-> IF n = 0 THEN <<>>
                                        ELSE Keep(f[n - 1], seq[n], S)]
             kept == Kept(seq, S)
  <1>1. N \in Nat /\ <<>> \in D
    BY EmptySeq
  <1>2. \A n \in 1..N : \A d \in D : Keep(d, seq[n], S) \in D
    BY ElementOfSeq, AppendProperties DEF Keep
  <1>3. kept = CHOOSE f : f = Body(f)
    BY DEF Kept
  <1> HIDE DEF N, D, kept
  <1>4. F \in [1..N -> [D -> D]]
    BY <1>2
  <1>5. \E g \in [0..N -> D] :
            g[0] = <<>> /\ \A n \in 1..N : g[n] = F[n][g[n - 1]]
    <2> DEFINE b == <<>>
    <2>1. b \in D
      BY <1>1
    <2> HIDE DEF F, b, Body
    <2>2. N \in Nat
      BY <1>1
    <2>3. \E g \in [0..N -> D] : g[0] = b /\ \A n \in 1..N : g[n] = F[n][g[n - 1]]
      BY <1>4, <2>1, <2>2, Recursion, SMTT(30)
    <2> QED
      BY <2>3 DEF b
  <1>6. PICK g \in [0..N -> D] :
            g[0] = <<>> /\ \A n \in 1..N : g[n] = F[n][g[n - 1]]
    BY <1>5
  <1>7. g = Body(g)
    <2>1. \A n \in 1..N : n - 1 \in 0..N /\ g[n - 1] \in D
      BY <1>1
    <2>2. \A n \in 1..N : g[n] = Keep(g[n - 1], seq[n], S)
      BY <1>6, <2>1
    <2> QED
      BY <1>1, <1>6, <2>2
  <1>8. kept = Body(kept)
    <2> HIDE DEF Body
    <2> QED
      BY <1>3, <1>7
  <1>9. /\ DOMAIN kept = 0..N
        /\ kept[0] = <<>>
        /\ \A n \in 1..N : kept[n] = Keep(kept[n - 1], seq[n], S)
    <2>1. 0 \in 0..N /\ \A n \in 1..N : n \in 0..N /\ n # 0
      BY <1>1
    <2>2. kept = [n \in 0..N |-> IF n = 0 THEN <<>>
                                  ELSE Keep(kept[n - 1], seq[n], S)]
      BY <1>8
    <2> QED
      BY <2>1, <2>2
  <1>10. \A n \in 0..N : kept[n] \in D
    BY <1>1, <1>2, <1>9, StaysIn
  <1>11. kept \in [0..N -> D]
    <2>1. kept = [n \in 0..N |-> kept[n]]
      BY <1>8
    <2> QED
      BY <1>10, <2>1
  <1> QED
    BY <1>9, <1>11 DEF kept, N, D

----------------------------------------------------------------------------

\* No member occurs twice.
Distinct(s) == \A i, j \in 1..Len(s) : s[i] = s[j] => i = j

\* Every address comes after everything it depends on.
Topological(decl, deps, s) ==
    /\ s \in Seq(decl)
    /\ Distinct(s)
    /\ \A i \in 1..Len(s) : deps[s[i]] \subseteq {s[k] : k \in 1..(i - 1)}

\* The set of a sequence's members.
LEMMA ToSetOfSeq ==
    ASSUME NEW A, NEW s \in Seq(A)
    PROVE  ToSet(s) = {s[i] : i \in 1..Len(s)} /\ ToSet(s) \subseteq A
  BY DEF ToSet

\* A pop keeps the order topological: what is ready has all it depends on
\* before it.
LEMMA PoppedTopological ==
    ASSUME NEW decl \in SUBSET Nat, NEW deps, NEW s, Topological(decl, deps, s)
    PROVE  Topological(decl, deps, Popped(decl, deps, s))
  <1> DEFINE next == Min(Ready(decl, deps, s))
             t == Append(s, next)
  <1>1. CASE Ready(decl, deps, s) = {}
    BY <1>1 DEF Popped
  <1>2. CASE Ready(decl, deps, s) # {}
    <2>1. next \in Ready(decl, deps, s)
      <3>1. Ready(decl, deps, s) \in SUBSET Nat
        BY DEF Ready
      <3> QED
        BY <1>2, <3>1, MinProperties
    <2>2. s \in Seq(decl) /\ Distinct(s)
      BY DEF Topological
    <2>3. next \in decl /\ next \notin ToSet(s) /\ deps[next] \subseteq ToSet(s)
      BY <2>1 DEF Ready
    <2> HIDE DEF next
    <2>4. /\ t \in Seq(decl)
          /\ Len(t) = Len(s) + 1
          /\ \A i \in 1..Len(s) : t[i] = s[i]
          /\ t[Len(s) + 1] = next
      BY <2>2, <2>3, AppendProperties
    <2>5. Len(s) \in Nat
      BY <2>2, LenProperties
    <2> HIDE DEF t
    <2>6. ToSet(s) = {t[k] : k \in 1..Len(s)}
      BY <2>2, <2>4, ToSetOfSeq
    <2>7. Distinct(t)
      BY <2>2, <2>3, <2>4, <2>5, <2>6 DEF Distinct
    <2>8. ASSUME NEW i \in 1..Len(t)
          PROVE  deps[t[i]] \subseteq {t[k] : k \in 1..(i - 1)}
      <3>1. CASE i = Len(s) + 1
        BY <2>3, <2>4, <2>5, <2>6, <3>1
      <3>2. CASE i # Len(s) + 1
        <4>1. i \in 1..Len(s) /\ \A k \in 1..(i - 1) : t[k] = s[k]
          BY <2>4, <2>5, <3>2
        <4>2. deps[s[i]] \subseteq {s[k] : k \in 1..(i - 1)}
          BY <4>1 DEF Topological
        <4> QED
          BY <2>4, <4>1, <4>2
      <3> QED
        BY <3>1, <3>2
    <2> QED
      BY <1>2, <2>4, <2>7, <2>8, ZenonT(30) DEF Topological, Popped, t, next
  <1> QED
    BY <1>1, <1>2

\* Order lists declared addresses, each once and after all its references - on
\* every configuration, with or without a cycle.
THEOREM TopoOrderTopological ==
    ASSUME NEW decl \in SUBSET Nat, IsFiniteSet(decl), NEW deps
    PROVE  Topological(decl, deps, TopoOrder(decl, deps))
  <1> DEFINE N == Cardinality(decl)
             D == {s \in Seq(decl) : Topological(decl, deps, s)}
             h == Pops(decl, deps)
  <1>1. N \in Nat
    BY FS_CardinalityType
  <1>2. /\ h \in [0..N -> Seq(decl)] /\ h[0] = <<>>
        /\ \A n \in 1..N : h[n] = Popped(decl, deps, h[n - 1])
    BY PopsUnfolds
  <1>3. h[0] \in D
    BY <1>2 DEF Topological, Distinct
  <1>4. ASSUME NEW n \in 1..N, h[n - 1] \in D PROVE h[n] \in D
    <2>1. Topological(decl, deps, Popped(decl, deps, h[n - 1]))
      BY <1>4, PoppedTopological
    <2>2. h[n] = Popped(decl, deps, h[n - 1])
      BY <1>2
    <2>3. Topological(decl, deps, h[n])
      BY <2>1, <2>2
    <2> QED
      BY <2>3 DEF Topological
  <1> HIDE DEF N, D, h
  <1>5. \A n \in 0..N : h[n] \in D
    BY <1>1, <1>3, <1>4, StaysIn
  <1>6. h[N] \in D
    BY <1>1, <1>5
  <1> QED
    BY <1>6 DEF TopoOrder, D, h, N

\* A sequence without repetitions that is as long as decl is large holds all
\* of it.
LEMMA FullOrder ==
    ASSUME NEW decl, IsFiniteSet(decl), NEW s \in Seq(decl), Distinct(s),
           Len(s) = Cardinality(decl)
    PROVE  ToSet(s) = decl
  <1>1. /\ s \in [1..Len(s) -> decl] /\ Len(s) \in Nat
    BY LenProperties
  <1>2. s \in Injection(1..Len(s), decl)
    BY <1>1, Fun_IsInj DEF Distinct
  <1>3. IsFiniteSet(1..Len(s)) /\ Cardinality(1..Len(s)) = Cardinality(decl)
    BY <1>1, FS_Interval
  <1>4. s \in Surjection(1..Len(s), decl)
    BY <1>2, <1>3, FS_Injection
  <1>5. \A a \in decl : \E i \in 1..Len(s) : s[i] = a
    BY <1>4, Fun_SurjectionProperties
  <1>6. ToSet(s) = {s[i] : i \in 1..Len(s)}
    BY ToSetOfSeq
  <1> QED
    BY <1>1, <1>5, <1>6

\* A graph without edges is ordered completely.
LEMMA UnrelatedAllOrdered ==
    ASSUME NEW decl \in SUBSET Nat, IsFiniteSet(decl), NEW deps,
           \A a \in decl : deps[a] = {}
    PROVE  Len(TopoOrder(decl, deps)) = Cardinality(decl)
  <1> DEFINE N == Cardinality(decl)
             h == Pops(decl, deps)
             D == {n \in 0..N : Len(h[n]) = n}
  <1>1. N \in Nat
    BY FS_CardinalityType
  <1>2. /\ h \in [0..N -> Seq(decl)] /\ h[0] = <<>>
        /\ \A n \in 1..N : h[n] = Popped(decl, deps, h[n - 1])
    BY PopsUnfolds
  <1> HIDE DEF h
  <1>3. ASSUME NEW n \in 0..(N - 1), Len(h[n]) = n PROVE Len(h[n + 1]) = n + 1
    <2>1. h[n] \in Seq(decl) /\ h[n + 1] = Popped(decl, deps, h[n])
      <3>1. n \in 0..N /\ n + 1 \in 1..N /\ (n + 1) - 1 = n
        BY <1>1
      <3> QED
        BY <1>2, <3>1
    <2>2. ToSet(h[n]) # decl
      <3> SUFFICES ASSUME ToSet(h[n]) = decl PROVE FALSE
        OBVIOUS
      <3>1. h[n] \in Surjection(1..n, decl)
        <4>1. h[n] \in [1..n -> decl]
          BY <1>3, <2>1, LenProperties
        <4>2. ToSet(h[n]) = {h[n][i] : i \in 1..n}
          BY <1>3, <2>1, ToSetOfSeq
        <4>3. \A a \in decl : \E i \in 1..n : h[n][i] = a
          BY <4>2
        <4> QED
          BY <4>1, <4>3, Fun_IsSurj
      <3>2. IsFiniteSet(1..n) /\ Cardinality(1..n) = n
        BY FS_Interval
      <3>3. N <= n
        BY <3>1, <3>2, FS_Surjection
      <3> QED
        BY <1>1, <3>3
    <2>3. PICK a \in decl : a \notin ToSet(h[n])
      BY <2>1, <2>2, ToSetOfSeq
    <2>4. a \in Ready(decl, deps, h[n])
      BY <2>3 DEF Ready
    <2>5. Min(Ready(decl, deps, h[n])) \in decl
      <3>1. Ready(decl, deps, h[n]) \in SUBSET Nat /\ Ready(decl, deps, h[n]) # {}
        BY <2>4 DEF Ready
      <3>2. Min(Ready(decl, deps, h[n])) \in Ready(decl, deps, h[n])
        BY <3>1, MinProperties
      <3> QED
        BY <3>2 DEF Ready
    <2>6. h[n + 1] = Append(h[n], Min(Ready(decl, deps, h[n])))
      BY <2>1, <2>4 DEF Popped
    <2> QED
      BY <1>3, <2>1, <2>5, <2>6, AppendProperties
  <1>4. 0 \in D
    BY <1>1, <1>2
  <1>5. \A n \in 0..(N - 1) : n \in D => n + 1 \in D
    BY <1>1, <1>3
  <1> HIDE DEF D, N
  <1>6. N \in D
    BY <1>1, <1>4, <1>5, Induction
  <1> QED
    BY <1>6 DEF TopoOrder, D, h, N

----------------------------------------------------------------------------
\* What Selected keeps.

\* The sequence s is the first n members of seq without those outside S.
Filtered(seq, S, n, s) ==
    /\ \A i \in 1..Len(s) : \E k \in 1..n : s[i] = seq[k] /\ seq[k] \in S
    /\ \A k \in 1..n : seq[k] \in S => \E i \in 1..Len(s) : s[i] = seq[k]
    /\ \A i, j \in 1..Len(s) : i < j =>
          \E k, m \in 1..n : k < m /\ s[i] = seq[k] /\ s[j] = seq[m]

\* One more element of the filtering loop.
LEMMA KeepFiltered ==
    ASSUME NEW A, NEW seq \in Seq(A), NEW S, NEW n \in Nat, n + 1 \in 1..Len(seq),
           NEW s \in Seq(A), Filtered(seq, S, n, s)
    PROVE  Filtered(seq, S, n + 1, Keep(s, seq[n + 1], S))
  <1> DEFINE x == seq[n + 1]
             t == Append(s, x)
  <1>1. \A k \in 1..n : k \in 1..(n + 1) /\ k < n + 1
    OBVIOUS
  <1>2. \A k \in 1..(n + 1) : k \in 1..n \/ k = n + 1
    OBVIOUS
  <1>3. CASE x \notin S
    <2>1. Keep(s, seq[n + 1], S) = s
      BY <1>3 DEF Keep
    <2>2. Filtered(seq, S, n + 1, s)
      BY <1>1, <1>2, <1>3 DEF Filtered
    <2> QED
      BY <2>1, <2>2
  <1>4. CASE x \in S
    <2>1. Keep(s, seq[n + 1], S) = t
      BY <1>4 DEF Keep
    <2>2. /\ Len(t) = Len(s) + 1
          /\ \A i \in 1..Len(s) : t[i] = s[i]
          /\ t[Len(s) + 1] = x
          /\ Len(s) \in Nat
      BY AppendProperties, ElementOfSeq, LenProperties
    <2> HIDE DEF t
    <2>3. \A i \in 1..Len(t) : \/ i \in 1..Len(s) /\ t[i] = s[i]
                               \/ i = Len(s) + 1 /\ t[i] = x
      BY <2>2
    <2>4. ASSUME NEW i \in 1..Len(t)
          PROVE  \E k \in 1..(n + 1) : t[i] = seq[k] /\ seq[k] \in S
      <3>1. CASE i \in 1..Len(s) /\ t[i] = s[i]
        BY <1>1, <3>1 DEF Filtered
      <3>2. CASE i = Len(s) + 1 /\ t[i] = x
        BY <1>4, <3>2
      <3> QED
        BY <2>3, <3>1, <3>2
    <2>5. ASSUME NEW k \in 1..(n + 1), seq[k] \in S
          PROVE  \E i \in 1..Len(t) : t[i] = seq[k]
      <3>1. CASE k \in 1..n
        <4>1. PICK i \in 1..Len(s) : s[i] = seq[k]
          BY <2>5, <3>1 DEF Filtered
        <4> QED
          BY <2>2, <4>1
      <3>2. CASE k = n + 1
        BY <2>2, <3>2
      <3> QED
        BY <1>2, <3>1, <3>2
    <2>6. ASSUME NEW i \in 1..Len(t), NEW j \in 1..Len(t), i < j
          PROVE  \E k, m \in 1..(n + 1) : k < m /\ t[i] = seq[k] /\ t[j] = seq[m]
      <3>1. i \in 1..Len(s) /\ t[i] = s[i]
        BY <2>2, <2>6
      <3>2. CASE j = Len(s) + 1
        <4>1. PICK k \in 1..n : s[i] = seq[k]
          BY <3>1 DEF Filtered
        <4> QED
          BY <1>1, <2>2, <3>1, <3>2, <4>1
      <3>3. CASE j # Len(s) + 1
        <4>1. j \in 1..Len(s) /\ t[j] = s[j]
          BY <2>3, <3>3
        <4>2. PICK k \in 1..n, m \in 1..n : k < m /\ s[i] = seq[k] /\ s[j] = seq[m]
          BY <2>6, <3>1, <4>1 DEF Filtered
        <4> QED
          BY <1>1, <3>1, <4>1, <4>2
      <3> QED
        BY <3>2, <3>3
    <2>7. Filtered(seq, S, n + 1, t)
      BY <2>4, <2>5, <2>6 DEF Filtered
    <2> QED
      BY <2>1, <2>7
  <1> QED
    BY <1>3, <1>4

\* Filtering keeps exactly the members of S, each once and in their order.
LEMMA SelectedProperties ==
    ASSUME NEW A, NEW seq \in Seq(A), Distinct(seq), NEW S
    PROVE  /\ Selected(seq, S) \in Seq(A)
           /\ Distinct(Selected(seq, S))
           /\ ToSet(Selected(seq, S)) = ToSet(seq) \cap S
           /\ Filtered(seq, S, Len(seq), Selected(seq, S))
  <1> DEFINE N == Len(seq)
             h == Kept(seq, S)
             D == {n \in 0..N : Filtered(seq, S, n, h[n])}
  <1>1. N \in Nat
    BY LenProperties
  <1>2. /\ h \in [0..N -> Seq(A)] /\ h[0] = <<>>
        /\ \A n \in 1..N : h[n] = Keep(h[n - 1], seq[n], S)
    BY KeptUnfolds
  <1> HIDE DEF h
  <1>3. 0 \in D
    BY <1>1, <1>2 DEF Filtered
  <1>4. ASSUME NEW n \in 0..(N - 1), n \in D PROVE n + 1 \in D
    <2>1. n \in Nat /\ n \in 0..N /\ n + 1 \in 0..N /\ n + 1 \in 1..N /\ (n + 1) - 1 = n
      BY <1>1
    <2>2. h[n] \in Seq(A) /\ h[n + 1] = Keep(h[n], seq[n + 1], S)
      BY <1>2, <2>1
    <2>3. Filtered(seq, S, n + 1, h[n + 1])
      BY <1>4, <2>1, <2>2, KeepFiltered
    <2> QED
      BY <2>1, <2>3
  <1> HIDE DEF D, N
  <1>5. N \in D
    BY <1>1, <1>3, <1>4, Induction
  <1> DEFINE sel == Selected(seq, S)
  <1>6. sel = h[N]
    BY DEF Selected, h, N
  <1>7. sel \in Seq(A)
    BY <1>1, <1>2, <1>6
  <1>8. Filtered(seq, S, N, sel)
    BY <1>5, <1>6 DEF D
  <1> HIDE DEF sel
  <1>9. ToSet(sel) = {sel[i] : i \in 1..Len(sel)}
    BY <1>7, ToSetOfSeq
  <1>10. ToSet(seq) = {seq[k] : k \in 1..N}
    BY ToSetOfSeq DEF N
  <1>11. ToSet(sel) = ToSet(seq) \cap S
    <2>1. ASSUME NEW x \in ToSet(sel) PROVE x \in ToSet(seq) \cap S
      BY <1>8, <1>9, <1>10 DEF Filtered
    <2>2. ASSUME NEW x \in ToSet(seq), x \in S PROVE x \in ToSet(sel)
      <3>1. PICK k \in 1..N : x = seq[k]
        BY <1>10
      <3>2. PICK i \in 1..Len(sel) : sel[i] = seq[k]
        BY <1>8, <2>2, <3>1 DEF Filtered
      <3> QED
        BY <1>9, <3>1, <3>2
    <2> QED
      BY <2>1, <2>2
  <1>12. Distinct(sel)
    <2>1. Len(sel) \in Nat
      BY <1>7, LenProperties
    <2>2. \A k, m \in 1..N : k < m => seq[k] # seq[m]
      BY <1>1 DEF Distinct, N
    <2>3. \A i, j \in 1..Len(sel) : i < j => sel[i] # sel[j]
      BY <1>8, <2>2 DEF Filtered
    <2> QED
      BY <2>1, <2>3 DEF Distinct
  <1> QED
    BY <1>7, <1>8, <1>11, <1>12 DEF sel, N

\* Reverse lists the same members backwards.
LEMMA ReverseProperties ==
    ASSUME NEW A, NEW s \in Seq(A)
    PROVE  /\ Reverse(s) \in Seq(A)
           /\ Len(Reverse(s)) = Len(s)
           /\ \A i \in 1..Len(s) : Reverse(s)[i] = s[(Len(s) - i) + 1]
           /\ ToSet(Reverse(s)) = ToSet(s)
           /\ Distinct(s) => Distinct(Reverse(s))
  <1> DEFINE N == Len(s)
             r == Reverse(s)
  <1>1. N \in Nat /\ s \in [1..N -> A]
    BY LenProperties
  <1>2. \A i \in 1..N : (N - i) + 1 \in 1..N /\ (N - ((N - i) + 1)) + 1 = i
    BY <1>1
  <1>3. r = [i \in 1..N |-> s[(N - i) + 1]]
    BY DEF Reverse
  <1> HIDE DEF r, N
  <1>4. r \in [1..N -> A]
    BY <1>1, <1>2, <1>3
  <1>5. r \in Seq(A)
    BY <1>1, <1>4, SeqDef
  <1>6. Len(r) = N
    <2>1. DOMAIN r = 1..N /\ DOMAIN r = 1..Len(r) /\ Len(r) \in Nat
      BY <1>4, <1>5, LenProperties
    <2> QED
      BY <1>1, <2>1
  <1>7. \A i \in 1..N : r[i] = s[(N - i) + 1]
    BY <1>3
  <1>8. ToSet(r) = {r[i] : i \in 1..N} /\ ToSet(s) = {s[i] : i \in 1..N}
    BY <1>5, <1>6, ToSetOfSeq DEF N
  <1>9. ToSet(r) = ToSet(s)
    <2>1. \A i \in 1..N : s[i] = r[(N - i) + 1]
      BY <1>2, <1>7
    <2> QED
      BY <1>2, <1>7, <1>8, <2>1
  <1>10. ASSUME Distinct(s) PROVE Distinct(r)
    <2>1. \A i, j \in 1..N : s[(N - i) + 1] = s[(N - j) + 1] => i = j
      BY <1>1, <1>2, <1>10 DEF Distinct, N
    <2> QED
      BY <1>6, <1>7, <2>1, ZenonT(30) DEF Distinct
  <1> QED
    BY <1>5, <1>6, <1>7, <1>9, <1>10 DEF r, N

----------------------------------------------------------------------------
\* The order and the closures.

\* The addresses A, their references, and which of them are declared.
Graph(A, decl, deps) ==
    /\ A \subseteq Nat /\ IsFiniteSet(A)
    /\ decl \subseteq A
    /\ deps \in [A -> SUBSET A]
    /\ \A a \in A \ decl : deps[a] = {}

\* In a topological order everything an address reaches, over however many
\* references, comes before it.
LEMMA DependenciesEarlier ==
    ASSUME NEW A, NEW decl, NEW deps, Graph(A, decl, deps),
           NEW t, Topological(decl, deps, t)
    PROVE  \A i \in 1..Len(t) : \A b \in Closure(deps, t[i]) :
               \E k \in 1..(i - 1) : b = t[k]
  <1> SUFFICES ASSUME NEW i \in 1..Len(t)
               PROVE  \A b \in Closure(deps, t[i]) : \E k \in 1..(i - 1) : b = t[k]
    OBVIOUS
  <1>0. IsFiniteSet(A) /\ decl \subseteq A /\ deps \in [A -> SUBSET A]
    BY DEF Graph
  <1> DEFINE X == {t[k] : k \in 1..(i - 1)}
  <1>1. t \in Seq(decl) /\ Len(t) \in Nat /\ t[i] \in A
    BY <1>0, LenProperties, ElementOfSeq DEF Topological
  <1>2. deps[t[i]] \subseteq X
    BY DEF Topological
  <1>3. ASSUME NEW b \in X PROVE deps[b] \subseteq X
    <2>1. PICK k \in 1..(i - 1) : b = t[k]
      BY <1>3
    <2>2. k \in 1..Len(t) /\ \A m \in 1..(k - 1) : m \in 1..(i - 1)
      BY <1>1
    <2>3. deps[t[k]] \subseteq {t[m] : m \in 1..(k - 1)}
      BY <2>2 DEF Topological
    <2> QED
      BY <2>1, <2>2, <2>3
  <1> HIDE DEF X
  <1>4. Closure(deps, t[i]) \subseteq X
    BY <1>0, <1>1, <1>2, <1>3, ClosureLeast
  <1> QED
    BY <1>4 DEF X

\* In a complete topological order everything that reaches an address comes
\* after it.
LEMMA DependentsLater ==
    ASSUME NEW A, NEW decl, NEW deps, Graph(A, decl, deps),
           NEW t, Topological(decl, deps, t), ToSet(t) = decl
    PROVE  \A i \in 1..Len(t) : \A b \in Closure(Dependents(deps), t[i]) :
               \E k \in (i + 1)..Len(t) : b = t[k]
  <1> SUFFICES ASSUME NEW i \in 1..Len(t)
               PROVE  \A b \in Closure(Dependents(deps), t[i]) :
                          \E k \in (i + 1)..Len(t) : b = t[k]
    OBVIOUS
  <1>0. IsFiniteSet(A) /\ decl \subseteq A /\ deps \in [A -> SUBSET A]
    BY DEF Graph
  <1> DEFINE X == {t[k] : k \in (i + 1)..Len(t)}
             edges == Dependents(deps)
  <1>1. /\ t \in Seq(decl) /\ Len(t) \in Nat /\ t[i] \in A
        /\ decl = {t[k] : k \in 1..Len(t)}
    BY <1>0, LenProperties, ElementOfSeq, ToSetOfSeq DEF Topological
  <1>2. edges \in [A -> SUBSET A] /\ \A a \in A : edges[a] = {b \in A : a \in deps[b]}
    BY <1>0 DEF Dependents
  <1>3. ASSUME NEW k \in 1..Len(t), NEW b \in edges[t[k]]
        PROVE  \E m \in (k + 1)..Len(t) : b = t[m]
    <2>1. t[k] \in A
      BY <1>0, <1>1
    <2>2. b \in A /\ t[k] \in deps[b]
      BY <1>2, <1>3, <2>1
    <2>3. PICK m \in 1..Len(t) : b = t[m]
      BY <1>1, <2>2 DEF Graph
    <2>4. PICK j \in 1..(m - 1) : t[k] = t[j]
      BY <2>2, <2>3 DEF Topological
    <2>5. j \in 1..Len(t)
      BY <1>1
    <2>6. k = j
      BY <2>4, <2>5 DEF Topological, Distinct
    <2>7. m \in (k + 1)..Len(t)
      BY <1>1, <2>6
    <2> QED
      BY <2>3, <2>7
  <1> HIDE DEF edges
  <1>4. edges[t[i]] \subseteq X
    BY <1>3
  <1>5. ASSUME NEW b \in X PROVE edges[b] \subseteq X
    <2>1. PICK k \in (i + 1)..Len(t) : b = t[k]
      BY <1>5
    <2>2. k \in 1..Len(t) /\ \A m \in (k + 1)..Len(t) : m \in (i + 1)..Len(t)
      BY <1>1
    <2> QED
      BY <1>3, <2>1, <2>2
  <1> HIDE DEF X
  <1>6. Closure(edges, t[i]) \subseteq X
    BY <1>0, <1>1, <1>2, <1>4, <1>5, ClosureLeast, ZenonT(30)
  <1> QED
    BY <1>6 DEF X, edges

----------------------------------------------------------------------------
\* Positions.

\* The sequence t has an x before a y.
Earlier(t, x, y) == \E k, m \in 1..Len(t) : k < m /\ x = t[k] /\ y = t[m]

\* In a sequence without repetitions no two members precede each other.
LEMMA EarlierStrict ==
    ASSUME NEW A, NEW t \in Seq(A), Distinct(t), NEW x, NEW y, Earlier(t, x, y)
    PROVE  ~Earlier(t, y, x)
  <1> SUFFICES ASSUME Earlier(t, y, x) PROVE FALSE
    OBVIOUS
  <1>1. PICK k, m \in 1..Len(t) : k < m /\ x = t[k] /\ y = t[m]
    BY DEF Earlier
  <1>2. PICK i, j \in 1..Len(t) : i < j /\ y = t[i] /\ x = t[j]
    BY DEF Earlier
  <1>3. k = j /\ m = i
    BY <1>1, <1>2 DEF Distinct
  <1> QED
    BY <1>1, <1>2, <1>3, LenProperties

\* A topological order puts what an address reaches before it, and what
\* reaches it after it.
LEMMA ClosuresAround ==
    ASSUME NEW A, NEW decl, NEW deps, Graph(A, decl, deps),
           NEW t, Topological(decl, deps, t), ToSet(t) = decl, NEW a \in decl
    PROVE  /\ \A b \in Closure(deps, a) : Earlier(t, b, a)
           /\ \A b \in Closure(Dependents(deps), a) : Earlier(t, a, b)
  <1>0. Len(t) \in Nat
    BY LenProperties DEF Topological
  <1>1. t \in Seq(decl) /\ decl = {t[k] : k \in 1..Len(t)}
    BY ToSetOfSeq DEF Topological
  <1>2. PICK i \in 1..Len(t) : a = t[i]
    BY <1>1
  <1>3. \A b \in Closure(deps, t[i]) : \E k \in 1..(i - 1) : b = t[k]
    <2>1. \A j \in 1..Len(t) : \A b \in Closure(deps, t[j]) : \E k \in 1..(j - 1) : b = t[k]
      BY DependenciesEarlier
    <2> QED
      BY <2>1
  <1>4. \A b \in Closure(Dependents(deps), t[i]) : \E k \in (i + 1)..Len(t) : b = t[k]
    BY DependentsLater
  <1>5. ASSUME NEW b \in Closure(deps, a) PROVE Earlier(t, b, a)
    <2>1. PICK k \in 1..(i - 1) : b = t[k]
      BY <1>2, <1>3, <1>5
    <2>2. k \in 1..Len(t) /\ k < i
      BY <1>0
    <2> QED
      BY <1>2, <2>1, <2>2 DEF Earlier
  <1>6. ASSUME NEW b \in Closure(Dependents(deps), a) PROVE Earlier(t, a, b)
    <2>1. PICK k \in (i + 1)..Len(t) : b = t[k]
      BY <1>2, <1>4, <1>6
    <2>2. k \in 1..Len(t) /\ i < k
      BY <1>0
    <2> QED
      BY <1>2, <2>1, <2>2 DEF Earlier
  <1> QED
    BY <1>5, <1>6

\* Two sequences without repetitions or common members, one after the other.
LEMMA ConcatDistinct ==
    ASSUME NEW A, NEW u \in Seq(A), NEW v \in Seq(A), Distinct(u), Distinct(v),
           \A x \in ToSet(u) : x \notin ToSet(v)
    PROVE  Distinct(u \o v) /\ ToSet(u \o v) = ToSet(u) \cup ToSet(v)
  <1> DEFINE w == u \o v
  <1>1. /\ w \in Seq(A) /\ Len(w) = Len(u) + Len(v) /\ Len(u) \in Nat /\ Len(v) \in Nat
        /\ \A i \in 1..(Len(u) + Len(v)) :
              w[i] = IF i <= Len(u) THEN u[i] ELSE v[i - Len(u)]
    BY ConcatProperties, LenProperties
  <1> HIDE DEF w
  <1>2. /\ ToSet(u) = {u[i] : i \in 1..Len(u)} /\ ToSet(v) = {v[i] : i \in 1..Len(v)}
        /\ ToSet(w) = {w[i] : i \in 1..Len(w)}
    <2>1. w \in Seq(A)
      BY <1>1
    <2>2. ToSet(w) = {w[i] : i \in 1..Len(w)}
      BY <2>1, ToSetOfSeq
    <2>3. ToSet(u) = {u[i] : i \in 1..Len(u)} /\ ToSet(v) = {v[i] : i \in 1..Len(v)}
      BY ToSetOfSeq
    <2> QED
      BY <2>2, <2>3
  <1>3. \A i \in 1..Len(w) : \/ i \in 1..Len(u) /\ w[i] = u[i]
                             \/ i - Len(u) \in 1..Len(v) /\ w[i] = v[i - Len(u)]
    BY <1>1
  <1>4. \A i \in 1..Len(u), j \in 1..Len(v) : u[i] # v[j]
    BY <1>2
  <1>5. Distinct(w)
    <2> SUFFICES ASSUME NEW i \in 1..Len(w), NEW j \in 1..Len(w), w[i] = w[j]
                 PROVE  i = j
      BY DEF Distinct
    <2>1. CASE i \in 1..Len(u) /\ w[i] = u[i]
      BY <1>3, <1>4, <2>1 DEF Distinct
    <2>2. CASE i - Len(u) \in 1..Len(v) /\ w[i] = v[i - Len(u)]
      <3>1. j - Len(u) \in 1..Len(v) /\ w[j] = v[j - Len(u)]
        BY <1>3, <1>4, <2>2
      <3>2. i - Len(u) = j - Len(u)
        BY <2>2, <3>1 DEF Distinct
      <3> QED
        BY <1>1, <3>2
    <2> QED
      BY <1>3, <2>1, <2>2
  <1>6. ToSet(w) \subseteq ToSet(u) \cup ToSet(v)
    BY <1>2, <1>3
  <1>7. ASSUME NEW i \in 1..Len(u) PROVE u[i] \in ToSet(w)
    <2>1. i \in 1..Len(w) /\ w[i] = u[i]
      BY <1>1
    <2> QED
      BY <1>2, <2>1
  <1>8. ASSUME NEW i \in 1..Len(v) PROVE v[i] \in ToSet(w)
    <2>1. i + Len(u) \in 1..Len(w) /\ w[i + Len(u)] = v[i]
      BY <1>1
    <2> QED
      BY <1>2, <2>1
  <1>9. ToSet(w) = ToSet(u) \cup ToSet(v)
    <2>1. ToSet(u) \subseteq ToSet(w)
      BY <1>2, <1>7
    <2>2. ToSet(v) \subseteq ToSet(w)
      BY <1>2, <1>8
    <2> QED
      BY <1>6, <2>1, <2>2
  <1> QED
    BY <1>5, <1>9 DEF w

----------------------------------------------------------------------------
\* Cycles.

\* The closure is closed: as many rounds as there are addresses reach
\* everything that any number of rounds would.
LEMMA ClosureClosed ==
    ASSUME NEW A, IsFiniteSet(A), NEW edges \in [A -> SUBSET A], NEW a \in A
    PROVE  /\ Closure(edges, a) \in SUBSET A
           /\ edges[a] \subseteq Closure(edges, a)
           /\ \A b \in Closure(edges, a) : edges[b] \subseteq Closure(edges, a)
  <1> DEFINE N == Cardinality(A)
             within == Within(edges, a)
             Closed(X) == \A b \in X : edges[b] \subseteq X
             S == {n \in 0..N : Closed(within[n]) \/ Cardinality(within[n]) > n}
             T == {n \in 0..N : edges[a] \subseteq within[n]}
  <1>1. N \in Nat /\ DOMAIN edges = A
    BY FS_CardinalityType
  <1>2. /\ within \in [0..N -> SUBSET A]
        /\ within[0] = edges[a]
        /\ \A n \in 1..N : within[n] = Around(edges, within[n - 1])
    BY WithinUnfolds
  <1> HIDE DEF within, N
  <1>3. \A n \in 0..N : /\ within[n] \in SUBSET A
                        /\ IsFiniteSet(within[n]) /\ Cardinality(within[n]) \in Nat
    BY <1>2, FS_Subset, FS_CardinalityType
  <1>4. ASSUME NEW n \in 0..(N - 1)
        PROVE  /\ n \in 0..N /\ n + 1 \in 0..N
               /\ within[n + 1] = Around(edges, within[n])
               /\ within[n] \subseteq within[n + 1]
    <2>1. n + 1 \in 1..N /\ n \in 0..N /\ n + 1 \in 0..N /\ (n + 1) - 1 = n
      BY <1>1
    <2>2. within[n + 1] = Around(edges, within[n])
      BY <1>2, <2>1
    <2> QED
      BY <2>1, <2>2 DEF Around
  <1>5. 0 \in S
    <2>1. 0 \in 0..N
      BY <1>1
    <2>2. CASE within[0] = {}
      BY <2>1, <2>2
    <2>3. CASE within[0] # {}
      <3>1. Cardinality(within[0]) # 0
        BY <1>3, <2>1, <2>3, FS_EmptySet
      <3>2. Cardinality(within[0]) > 0
        BY <1>3, <2>1, <3>1
      <3> QED
        BY <2>1, <3>2
    <2> QED
      BY <2>2, <2>3
  <1>6. ASSUME NEW n \in 0..(N - 1), n \in S PROVE n + 1 \in S
    <2>1. CASE Closed(within[n])
      <3>1. UNION {edges[b] : b \in within[n]} \subseteq within[n]
        BY <2>1
      <3>2. within[n + 1] = Around(edges, within[n])
        BY <1>4
      <3>3. within[n + 1] = within[n]
        BY <3>1, <3>2 DEF Around
      <3> QED
        BY <1>4, <2>1, <3>3
    <2>2. CASE ~Closed(within[n]) /\ Cardinality(within[n]) > n
      <3>1. within[n + 1] # within[n]
        BY <1>4, <2>2 DEF Around
      <3>2. within[n] \in SUBSET within[n + 1] /\ IsFiniteSet(within[n + 1])
        BY <1>3, <1>4
      <3>3. /\ Cardinality(within[n]) <= Cardinality(within[n + 1])
            /\ Cardinality(within[n]) # Cardinality(within[n + 1])
        BY <3>1, <3>2, FS_Subset
      <3>4. Cardinality(within[n]) \in Nat /\ Cardinality(within[n + 1]) \in Nat
        BY <1>3, <1>4
      <3>5. Cardinality(within[n + 1]) > n + 1
        BY <2>2, <3>3, <3>4
      <3> QED
        BY <1>4, <3>5
    <2> QED
      BY <1>6, <2>1, <2>2
  <1>7. N \in S
    <2> HIDE DEF S
    <2> QED
      BY <1>1, <1>5, <1>6, Induction
  <1>8. Closed(within[N])
    <2>1. within[N] \in SUBSET A /\ Cardinality(within[N]) \in Nat
      BY <1>1, <1>3
    <2>2. Cardinality(within[N]) <= N
      BY <2>1, FS_Subset DEF N
    <2> QED
      BY <1>1, <1>7, <2>1, <2>2
  <1>9. N \in T
    <2>1. 0 \in T
      BY <1>1, <1>2
    <2>2. ASSUME NEW n \in 0..(N - 1), n \in T PROVE n + 1 \in T
      BY <1>4, <2>2
    <2> HIDE DEF T
    <2> QED
      BY <1>1, <2>1, <2>2, Induction
  <1>10. Closure(edges, a) = within[N]
    BY <1>1 DEF Closure, within, N
  <1> QED
    BY <1>1, <1>3, <1>8, <1>9, <1>10

\* What an address reaches reaches nothing else.
LEMMA ClosureTransitive ==
    ASSUME NEW A, IsFiniteSet(A), NEW edges \in [A -> SUBSET A], NEW a \in A,
           NEW b \in Closure(edges, a)
    PROVE  b \in A /\ Closure(edges, b) \subseteq Closure(edges, a)
  <1>1. /\ Closure(edges, a) \in SUBSET A
        /\ \A x \in Closure(edges, a) : edges[x] \subseteq Closure(edges, a)
    BY ClosureClosed
  <1> DEFINE X == Closure(edges, a)
  <1>2. b \in A /\ edges[b] \subseteq X /\ \A x \in X \cap A : edges[x] \subseteq X
    BY <1>1
  <1> HIDE DEF X
  <1>3. Closure(edges, b) \subseteq X
    BY <1>2, ClosureLeast
  <1> QED
    BY <1>2, <1>3 DEF X

\* Among finitely many addresses that all reference one of each other there
\* is one that reaches itself: take one that reaches as few of them as any.
LEMMA CycleAmong ==
    ASSUME NEW A, IsFiniteSet(A), NEW edges \in [A -> SUBSET A],
           NEW U \in SUBSET A, U # {}, \A u \in U : edges[u] \cap U # {}
    PROVE  \E u \in U : u \in Closure(edges, u)
  <1> DEFINE reach(u) == Closure(edges, u) \cap U
             sizes == {Cardinality(reach(u)) : u \in U}
  <1>1. \A u \in U : IsFiniteSet(reach(u)) /\ Cardinality(reach(u)) \in Nat
    <2>1. IsFiniteSet(U)
      BY FS_Subset
    <2> SUFFICES ASSUME NEW u \in U PROVE IsFiniteSet(reach(u)) /\ Cardinality(reach(u)) \in Nat
      OBVIOUS
    <2>2. reach(u) \in SUBSET U
      OBVIOUS
    <2>3. IsFiniteSet(reach(u))
      BY <2>1, <2>2, FS_Subset
    <2> QED
      BY <2>3, FS_CardinalityType
  <1>2. PICK u \in U : \A v \in U : Cardinality(reach(u)) <= Cardinality(reach(v))
    <2>1. sizes \in SUBSET Nat /\ sizes # {}
      BY <1>1
    <2>2. Min(sizes) \in sizes /\ \A n \in sizes : Min(sizes) <= n
      <3> HIDE DEF sizes
      <3> QED
        BY <2>1, MinProperties
    <2>3. PICK u \in U : Min(sizes) = Cardinality(reach(u))
      BY <2>2
    <2>4. \A v \in U : Cardinality(reach(v)) \in sizes
      OBVIOUS
    <2>5. \A v \in U : Cardinality(reach(u)) <= Cardinality(reach(v))
      BY <2>2, <2>3, <2>4
    <2> QED
      BY <2>5
  <1>3. PICK v \in U : v \in edges[u]
    OBVIOUS
  <1>4. v \in Closure(edges, u)
    BY <1>3, ClosureClosed
  <1>5. reach(v) \in SUBSET reach(u)
    <2>1. Closure(edges, v) \subseteq Closure(edges, u)
      BY <1>4, ClosureTransitive
    <2> QED
      BY <2>1
  <1>6. reach(v) = reach(u)
    <2>1. Cardinality(reach(v)) <= Cardinality(reach(u)) /\ IsFiniteSet(reach(u))
      BY <1>1, <1>5, FS_Subset
    <2> HIDE DEF reach, sizes
    <2>2. Cardinality(reach(v)) = Cardinality(reach(u))
      <3>1. Cardinality(reach(u)) <= Cardinality(reach(v))
        BY <1>2
      <3>2. Cardinality(reach(u)) \in Nat /\ Cardinality(reach(v)) \in Nat
        BY <1>1
      <3> QED
        BY <2>1, <3>1, <3>2
    <2> QED
      BY <1>5, <2>1, <2>2, FS_Subset
  <1>7. v \in Closure(edges, v)
    BY <1>3, <1>4, <1>6
  <1> QED
    BY <1>7

\* A sequence without repetitions is no longer than its set is large.
LEMMA DistinctFits ==
    ASSUME NEW decl, IsFiniteSet(decl), NEW s \in Seq(decl), Distinct(s)
    PROVE  Len(s) \in 0..Cardinality(decl)
  <1>1. s \in [1..Len(s) -> decl] /\ Len(s) \in Nat
    BY LenProperties
  <1>2. s \in Injection(1..Len(s), decl)
    BY <1>1, Fun_IsInj DEF Distinct
  <1>3. Cardinality(1..Len(s)) <= Cardinality(decl)
    BY <1>2, FS_Injection
  <1> DEFINE n == Len(s)
  <1>4. Cardinality(1..n) = n
    <2>1. n \in Nat
      BY <1>1
    <2> HIDE DEF n
    <2>2. Cardinality(1..n) = IF 1 > n THEN 0 ELSE n - 1 + 1
      BY <2>1, FS_Interval
    <2> QED
      BY <2>1, <2>2
  <1> QED
    BY <1>1, <1>3, <1>4, FS_CardinalityType

\* A sequence without repetitions that holds all of decl is as long as decl
\* is large.
LEMMA CompleteLength ==
    ASSUME NEW decl, IsFiniteSet(decl), NEW s \in Seq(decl), Distinct(s), decl = ToSet(s)
    PROVE  Len(s) = Cardinality(decl)
  <1> DEFINE n == Len(s)
  <1>1. s \in [1..n -> decl] /\ n \in Nat /\ ToSet(s) = {s[i] : i \in 1..n}
    BY LenProperties, ToSetOfSeq
  <1>2. s \in Injection(1..n, decl)
    BY <1>1, Fun_IsInj DEF Distinct
  <1>3. \A x \in decl : \E i \in 1..n : s[i] = x
    BY <1>1
  <1> HIDE DEF n
  <1>4. s \in Surjection(1..n, decl)
    BY <1>1, <1>3, Fun_IsSurj
  <1>5. Cardinality(1..n) = Cardinality(decl)
    BY <1>2, <1>4, FS_Injection
  <1>6. Cardinality(1..n) = n
    <2>1. n \in Nat
      BY <1>1
    <2>2. Cardinality(1..n) = IF 1 > n THEN 0 ELSE n - 1 + 1
      BY <2>1, FS_Interval
    <2> QED
      BY <2>1, <2>2
  <1> QED
    BY <1>5, <1>6 DEF n

\* Order stops early only when nothing is ready.
LEMMA StuckOrComplete ==
    ASSUME NEW decl \in SUBSET Nat, IsFiniteSet(decl), NEW deps
    PROVE  \/ Ready(decl, deps, TopoOrder(decl, deps)) = {}
           \/ Len(TopoOrder(decl, deps)) = Cardinality(decl)
  <1> DEFINE N == Cardinality(decl)
             h == Pops(decl, deps)
             S == {n \in 0..N : Ready(decl, deps, h[n]) = {} \/ Len(h[n]) = n}
  <1>1. N \in Nat
    BY FS_CardinalityType
  <1>2. /\ h \in [0..N -> Seq(decl)] /\ h[0] = <<>>
        /\ \A n \in 1..N : h[n] = Popped(decl, deps, h[n - 1])
    BY PopsUnfolds
  <1> HIDE DEF N, h
  <1>3. 0 \in S
    BY <1>1, <1>2
  <1>4. ASSUME NEW n \in 0..(N - 1), n \in S PROVE n + 1 \in S
    <2>1. n + 1 \in 1..N /\ n + 1 \in 0..N /\ n \in 0..N /\ (n + 1) - 1 = n
      BY <1>1
    <2>2. h[n + 1] = Popped(decl, deps, h[n]) /\ h[n] \in Seq(decl)
      BY <1>2, <2>1
    <2>3. CASE Ready(decl, deps, h[n]) = {}
      BY <2>1, <2>2, <2>3 DEF Popped
    <2>4. CASE Ready(decl, deps, h[n]) # {} /\ Len(h[n]) = n
      <3> DEFINE next == Min(Ready(decl, deps, h[n]))
      <3>1. Ready(decl, deps, h[n]) \in SUBSET Nat
        BY DEF Ready
      <3>2. next \in decl
        BY <2>4, <3>1, MinProperties DEF Ready
      <3>3. h[n + 1] = Append(h[n], next)
        BY <2>2, <2>4 DEF Popped
      <3> HIDE DEF next
      <3>4. Len(h[n + 1]) = n + 1
        BY <2>2, <2>4, <3>2, <3>3, AppendProperties
      <3> QED
        BY <2>1, <3>4
    <2> QED
      BY <1>4, <2>3, <2>4
  <1>5. N \in S
    <2> HIDE DEF S
    <2> QED
      BY <1>1, <1>3, <1>4, Induction
  <1> QED
    BY <1>5 DEF TopoOrder, N, h

\* A configuration that references declared resources only can be ordered if
\* and only if no resource depends on itself, directly or not.
THEOREM OrderableIffAcyclic ==
    ASSUME NEW decl \in SUBSET Nat, IsFiniteSet(decl), NEW deps \in [decl -> SUBSET decl]
    PROVE  Orderable(decl, deps) <=> \A a \in decl : a \notin Closure(deps, a)
  <1> DEFINE t == TopoOrder(decl, deps)
  <1>1. Topological(decl, deps, t)
    BY TopoOrderTopological
  <1>2. t \in Seq(decl) /\ Distinct(t)
    BY <1>1 DEF Topological
  <1>3. Orderable(decl, deps) <=> Len(t) = Cardinality(decl)
    BY DEF Orderable
  <1>4. Graph(decl, decl, deps)
    BY DEF Graph
  <1>5. \/ Ready(decl, deps, t) = {}
        \/ Len(t) = Cardinality(decl)
    BY StuckOrComplete
  <1> HIDE DEF t
  <1>6. ToSet(t) = {t[i] : i \in 1..Len(t)} /\ ToSet(t) \subseteq decl /\ Len(t) \in Nat
    BY <1>2, ToSetOfSeq, LenProperties
  <1>7. ASSUME Len(t) = Cardinality(decl), NEW a \in decl, a \in Closure(deps, a)
        PROVE  FALSE
    <2>1. ToSet(t) = decl
      BY <1>2, <1>7, FullOrder
    <2>2. PICK i \in 1..Len(t) : a = t[i]
      BY <1>6, <2>1
    <2>3. PICK k \in 1..(i - 1) : a = t[k]
      BY <1>1, <1>4, <1>7, <2>2, DependenciesEarlier
    <2>4. k \in 1..Len(t) /\ k # i
      BY <1>6, <2>2, <2>3
    <2> QED
      BY <1>2, <2>2, <2>3, <2>4 DEF Distinct
  <1>8. ASSUME Len(t) # Cardinality(decl)
        PROVE  \E a \in decl : a \in Closure(deps, a)
    <2> DEFINE U == decl \ ToSet(t)
    <2>1. U # {}
      <3> SUFFICES ASSUME U = {} PROVE FALSE
        OBVIOUS
      <3>1. decl = ToSet(t)
        BY <1>6
      <3>2. Len(t) = Cardinality(decl)
        BY <1>2, <3>1, CompleteLength
      <3> QED
        BY <1>8, <3>2
    <2>2. \A u \in U : deps[u] \cap U # {}
      <3> SUFFICES ASSUME NEW u \in U, deps[u] \cap U = {} PROVE FALSE
        OBVIOUS
      <3>1. deps[u] \subseteq ToSet(t)
        OBVIOUS
      <3>2. u \in Ready(decl, deps, t)
        BY <3>1 DEF Ready
      <3> QED
        BY <1>5, <1>8, <3>2
    <2>3. U \in SUBSET decl
      OBVIOUS
    <2> HIDE DEF U
    <2>4. \E u \in U : u \in Closure(deps, u)
      BY <2>1, <2>2, <2>3, CycleAmong
    <2> QED
      BY <2>3, <2>4
  <1> QED
    BY <1>3, <1>7, <1>8
=============================================================================
