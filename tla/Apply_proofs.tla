---------------------------- MODULE Apply_proofs ----------------------------
(***************************************************************************)
(* The steps of Apply and the invariants of its loop.  Every helper and    *)
(* every action of the module is described once, as a relation between     *)
(* the fields of a process's memory before and after (AfterConclude,       *)
(* AfterRecord, AfterMove, ...), so that the invariants here and in        *)
(* ApplyOutcome_proofs are proved from these relations and not from the    *)
(* actions' text.  Typed, the types together with what the phase of a      *)
(* process says about its memory, is the inductive invariant below all     *)
(* others; on it rest those of the lock (Held) and of the loop's           *)
(* bookkeeping (WorkInv), from which follows that provider calls are made  *)
(* in dependency order.                                                    *)
(***************************************************************************)
EXTENDS Apply, DependencyGraph_proofs

----------------------------------------------------------------------------
\* Initial values have their types.
LEMMA InitialTypes ==
    /\ Null \in Objects \cup {Null} /\ EmptyBody \in Bodies /\ NoMarker \in Markers
    /\ Reg!Absent \in Documents
    /\ NoPlan \in Plan
    /\ Idle \in Runs
  <1>1. EmptyBody \in Bodies /\ NoMarker \in Markers
    BY DEF EmptyBody, NoMarker, Bodies, Resources, Markers
  <1>2. Reg!Absent \in Documents
    BY <1>1 DEF Reg!Absent, Documents
  <1>3. NoPlan \in Plan
    BY <1>2 DEF NoPlan, Plan, Changes, Actions
  <1>4. <<>> \in Seq(Addrs)
    BY EmptySeq
  <1>5. EmptyBody.res \in Resources
    BY <1>1 DEF Bodies
  <1>6. Idle \in Runs
    BY <1>1, <1>2, <1>3, <1>4, <1>5 DEF Idle, Runs
  <1> QED
    BY <1>1, <1>2, <1>3, <1>6

\* What a process holds of the configuration is a graph over Addrs.
LEMMA Configuration ==
    ASSUME NEW r \in Runs
    PROVE  /\ r.cfg.decl \in SUBSET Addrs
           /\ r.cfg.deps \in [Addrs -> SUBSET Addrs]
           /\ \A a \in Addrs \ r.cfg.decl : r.cfg.deps[a] = {}
  <1> DEFINE none == [decl |-> {}, deps |-> [a \in Addrs |-> {}]]
  <1>1. Idle.cfg = none
    BY DEF Idle
  <1>2. r.cfg \in Configs \/ r.cfg = none
    BY <1>1 DEF Runs
  <1>3. CASE r.cfg \in Configs
    BY <1>3, ApplyAssumption
  <1>4. CASE r.cfg = none
    BY <1>4
  <1> QED
    BY <1>2, <1>3, <1>4

\* Removed resources, which reference nothing any more, are all listed once.
LEMMA RemovedOrder ==
    ASSUME NEW S \in SUBSET Addrs
    PROVE  Lexical(S) \in Seq(S) /\ Distinct(Lexical(S)) /\ ToSet(Lexical(S)) = S
  <1> DEFINE deps == [a \in S |-> {}]
  <1>1. S \in SUBSET Nat /\ IsFiniteSet(S)
    BY ApplyAssumption, FS_Subset
  <1>2. \A a \in S : deps[a] = {}
    OBVIOUS
  <1> HIDE DEF deps
  <1>3. Len(TopoOrder(S, deps)) = Cardinality(S)
    BY <1>1, <1>2, UnrelatedAllOrdered
  <1>4. Topological(S, deps, TopoOrder(S, deps))
    BY <1>1, TopoOrderTopological
  <1>5. ToSet(TopoOrder(S, deps)) = S
    BY <1>1, <1>3, <1>4, FullOrder DEF Topological
  <1> QED
    BY <1>4, <1>5 DEF Topological, Lexical, deps

----------------------------------------------------------------------------
\* The execution order.

\* The planned changes that must be over before a's may start.
Before(r, a) ==
    IF a \in Deletes(r) THEN Closure(Dependents(r.cfg.deps), a) \cap Planned(r)
    ELSE Closure(r.cfg.deps, a) \cap (Planned(r) \ Deletes(r))

\* Nothing in s comes after an address it must precede.
InOrder(r, s) ==
    \A i, j \in 1..Len(s) :
        i <= j /\ ~StateOnly(r, s[i]) => s[j] \notin Before(r, s[i])

\* The execution order is a sequence of addresses, whatever the configuration.
LEMMA ExecutionOrderType ==
    ASSUME NEW r \in Runs
    PROVE  ExecutionOrder(r) \in Seq(Addrs)
  <1> DEFINE order == TopoOrder(r.cfg.decl, r.cfg.deps)
             removed == Deletes(r) \ r.cfg.decl
             writes == Planned(r) \ Deletes(r)
             gone == Lexical(removed)
  <1>1. r.cfg.decl \in SUBSET Addrs /\ r.cfg.decl \in SUBSET Nat /\ IsFiniteSet(r.cfg.decl)
    BY Configuration, ApplyAssumption, FS_Subset
  <1>2. order \in Seq(r.cfg.decl) /\ Distinct(order)
    BY <1>1, TopoOrderTopological DEF Topological
  <1>3. removed \in SUBSET Addrs
    BY DEF Deletes
  <1>4. gone \in Seq(removed)
    BY <1>3, RemovedOrder
  <1> HIDE DEF order, removed, gone, writes
  <1>5. order \in Seq(Addrs) /\ gone \in Seq(Addrs)
    BY <1>1, <1>2, <1>3, <1>4, SeqMonotonic
  <1>6. Selected(order, writes) \in Seq(Addrs) /\ Selected(order, Deletes(r)) \in Seq(Addrs)
    BY <1>2, <1>5, SelectedProperties
  <1>7. Reverse(Selected(order, Deletes(r))) \in Seq(Addrs) /\ Reverse(gone) \in Seq(Addrs)
    BY <1>5, <1>6, ReverseProperties
  <1>8. ExecutionOrder(r) = Selected(order, writes)
                              \o Reverse(Selected(order, Deletes(r)))
                              \o Reverse(gone)
    BY DEF ExecutionOrder, order, removed, gone, writes
  <1> QED
    BY <1>6, <1>7, <1>8, ConcatProperties

\* What Apply executes is every planned change, once, none of them after one
\* that has to wait for it.
THEOREM ExecutionOrderSound ==
    ASSUME NEW r \in Runs, Orderable(r.cfg.decl, r.cfg.deps),
           Planned(r) \ Deletes(r) \subseteq r.cfg.decl
    PROVE  /\ Distinct(ExecutionOrder(r))
           /\ ToSet(ExecutionOrder(r)) = Planned(r)
           /\ InOrder(r, ExecutionOrder(r))
  <1> DEFINE t == TopoOrder(r.cfg.decl, r.cfg.deps)
             removed == Deletes(r) \ r.cfg.decl
             W == Planned(r) \ Deletes(r)
             w == Selected(t, W)
             sel == Selected(t, Deletes(r))
             d == Reverse(sel)
             gone == Lexical(removed)
             z == Reverse(gone)
             s == ExecutionOrder(r)
  <1>0. /\ r.cfg.decl \in SUBSET Addrs /\ r.cfg.decl \in SUBSET Nat
        /\ IsFiniteSet(r.cfg.decl) /\ Addrs \in SUBSET Nat /\ IsFiniteSet(Addrs)
        /\ Graph(Addrs, r.cfg.decl, r.cfg.deps)
    BY Configuration, ApplyAssumption, FS_Subset DEF Graph
  <1>1. Topological(r.cfg.decl, r.cfg.deps, t) /\ t \in Seq(r.cfg.decl) /\ Distinct(t)
    BY <1>0, TopoOrderTopological DEF Topological
  <1>2. t \in Seq(Addrs)
    BY <1>0, <1>1, SeqMonotonic
  <1>3. ToSet(t) = r.cfg.decl
    BY <1>0, <1>1, FullOrder DEF Orderable
  <1>4. Deletes(r) \subseteq Planned(r) /\ Planned(r) \subseteq Addrs
    BY DEF Planned, Deletes
  <1>5. s = (w \o d) \o z
    BY DEF ExecutionOrder
  <1>6. /\ gone \in Seq(removed) /\ Distinct(gone) /\ ToSet(gone) = removed
        /\ gone \in Seq(Addrs)
    <2>1. removed \in SUBSET Addrs
      BY <1>4
    <2>2. gone \in Seq(removed) /\ Distinct(gone) /\ ToSet(gone) = removed
      BY <2>1, RemovedOrder
    <2> HIDE DEF gone
    <2> QED
      BY <2>1, <2>2, SeqMonotonic
  <1> HIDE DEF s, t
  <1>7. /\ w \in Seq(Addrs) /\ Distinct(w) /\ ToSet(w) = r.cfg.decl \cap W
        /\ Filtered(t, W, Len(t), w)
    BY <1>1, <1>2, <1>3, SelectedProperties
  <1>8. /\ sel \in Seq(Addrs) /\ Distinct(sel) /\ ToSet(sel) = r.cfg.decl \cap Deletes(r)
        /\ Filtered(t, Deletes(r), Len(t), sel)
    BY <1>1, <1>2, <1>3, SelectedProperties
  <1> HIDE DEF w, sel, gone
  <1>9. /\ d \in Seq(Addrs) /\ Distinct(d) /\ ToSet(d) = r.cfg.decl \cap Deletes(r)
        /\ Len(d) = Len(sel) /\ \A i \in 1..Len(sel) : d[i] = sel[(Len(sel) - i) + 1]
    BY <1>8, ReverseProperties
  <1>10. z \in Seq(Addrs) /\ Distinct(z) /\ ToSet(z) = removed
    BY <1>6, ReverseProperties
  <1> HIDE DEF d, z
  <1>11. Distinct(w \o d) /\ ToSet(w \o d) = ToSet(w) \cup ToSet(d) /\ w \o d \in Seq(Addrs)
    BY <1>7, <1>9, ConcatDistinct, ConcatProperties
  <1>12. Distinct(s) /\ ToSet(s) = (ToSet(w) \cup ToSet(d)) \cup ToSet(z)
    <2> DEFINE wd == w \o d
    <2>1. \A x \in ToSet(wd) : x \notin ToSet(z)
      BY <1>7, <1>9, <1>10, <1>11
    <2>2. wd \in Seq(Addrs) /\ Distinct(wd)
      BY <1>11
    <2> HIDE DEF wd
    <2>3. Distinct(wd \o z) /\ ToSet(wd \o z) = ToSet(wd) \cup ToSet(z)
      BY <1>10, <2>1, <2>2, ConcatDistinct
    <2> QED
      BY <1>5, <1>11, <2>3 DEF wd
  <1>13. ToSet(s) = Planned(r)
    BY <1>4, <1>7, <1>9, <1>10, <1>12
  \* Where a member of s is.
  <1>14. /\ Len(w) \in Nat /\ Len(d) \in Nat /\ Len(z) \in Nat /\ Len(sel) \in Nat
         /\ Len(t) \in Nat
    BY <1>2, <1>7, <1>8, <1>9, <1>10, LenProperties
  <1>15. ASSUME NEW i \in 1..Len(s)
         PROVE  \/ i \in 1..Len(w) /\ s[i] = w[i] /\ s[i] \in ToSet(w)
                \/ i - Len(w) \in 1..Len(d) /\ s[i] = d[i - Len(w)] /\ s[i] \in ToSet(d)
                \/ i > Len(w) + Len(d) /\ s[i] \in ToSet(z)
    <2>1. /\ Len(s) = (Len(w) + Len(d)) + Len(z) /\ Len(w \o d) = Len(w) + Len(d)
          /\ s[i] = IF i <= Len(w) + Len(d) THEN (w \o d)[i] ELSE z[i - (Len(w) + Len(d))]
      <3>1. Len(w \o d) = Len(w) + Len(d)
        BY <1>7, <1>9, ConcatProperties
      <3>2. /\ Len((w \o d) \o z) = Len(w \o d) + Len(z)
            /\ \A k \in 1..(Len(w \o d) + Len(z)) :
                  ((w \o d) \o z)[k] = IF k <= Len(w \o d) THEN (w \o d)[k]
                                       ELSE z[k - Len(w \o d)]
        BY <1>10, <1>11, ConcatProperties
      <3> QED
        BY <1>5, <3>1, <3>2
    <2>2. CASE i <= Len(w)
      <3>1. s[i] = w[i]
        BY <1>7, <1>9, <1>14, <2>1, <2>2, ConcatProperties
      <3>2. i \in 1..Len(w)
        BY <1>14, <2>2
      <3>3. w[i] \in ToSet(w)
        BY <1>7, <3>2, ToSetOfSeq
      <3> QED
        BY <3>1, <3>2, <3>3
    <2>3. CASE i > Len(w) /\ i <= Len(w) + Len(d)
      <3>1. s[i] = d[i - Len(w)] /\ i - Len(w) \in 1..Len(d)
        BY <1>7, <1>9, <1>14, <2>1, <2>3, ConcatProperties
      <3>2. d \in Seq(Addrs)
        BY <1>9
      <3>3. d[i - Len(w)] \in ToSet(d)
        BY <3>1, <3>2, ToSetOfSeq
      <3> QED
        BY <3>1, <3>3
    <2>4. CASE i > Len(w) + Len(d)
      <3>1. s[i] = z[i - (Len(w) + Len(d))] /\ i - (Len(w) + Len(d)) \in 1..Len(z)
        BY <1>14, <2>1, <2>4
      <3>2. s[i] \in ToSet(z)
        BY <1>10, <3>1, ToSetOfSeq
      <3> QED
        BY <2>4, <3>2
    <2> QED
      BY <1>14, <2>2, <2>3, <2>4
  <1>16. InOrder(r, s)
    <2> SUFFICES ASSUME NEW i \in 1..Len(s), NEW j \in 1..Len(s), i <= j,
                        ~StateOnly(r, s[i]), s[j] \in Before(r, s[i])
                 PROVE  FALSE
      BY DEF InOrder
    <2>1. i \in Nat /\ j \in Nat
      OBVIOUS
    <2>2. CASE i \in 1..Len(w) /\ s[i] = w[i] /\ s[i] \in ToSet(w)
      <3>1. s[i] \in r.cfg.decl /\ s[i] \notin Deletes(r)
        BY <1>7, <2>2
      <3>2. s[j] \in Closure(r.cfg.deps, s[i]) /\ s[j] \in W
        BY <3>1 DEF Before
      <3>3. Earlier(t, s[j], s[i])
        BY <1>0, <1>1, <1>3, <3>1, <3>2, ClosuresAround
      <3>4. j \in 1..Len(w) /\ s[j] = w[j]
        BY <1>9, <1>10, <1>15, <3>2
      <3>5. s[i] = s[j] \/ Earlier(t, s[i], s[j])
        <4>1. CASE i = j
          BY <4>1
        <4>2. CASE i < j
          <5>1. \E k, m \in 1..Len(t) : k < m /\ w[i] = t[k] /\ w[j] = t[m]
            BY <1>7, <2>2, <3>4, <4>2 DEF Filtered
          <5> QED
            BY <2>2, <3>4, <5>1 DEF Earlier
        <4> QED
          BY <2>1, <4>1, <4>2
      <3> QED
        BY <1>1, <3>3, <3>5, EarlierStrict
    <2>3. CASE i - Len(w) \in 1..Len(d) /\ s[i] = d[i - Len(w)] /\ s[i] \in ToSet(d)
      <3>1. s[i] \in r.cfg.decl /\ s[i] \in Deletes(r)
        BY <1>9, <2>3
      <3>2. s[j] \in Closure(Dependents(r.cfg.deps), s[i])
        BY <3>1 DEF Before
      <3>3. Earlier(t, s[i], s[j])
        BY <1>0, <1>1, <1>3, <3>1, <3>2, ClosuresAround
      <3>4. s[j] \in r.cfg.decl
        BY <1>1, <1>3, <3>3, ToSetOfSeq DEF Earlier
      <3>5. j - Len(w) \in 1..Len(d) /\ s[j] = d[j - Len(w)]
        <4>1. s[j] \notin ToSet(z)
          BY <1>10, <3>4
        <4>2. j \notin 1..Len(w)
          BY <1>14, <2>1, <2>3
        <4> QED
          BY <1>15, <4>1, <4>2
      <3> DEFINE k == (Len(sel) - (i - Len(w))) + 1
                 m == (Len(sel) - (j - Len(w))) + 1
      <3>6. k \in 1..Len(sel) /\ m \in 1..Len(sel) /\ m <= k
        BY <1>9, <1>14, <2>1, <2>3, <3>5
      <3>7. s[i] = sel[k] /\ s[j] = sel[m]
        BY <1>9, <2>3, <3>5
      <3> HIDE DEF k, m
      <3>8. s[i] = s[j] \/ Earlier(t, s[j], s[i])
        <4>1. CASE k = m
          BY <3>7, <4>1
        <4>2. CASE m < k
          <5>1. \E g, h \in 1..Len(t) : g < h /\ sel[m] = t[g] /\ sel[k] = t[h]
            BY <1>8, <3>6, <4>2 DEF Filtered
          <5> QED
            BY <3>7, <5>1 DEF Earlier
        <4> QED
          BY <3>6, <4>1, <4>2
      <3> QED
        BY <1>1, <3>3, <3>8, EarlierStrict
    <2>4. CASE s[i] \in ToSet(z)
      BY <1>10, <2>4 DEF StateOnly
    <2> QED
      BY <1>15, <2>2, <2>3, <2>4
  <1> QED
    BY <1>12, <1>13, <1>16 DEF s

----------------------------------------------------------------------------
\* What the helpers do to a process's memory, field by field.

\* The same command on the same plan, configuration and loaded document.
SameInputs(c, r) ==
    /\ c.cmd = r.cmd /\ c.plan = r.plan /\ c.cfg = r.cfg
    /\ c.start = r.start /\ c.settled = r.settled

\* The same progress through the planned changes.
SameProgress(c, r) ==
    /\ c.todo = r.todo /\ c.outcome = r.outcome /\ c.failed = r.failed
    /\ c.lost = r.lost

\* The list without its head.
Rest(s) == Tail(s)
\* A map with one entry changed.
Updated(f, a, v) == [f EXCEPT ![a] = v]
\* A marker with another list of applied changes.
Advanced(m, S) == [m EXCEPT !.applied = S]

\* What is planned, and what must wait for what, depends on the inputs alone.
LEMMA SameInputsSameWork ==
    ASSUME NEW r, NEW c, SameInputs(c, r)
    PROVE  /\ Planned(c) = Planned(r) /\ Deletes(c) = Deletes(r)
           /\ \A a : /\ Change(c, a) = Change(r, a)
                     /\ StateOnly(c, a) = StateOnly(r, a)
                     /\ Prerequisites(c, a) = Prerequisites(r, a)
                     /\ Before(c, a) = Before(r, a)
  <1>1. c.plan = r.plan /\ c.cfg = r.cfg
    BY DEF SameInputs
  <1>2. Planned(c) = Planned(r) /\ Deletes(c) = Deletes(r)
    BY <1>1 DEF Planned, Deletes, Change
  <1> QED
    BY <1>1, <1>2 DEF Change, StateOnly, Prerequisites, Before

\* The head of the list has got its verdict.
AfterConclude(c, r, a, verdict) ==
    /\ c \in Runs
    /\ c.pc = "exec" /\ c.saving = "none" /\ c.next = "none" /\ c.undo = Nothing
    /\ c.todo = Rest(r.todo)
    /\ c.outcome = Updated(r.outcome, a, verdict)
    /\ c.failed = IF verdict = "failed" /\ r.failed = {} THEN {a} ELSE r.failed
    /\ c.marker = IF verdict = "completed"
                  THEN Advanced(r.marker, Completed(c)) ELSE r.marker
    /\ c.res = r.res /\ c.lost = r.lost /\ c.exit = r.exit
    /\ SameInputs(c, r)

\* Conclude gives a change its verdict and goes on with the rest.
LEMMA Concluding ==
    ASSUME NEW r \in Runs, NEW a \in Addrs, r.todo # <<>>,
           NEW verdict \in {"completed", "failed", "blocked"}
    PROVE  AfterConclude(Conclude(r, a, verdict), r, a, verdict)
  <1> DEFINE done == [r EXCEPT !.pc = "exec", !.todo = Tail(@), !.outcome[a] = verdict,
                               !.saving = "none", !.next = "none", !.undo = Nothing]
             c == Conclude(r, a, verdict)
  <1>1. Tail(r.todo) \in Seq(Addrs)
    BY HeadTailProperties DEF Runs
  <1>2. /\ done \in Runs
        /\ done.pc = "exec" /\ done.saving = "none" /\ done.next = "none"
        /\ done.undo = Nothing /\ done.todo = Tail(r.todo)
        /\ done.outcome = [r.outcome EXCEPT ![a] = verdict]
        /\ done.failed = r.failed /\ done.marker = r.marker
        /\ done.res = r.res /\ done.lost = r.lost /\ done.exit = r.exit
        /\ SameInputs(done, r)
    <2>1. [r.outcome EXCEPT ![a] = verdict]
            \in [Addrs -> {"none", "completed", "failed", "blocked"}]
      BY DEF Runs
    <2>2. done = [r EXCEPT !.pc = "exec", !.todo = Tail(r.todo),
                           !.outcome = [r.outcome EXCEPT ![a] = verdict],
                           !.saving = "none", !.next = "none", !.undo = Nothing]
      BY DEF Runs
    <2> HIDE DEF done
    <2> QED
      BY <1>1, <2>1, <2>2, ZenonT(30) DEF Runs, SameInputs
  <1> HIDE DEF done
  <1>3. c = CASE verdict = "completed" -> [done EXCEPT !.marker.applied = Completed(done)]
              [] verdict = "failed" /\ r.failed = {} -> [done EXCEPT !.failed = {a}]
              [] OTHER -> done
    BY DEF Conclude, done
  <1> HIDE DEF c
  <1>4. CASE verdict = "completed"
    <2> DEFINE m == [done.marker EXCEPT !.applied = Completed(done)]
    <2>1. c = [done EXCEPT !.marker = m]
      BY <1>3, <1>4
    <2>2. Completed(done) \in SUBSET Addrs
      BY DEF Completed
    <2>3. m \in Markers
      BY <1>2, <2>2 DEF Runs, Markers
    <2> HIDE DEF m
    <2>4. c \in Runs /\ c.outcome = done.outcome /\ c.marker = m /\ c.failed = done.failed
      BY <1>2, <2>1, <2>3 DEF Runs
    <2>5. /\ c.pc = done.pc /\ c.saving = done.saving /\ c.next = done.next
          /\ c.undo = done.undo /\ c.todo = done.todo /\ c.res = done.res
          /\ c.lost = done.lost /\ c.exit = done.exit
          /\ SameInputs(c, done)
      BY <1>2, <2>1, <2>3 DEF Runs, SameInputs
    <2>6. Completed(c) = Completed(done)
      BY <2>4 DEF Completed
    <2>7. c.marker = Advanced(r.marker, Completed(c))
      BY <1>2, <2>4, <2>6 DEF m, Advanced
    <2> QED
      BY <1>2, <1>4, <2>4, <2>5, <2>7 DEF AfterConclude, SameInputs, Rest, Updated, c
  <1>5. CASE verdict = "failed" /\ r.failed = {}
    <2>1. c = [done EXCEPT !.failed = {a}]
      BY <1>3, <1>5
    <2>2. c \in Runs /\ c.outcome = done.outcome /\ c.marker = done.marker /\ c.failed = {a}
      BY <1>2, <2>1 DEF Runs
    <2>3. /\ c.pc = done.pc /\ c.saving = done.saving /\ c.next = done.next
          /\ c.undo = done.undo /\ c.todo = done.todo /\ c.res = done.res
          /\ c.lost = done.lost /\ c.exit = done.exit
          /\ SameInputs(c, done)
      BY <1>2, <2>1 DEF Runs, SameInputs
    <2> QED
      BY <1>2, <1>5, <2>2, <2>3 DEF AfterConclude, SameInputs, Rest, Updated, c
  <1>6. CASE verdict # "completed" /\ ~(verdict = "failed" /\ r.failed = {})
    <2>1. c = done
      BY <1>3, <1>6
    <2> QED
      BY <1>2, <1>6, <2>1 DEF AfterConclude, SameInputs, Rest, Updated, c
  <1> QED
    BY <1>4, <1>5, <1>6

\* A leg's result is in memory and about to be saved.
AfterRecord(c, r, a, entry, next, undo) ==
    /\ c \in Runs
    /\ c.pc = "save" /\ c.saving = "leg" /\ c.next = next /\ c.undo = undo
    /\ c.res = Updated(r.res, a, entry)
    /\ c.marker = r.marker /\ c.exit = r.exit
    /\ SameInputs(c, r) /\ SameProgress(c, r)

\* Record puts a leg's result into memory and starts its save.
LEMMA Recording ==
    ASSUME NEW r \in Runs, NEW a \in Addrs, NEW entry \in Objects \cup {Null},
           NEW next \in {"create", "completed", "failed"},
           NEW undo \in Objects \cup {Null, Nothing}
    PROVE  AfterRecord(Record(r, a, entry, next, undo), r, a, entry, next, undo)
  <1> DEFINE c == Record(r, a, entry, next, undo)
             res == [r.res EXCEPT ![a] = entry]
  <1>1. res \in Resources
    BY DEF Runs, Resources
  <1>2. c = [r EXCEPT !.res = res, !.pc = "save", !.saving = "leg",
                      !.next = next, !.undo = undo]
    BY DEF Record
  <1> HIDE DEF c, res
  <1>3. c \in Runs
    BY <1>1, <1>2, ZenonT(30) DEF Runs
  <1>4. /\ c.pc = "save" /\ c.saving = "leg" /\ c.next = next /\ c.undo = undo
        /\ c.res = res
    BY <1>1, <1>2 DEF Runs
  <1>5. /\ c.marker = r.marker /\ c.exit = r.exit
        /\ SameInputs(c, r) /\ SameProgress(c, r)
    BY <1>2 DEF Runs, SameInputs, SameProgress
  <1> QED
    BY <1>3, <1>4, <1>5 DEF AfterRecord, Updated, c, res

\* The state file has been read.
AfterLoad(c, r, pc) ==
    /\ c \in Runs
    /\ c.pc = pc /\ c.start = current
    /\ c.res = current.body.res /\ c.marker = current.body.marker
    /\ c.settled = IF survivors = {current} THEN "yes" ELSE "no"
    /\ c.cmd = r.cmd /\ c.plan = r.plan /\ c.cfg = r.cfg
    /\ c.saving = r.saving /\ c.next = r.next /\ c.undo = r.undo /\ c.exit = r.exit
    /\ SameProgress(c, r)

\* Loaded copies the current document and remembers whether it is durable.
LEMMA Loading ==
    ASSUME NEW r \in Runs, NEW pc \in {"planning", "loaded"}, current \in Documents
    PROVE  AfterLoad(Loaded(r, pc), r, pc)
  <1> DEFINE res == current.body.res
             marker == current.body.marker
             settled == IF survivors = {current} THEN "yes" ELSE "no"
             c == Loaded(r, pc)
  <1>1. res \in Resources /\ marker \in Markers
    BY DEF Documents, Bodies
  <1>2. c = [r EXCEPT !.pc = pc, !.start = current, !.res = res,
                      !.marker = marker, !.settled = settled]
    BY DEF Loaded
  <1>3. settled \in {"yes", "no"}
    OBVIOUS
  <1> HIDE DEF res, marker, settled, c
  <1>4. c \in Runs
    BY <1>1, <1>2, <1>3 DEF Runs
  <1>5. /\ c.pc = pc /\ c.start = current
        /\ c.res = res /\ c.marker = marker /\ c.settled = settled
    BY <1>2 DEF Runs
  <1>6. c.cmd = r.cmd /\ c.plan = r.plan /\ c.cfg = r.cfg /\ SameProgress(c, r)
    BY <1>2 DEF Runs, SameProgress
  <1>7. c.saving = r.saving /\ c.next = r.next /\ c.undo = r.undo /\ c.exit = r.exit
    BY <1>2 DEF Runs
  <1> QED
    BY <1>4, <1>5, <1>6, <1>7 DEF AfterLoad, res, marker, settled, c

\* A step that moves on with another list of changes, phase or marker.
AfterMove(c, r, pc, saving, next) ==
    /\ c \in Runs
    /\ c.pc = pc /\ c.saving = saving /\ c.next = next
    /\ c.res = r.res /\ c.undo = r.undo
    /\ c.outcome = r.outcome /\ c.failed = r.failed /\ c.lost = r.lost
    /\ SameInputs(c, r)

\* Checked fixes the execution order and changes nothing else.
LEMMA Checking ==
    ASSUME NEW r \in Runs
    PROVE  /\ AfterMove(Checked(r), r, "loaded", r.saving, r.next)
           /\ Checked(r).todo = ExecutionOrder(r)
           /\ Checked(r).marker = r.marker /\ Checked(r).exit = r.exit
  <1> DEFINE order == ExecutionOrder(r)
             c == Checked(r)
  <1>1. order \in Seq(Addrs)
    BY ExecutionOrderType
  <1>2. c = [r EXCEPT !.pc = "loaded", !.todo = order]
    BY DEF Checked
  <1> HIDE DEF order, c
  <1>3. c \in Runs /\ c.pc = "loaded" /\ c.todo = order
    BY <1>1, <1>2 DEF Runs
  <1>4. /\ c.res = r.res /\ c.undo = r.undo /\ c.saving = r.saving /\ c.next = r.next
        /\ c.outcome = r.outcome /\ c.failed = r.failed /\ c.lost = r.lost
        /\ c.marker = r.marker /\ c.exit = r.exit
        /\ SameInputs(c, r)
    BY <1>2 DEF Runs, SameInputs
  <1> QED
    BY <1>3, <1>4 DEF AfterMove, order, c

\* The markers a run writes have the marker's type.
LEMMA MarkersOfRun ==
    ASSUME NEW r \in Runs
    PROVE  InFlight(r) \in Markers /\ Split(r) \in Markers /\ NoMarker \in Markers
  <1>1. r.failed \in SUBSET Addrs
    BY DEF Runs
  <1>2. /\ Planned(r) \in SUBSET Addrs /\ Completed(r) \in SUBSET Addrs
        /\ Bad(r) \in SUBSET Addrs
    BY DEF Planned, Completed, Bad
  <1> QED
    BY <1>1, <1>2 DEF InFlight, Split, NoMarker, Markers

\* The save of a leg has failed.
AfterLegUnsaved(c, r) ==
    /\ c \in Runs
    /\ c.pc = "exec" /\ c.saving = "none" /\ c.next = "none" /\ c.undo = Nothing
    /\ c.todo = Rest(r.todo)
    /\ c.outcome = Updated(r.outcome, Head(r.todo), "failed")
    /\ c.failed = IF r.failed = {} THEN {Head(r.todo)} ELSE r.failed
    /\ c.lost = {Head(r.todo)}
    /\ c.marker = r.marker /\ c.exit = r.exit
    /\ c.res = IF r.undo = Nothing THEN r.res ELSE Updated(r.res, Head(r.todo), r.undo)
    /\ SameInputs(c, r)

\* LegUnsaved fails the change, remembers its object as lost and restores the
\* entry of a destroy that had left errors.
LEMMA LosingLeg ==
    ASSUME NEW r \in Runs, r.todo # <<>>
    PROVE  AfterLegUnsaved(LegUnsaved(r), r)
  <1> DEFINE a == Head(r.todo)
             kept == IF r.undo = Nothing THEN r ELSE [r EXCEPT !.res[a] = r.undo]
             d == Conclude(kept, a, "failed")
             c == LegUnsaved(r)
  <1>1. a \in Addrs /\ r.todo \in Seq(Addrs)
    BY HeadTailProperties DEF Runs
  <1>2. c = [d EXCEPT !.lost = {a}]
    BY DEF LegUnsaved
  <1> HIDE DEF a, c
  <1>3. /\ kept \in Runs /\ SameProgress(kept, r)
        /\ kept.marker = r.marker /\ kept.exit = r.exit
        /\ kept.res = IF r.undo = Nothing THEN r.res ELSE Updated(r.res, a, r.undo)
        /\ SameInputs(kept, r)
    <2>1. CASE r.undo = Nothing
      BY <2>1 DEF SameInputs, SameProgress
    <2>2. CASE r.undo # Nothing
      <3> DEFINE res == [r.res EXCEPT ![a] = r.undo]
      <3>1. res \in Resources
        BY <1>1, <2>2 DEF Runs, Resources
      <3>2. kept = [r EXCEPT !.res = res]
        BY <2>2
      <3> HIDE DEF kept, res
      <3>3. kept \in Runs /\ kept.res = res
        BY <3>1, <3>2 DEF Runs
      <3>4. /\ SameProgress(kept, r) /\ SameInputs(kept, r)
            /\ kept.marker = r.marker /\ kept.exit = r.exit
        BY <3>2 DEF Runs, SameInputs, SameProgress
      <3> QED
        BY <2>2, <3>3, <3>4 DEF res, Updated
    <2> QED
      BY <2>1, <2>2
  <1> HIDE DEF kept
  <1>4. AfterConclude(d, kept, a, "failed")
    BY <1>1, <1>3, Concluding DEF SameProgress
  <1> HIDE DEF d
  <1>5. c \in Runs /\ c.lost = {a}
    BY <1>1, <1>2, <1>4, ZenonT(30) DEF Runs, AfterConclude
  <1>6. /\ c.pc = d.pc /\ c.saving = d.saving /\ c.next = d.next /\ c.undo = d.undo
        /\ c.todo = d.todo /\ c.outcome = d.outcome /\ c.failed = d.failed
    BY <1>2, <1>4 DEF Runs, AfterConclude
  <1>7. c.marker = d.marker /\ c.exit = d.exit /\ c.res = d.res /\ SameInputs(c, d)
    BY <1>2, <1>4 DEF Runs, AfterConclude, SameInputs
  <1> QED
    BY <1>3, <1>4, <1>5, <1>6, <1>7
    DEF SameInputs, SameProgress, AfterConclude, AfterLegUnsaved, a, c

\* The rest of a process's memory is what it was.
Steady(c, r) == c.todo = r.todo /\ c.marker = r.marker /\ c.exit = r.exit

\* A step that only changes the phase.
Turned(r, pc) == [r EXCEPT !.pc = pc]

\* A step that only changes the phase touches nothing else.
LEMMA Turning ==
    ASSUME NEW r \in Runs,
           NEW pc \in {"locked", "exec", "sync"}
    PROVE  /\ AfterMove(Turned(r, pc), r, pc, r.saving, r.next)
           /\ Steady(Turned(r, pc), r)
  <1> DEFINE c == Turned(r, pc)
  <1>1. c = [r EXCEPT !.pc = pc]
    BY DEF Turned
  <1> HIDE DEF c
  <1>2. c \in Runs
    BY <1>1 DEF Runs
  <1>3. /\ c.pc = pc /\ c.saving = r.saving /\ c.next = r.next
        /\ c.todo = r.todo /\ c.marker = r.marker /\ c.exit = r.exit
    BY <1>1 DEF Runs
  <1>4. /\ c.res = r.res /\ c.undo = r.undo
        /\ c.outcome = r.outcome /\ c.failed = r.failed /\ c.lost = r.lost
        /\ SameInputs(c, r)
    BY <1>1 DEF Runs, SameInputs
  <1> QED
    BY <1>2, <1>3, <1>4 DEF AfterMove, Steady, c

\* The save of the first marker is over.
Spared(r) == [r EXCEPT !.pc = "exec", !.saving = "none"]

\* Neither does the return from the first marker's save.
LEMMA Sparing ==
    ASSUME NEW r \in Runs
    PROVE  /\ AfterMove(Spared(r), r, "exec", "none", r.next)
           /\ Steady(Spared(r), r)
  <1> DEFINE c == Spared(r)
  <1>1. c = [r EXCEPT !.pc = "exec", !.saving = "none"]
    BY DEF Spared
  <1> HIDE DEF c
  <1>2. c \in Runs
    BY <1>1 DEF Runs
  <1>3. /\ c.pc = "exec" /\ c.saving = "none" /\ c.next = r.next
        /\ c.todo = r.todo /\ c.marker = r.marker /\ c.exit = r.exit
    BY <1>1 DEF Runs
  <1>4. /\ c.res = r.res /\ c.undo = r.undo
        /\ c.outcome = r.outcome /\ c.failed = r.failed /\ c.lost = r.lost
        /\ SameInputs(c, r)
    BY <1>1 DEF Runs, SameInputs
  <1> QED
    BY <1>2, <1>3, <1>4 DEF AfterMove, Steady, c

\* The second leg of a replace begins.
HalfReplaced(r) == [r EXCEPT !.pc = "create", !.saving = "none", !.next = "none"]

\* Nor the beginning of a replace's second leg.
LEMMA HalfReplacing ==
    ASSUME NEW r \in Runs
    PROVE  /\ AfterMove(HalfReplaced(r), r, "create", "none", "none")
           /\ Steady(HalfReplaced(r), r)
  <1> DEFINE c == HalfReplaced(r)
  <1>1. c = [r EXCEPT !.pc = "create", !.saving = "none", !.next = "none"]
    BY DEF HalfReplaced
  <1> HIDE DEF c
  <1>2. c \in Runs
    BY <1>1, ZenonT(30) DEF Runs
  <1>3. /\ c.pc = "create" /\ c.saving = "none" /\ c.next = "none"
        /\ c.todo = r.todo /\ c.marker = r.marker /\ c.exit = r.exit
    BY <1>1 DEF Runs
  <1>4. /\ c.res = r.res /\ c.undo = r.undo
        /\ c.outcome = r.outcome /\ c.failed = r.failed /\ c.lost = r.lost
        /\ SameInputs(c, r)
    BY <1>1 DEF Runs, SameInputs
  <1> QED
    BY <1>2, <1>3, <1>4 DEF AfterMove, Steady, c

\* A save of the marker.
Marked(r, s, m) == [r EXCEPT !.pc = "save", !.saving = s, !.marker = m]

\* The marker's save changes the marker and the phase.
LEMMA Marking ==
    ASSUME NEW r \in Runs,
           NEW s \in {"mark", "final"}, NEW m \in Markers
    PROVE  /\ AfterMove(Marked(r, s, m), r, "save", s, r.next)
           /\ Marked(r, s, m).todo = r.todo
           /\ Marked(r, s, m).marker = m
           /\ Marked(r, s, m).exit = r.exit
  <1> DEFINE c == Marked(r, s, m)
  <1>1. c = [r EXCEPT !.pc = "save", !.saving = s, !.marker = m]
    BY DEF Marked
  <1> HIDE DEF c
  <1>2. c \in Runs
    BY <1>1, ZenonT(30) DEF Runs
  <1>3. /\ c.pc = "save" /\ c.saving = s /\ c.next = r.next
        /\ c.todo = r.todo /\ c.marker = m /\ c.exit = r.exit
    BY <1>1 DEF Runs
  <1>4. /\ c.res = r.res /\ c.undo = r.undo
        /\ c.outcome = r.outcome /\ c.failed = r.failed /\ c.lost = r.lost
        /\ SameInputs(c, r)
    BY <1>1 DEF Runs, SameInputs
  <1> QED
    BY <1>2, <1>3, <1>4 DEF AfterMove, Steady, c

\* The process is about to return.
Ended(r, e) == [r EXCEPT !.pc = "end", !.exit = e]

\* Ending a process sets its exit.
LEMMA Ending ==
    ASSUME NEW r \in Runs,
           NEW e \in {"ok", "split", "saved", "failed"}
    PROVE  /\ AfterMove(Ended(r, e), r, "end", r.saving, r.next)
           /\ Ended(r, e).todo = r.todo
           /\ Ended(r, e).marker = r.marker
           /\ Ended(r, e).exit = e
  <1> DEFINE c == Ended(r, e)
  <1>1. c = [r EXCEPT !.pc = "end", !.exit = e]
    BY DEF Ended
  <1> HIDE DEF c
  <1>2. c \in Runs
    BY <1>1, ZenonT(30) DEF Runs
  <1>3. /\ c.pc = "end" /\ c.saving = r.saving /\ c.next = r.next
        /\ c.todo = r.todo /\ c.marker = r.marker /\ c.exit = e
    BY <1>1 DEF Runs
  <1>4. /\ c.res = r.res /\ c.undo = r.undo
        /\ c.outcome = r.outcome /\ c.failed = r.failed /\ c.lost = r.lost
        /\ SameInputs(c, r)
    BY <1>1 DEF Runs, SameInputs
  <1> QED
    BY <1>2, <1>3, <1>4 DEF AfterMove, Steady, c

\* The one save of a command that is not an apply.
Sanitized(r) == [r EXCEPT !.pc = "save", !.saving = "once"]

\* A sanitize saves what it loaded.
LEMMA Sanitizing ==
    ASSUME NEW r \in Runs
    PROVE  /\ AfterMove(Sanitized(r), r, "save", "once", r.next)
           /\ Steady(Sanitized(r), r)
  <1> DEFINE c == Sanitized(r)
  <1>1. c = [r EXCEPT !.pc = "save", !.saving = "once"]
    BY DEF Sanitized
  <1> HIDE DEF c
  <1>2. c \in Runs
    BY <1>1 DEF Runs
  <1>3. /\ c.pc = "save" /\ c.saving = "once" /\ c.next = r.next
        /\ c.todo = r.todo /\ c.marker = r.marker /\ c.exit = r.exit
    BY <1>1 DEF Runs
  <1>4. /\ c.res = r.res /\ c.undo = r.undo
        /\ c.outcome = r.outcome /\ c.failed = r.failed /\ c.lost = r.lost
        /\ SameInputs(c, r)
    BY <1>1 DEF Runs, SameInputs
  <1> QED
    BY <1>2, <1>3, <1>4 DEF AfterMove, Steady, c


\* An import has read the object it adopts.
Adopted(r, a, o) == [r EXCEPT !.pc = "save", !.saving = "once", !.todo = <<a>>, !.res[a] = o]

\* An import holds the object it read, and its save is due.
AfterAdopt(c, r, a, o) ==
    /\ c \in Runs
    /\ c.pc = "save" /\ c.saving = "once" /\ c.next = r.next /\ c.undo = r.undo
    /\ c.todo = <<a>> /\ c.res = Updated(r.res, a, o)
    /\ c.outcome = r.outcome /\ c.failed = r.failed /\ c.lost = r.lost
    /\ c.marker = r.marker /\ c.exit = r.exit
    /\ SameInputs(c, r)

\* An import changes the entry of its one address.
LEMMA Adopting ==
    ASSUME NEW r \in Runs, NEW a \in Addrs, NEW o \in Objects
    PROVE  AfterAdopt(Adopted(r, a, o), r, a, o)
  <1> DEFINE c == Adopted(r, a, o)
             res == [r.res EXCEPT ![a] = o]
             todo == <<a>>
  <1>1. res \in Resources /\ todo \in Seq(Addrs)
    BY DEF Runs, Resources
  <1>2. c = [r EXCEPT !.pc = "save", !.saving = "once", !.todo = todo, !.res = res]
    BY DEF Adopted
  <1> HIDE DEF c, res, todo
  <1>3. c \in Runs
    BY <1>1, <1>2 DEF Runs
  <1>4. c.pc = "save" /\ c.saving = "once" /\ c.todo = todo /\ c.res = res
    BY <1>2 DEF Runs
  <1>5. /\ c.next = r.next /\ c.undo = r.undo /\ c.marker = r.marker /\ c.exit = r.exit
        /\ c.outcome = r.outcome /\ c.failed = r.failed /\ c.lost = r.lost
        /\ SameInputs(c, r)
    BY <1>2 DEF Runs, SameInputs
  <1> QED
    BY <1>3, <1>4, <1>5 DEF AfterAdopt, Updated, c, res, todo

\* The operator has confirmed the plan of a destroy.
Confirmed(r, plan) == [r EXCEPT !.plan = plan, !.cmd = "apply"]

\* The destroy goes on as the apply of its plan.
AfterConfirm(c, r, plan) ==
    /\ c \in Runs
    /\ c.plan = plan /\ c.cmd = "apply" /\ c.cfg = r.cfg
    /\ c.start = r.start /\ c.settled = r.settled
    /\ c.pc = r.pc /\ c.saving = r.saving /\ c.next = r.next /\ c.undo = r.undo
    /\ c.res = r.res /\ c.marker = r.marker /\ c.exit = r.exit
    /\ SameProgress(c, r)

\* Confirming a destroy changes the command and the plan.
LEMMA Confirming ==
    ASSUME NEW r \in Runs, NEW plan \in Plan
    PROVE  AfterConfirm(Confirmed(r, plan), r, plan)
  <1> DEFINE c == Confirmed(r, plan)
  <1>1. c = [r EXCEPT !.plan = plan, !.cmd = "apply"]
    BY DEF Confirmed
  <1> HIDE DEF c
  <1>2. c \in Runs /\ c.plan = plan /\ c.cmd = "apply" /\ c.cfg = r.cfg
    BY <1>1 DEF Runs
  <1>3. /\ c.start = r.start /\ c.settled = r.settled
        /\ c.pc = r.pc /\ c.saving = r.saving /\ c.next = r.next /\ c.undo = r.undo
    BY <1>1 DEF Runs
  <1>4. /\ c.res = r.res /\ c.marker = r.marker /\ c.exit = r.exit
        /\ SameProgress(c, r)
    BY <1>1 DEF Runs, SameProgress
  <1> QED
    BY <1>2, <1>3, <1>4 DEF AfterConfirm, c

\* A command that has read its arguments.
Fresh(r) ==
    /\ r.start = Reg!Absent /\ r.settled = "no"
    /\ r.res = EmptyBody.res /\ r.marker = NoMarker
    /\ r.todo = <<>> /\ r.outcome = [a \in Addrs |-> "none"]
    /\ r.failed = {} /\ r.lost = {}
    /\ r.saving = "none" /\ r.next = "none" /\ r.undo = Nothing /\ r.exit = "none"

\* The memory a command starts with.
Begun(cmd, plan) == [Idle EXCEPT !.pc = "started", !.cmd = cmd, !.cfg = config, !.plan = plan]

\* A command that starts has read the configuration and nothing else.
LEMMA Beginning ==
    ASSUME config \in Configs, NEW cmd \in Verbs, NEW plan \in Plan
    PROVE  /\ Begun(cmd, plan) \in Runs /\ Begun(cmd, plan).pc = "started"
           /\ Begun(cmd, plan).cmd = cmd /\ Begun(cmd, plan).plan = plan
           /\ Begun(cmd, plan).cfg = config
           /\ Fresh(Begun(cmd, plan))
  <1> DEFINE c == Begun(cmd, plan)
  <1>1. c = [Idle EXCEPT !.pc = "started", !.cmd = cmd, !.cfg = config, !.plan = plan]
    BY DEF Begun
  <1> HIDE DEF c
  <1>2. Idle \in Runs
    BY InitialTypes
  <1>3. c \in Runs
    <2>1. config \in Configs \cup {Idle.cfg}
      OBVIOUS
    <2> DEFINE i == Idle
    <2>2. i \in Runs /\ c = [i EXCEPT !.pc = "started", !.cmd = cmd, !.cfg = config, !.plan = plan]
      BY <1>1, <1>2
    <2> HIDE DEF i
    <2> QED
      BY <2>1, <2>2 DEF Runs
  <1>4. c.pc = "started" /\ c.cmd = cmd /\ c.plan = plan /\ c.cfg = config
    BY <1>1, <1>2 DEF Runs
  <1>5. Fresh(Idle)
    BY DEF Fresh, Idle
  <1>6. Fresh(c)
    BY <1>1, <1>2, <1>5 DEF Fresh, Runs
  <1> QED
    BY <1>3, <1>4, <1>6 DEF c

----------------------------------------------------------------------------
\* Types and phases.

\* What the phase of a process says about the rest of its memory.
Phases(r) ==
    /\ r.pc \in {"save", "sync"} => r.saving # "none"
    /\ r.pc \notin {"save", "sync", "end"} => r.saving = "none"
    /\ r.next # "none" <=> r.pc \in {"save", "sync"} /\ r.saving = "leg"
    /\ r.pc = "create" \/ r.next # "none" => r.todo # <<>>
    /\ r.exit # "none" <=> r.pc = "end"
    /\ r.exit \in {"ok", "split"} => r.cmd = "apply"
    /\ r.pc \in {"exec", "create"} \/ r.saving \in {"mark", "leg", "final"} => r.cmd = "apply"
    /\ r.pc = "locked" \/ r.saving = "once" => r.cmd \in {"import", "sanitize"}
    /\ r.pc # "idle" => r.cmd \in {"plan", "destroy", "apply", "import", "sanitize"}
    /\ r.pc = "planning" => r.cmd \in {"plan", "destroy"}
    /\ r.pc = "loaded" => r.cmd \in {"apply", "import", "sanitize"}
    /\ r.pc = "started" => Fresh(r)
    /\ r.pc = "idle" => r = Idle

\* Every process is in a consistent phase.
PhaseInv == \A p \in Procs : Phases(run[p])

\* The types of the state file's variables, ...
RegisterTypes ==
    /\ current \in Documents /\ promised \in Documents
    /\ survivors \subseteq Documents
    /\ owner \in Procs \cup {NoProc}
    /\ seen \in [Procs -> Documents]

\* ... of the provider's and the history's, ...
WorldTypes ==
    /\ live \in [Addrs -> SUBSET Objects]
    /\ calls \in Nat
    /\ touched \subseteq Addrs
    /\ stray \in [Addrs -> SUBSET Objects]
    /\ uses \in [Addrs -> SUBSET Addrs]

\* ... and of the configuration, the plan file and the command counter.
DiskTypes == config \in Configs /\ planFile \in Plan /\ commands \in 0..MaxCommands

\* The three groups and the processes' memory make up TypeOK.
LEMMA TypesTogether ==
    TypeOK <=> RegisterTypes /\ WorldTypes /\ DiskTypes /\ run \in [Procs -> Runs]
  BY DEF TypeOK, RegisterTypes, WorldTypes, DiskTypes

\* What the register's operations do, and that they keep its types.

\* A commit advances the serial by one under the lock.
LEMMA Committing ==
    ASSUME RegisterTypes, NEW p \in Procs, NEW b \in Bodies, Reg!Commit(p, b)
    PROVE  /\ owner = p /\ seen[p] = current
           /\ current' = [serial |-> current.serial + 1, body |-> b]
           /\ current' \in Documents
           /\ current'.serial = current.serial + 1 /\ current'.body = b
           /\ survivors' = survivors \cup {current'}
           /\ seen' = [seen EXCEPT ![p] = current']
           /\ promised' = promised /\ owner' = owner
           /\ RegisterTypes'
  <1> DEFINE doc == [serial |-> current.serial + 1, body |-> b]
  <1>1. doc \in Documents /\ doc.serial = current.serial + 1 /\ doc.body = b
    BY DEF RegisterTypes, Documents
  <1>2. /\ owner = p /\ seen[p] = current /\ current' = doc
        /\ survivors' = survivors \cup {current'}
        /\ seen' = [seen EXCEPT ![p] = current']
        /\ promised' = promised /\ owner' = owner
    BY DEF Reg!Commit
  <1> HIDE DEF doc
  <1>3. RegisterTypes'
    BY <1>1, <1>2 DEF RegisterTypes
  <1> QED
    BY <1>1, <1>2, <1>3 DEF doc

\* No operation of the register leaves its types.
LEMMA RegisterKeepsTypes ==
    ASSUME RegisterTypes, NEW p \in Procs,
           \/ Reg!Observe(p) \/ Reg!Acquire(p) \/ Reg!Forget(p)
           \/ Reg!Acknowledge(p) /\ owner' = owner
           \/ Reg!Lose
           \/ UNCHANGED regVars
    PROVE  RegisterTypes'
  <1>1. Reg!Absent \in Documents
    BY InitialTypes
  <1>2. CASE Reg!Observe(p)
    BY <1>2 DEF Reg!Observe, RegisterTypes
  <1>3. CASE Reg!Acquire(p)
    BY <1>3 DEF Reg!Acquire, RegisterTypes
  <1>4. CASE Reg!Forget(p)
    BY <1>1, <1>4 DEF Reg!Forget, RegisterTypes
  <1>5. CASE Reg!Acknowledge(p) /\ owner' = owner
    BY <1>5 DEF Reg!Acknowledge, RegisterTypes
  <1>6. CASE Reg!Lose
    BY <1>1, <1>6 DEF Reg!Lose, RegisterTypes
  <1>7. CASE UNCHANGED regVars
    BY <1>7 DEF regVars, RegisterTypes
  <1> QED
    BY <1>2, <1>3, <1>4, <1>5, <1>6, <1>7

\* Only p's memory changes.
Alone(p) ==
    /\ run \in [Procs -> Runs] /\ run' \in [Procs -> Runs]
    /\ \A q \in Procs : q # p => run'[q] = run[q]

\* Set changes one process's memory.
LEMMA Setting ==
    ASSUME run \in [Procs -> Runs], NEW p \in Procs, NEW r \in Runs, Set(p, r)
    PROVE  Alone(p) /\ run'[p] = r
  BY DEF Set, Alone

\* A process that leaves forgets everything and frees the lock if it has it.
LEMMA Leaving ==
    ASSUME run \in [Procs -> Runs], NEW p \in Procs, Leave(p)
    PROVE  Alone(p) /\ run'[p] = Idle /\ Reg!Forget(p)
  <1>1. Reg!Forget(p) /\ Set(p, Idle)
    BY DEF Leave
  <1> QED
    BY <1>1, InitialTypes, Setting

\* The empty memory is consistent.
LEMMA IdlePhases == Phases(Idle) /\ Fresh(Idle)
  BY DEF Phases, Idle, Fresh

\* Whatever a provider answers to a destroy has its type, ...
LEMMA DestroyAnswers ==
    ASSUME WorldTypes, NEW a \in Addrs, NEW prior \in Objects \cup {Null},
           NEW answer \in DestroyReplies(a, prior)
    PROVE  /\ answer.objs \in SUBSET Objects
           /\ answer.reply \in Objects \cup {Null, Nothing}
  <1> DEFINE worn(o) == [o EXCEPT !.ver = calls + 1]
  <1>1. live[a] \in SUBSET Objects /\ calls \in Nat
    BY DEF WorldTypes
  <1>2. \A o \in Objects : worn(o) \in Objects
    BY <1>1 DEF Objects
  <1> QED
    BY <1>1, <1>2 DEF DestroyReplies

\* ... and to a create or an update.
LEMMA WriteAnswers ==
    ASSUME WorldTypes, NEW a \in Addrs, NEW prior \in Objects \cup {Null},
           NEW answer \in WriteReplies(a, prior)
    PROVE  /\ answer.objs \in SUBSET Objects
           /\ answer.reply \in Objects \cup {Nothing}
  <1> DEFINE fresh == [id |-> IF prior = Null THEN calls + 1 ELSE prior.id, ver |-> calls + 1]
  <1>1. live[a] \in SUBSET Objects /\ calls \in Nat
    BY DEF WorldTypes
  <1>2. fresh \in Objects
    BY <1>1 DEF Objects
  <1> QED
    BY <1>1, <1>2 DEF WriteReplies

----------------------------------------------------------------------------
\* What each action does to the memory of the process that takes it.

\* Types and phases together are inductive.
Typed == TypeOK /\ PhaseInv

\* One process's step keeps the other processes' phases.
LEMMA PhasesKept ==
    ASSUME PhaseInv, NEW p \in Procs, Alone(p), Phases(run'[p])
    PROVE  PhaseInv'
  BY DEF PhaseInv, Alone

\* What is known of one process's memory.
LEMMA TypedRun ==
    ASSUME Typed, NEW p \in Procs
    PROVE  run \in [Procs -> Runs] /\ run[p] \in Runs /\ Phases(run[p])
  BY DEF Typed, TypeOK, PhaseInv

\* Start: an idle process begins a command.
LEMMA StartEffect ==
    ASSUME Typed, NEW p \in Procs, Start(p)
    PROVE  /\ run[p] = Idle
           /\ \E cmd \in Verbs :
                 run'[p] = Begun(cmd, IF cmd = "apply" THEN planFile ELSE NoPlan)
           /\ Alone(p) /\ run'[p].pc = "started" /\ Fresh(run'[p]) /\ Phases(run'[p])
           /\ run'[p].plan \in {planFile, NoPlan}
           /\ UNCHANGED <<regVars, world, config, planFile>>
  <1>1. run[p] = Idle
    BY TypedRun DEF Start, Phases
  <1>2. PICK cmd \in Verbs :
            Set(p, [Idle EXCEPT !.pc = "started", !.cmd = cmd, !.cfg = config,
                                !.plan = IF cmd = "apply" THEN planFile ELSE @])
    BY DEF Start
  <1> DEFINE plan == IF cmd = "apply" THEN planFile ELSE NoPlan
             c == Begun(cmd, plan)
  <1>3. Set(p, c)
    BY <1>2 DEF Begun, Idle
  <1>4. config \in Configs /\ plan \in Plan
    BY InitialTypes DEF Typed, TypeOK
  <1> HIDE DEF plan
  <1>5. /\ c \in Runs /\ c.pc = "started" /\ c.cmd = cmd /\ c.plan = plan
        /\ c.cfg = config /\ Fresh(c)
    BY <1>4, Beginning
  <1> HIDE DEF c
  <1>6. Alone(p) /\ run'[p] = c
    BY <1>3, <1>5, TypedRun, Setting
  <1>7. Phases(c)
    BY <1>5, ApplyAssumption DEF Phases, Fresh
  <1>8. plan \in {planFile, NoPlan}
    BY DEF plan
  <1> QED
    BY <1>1, <1>5, <1>6, <1>7, <1>8 DEF Start, c, plan

\* LoadState: the document is read without the lock.
LEMMA LoadEffect ==
    ASSUME Typed, NEW p \in Procs, LoadState(p)
    PROVE  /\ run[p].pc = "started" /\ run[p].cmd # "apply"
           /\ \E pc \in {"planning", "loaded"} : AfterLoad(run'[p], run[p], pc)
           /\ Alone(p) /\ Phases(run'[p])
           /\ Reg!Observe(p)
           /\ UNCHANGED <<world, config, planFile, commands>>
  <1> DEFINE pc == IF run[p].cmd \in {"plan", "destroy"} THEN "planning" ELSE "loaded"
             c == Loaded(run[p], pc)
  <1>1. /\ run[p].pc = "started" /\ run[p].cmd # "apply" /\ Reg!Observe(p) /\ Set(p, c)
        /\ UNCHANGED <<world, config, planFile, commands>>
    BY DEF LoadState
  <1>2. pc \in {"planning", "loaded"}
    OBVIOUS
  <1>3. run[p].cmd \in {"plan", "destroy"} => pc = "planning"
    OBVIOUS
  <1>4. run[p].cmd \notin {"plan", "destroy"} => pc = "loaded"
    OBVIOUS
  <1> HIDE DEF pc
  <1>5. run \in [Procs -> Runs] /\ run[p] \in Runs /\ Phases(run[p]) /\ current \in Documents
    BY TypedRun DEF Typed, TypeOK
  <1>6. AfterLoad(c, run[p], pc)
    BY <1>2, <1>5, Loading
  <1> HIDE DEF c
  <1>7. Alone(p) /\ run'[p] = c
    BY <1>1, <1>5, <1>6, Setting DEF AfterLoad
  <1>8. run[p].cmd \in {"plan", "destroy", "import", "sanitize"}
    BY <1>1, <1>5 DEF Phases
  <1>9. Phases(c)
    BY <1>1, <1>2, <1>3, <1>4, <1>5, <1>6, <1>8 DEF Phases, AfterLoad, Fresh, SameProgress
  <1> QED
    BY <1>1, <1>2, <1>6, <1>7, <1>9

\* Every way a process ends: by giving up, by returning, by being killed.
LEMMA LeaveEffect ==
    ASSUME Typed, NEW p \in Procs, Leave(p)
    PROVE  /\ Alone(p) /\ run'[p] = Idle /\ Phases(run'[p])
           /\ Reg!Forget(p)
  BY TypedRun, Leaving, IdlePhases

\* A plan is for the document it was made from.
LEMMA PlansTyped ==
    ASSUME NEW r \in Runs, NEW plan \in Plans(r)
    PROVE  /\ plan \in Plan
           /\ plan.serial = r.start.serial /\ plan.from = r.start
           /\ plan.settled = r.settled
  <1>1. PICK changes \in [Addrs -> Actions] :
            plan = [serial |-> r.start.serial, from |-> r.start,
                    settled |-> r.settled, changes |-> changes]
    BY DEF Plans
  <1>2. r.start \in Documents /\ r.start.serial \in Nat /\ r.settled \in {"yes", "no"}
    BY DEF Runs, Documents
  <1> QED
    BY <1>1, <1>2 DEF Plan, Changes

\* PlanWrite: the plan file is written and the command is over.
LEMMA PlanWriteEffect ==
    ASSUME Typed, NEW p \in Procs, PlanWrite(p)
    PROVE  /\ run[p].pc = "planning" /\ Leave(p)
           /\ planFile' \in Plan
           /\ planFile'.serial = run[p].start.serial /\ planFile'.from = run[p].start
           /\ planFile'.settled = run[p].settled
           /\ UNCHANGED <<world, config, commands>>
  <1>1. run[p] \in Runs
    BY TypedRun
  <1> QED
    BY <1>1, PlansTyped DEF PlanWrite

\* What Apply has checked before it asks for the lock.
Accepted(r) ==
    /\ r.plan.serial = r.start.serial
    /\ Orderable(r.cfg.decl, r.cfg.deps)
    /\ Planned(r) \ Deletes(r) \subseteq r.cfg.decl

\* ApplyLoad: the plan is accepted for the document on disk, or refused.
LEMMA ApplyLoadEffect ==
    ASSUME Typed, NEW p \in Procs, ApplyLoad(p)
    PROVE  /\ run[p].pc = "started" /\ run[p].cmd = "apply"
           /\ UNCHANGED <<world, config, planFile, commands>>
           /\ \/ Leave(p)
              \/ /\ Reg!Observe(p) /\ Alone(p) /\ Phases(run'[p])
                 /\ \E r \in Runs : /\ AfterLoad(r, run[p], "loaded")
                                   /\ Accepted(r)
                                   /\ run'[p] = Checked(r)
  <1> DEFINE pc == "loaded"
             r == Loaded(run[p], pc)
  <1>1. /\ run[p].pc = "started" /\ r.cmd = "apply"
        /\ IF Refused(r, current) THEN Leave(p) ELSE Reg!Observe(p) /\ Set(p, Checked(r))
        /\ UNCHANGED <<world, config, planFile, commands>>
    BY DEF ApplyLoad
  <1>2. run \in [Procs -> Runs] /\ run[p] \in Runs /\ Phases(run[p]) /\ current \in Documents
    BY TypedRun DEF Typed, TypeOK
  <1>3. pc \in {"planning", "loaded"}
    OBVIOUS
  <1>4. AfterLoad(r, run[p], pc)
    BY <1>2, <1>3, Loading
  <1> HIDE DEF r
  <1>5. r \in Runs /\ run[p].cmd = "apply" /\ r.start = current /\ r.cmd = "apply"
    BY <1>1, <1>4 DEF AfterLoad
  <1>6. CASE Refused(r, current)
    BY <1>1, <1>5, <1>6
  <1>7. CASE ~Refused(r, current)
    <2>1. Accepted(r)
      BY <1>5, <1>7 DEF Refused, Accepted, StalePlan
    <2>2. /\ AfterMove(Checked(r), r, "loaded", r.saving, r.next)
          /\ Checked(r).exit = r.exit
      BY <1>5, Checking
    <2>3. Reg!Observe(p) /\ Alone(p) /\ run'[p] = Checked(r)
      BY <1>1, <1>2, <1>7, <2>2, Setting DEF AfterMove
    <2>4. r.saving = "none" /\ r.next = "none" /\ r.exit = "none"
      BY <1>1, <1>2, <1>4 DEF Phases, Fresh, AfterLoad
    <2>5. Phases(Checked(r))
      BY <1>5, <2>2, <2>4 DEF Phases, AfterMove, SameInputs
    <2> QED
      BY <1>1, <1>4, <1>5, <2>1, <2>3, <2>5
  <1> QED
    BY <1>6, <1>7

\* DestroyConfirmed: a destroy goes on with a plan of its own.
LEMMA DestroyConfirmedEffect ==
    ASSUME Typed, NEW p \in Procs, DestroyConfirmed(p)
    PROVE  /\ run[p].pc = "planning"
           /\ Alone(p) /\ Phases(run'[p])
           /\ \E plan \in Plans(run[p]), r \in Runs :
                 /\ AfterConfirm(r, run[p], plan) /\ Accepted(r)
                 /\ run'[p] = Checked(r)
           /\ UNCHANGED <<regVars, world, config, planFile, commands>>
  <1>1. /\ run[p].pc = "planning"
        /\ UNCHANGED <<regVars, world, config, planFile, commands>>
    BY DEF DestroyConfirmed
  <1>2. PICK plan \in Plans(run[p]) :
           LET r == [run[p] EXCEPT !.plan = plan, !.cmd = "apply"] IN
           /\ ~Refused(r, r.start)
           /\ Set(p, Checked(r))
    BY DEF DestroyConfirmed
  <1> DEFINE r == Confirmed(run[p], plan)
  <1>3. ~Refused(r, r.start) /\ Set(p, Checked(r))
    BY <1>2 DEF Confirmed
  <1>4. run \in [Procs -> Runs] /\ run[p] \in Runs /\ Phases(run[p])
    BY TypedRun
  <1>5. AfterConfirm(r, run[p], plan)
    BY <1>4, PlansTyped, Confirming
  <1> HIDE DEF r
  <1>6. r \in Runs
    BY <1>5 DEF AfterConfirm
  <1>7. Accepted(r)
    BY <1>3 DEF Refused, Accepted, StalePlan
  <1>8. /\ AfterMove(Checked(r), r, "loaded", r.saving, r.next)
        /\ Checked(r).exit = r.exit
    BY <1>6, Checking
  <1>9. Alone(p) /\ run'[p] = Checked(r)
    BY <1>3, <1>4, <1>8, Setting DEF AfterMove
  <1>10. r.saving = "none" /\ r.next = "none" /\ r.exit = "none" /\ r.cmd = "apply"
    BY <1>1, <1>4, <1>5 DEF Phases, AfterConfirm
  <1>11. Phases(Checked(r))
    BY <1>8, <1>10 DEF Phases, AfterMove, SameInputs
  <1> QED
    BY <1>1, <1>5, <1>6, <1>7, <1>9, <1>11

\* ApplyLock: the lock is taken if the serial is the one seen, or Apply
\* returns.
LEMMA ApplyLockEffect ==
    ASSUME Typed, NEW p \in Procs, ApplyLock(p)
    PROVE  /\ run[p].pc = "loaded" /\ run[p].cmd = "apply"
           /\ UNCHANGED <<world, config, planFile, commands>>
           /\ \/ Leave(p)
              \/ /\ current.serial = seen[p].serial /\ Reg!Acquire(p)
                 /\ Alone(p) /\ Phases(run'[p])
                 /\ \/ run[p].todo = <<>> /\ run'[p] = Turned(run[p], "exec")
                    \/ /\ run[p].todo # <<>>
                       /\ run'[p] = Marked(run[p], "mark", InFlight(run[p]))
  <1> DEFINE r == run[p]
             exec == "exec"
             mark == "mark"
             c == IF r.todo = <<>> THEN Turned(r, exec) ELSE Marked(r, mark, InFlight(r))
  <1>1. r.pc = "loaded" /\ r.cmd = "apply" /\ UNCHANGED <<world, config, planFile, commands>>
    BY DEF ApplyLock
  <1>2. IF current.serial = seen[p].serial THEN Reg!Acquire(p) /\ Set(p, c) ELSE Leave(p)
    BY DEF ApplyLock, TakeLock, Turned, Marked
  <1>3. run \in [Procs -> Runs] /\ r \in Runs /\ Phases(r)
    BY TypedRun
  <1>4. exec \in {"locked", "exec", "sync"} /\ mark \in {"mark", "final"}
    OBVIOUS
  <1>5. r.saving = "none" /\ r.next = "none" /\ r.exit = "none"
    BY <1>1, <1>3 DEF Phases
  <1>6. CASE r.todo = <<>>
    <2>1. AfterMove(Turned(r, exec), r, exec, r.saving, r.next) /\ Steady(Turned(r, exec), r)
      BY <1>3, <1>4, Turning
    <2>2. c = Turned(r, exec) /\ c \in Runs
      BY <1>6, <2>1 DEF AfterMove
    <2>3. Phases(c)
      BY <1>1, <1>5, <2>1, <2>2 DEF Phases, AfterMove, Steady, SameInputs
    <2> HIDE DEF c
    <2>4. CASE current.serial = seen[p].serial
      <3>1. Alone(p) /\ run'[p] = c
        BY <1>2, <1>3, <2>2, <2>4, Setting
      <3> QED
        BY <1>1, <1>2, <1>6, <2>2, <2>3, <2>4, <3>1
    <2> QED
      BY <1>1, <1>2, <2>4
  <1>7. CASE r.todo # <<>>
    <2> DEFINE m == InFlight(r)
    <2>0. m \in Markers
      BY <1>3, MarkersOfRun
    <2>1. c = Marked(r, mark, m)
      BY <1>7
    <2> HIDE DEF m
    <2>2. AfterMove(Marked(r, mark, m), r, "save", mark, r.next)
          /\ Marked(r, mark, m).exit = r.exit /\ Marked(r, mark, m).todo = r.todo
      BY <1>3, <1>4, <2>0, Marking
    <2>3. c \in Runs
      BY <2>1, <2>2 DEF AfterMove
    <2>4. Phases(c)
      BY <1>1, <1>5, <2>1, <2>2 DEF Phases, AfterMove, SameInputs
    <2> HIDE DEF c
    <2>5. CASE current.serial = seen[p].serial
      <3>1. Alone(p) /\ run'[p] = c
        BY <1>2, <1>3, <2>3, <2>5, Setting
      <3> QED
        BY <1>1, <1>2, <1>7, <2>1, <2>4, <2>5, <3>1 DEF m
    <2> QED
      BY <1>1, <1>2, <2>5
  <1> QED
    BY <1>6, <1>7

\* LockOnce: the same for import and sanitize.
LEMMA LockOnceEffect ==
    ASSUME Typed, NEW p \in Procs, LockOnce(p)
    PROVE  /\ run[p].pc = "loaded" /\ run[p].cmd \in {"import", "sanitize"}
           /\ UNCHANGED <<world, config, planFile, commands>>
           /\ \/ Leave(p)
              \/ /\ current.serial = seen[p].serial /\ Reg!Acquire(p)
                 /\ Alone(p) /\ Phases(run'[p])
                 /\ run'[p] = Turned(run[p], "locked")
  <1> DEFINE r == run[p]
             locked == "locked"
             c == Turned(r, locked)
  <1>1. /\ r.pc = "loaded" /\ r.cmd \in {"import", "sanitize"}
        /\ UNCHANGED <<world, config, planFile, commands>>
    BY DEF LockOnce
  <1>2. IF current.serial = seen[p].serial THEN Reg!Acquire(p) /\ Set(p, c) ELSE Leave(p)
    BY DEF LockOnce, TakeLock, Turned
  <1>3. run \in [Procs -> Runs] /\ r \in Runs /\ Phases(r)
    BY TypedRun
  <1>4. locked \in {"locked", "exec", "sync"}
    OBVIOUS
  <1>5. r.saving = "none" /\ r.next = "none" /\ r.exit = "none"
    BY <1>1, <1>3 DEF Phases
  <1>6. AfterMove(c, r, locked, r.saving, r.next) /\ Steady(c, r)
    BY <1>3, <1>4, Turning
  <1> HIDE DEF c
  <1>7. c \in Runs
    BY <1>6 DEF AfterMove
  <1>8. Phases(c)
    BY <1>1, <1>5, <1>6 DEF Phases, AfterMove, Steady, SameInputs
  <1>9. CASE current.serial = seen[p].serial
    <2>1. Alone(p) /\ run'[p] = c
      BY <1>2, <1>3, <1>7, <1>9, Setting
    <2> QED
      BY <1>1, <1>2, <1>8, <1>9, <2>1 DEF c
  <1> QED
    BY <1>1, <1>2, <1>9

\* A head of the list is an address.
LEMMA HeadOfList ==
    ASSUME NEW r \in Runs, r.todo # <<>>
    PROVE  Head(r.todo) \in Addrs /\ r.todo \in Seq(Addrs)
  BY HeadTailProperties DEF Runs

\* A verdict leaves a consistent phase.
LEMMA ConcludedPhases ==
    ASSUME NEW r, NEW c, NEW a, NEW verdict, Phases(r), AfterConclude(c, r, a, verdict),
           r.cmd = "apply", r.pc \notin {"idle", "end"}
    PROVE  Phases(c)
  BY DEF Phases, AfterConclude, SameInputs

\* So does the start of a leg's save.
LEMMA RecordedPhases ==
    ASSUME NEW r, NEW c, NEW a, NEW entry, NEW undo,
           NEW next \in {"create", "completed", "failed"},
           Phases(r), AfterRecord(c, r, a, entry, next, undo),
           r.cmd = "apply", r.todo # <<>>, r.pc \in {"exec", "create"}
    PROVE  Phases(c)
  BY DEF Phases, AfterRecord, SameInputs, SameProgress

\* Skip: the head of the list is blocked.
LEMMA SkipEffect ==
    ASSUME Typed, NEW p \in Procs, Skip(p)
    PROVE  /\ run[p].pc = "exec" /\ run[p].cmd = "apply" /\ run[p].todo # <<>>
           /\ Head(run[p].todo) \in Addrs
           /\ Blocked(run[p], Head(run[p].todo))
           /\ AfterConclude(run'[p], run[p], Head(run[p].todo), "blocked")
           /\ Alone(p) /\ Phases(run'[p])
           /\ UNCHANGED <<regVars, world, config, planFile, commands>>
  <1> DEFINE r == run[p]
             a == Head(r.todo)
             blocked == "blocked"
             c == Conclude(r, a, blocked)
  <1>1. /\ r.pc = "exec" /\ r.todo # <<>> /\ Blocked(r, a) /\ Set(p, c)
        /\ UNCHANGED <<regVars, world, config, planFile, commands>>
    BY DEF Skip
  <1>2. run \in [Procs -> Runs] /\ r \in Runs /\ Phases(r)
    BY TypedRun
  <1>3. a \in Addrs /\ blocked \in {"completed", "failed", "blocked"}
    BY <1>1, <1>2, HeadOfList
  <1> HIDE DEF a, blocked
  <1>4. AfterConclude(c, r, a, blocked)
    BY <1>1, <1>2, <1>3, Concluding
  <1> HIDE DEF c
  <1>5. r.cmd = "apply"
    BY <1>1, <1>2 DEF Phases
  <1>6. Alone(p) /\ run'[p] = c
    BY <1>1, <1>2, <1>4, Setting DEF AfterConclude
  <1>7. Phases(c)
    BY <1>1, <1>2, <1>4, <1>5, ConcludedPhases
  <1> QED
    BY <1>1, <1>3, <1>4, <1>5, <1>6, <1>7 DEF a, blocked

\* Preflight: the head fails before any call.
LEMMA PreflightEffect ==
    ASSUME Typed, NEW p \in Procs, Preflight(p)
    PROVE  /\ run[p].pc = "exec" /\ run[p].cmd = "apply" /\ run[p].todo # <<>>
           /\ Head(run[p].todo) \in Addrs
           /\ ~Blocked(run[p], Head(run[p].todo))
           /\ AfterConclude(run'[p], run[p], Head(run[p].todo), "failed")
           /\ Alone(p) /\ Phases(run'[p])
           /\ UNCHANGED <<regVars, world, config, planFile, commands>>
  <1>1. PICK a \in Addrs :
          /\ Attempting(p, a) /\ Set(p, Conclude(run[p], a, "failed"))
          /\ UNCHANGED <<regVars, world, config, planFile, commands>>
    BY DEF Preflight
  <1> DEFINE r == run[p]
             failed == "failed"
             c == Conclude(r, a, failed)
  <1>2. r.pc = "exec" /\ r.todo # <<>> /\ a = Head(r.todo) /\ ~Blocked(r, a) /\ Set(p, c)
    BY <1>1 DEF Attempting
  <1>3. run \in [Procs -> Runs] /\ r \in Runs /\ Phases(r)
    BY TypedRun
  <1>4. failed \in {"completed", "failed", "blocked"}
    OBVIOUS
  <1> HIDE DEF failed
  <1>5. AfterConclude(c, r, a, failed)
    BY <1>2, <1>3, <1>4, Concluding
  <1> HIDE DEF c
  <1>6. r.cmd = "apply"
    BY <1>2, <1>3 DEF Phases
  <1>7. Alone(p) /\ run'[p] = c
    BY <1>2, <1>3, <1>5, Setting DEF AfterConclude
  <1>8. Phases(c)
    BY <1>2, <1>3, <1>5, <1>6, ConcludedPhases
  <1> QED
    BY <1>1, <1>2, <1>5, <1>6, <1>7, <1>8 DEF failed

\* What a provider call does besides changing the caller's memory.
Mutates(a, answer) ==
    /\ live' = [live EXCEPT ![a] = answer.objs]
    /\ calls' = calls + 1
    /\ touched' = IF answer.objs = live[a] THEN touched ELSE touched \cup {a}
    /\ UNCHANGED <<regVars, config, planFile, commands, stray>>

\* The caller is at a of its list.
Calling(r, a) ==
    /\ r.cmd = "apply" /\ r.todo # <<>> /\ a = Head(r.todo)
    /\ \/ r.pc = "exec" /\ ~Blocked(r, a)
       \/ r.pc = "create"

\* DestroyCall: what a destroy does to the world and to its caller.
LEMMA DestroyCallEffect ==
    ASSUME Typed, NEW p \in Procs, DestroyCall(p)
    PROVE  \E a \in Addrs : \E answer \in DestroyReplies(a, run[p].res[a]) :
             /\ Calling(run[p], a) /\ run[p].pc = "exec"
             /\ Change(run[p], a) \in {"delete", "replace"}
             /\ Mutates(a, answer)
             /\ uses' = IF answer.objs = {} THEN [uses EXCEPT ![a] = {}] ELSE uses
             /\ Alone(p) /\ Phases(run'[p])
             /\ \/ /\ answer.reply = Null /\ answer.errors = "no"
                   /\ AfterRecord(run'[p], run[p], a, Null,
                                  IF Change(run[p], a) = "replace" THEN "create"
                                  ELSE "completed", Nothing)
                \/ /\ answer.errors = "yes" /\ answer.reply # Nothing
                   /\ AfterRecord(run'[p], run[p], a, answer.reply, "failed",
                                  run[p].res[a])
                \/ AfterConclude(run'[p], run[p], a, "failed")
  <1> DEFINE r == run[p]
  <1>1. PICK a \in Addrs :
          /\ Attempting(p, a)
          /\ Change(r, a) \in {"delete", "replace"}
          /\ \E answer \in DestroyReplies(a, r.res[a]) :
               /\ Call(p, a, answer,
                    CASE answer.reply = Null /\ answer.errors = "no" -> Destroyed(r, a)
                      [] /\ answer.errors = "yes"
                         /\ answer.reply # Nothing
                         /\ answer.reply = Null \/ answer.reply # r.res[a] ->
                           Record(r, a, answer.reply, "failed", r.res[a])
                      [] OTHER -> Conclude(r, a, "failed"))
               /\ uses' = IF answer.objs = {} THEN [uses EXCEPT ![a] = {}] ELSE uses
    BY DEF DestroyCall
  <1> DEFINE old == r.res[a]
  <1>2. PICK answer \in DestroyReplies(a, old) :
           /\ Call(p, a, answer,
                CASE answer.reply = Null /\ answer.errors = "no" -> Destroyed(r, a)
                  [] /\ answer.errors = "yes"
                     /\ answer.reply # Nothing
                     /\ answer.reply = Null \/ answer.reply # old ->
                       Record(r, a, answer.reply, "failed", old)
                  [] OTHER -> Conclude(r, a, "failed"))
           /\ uses' = IF answer.objs = {} THEN [uses EXCEPT ![a] = {}] ELSE uses
    BY <1>1
  <1>3. run \in [Procs -> Runs] /\ r \in Runs /\ Phases(r) /\ WorldTypes
    BY TypedRun, TypesTogether DEF Typed
  <1>4. /\ r.pc = "exec" /\ r.todo # <<>> /\ a = Head(r.todo) /\ ~Blocked(r, a)
        /\ r.cmd = "apply"
    BY <1>1, <1>3 DEF Attempting, Phases
  <1>5. old \in Objects \cup {Null}
    BY <1>3 DEF Runs, Resources
  <1> HIDE DEF old
  <1>6. answer.reply \in Objects \cup {Null, Nothing}
    BY <1>2, <1>3, <1>5, DestroyAnswers
  <1> DEFINE one == answer.reply = Null /\ answer.errors = "no"
             two == answer.errors = "yes" /\ answer.reply # Nothing
                      /\ (answer.reply = Null \/ answer.reply # old)
             c == CASE one -> Destroyed(r, a)
                    [] two -> Record(r, a, answer.reply, "failed", old)
                    [] OTHER -> Conclude(r, a, "failed")
             done == IF Change(r, a) = "replace" THEN "create" ELSE "completed"
             failed == "failed"
  <1>7. Call(p, a, answer, c)
    BY <1>2
  <1>8. Mutates(a, answer) /\ Set(p, c)
    BY <1>7 DEF Call, Mutates
  <1>9. Calling(r, a)
    BY <1>4 DEF Calling
  <1>10. ~(one /\ two)
    OBVIOUS
  <1>11. /\ failed \in {"create", "completed", "failed"}
         /\ failed \in {"completed", "failed", "blocked"}
         /\ done \in {"create", "completed", "failed"}
    OBVIOUS
  <1>12. CASE one
    <2>1. c = Record(r, a, Null, done, Nothing)
      BY <1>10, <1>12 DEF Destroyed
    <2> HIDE DEF c, done
    <2>2. AfterRecord(c, r, a, Null, done, Nothing)
      BY <1>3, <1>11, <2>1, Recording
    <2>3. Alone(p) /\ run'[p] = c
      BY <1>3, <1>8, <2>2, Setting DEF AfterRecord
    <2>4. Phases(c)
      BY <1>3, <1>4, <1>11, <2>2, RecordedPhases
    <2>5. AfterRecord(run'[p], r, a, Null, done, Nothing) /\ Phases(run'[p])
      BY <2>2, <2>3, <2>4
    <2> HIDE <2>1, <2>2
    <2> QED
      BY <1>1, <1>2, <1>4, <1>8, <1>9, <1>12, <2>3, <2>5 DEF old, done
  <1>13. CASE two
    <2>1. c = Record(r, a, answer.reply, failed, old)
      BY <1>10, <1>13
    <2> HIDE DEF c, failed
    <2>2. answer.reply \in Objects \cup {Null} /\ old \in Objects \cup {Null, Nothing}
      BY <1>5, <1>6, <1>13
    <2>3. AfterRecord(c, r, a, answer.reply, failed, old)
      BY <1>3, <1>11, <2>1, <2>2, Recording
    <2>4. Alone(p) /\ run'[p] = c
      BY <1>3, <1>8, <2>3, Setting DEF AfterRecord
    <2>5. Phases(c)
      BY <1>3, <1>4, <1>11, <2>3, RecordedPhases
    <2>6. AfterRecord(run'[p], r, a, answer.reply, failed, old) /\ Phases(run'[p])
      BY <2>3, <2>4, <2>5
    <2> HIDE <2>1, <2>3
    <2> QED
      BY <1>1, <1>2, <1>4, <1>8, <1>9, <1>13, <2>4, <2>6 DEF old, failed
  <1>14. CASE ~one /\ ~two
    <2>1. c = Conclude(r, a, failed)
      BY <1>14
    <2> HIDE DEF c, failed, one, two
    <2>2. AfterConclude(c, r, a, failed)
      BY <1>3, <1>4, <1>11, <2>1, Concluding
    <2>3. Alone(p) /\ run'[p] = c
      BY <1>3, <1>8, <2>2, Setting DEF AfterConclude
    <2>4. Phases(c)
      BY <1>3, <1>4, <2>2, ConcludedPhases
    <2>5. AfterConclude(run'[p], r, a, failed) /\ Phases(run'[p])
      BY <2>2, <2>3, <2>4
    <2> HIDE <2>1, <2>2
    <2> QED
      BY <1>1, <1>2, <1>4, <1>8, <1>9, <2>3, <2>5 DEF old, failed
  <1> HIDE DEF one, two
  <1> QED
    BY <1>12, <1>13, <1>14

\* WriteCall: what a create or an update does to the world and to its caller.
LEMMA WriteCallEffect ==
    ASSUME Typed, NEW p \in Procs, WriteCall(p)
    PROVE  \E a \in Addrs, prior \in Objects \cup {Null} :
           \E answer \in WriteReplies(a, prior) :
             /\ Calling(run[p], a)
             /\ prior = IF Change(run[p], a) = "update" THEN run[p].res[a] ELSE Null
             /\ run[p].pc = "exec" => Change(run[p], a) \in {"create", "update"}
             /\ Mutates(a, answer)
             /\ uses' = IF answer.objs = live[a] THEN uses
                        ELSE [uses EXCEPT ![a] = run[p].cfg.deps[a]]
             /\ Alone(p) /\ Phases(run'[p])
             /\ \/ /\ ~Unrecordable(answer, prior)
                   /\ AfterRecord(run'[p], run[p], a, answer.reply,
                                  IF answer.errors = "no" THEN "completed" ELSE "failed",
                                  Nothing)
                \/ AfterConclude(run'[p], run[p], a, "failed")
  <1> DEFINE r == run[p]
  <1>1. PICK a \in Addrs :
          LET prior == IF Change(r, a) = "update" THEN r.res[a] ELSE Null IN
          /\ \/ Attempting(p, a) /\ Change(r, a) \in {"create", "update"}
             \/ r.pc = "create" /\ a = Head(r.todo)
          /\ \E answer \in WriteReplies(a, prior) :
               /\ Call(p, a, answer,
                    IF Unrecordable(answer, prior) THEN Conclude(r, a, "failed")
                    ELSE Record(r, a, answer.reply,
                                IF answer.errors = "no" THEN "completed" ELSE "failed",
                                Nothing))
               /\ uses' = IF answer.objs = live[a] THEN uses
                          ELSE [uses EXCEPT ![a] = r.cfg.deps[a]]
    BY DEF WriteCall
  <1> DEFINE prior == IF Change(r, a) = "update" THEN r.res[a] ELSE Null
             next(answer) == IF answer.errors = "no" THEN "completed" ELSE "failed"
  <1>2. PICK answer \in WriteReplies(a, prior) :
           /\ Call(p, a, answer,
                IF Unrecordable(answer, prior) THEN Conclude(r, a, "failed")
                ELSE Record(r, a, answer.reply, next(answer), Nothing))
           /\ uses' = IF answer.objs = live[a] THEN uses
                      ELSE [uses EXCEPT ![a] = r.cfg.deps[a]]
    BY <1>1
  <1>3. run \in [Procs -> Runs] /\ r \in Runs /\ Phases(r) /\ WorldTypes
    BY TypedRun, TypesTogether DEF Typed
  <1>4. /\ r.pc = "exec" \/ r.pc = "create"
        /\ r.pc = "exec" => ~Blocked(r, a) /\ Change(r, a) \in {"create", "update"}
        /\ r.todo # <<>> /\ a = Head(r.todo) /\ r.cmd = "apply"
    BY <1>1, <1>3 DEF Attempting, Phases
  <1>5. Calling(r, a)
    BY <1>4 DEF Calling
  <1>6. prior \in Objects \cup {Null}
    BY <1>3 DEF Runs, Resources
  <1> DEFINE failed == "failed"
             then == next(answer)
             c == IF Unrecordable(answer, prior) THEN Conclude(r, a, failed)
                  ELSE Record(r, a, answer.reply, then, Nothing)
             wrote == uses' = IF answer.objs = live[a] THEN uses
                              ELSE [uses EXCEPT ![a] = r.cfg.deps[a]]
  <1>7. /\ failed \in {"completed", "failed", "blocked"}
        /\ then \in {"create", "completed", "failed"}
    OBVIOUS
  <1>8. Call(p, a, answer, c) /\ wrote
    BY <1>2
  <1>9. Mutates(a, answer) /\ Set(p, c)
    BY <1>8 DEF Call, Mutates
  <1>10. prior = IF Change(r, a) = "update" THEN r.res[a] ELSE Null
    OBVIOUS
  <1> HIDE DEF prior, wrote
  <1>11. answer.reply \in Objects \cup {Nothing}
    BY <1>2, <1>3, <1>6, WriteAnswers
  <1>12. CASE ~Unrecordable(answer, prior)
    <2>1. c = Record(r, a, answer.reply, then, Nothing)
      BY <1>12
    <2> HIDE DEF c, then
    <2>2. answer.reply \in Objects \cup {Null}
      BY <1>11, <1>12 DEF Unrecordable
    <2>3. AfterRecord(c, r, a, answer.reply, then, Nothing)
      BY <1>3, <1>7, <2>1, <2>2, Recording
    <2>4. Alone(p) /\ run'[p] = c
      BY <1>3, <1>9, <2>3, Setting DEF AfterRecord
    <2>5. Phases(c)
      BY <1>3, <1>4, <1>7, <2>3, RecordedPhases
    <2>6. AfterRecord(run'[p], r, a, answer.reply, then, Nothing) /\ Phases(run'[p])
      BY <2>3, <2>4, <2>5
    <2> HIDE <2>1, <2>3
    <2> QED
      BY <1>2, <1>4, <1>5, <1>6, <1>8, <1>9, <1>10, <1>12, <2>4, <2>6 DEF then, wrote
  <1>13. CASE Unrecordable(answer, prior)
    <2>1. c = Conclude(r, a, failed)
      BY <1>13
    <2> HIDE DEF c, failed
    <2>2. AfterConclude(c, r, a, failed)
      BY <1>3, <1>4, <1>7, <2>1, Concluding
    <2>3. Alone(p) /\ run'[p] = c
      BY <1>3, <1>9, <2>2, Setting DEF AfterConclude
    <2>4. Phases(c)
      BY <1>3, <1>4, <2>2, ConcludedPhases
    <2>5. AfterConclude(run'[p], r, a, failed) /\ Phases(run'[p])
      BY <2>2, <2>3, <2>4
    <2> HIDE <2>1, <2>2
    <2> QED
      BY <1>2, <1>4, <1>5, <1>6, <1>8, <1>9, <1>10, <2>3, <2>5 DEF failed, wrote
  <1> QED
    BY <1>12, <1>13

\* Wrapup: the final marker is saved unless there is nothing to say.
LEMMA WrapupEffect ==
    ASSUME Typed, NEW p \in Procs, Wrapup(p)
    PROVE  /\ run[p].pc = "exec" /\ run[p].cmd = "apply" /\ run[p].todo = <<>>
           /\ Alone(p) /\ Phases(run'[p])
           /\ \/ /\ Bad(run[p]) # {}
                 /\ run'[p] = Marked(run[p], "final", Split(run[p]))
              \/ /\ Bad(run[p]) = {}
                 /\ Planned(run[p]) # {} \/ run[p].start.body.marker # NoMarker
                 /\ run'[p] = Marked(run[p], "final", NoMarker)
              \/ /\ Bad(run[p]) = {} /\ Planned(run[p]) = {}
                 /\ run[p].start.body.marker = NoMarker
                 /\ run'[p] = Ended(run[p], "ok")
           /\ UNCHANGED <<regVars, world, config, planFile, commands>>
  <1> DEFINE r == run[p]
             final == "final"
             ok == "ok"
             split == Bad(r) # {}
             clear == Bad(r) = {} /\ (Planned(r) # {} \/ r.start.body.marker # NoMarker)
             c == CASE split -> Marked(r, final, Split(r))
                    [] clear -> Marked(r, final, NoMarker)
                    [] OTHER -> Ended(r, ok)
  <1>1. /\ r.pc = "exec" /\ r.todo = <<>>
        /\ UNCHANGED <<regVars, world, config, planFile, commands>>
    BY DEF Wrapup
  <1>2. Set(p, c)
    BY DEF Wrapup, Marked, Ended
  <1>3. run \in [Procs -> Runs] /\ r \in Runs /\ Phases(r)
    BY TypedRun
  <1>4. r.cmd = "apply" /\ r.saving = "none" /\ r.next = "none" /\ r.exit = "none"
    BY <1>1, <1>3 DEF Phases
  <1>5. /\ final \in {"mark", "final"} /\ ok \in {"ok", "split", "saved", "failed"}
        /\ Split(r) \in Markers /\ NoMarker \in Markers
    BY <1>3, MarkersOfRun
  <1>6. ASSUME NEW m \in Markers
        PROVE  Marked(r, final, m) \in Runs /\ Phases(Marked(r, final, m))
    <2> DEFINE d == Marked(r, final, m)
    <2>1. AfterMove(d, r, "save", final, r.next) /\ d.todo = r.todo /\ d.exit = r.exit
      BY <1>3, <1>5, Marking
    <2> HIDE DEF d
    <2>2. d \in Runs
      BY <2>1 DEF AfterMove
    <2>3. Phases(d)
      BY <1>1, <1>4, <2>1 DEF Phases, AfterMove, SameInputs
    <2> QED
      BY <2>2, <2>3 DEF d
  <1>7. Ended(r, ok) \in Runs /\ Phases(Ended(r, ok))
    <2> DEFINE d == Ended(r, ok)
    <2>1. AfterMove(d, r, "end", r.saving, r.next) /\ d.todo = r.todo /\ d.exit = ok
      BY <1>3, <1>5, Ending
    <2> HIDE DEF d
    <2>2. d \in Runs
      BY <2>1 DEF AfterMove
    <2>3. Phases(d)
      BY <1>1, <1>4, <2>1 DEF Phases, AfterMove, SameInputs
    <2> QED
      BY <2>2, <2>3 DEF d
  <1> HIDE DEF final, ok
  <1>8. c \in Runs /\ Phases(c)
    BY <1>5, <1>6, <1>7
  <1>9. Alone(p) /\ run'[p] = c
    BY <1>2, <1>3, <1>8, Setting
  <1>10. Phases(run'[p])
    BY <1>8, <1>9
  <1>11. \/ split /\ c = Marked(r, final, Split(r))
         \/ ~split /\ clear /\ c = Marked(r, final, NoMarker)
         \/ ~split /\ ~clear /\ c = Ended(r, ok)
    OBVIOUS
  <1> HIDE DEF c
  <1> QED
    BY <1>1, <1>4, <1>9, <1>10, <1>11 DEF final, ok

\* What the history variables become when a save is visible.
Recounted(r) ==
    /\ touched' = CASE r.saving = "mark" \/ (r.saving = "final" /\ Planned(r) = {}) -> {}
                    [] r.cmd = "import" -> touched \ ToSet(r.todo)
                    [] OTHER -> touched
    /\ stray' = IF r.saving = "mark"
                THEN [a \in Addrs |-> IF Change(r, a) = "create" THEN live[a]
                                      ELSE live[a] \ {r.res[a]}]
                ELSE stray

\* SaveCommit: the document becomes visible.
LEMMA SaveCommitEffect ==
    ASSUME Typed, NEW p \in Procs, SaveCommit(p)
    PROVE  /\ run[p].pc = "save"
           /\ Alone(p) /\ Phases(run'[p])
           /\ run'[p] = Turned(run[p], "sync")
           /\ [res |-> run[p].res, marker |-> run[p].marker] \in Bodies
           /\ Reg!Commit(p, [res |-> run[p].res, marker |-> run[p].marker])
           /\ Recounted(run[p])
           /\ UNCHANGED <<live, calls, uses, config, planFile, commands>>
  <1> DEFINE r == run[p]
             sync == "sync"
             c == Turned(r, sync)
  <1>1. /\ r.pc = "save"
        /\ Reg!Commit(p, [res |-> r.res, marker |-> r.marker])
        /\ Set(p, c)
        /\ Recounted(r)
        /\ UNCHANGED <<live, calls, uses, config, planFile, commands>>
    BY DEF SaveCommit, Turned, Recounted
  <1>2. run \in [Procs -> Runs] /\ r \in Runs /\ Phases(r)
    BY TypedRun
  <1>3. sync \in {"locked", "exec", "sync"}
    OBVIOUS
  <1>4. AfterMove(c, r, sync, r.saving, r.next) /\ Steady(c, r)
    BY <1>2, <1>3, Turning
  <1> HIDE DEF c
  <1>5. c \in Runs
    BY <1>4 DEF AfterMove
  <1>6. Alone(p) /\ run'[p] = c
    BY <1>1, <1>2, <1>5, Setting
  <1>7. Phases(c)
    BY <1>1, <1>2, <1>4 DEF Phases, AfterMove, Steady, SameInputs
  <1>8. [res |-> r.res, marker |-> r.marker] \in Bodies
    BY <1>2 DEF Runs, Bodies
  <1> QED
    BY <1>1, <1>6, <1>7, <1>8 DEF c

\* How a process goes on after a save of each kind.
AfterSave(c, r, saved) ==
    \/ r.saving = "mark" /\ saved /\ c = Spared(r)
    \/ r.saving = "mark" /\ ~saved /\ c = Ended(r, "failed")
    \/ r.saving = "leg" /\ saved /\ r.next = "create" /\ c = HalfReplaced(r)
    \/ /\ r.saving = "leg" /\ saved /\ r.next \in {"completed", "failed"}
       /\ AfterConclude(c, r, Head(r.todo), r.next)
    \/ r.saving = "leg" /\ ~saved /\ AfterLegUnsaved(c, r)
    \/ r.saving = "final" /\ ~saved /\ c = Ended(r, "failed")
    \/ r.saving = "final" /\ saved /\ Bad(r) = {} /\ c = Ended(r, "ok")
    \/ r.saving = "final" /\ saved /\ Bad(r) # {} /\ c = Ended(r, "split")
    \/ r.saving = "once" /\ c = Ended(r, IF saved THEN "saved" ELSE "failed")

\* Resume goes on after a save of each kind as the code does.
LEMMA Resuming ==
    ASSUME NEW r \in Runs, Phases(r), r.pc \in {"save", "sync"}, NEW saved \in BOOLEAN
    PROVE  AfterSave(Resume(r, saved), r, saved)
  <1> DEFINE c == Resume(r, saved)
  <1>1. r.saving \in {"mark", "leg", "final", "once"}
    BY DEF Phases, Runs
  <1>2. CASE r.saving = "mark"
    BY <1>2 DEF Resume, AfterSave, Spared, Unmarked, Ended
  <1>3. CASE r.saving = "leg" /\ saved
    <2>1. c = LegSaved(r)
      BY <1>3 DEF Resume
    <2>2. r.next \in {"create", "completed", "failed"} /\ r.todo # <<>>
      BY <1>3 DEF Phases, Runs
    <2>3. CASE r.next = "create"
      BY <1>3, <2>1, <2>3 DEF LegSaved, HalfReplaced, AfterSave
    <2>4. CASE r.next # "create"
      <3> DEFINE next == r.next
                 a == Head(r.todo)
      <3>1. next \in {"completed", "failed", "blocked"}
        BY <2>2, <2>4
      <3>2. a \in Addrs
        BY <2>2, HeadOfList
      <3>3. c = Conclude(r, a, next)
        BY <2>1, <2>4 DEF LegSaved
      <3> HIDE DEF c, a, next
      <3>4. AfterConclude(c, r, a, next)
        BY <2>2, <3>1, <3>2, <3>3, Concluding
      <3> QED
        BY <1>3, <2>2, <2>4, <3>4 DEF AfterSave, a, next, c
    <2> QED
      BY <2>3, <2>4
  <1>4. CASE r.saving = "leg" /\ ~saved
    <2>1. c = LegUnsaved(r)
      BY <1>4 DEF Resume
    <2>2. r.todo # <<>>
      BY <1>4 DEF Phases, Runs
    <2> HIDE DEF c
    <2>3. AfterLegUnsaved(c, r)
      BY <2>1, <2>2, LosingLeg
    <2> QED
      BY <1>4, <2>3 DEF AfterSave, c
  <1>5. CASE r.saving = "final"
    BY <1>5 DEF Resume, AfterSave, Ended
  <1>6. CASE r.saving = "once"
    BY <1>6 DEF Resume, AfterSave, Ended
  <1> QED
    BY <1>1, <1>2, <1>3, <1>4, <1>5, <1>6

\* What follows a save is typed and consistent.
LEMMA AfterSavePhases ==
    ASSUME NEW r \in Runs, Phases(r), r.pc \in {"save", "sync"}, NEW saved \in BOOLEAN,
           NEW c, AfterSave(c, r, saved)
    PROVE  c \in Runs /\ Phases(c)
  <1>0. r.exit = "none" /\ r.cmd # "none"
    BY DEF Phases
  <1>1. CASE c = Spared(r) /\ r.saving = "mark"
    <2>1. AfterMove(c, r, "exec", "none", r.next) /\ Steady(c, r)
      BY <1>1, Sparing
    <2> QED
      BY <1>0, <1>1, <2>1 DEF Phases, AfterMove, Steady, SameInputs
  <1>2. CASE c = HalfReplaced(r) /\ r.saving = "leg" /\ r.next = "create"
    <2>1. AfterMove(c, r, "create", "none", "none") /\ Steady(c, r)
      BY <1>2, HalfReplacing
    <2> QED
      BY <1>0, <1>2, <2>1 DEF Phases, AfterMove, Steady, SameInputs
  <1>3. ASSUME r.saving \in {"mark", "final", "once"},
               NEW e \in {"ok", "split", "saved", "failed"}, c = Ended(r, e),
               e \in {"ok", "split"} => r.saving = "final"
        PROVE  c \in Runs /\ Phases(c)
    <2>1. AfterMove(c, r, "end", r.saving, r.next) /\ c.todo = r.todo /\ c.exit = e
      BY <1>3, Ending
    <2>2. e # "none"
      OBVIOUS
    <2> QED
      BY <1>0, <1>3, <2>1, <2>2 DEF Phases, AfterMove, SameInputs
  <1>4. CASE r.saving = "leg" /\ r.next \in {"completed", "failed"}
             /\ AfterConclude(c, r, Head(r.todo), r.next)
    <2>1. r.cmd = "apply" /\ r.pc \notin {"idle", "end"}
      BY <1>4 DEF Phases
    <2>2. Phases(c)
      BY <1>4, <2>1, ConcludedPhases
    <2> QED
      BY <1>4, <2>2 DEF AfterConclude
  <1>5. CASE r.saving = "leg" /\ AfterLegUnsaved(c, r)
    BY <1>0, <1>5 DEF Phases, AfterLegUnsaved, SameInputs
  <1>6. CASE \/ r.saving \in {"mark", "final"} /\ c = Ended(r, "failed")
             \/ r.saving = "final" /\ c = Ended(r, "ok")
             \/ r.saving = "final" /\ c = Ended(r, "split")
             \/ r.saving = "once" /\ c = Ended(r, IF saved THEN "saved" ELSE "failed")
    BY <1>3, <1>6
  <1> QED
    BY <1>1, <1>2, <1>4, <1>5, <1>6 DEF AfterSave

\* SaveAcknowledge: the save returns without an error.
LEMMA SaveAcknowledgeEffect ==
    ASSUME Typed, NEW p \in Procs, SaveAcknowledge(p)
    PROVE  /\ run[p].pc = "sync"
           /\ Reg!Acknowledge(p) /\ owner' = owner
           /\ Alone(p) /\ Phases(run'[p])
           /\ AfterSave(run'[p], run[p], TRUE)
           /\ UNCHANGED <<world, config, planFile, commands>>
  <1> DEFINE r == run[p]
             saved == TRUE
             c == Resume(r, saved)
  <1>1. /\ r.pc = "sync" /\ Reg!Acknowledge(p) /\ owner' = owner /\ Set(p, c)
        /\ UNCHANGED <<world, config, planFile, commands>>
    BY DEF SaveAcknowledge
  <1>2. run \in [Procs -> Runs] /\ r \in Runs /\ Phases(r) /\ saved \in BOOLEAN
    BY TypedRun
  <1>3. AfterSave(c, r, saved)
    BY <1>1, <1>2, Resuming
  <1> HIDE DEF c
  <1>4. c \in Runs /\ Phases(c)
    BY <1>1, <1>2, <1>3, AfterSavePhases
  <1>5. Alone(p) /\ run'[p] = c
    BY <1>1, <1>2, <1>4, Setting
  <1> QED
    BY <1>1, <1>3, <1>4, <1>5

\* SaveFails: it returns with one, visible or not.
LEMMA SaveFailsEffect ==
    ASSUME Typed, NEW p \in Procs, SaveFails(p)
    PROVE  /\ run[p].pc \in {"save", "sync"}
           /\ Alone(p) /\ Phases(run'[p])
           /\ AfterSave(run'[p], run[p], FALSE)
           /\ UNCHANGED <<regVars, world, config, planFile, commands>>
  <1> DEFINE r == run[p]
             saved == FALSE
             c == Resume(r, saved)
  <1>1. /\ r.pc \in {"save", "sync"} /\ Set(p, c)
        /\ UNCHANGED <<regVars, world, config, planFile, commands>>
    BY DEF SaveFails
  <1>2. run \in [Procs -> Runs] /\ r \in Runs /\ Phases(r) /\ saved \in BOOLEAN
    BY TypedRun
  <1>3. AfterSave(c, r, saved)
    BY <1>1, <1>2, Resuming
  <1> HIDE DEF c
  <1>4. c \in Runs /\ Phases(c)
    BY <1>1, <1>2, <1>3, AfterSavePhases
  <1>5. Alone(p) /\ run'[p] = c
    BY <1>1, <1>2, <1>4, Setting
  <1> QED
    BY <1>1, <1>3, <1>4, <1>5

\* ImportAdopt: an import reads an existing object.
LEMMA ImportAdoptEffect ==
    ASSUME Typed, NEW p \in Procs, ImportAdopt(p)
    PROVE  /\ run[p].pc = "locked" /\ run[p].cmd = "import"
           /\ Alone(p) /\ Phases(run'[p])
           /\ \E a \in Addrs : \E o \in live[a] \cap Objects :
                 AfterAdopt(run'[p], run[p], a, o)
           /\ UNCHANGED <<regVars, world, config, planFile, commands>>
  <1> DEFINE r == run[p]
  <1>1. run \in [Procs -> Runs] /\ r \in Runs /\ Phases(r) /\ WorldTypes
    BY TypedRun, TypesTogether DEF Typed
  <1>2. /\ r.pc = "locked" /\ r.cmd = "import"
        /\ \E a \in r.cfg.decl : \E o \in live[a] : Set(p, Adopted(r, a, o))
        /\ UNCHANGED <<regVars, world, config, planFile, commands>>
    BY DEF ImportAdopt, Adopted
  <1>30. PICK a \in r.cfg.decl : \E o \in live[a] : Set(p, Adopted(r, a, o))
    BY <1>2
  <1>3. PICK o \in live[a] : Set(p, Adopted(r, a, o))
    BY <1>30
  <1>4. a \in Addrs /\ o \in Objects
    BY <1>1, Configuration DEF WorldTypes
  <1> DEFINE c == Adopted(r, a, o)
  <1>5. AfterAdopt(c, r, a, o)
    BY <1>1, <1>4, Adopting
  <1> HIDE DEF c
  <1>6. Alone(p) /\ run'[p] = c
    BY <1>1, <1>3, <1>5, Setting DEF AfterAdopt, c
  <1>7. Phases(c)
    BY <1>1, <1>2, <1>5 DEF Phases, AfterAdopt, SameInputs
  <1> QED
    BY <1>2, <1>3, <1>4, <1>5, <1>6, <1>7

\* SanitizeSave: a sanitize saves.
LEMMA SanitizeSaveEffect ==
    ASSUME Typed, NEW p \in Procs, SanitizeSave(p)
    PROVE  /\ run[p].pc = "locked" /\ run[p].cmd = "sanitize"
           /\ Alone(p) /\ Phases(run'[p])
           /\ run'[p] = Sanitized(run[p])
           /\ UNCHANGED <<regVars, world, config, planFile, commands>>
  <1> DEFINE r == run[p]
             c == Sanitized(r)
  <1>1. /\ r.pc = "locked" /\ r.cmd = "sanitize" /\ Set(p, c)
        /\ UNCHANGED <<regVars, world, config, planFile, commands>>
    BY DEF SanitizeSave, Sanitized
  <1>2. run \in [Procs -> Runs] /\ r \in Runs /\ Phases(r)
    BY TypedRun
  <1>3. AfterMove(c, r, "save", "once", r.next) /\ Steady(c, r)
    BY <1>2, Sanitizing
  <1> HIDE DEF c
  <1>4. Alone(p) /\ run'[p] = c
    BY <1>1, <1>2, <1>3, Setting DEF AfterMove
  <1>5. Phases(c)
    BY <1>1, <1>2, <1>3 DEF Phases, AfterMove, Steady, SameInputs
  <1> QED
    BY <1>1, <1>4, <1>5 DEF c

\* GiveUpLocked: an import or a sanitize fails under the lock.
LEMMA GiveUpLockedEffect ==
    ASSUME Typed, NEW p \in Procs, GiveUpLocked(p)
    PROVE  /\ run[p].pc = "locked"
           /\ Alone(p) /\ Phases(run'[p])
           /\ run'[p] = Ended(run[p], "failed")
           /\ UNCHANGED <<regVars, world, config, planFile, commands>>
  <1> DEFINE r == run[p]
             e == "failed"
             c == Ended(r, e)
  <1>1. /\ r.pc = "locked" /\ Set(p, c)
        /\ UNCHANGED <<regVars, world, config, planFile, commands>>
    BY DEF GiveUpLocked, Ended
  <1>2. run \in [Procs -> Runs] /\ r \in Runs /\ Phases(r)
    BY TypedRun
  <1>3. e \in {"ok", "split", "saved", "failed"}
    OBVIOUS
  <1>4. AfterMove(c, r, "end", r.saving, r.next) /\ c.todo = r.todo /\ c.exit = e
    BY <1>2, <1>3, Ending
  <1> HIDE DEF c
  <1>5. Alone(p) /\ run'[p] = c
    BY <1>1, <1>2, <1>4, Setting DEF AfterMove
  <1>6. Phases(c)
    BY <1>1, <1>2, <1>4 DEF Phases, AfterMove, SameInputs
  <1> QED
    BY <1>1, <1>5, <1>6 DEF c

----------------------------------------------------------------------------
\* Type correctness.

\* The steps that leave p's memory empty, and what they do besides.
LEMMA LeavingSteps ==
    ASSUME NEW p \in Procs, Abandon(p) \/ End(p) \/ Kill(p)
    PROVE  Leave(p) /\ UNCHANGED <<world, config, planFile, commands>>
  BY DEF Abandon, End, Kill

\* A process that leaves keeps the types and phases.
LEMMA LeaveKeepsTyped ==
    ASSUME Typed, NEW p \in Procs, Leave(p), WorldTypes', DiskTypes'
    PROVE  Typed'
  <1>1. Alone(p) /\ Phases(run'[p]) /\ Reg!Forget(p)
    BY LeaveEffect
  <1>2. RegisterTypes'
    BY <1>1, RegisterKeepsTypes, TypesTogether DEF Typed
  <1>3. PhaseInv'
    BY <1>1, PhasesKept DEF Typed
  <1> QED
    BY <1>1, <1>2, <1>3, TypesTogether DEF Typed, Alone, TypeOK, RegisterTypes, WorldTypes, DiskTypes

\* A step of one process that leaves the world alone.
LEMMA QuietKeepsTyped ==
    ASSUME Typed, NEW p \in Procs, Alone(p), Phases(run'[p]), RegisterTypes',
           UNCHANGED <<world, config, planFile>>, commands' \in 0..MaxCommands
    PROVE  Typed'
  <1>1. WorldTypes'
    BY TypesTogether DEF Typed, WorldTypes, world
  <1>2. DiskTypes'
    BY TypesTogether DEF Typed, DiskTypes
  <1>3. PhaseInv'
    BY PhasesKept DEF Typed
  <1> QED
    BY <1>1, <1>2, <1>3 DEF Typed, Alone, TypeOK, RegisterTypes, WorldTypes, DiskTypes

\* A provider call keeps them.
LEMMA MutationKeepsTyped ==
    ASSUME Typed, NEW p \in Procs, Alone(p), Phases(run'[p]),
           NEW a \in Addrs, NEW answer, Mutates(a, answer),
           answer.objs \in SUBSET Objects, uses' \in [Addrs -> SUBSET Addrs]
    PROVE  Typed'
  <1>1. RegisterTypes'
    BY RegisterKeepsTypes, TypesTogether DEF Typed, Mutates
  <1>2. WorldTypes'
    BY TypesTogether DEF Typed, WorldTypes, Mutates
  <1>3. DiskTypes'
    BY TypesTogether DEF Typed, DiskTypes, Mutates
  <1>4. PhaseInv'
    BY PhasesKept DEF Typed
  <1> QED
    BY <1>1, <1>2, <1>3, <1>4 DEF Typed, Alone, TypeOK, RegisterTypes, WorldTypes, DiskTypes

\* They hold initially ...
LEMMA InitTyped == Init => Typed
  <1> SUFFICES ASSUME Init PROVE Typed
    OBVIOUS
  <1>1. /\ Reg!Absent \in Documents /\ NoPlan \in Plan /\ Idle \in Runs
        /\ Phases(Idle)
    BY InitialTypes, IdlePhases
  <1>2. RegisterTypes
    BY <1>1 DEF Init, Reg!RegisterInit, RegisterTypes
  <1>3. WorldTypes
    BY DEF Init, WorldTypes
  <1>4. DiskTypes
    BY <1>1, ApplyAssumption DEF Init, DiskTypes
  <1>5. run \in [Procs -> Runs] /\ \A p \in Procs : run[p] = Idle
    BY <1>1 DEF Init
  <1>6. PhaseInv
    BY <1>1, <1>5 DEF PhaseInv
  <1> QED
    BY <1>2, <1>3, <1>4, <1>5, <1>6, TypesTogether DEF Typed

\* ... and every step keeps them: one case per action.
LEMMA StepKeepsTyped == Typed /\ [Next]_vars => Typed'
  <1> SUFFICES ASSUME Typed, [Next]_vars PROVE Typed'
    OBVIOUS
  <1>0. RegisterTypes /\ WorldTypes /\ DiskTypes
    BY TypesTogether DEF Typed
  <1>1. ASSUME NEW p \in Procs, Start(p) PROVE Typed'
    <2>1. /\ Alone(p) /\ Phases(run'[p])
          /\ UNCHANGED <<regVars, world, config, planFile>>
      BY <1>1, StartEffect
    <2>2. commands' \in 0..MaxCommands
      BY <1>0, <1>1, ApplyAssumption DEF Start, DiskTypes
    <2>3. RegisterTypes'
      BY <1>0, <2>1, RegisterKeepsTypes
    <2> QED
      BY <2>1, <2>2, <2>3, QuietKeepsTyped
  <1>2. ASSUME NEW p \in Procs, Alone(p), Phases(run'[p]),
               \/ Reg!Observe(p) \/ Reg!Acquire(p)
               \/ Reg!Acknowledge(p) /\ owner' = owner
               \/ UNCHANGED regVars,
               UNCHANGED <<world, config, planFile, commands>>
        PROVE  Typed'
    <2>1. RegisterTypes'
      BY <1>0, <1>2, RegisterKeepsTypes
    <2>2. commands' \in 0..MaxCommands
      BY <1>0, <1>2 DEF DiskTypes
    <2> QED
      BY <1>2, <2>1, <2>2, QuietKeepsTyped
  <1>3. ASSUME NEW p \in Procs, Leave(p), UNCHANGED <<world, config, commands>>,
               planFile' \in Plan
        PROVE  Typed'
    <2>1. WorldTypes' /\ DiskTypes'
      BY <1>0, <1>3 DEF WorldTypes, DiskTypes, world
    <2> QED
      BY <1>3, <2>1, LeaveKeepsTyped
  <1>4. planFile \in Plan
    BY <1>0 DEF DiskTypes
  <1>5. ASSUME NEW p \in Procs, Running(p) \/ Kill(p) PROVE Typed'
    <2>1. CASE LoadState(p)
      BY <1>2, <2>1, LoadEffect
    <2>2. CASE Abandon(p) \/ End(p) \/ Kill(p)
      <3>1. Leave(p) /\ UNCHANGED <<world, config, planFile, commands>>
        BY <2>2, LeavingSteps
      <3> QED
        BY <1>3, <1>4, <3>1
    <2>3. CASE PlanWrite(p)
      BY <1>3, <2>3, PlanWriteEffect
    <2>4. CASE ApplyLoad(p)
      BY <1>2, <1>3, <1>4, <2>4, ApplyLoadEffect
    <2>5. CASE DestroyConfirmed(p)
      BY <1>2, <2>5, DestroyConfirmedEffect
    <2>6. CASE ApplyLock(p)
      BY <1>2, <1>3, <1>4, <2>6, ApplyLockEffect
    <2>7. CASE Skip(p)
      BY <1>2, <2>7, SkipEffect
    <2>8. CASE Preflight(p)
      BY <1>2, <2>8, PreflightEffect
    <2>9. CASE DestroyCall(p)
      <3>1. PICK a \in Addrs : \E answer \in DestroyReplies(a, run[p].res[a]) :
               /\ Mutates(a, answer) /\ Alone(p) /\ Phases(run'[p])
               /\ uses' = IF answer.objs = {} THEN [uses EXCEPT ![a] = {}] ELSE uses
        BY <2>9, DestroyCallEffect
      <3> DEFINE prior == run[p].res[a]
      <3>2. PICK answer \in DestroyReplies(a, prior) :
               /\ Mutates(a, answer) /\ Alone(p) /\ Phases(run'[p])
               /\ uses' = IF answer.objs = {} THEN [uses EXCEPT ![a] = {}] ELSE uses
        BY <3>1
      <3>3. prior \in Objects \cup {Null}
        BY TypedRun DEF Runs, Resources
      <3> HIDE DEF prior
      <3>4. answer.objs \in SUBSET Objects
        BY <1>0, <3>2, <3>3, DestroyAnswers
      <3>5. uses' \in [Addrs -> SUBSET Addrs]
        BY <1>0, <3>2 DEF WorldTypes
      <3> QED
        BY <3>2, <3>4, <3>5, MutationKeepsTyped
    <2>10. CASE WriteCall(p)
      <3>1. PICK a \in Addrs, prior \in Objects \cup {Null} :
              \E answer \in WriteReplies(a, prior) :
               /\ Mutates(a, answer) /\ Alone(p) /\ Phases(run'[p])
               /\ uses' = IF answer.objs = live[a] THEN uses
                          ELSE [uses EXCEPT ![a] = run[p].cfg.deps[a]]
        BY <2>10, WriteCallEffect
      <3>2. PICK answer \in WriteReplies(a, prior) :
               /\ Mutates(a, answer) /\ Alone(p) /\ Phases(run'[p])
               /\ uses' = IF answer.objs = live[a] THEN uses
                          ELSE [uses EXCEPT ![a] = run[p].cfg.deps[a]]
        BY <3>1
      <3>3. answer.objs \in SUBSET Objects
        BY <1>0, <3>2, WriteAnswers
      <3>4. run[p].cfg.deps[a] \in SUBSET Addrs
        BY TypedRun, Configuration
      <3>5. uses' \in [Addrs -> SUBSET Addrs]
        BY <1>0, <3>2, <3>4 DEF WorldTypes
      <3> QED
        BY <3>2, <3>3, <3>5, MutationKeepsTyped
    <2>11. CASE Wrapup(p)
      BY <1>2, <2>11, WrapupEffect
    <2>12. CASE SaveCommit(p)
      <3> DEFINE b == [res |-> run[p].res, marker |-> run[p].marker]
      <3>1. /\ Alone(p) /\ Phases(run'[p]) /\ b \in Bodies /\ Reg!Commit(p, b)
            /\ Recounted(run[p])
            /\ UNCHANGED <<live, calls, uses, config, planFile, commands>>
        BY <2>12, SaveCommitEffect
      <3> HIDE DEF b
      <3>2. RegisterTypes'
        BY <1>0, <3>1, Committing
      <3>3. touched' \in SUBSET Addrs /\ stray' \in [Addrs -> SUBSET Objects]
        BY <1>0, <3>1 DEF Recounted, WorldTypes
      <3>4. WorldTypes'
        BY <1>0, <3>1, <3>3 DEF WorldTypes
      <3>5. PhaseInv'
        BY <3>1, PhasesKept DEF Typed
      <3>6. DiskTypes' /\ run' \in [Procs -> Runs]
        BY <1>0, <3>1 DEF DiskTypes, Alone
      <3> QED
        BY <3>2, <3>4, <3>5, <3>6
           DEF Typed, TypeOK, RegisterTypes, WorldTypes, DiskTypes
    <2>13. CASE SaveAcknowledge(p)
      BY <1>2, <2>13, SaveAcknowledgeEffect
    <2>14. CASE SaveFails(p)
      BY <1>2, <2>14, SaveFailsEffect
    <2>15. CASE LockOnce(p)
      BY <1>2, <1>3, <1>4, <2>15, LockOnceEffect
    <2>16. CASE ImportAdopt(p)
      BY <1>2, <2>16, ImportAdoptEffect
    <2>17. CASE SanitizeSave(p)
      BY <1>2, <2>17, SanitizeSaveEffect
    <2>18. CASE GiveUpLocked(p)
      BY <1>2, <2>18, GiveUpLockedEffect
    <2> QED
      BY <1>5, <2>1, <2>2, <2>3, <2>4, <2>5, <2>6, <2>7, <2>8, <2>9, <2>10, <2>11,
         <2>12, <2>13, <2>14, <2>15, <2>16, <2>17, <2>18 DEF Running
  <1>6. CASE EditConfig
    <2>1. /\ commands' \in 0..MaxCommands /\ config' \in Configs
          /\ UNCHANGED <<regVars, world, planFile, run>>
      BY <1>0, <1>6, ApplyAssumption DEF EditConfig, DiskTypes
    <2>2. PhaseInv'
      BY <2>1 DEF Typed, PhaseInv
    <2> QED
      BY <1>4, <2>1, <2>2 DEF Typed, TypeOK, regVars, world
  <1>7. CASE PowerLoss
    <2>1. Reg!Lose /\ run' = [p \in Procs |-> Idle]
          /\ UNCHANGED <<world, config, planFile, commands>>
      BY <1>7 DEF PowerLoss
    <2>3. RegisterTypes'
      BY <1>0, <2>1, InitialTypes DEF Reg!Lose, RegisterTypes
    <2>4. run' \in [Procs -> Runs] /\ PhaseInv'
      BY <2>1, InitialTypes, IdlePhases DEF PhaseInv
    <2>5. WorldTypes' /\ DiskTypes'
      BY <1>0, <2>1 DEF WorldTypes, DiskTypes, world
    <2> QED
      BY <2>3, <2>4, <2>5 DEF Typed, TypeOK, RegisterTypes, WorldTypes, DiskTypes
  <1>8. CASE UNCHANGED vars
    BY <1>8 DEF Typed, TypeOK, PhaseInv, vars, regVars, world
  <1> QED
    BY <1>1, <1>5, <1>6, <1>7, <1>8 DEF Next

\* Hence they always hold.
LEMMA TypedAlways == Spec => []Typed
  BY InitTyped, StepKeepsTyped, PTL DEF Spec

\* Every variable keeps its type.
THEOREM TypeCorrect == Spec => []TypeOK
  <1>1. Typed => TypeOK
    BY DEF Typed
  <1> QED
    BY <1>1, TypedAlways, PTL

----------------------------------------------------------------------------
\* The lock.

\* The phases between Lock and Unlock.
InLock(r) == r.pc \in {"locked", "exec", "create", "save", "sync", "end"}

\* Exactly the process between its Lock and its Unlock owns the lock.
Held == \A p \in Procs : owner = p <=> InLock(run[p])

\* The steps that take the lock or are taken under it and do not end it.
LockedStep(p) ==
    \/ ApplyLock(p) /\ Reg!Acquire(p)
    \/ LockOnce(p) /\ Reg!Acquire(p)
    \/ Skip(p) \/ Preflight(p) \/ DestroyCall(p) \/ WriteCall(p) \/ Wrapup(p)
    \/ SaveCommit(p) \/ SaveAcknowledge(p) \/ SaveFails(p)
    \/ ImportAdopt(p) \/ SanitizeSave(p) \/ GiveUpLocked(p)

\* The steps a process takes without the lock: it reads, or it goes.
FreeStep(p) ==
    \/ Start(p) \/ LoadState(p) \/ PlanWrite(p) \/ ApplyLoad(p) \/ DestroyConfirmed(p)
    \/ Leave(p) /\ UNCHANGED <<world, config, planFile, commands>>

\* How a caller goes on: the change failed, or its result is being saved.
Proceeds(c, r, a) ==
    \/ AfterConclude(c, r, a, "failed")
    \/ \E entry, undo : \E next \in {"create", "completed", "failed"} :
          /\ AfterRecord(c, r, a, entry, next, undo)
          /\ next = "create" => Change(r, a) = "replace" /\ r.pc = "exec"

\* What the two provider calls have in common.
LEMMA CallEffect ==
    ASSUME Typed, NEW p \in Procs, DestroyCall(p) \/ WriteCall(p)
    PROVE  \E a \in Addrs :
             /\ Calling(run[p], a)
             /\ \E answer : Mutates(a, answer)
             /\ Alone(p) /\ Phases(run'[p])
             /\ Proceeds(run'[p], run[p], a)
             /\ UNCHANGED regVars
  <1> DEFINE r == run[p]
             c == run'[p]
             failed == "failed"
             nexts == {"create", "completed", "failed"}
  <1>1. ASSUME NEW a \in Addrs, NEW entry, NEW undo, NEW next \in nexts,
               next = "create" => Change(r, a) = "replace" /\ r.pc = "exec",
               AfterRecord(c, r, a, entry, next, undo)
        PROVE  Proceeds(c, r, a)
    BY <1>1 DEF Proceeds
  <1>2. ASSUME NEW a \in Addrs, AfterConclude(c, r, a, "failed")
        PROVE  Proceeds(c, r, a)
    BY <1>2 DEF Proceeds
  <1>3. failed \in nexts /\ failed # "create"
    OBVIOUS
  <1>4. CASE DestroyCall(p)
    <2>1. PICK a \in Addrs : \E answer \in DestroyReplies(a, r.res[a]) :
             /\ Calling(r, a) /\ r.pc = "exec"
             /\ Mutates(a, answer)
             /\ Alone(p) /\ Phases(c)
             /\ \/ AfterRecord(c, r, a, Null,
                               IF Change(r, a) = "replace" THEN "create"
                               ELSE "completed", Nothing)
                \/ AfterRecord(c, r, a, answer.reply, failed, r.res[a])
                \/ AfterConclude(c, r, a, "failed")
      BY <1>4, DestroyCallEffect
    <2> DEFINE next == IF Change(r, a) = "replace" THEN "create" ELSE "completed"
    <2>2. next \in nexts /\ (next = "create" => Change(r, a) = "replace")
      OBVIOUS
    <2>3. PICK answer :
             /\ Calling(r, a) /\ r.pc = "exec" /\ Mutates(a, answer)
             /\ Alone(p) /\ Phases(c)
             /\ \/ AfterRecord(c, r, a, Null, next, Nothing)
                \/ AfterRecord(c, r, a, answer.reply, failed, r.res[a])
                \/ AfterConclude(c, r, a, "failed")
      BY <2>1
    <2> HIDE DEF next, failed, nexts, c
    <2>4. Proceeds(c, r, a)
      BY <1>1, <1>2, <1>3, <2>2, <2>3
    <2>5. UNCHANGED regVars
      BY <2>3 DEF Mutates
    <2> QED
      BY <2>3, <2>4, <2>5 DEF c
  <1>5. CASE WriteCall(p)
    <2>1. PICK a \in Addrs, prior \in Objects \cup {Null} :
           \E answer \in WriteReplies(a, prior) :
             /\ Calling(r, a)
             /\ Mutates(a, answer)
             /\ Alone(p) /\ Phases(c)
             /\ \/ AfterRecord(c, r, a, answer.reply,
                               IF answer.errors = "no" THEN "completed" ELSE "failed",
                               Nothing)
                \/ AfterConclude(c, r, a, "failed")
      BY <1>5, WriteCallEffect
    <2> DEFINE next(answer) == IF answer.errors = "no" THEN "completed" ELSE "failed"
    <2>2. PICK answer :
             /\ Calling(r, a) /\ Mutates(a, answer)
             /\ Alone(p) /\ Phases(c)
             /\ \/ AfterRecord(c, r, a, answer.reply, next(answer), Nothing)
                \/ AfterConclude(c, r, a, "failed")
      BY <2>1
    <2> DEFINE then == next(answer)
    <2>3. then \in nexts /\ then # "create"
      OBVIOUS
    <2>4. AfterRecord(c, r, a, answer.reply, then, Nothing) \/ AfterConclude(c, r, a, "failed")
      BY <2>2
    <2> HIDE DEF then, nexts, c
    <2>5. Proceeds(c, r, a)
      BY <1>1, <1>2, <2>3, <2>4
    <2>6. UNCHANGED regVars
      BY <2>2 DEF Mutates
    <2> QED
      BY <2>2, <2>5, <2>6 DEF c
  <1> QED
    BY <1>4, <1>5

\* Every step is one process's, with or without the lock, an edit of the
\* configuration or a power loss.
LEMMA StepKinds ==
    ASSUME Typed, [Next]_vars
    PROVE  \/ \E p \in Procs : FreeStep(p) \/ LockedStep(p)
           \/ EditConfig \/ PowerLoss \/ UNCHANGED vars
  <1>1. ASSUME NEW p \in Procs, Running(p) \/ Kill(p)
        PROVE  FreeStep(p) \/ LockedStep(p)
    <2>1. CASE Abandon(p) \/ End(p) \/ Kill(p)
      BY <2>1, LeavingSteps DEF FreeStep
    <2>2. CASE ApplyLock(p)
      BY <2>2, ApplyLockEffect DEF FreeStep, LockedStep
    <2>3. CASE LockOnce(p)
      BY <2>3, LockOnceEffect DEF FreeStep, LockedStep
    <2> QED
      BY <1>1, <2>1, <2>2, <2>3 DEF Running, FreeStep, LockedStep
  <1> QED
    BY <1>1 DEF Next, FreeStep

\* A process outside the lock leaves it, the state file and the world alone,
\* and stays outside.
LEMMA FreeStepEffect ==
    ASSUME Typed, NEW p \in Procs, FreeStep(p)
    PROVE  /\ Alone(p) /\ ~InLock(run'[p])
           /\ UNCHANGED <<current, survivors, promised, world>>
           /\ \A q \in Procs : q # p => seen'[q] = seen[q]
           /\ owner' = owner \/ (owner = p /\ owner' = NoProc)
           /\ Reg!Forget(p) \/ (owner' = owner /\ ~InLock(run[p]))
  <1>0. seen \in [Procs -> Documents]
    BY DEF Typed, TypeOK
  <1>1. CASE Leave(p) /\ UNCHANGED world
    <2>1. Alone(p) /\ run'[p] = Idle /\ Reg!Forget(p)
      BY <1>1, LeaveEffect
    <2>2. ~InLock(Idle)
      BY DEF InLock, Idle
    <2> QED
      BY <1>0, <1>1, <2>1, <2>2 DEF Reg!Forget
  <1>2. CASE Start(p)
    <2>1. /\ run[p] = Idle /\ Alone(p) /\ run'[p].pc = "started"
          /\ UNCHANGED <<regVars, world>>
      BY <1>2, StartEffect
    <2>2. ~InLock(Idle)
      BY DEF InLock, Idle
    <2> QED
      BY <2>1, <2>2 DEF InLock, regVars
  <1>3. CASE LoadState(p)
    <2>1. /\ run[p].pc = "started" /\ Alone(p) /\ run'[p].pc \in {"planning", "loaded"}
          /\ Reg!Observe(p) /\ UNCHANGED world
      BY <1>3, LoadEffect DEF AfterLoad
    <2> QED
      BY <1>0, <2>1 DEF InLock, Reg!Observe
  <1>4. CASE PlanWrite(p)
    BY <1>1, <1>4, PlanWriteEffect
  <1>5. CASE ApplyLoad(p) /\ ~Leave(p)
    <2>1. /\ run[p].pc = "started" /\ Alone(p) /\ Reg!Observe(p) /\ UNCHANGED world
          /\ \E r \in Runs : run'[p] = Checked(r)
      BY <1>5, ApplyLoadEffect
    <2>2. run'[p].pc = "loaded"
      BY <2>1, Checking DEF AfterMove
    <2> QED
      BY <1>0, <2>1, <2>2 DEF InLock, Reg!Observe
  <1>6. CASE ApplyLoad(p) /\ Leave(p)
    BY <1>1, <1>6, ApplyLoadEffect
  <1>7. CASE DestroyConfirmed(p)
    <2>1. /\ run[p].pc = "planning" /\ Alone(p) /\ UNCHANGED <<regVars, world>>
          /\ \E r \in Runs : run'[p] = Checked(r)
      BY <1>7, DestroyConfirmedEffect
    <2>2. run'[p].pc = "loaded"
      BY <2>1, Checking DEF AfterMove
    <2> QED
      BY <2>1, <2>2 DEF InLock, regVars
  <1> QED
    BY <1>1, <1>2, <1>3, <1>4, <1>5, <1>6, <1>7 DEF FreeStep

\* Where a process gets by a step under the lock.
LEMMA AfterSavePhase ==
    ASSUME NEW r \in Runs, NEW c, NEW saved \in BOOLEAN, AfterSave(c, r, saved)
    PROVE  c.pc \in {"exec", "create", "end"}
  BY Sparing, HalfReplacing, Ending DEF AfterSave, AfterMove, AfterConclude, AfterLegUnsaved

\* A process under the lock stays there, and nobody else's view changes.
LEMMA LockedStepEffect ==
    ASSUME Typed, NEW p \in Procs, LockedStep(p)
    PROVE  /\ Alone(p) /\ InLock(run'[p])
           /\ \A q \in Procs : q # p => seen'[q] = seen[q]
           /\ (InLock(run[p]) /\ owner' = owner) \/ Reg!Acquire(p)
  <1>0. seen \in [Procs -> Documents] /\ run[p] \in Runs
    BY TypedRun DEF Typed, TypeOK
  <1>1. CASE ApplyLock(p) /\ Reg!Acquire(p)
    <2>1. seen' = seen
      BY <1>1 DEF Reg!Acquire
    <2>2. CASE Leave(p)
      <3>1. Reg!Forget(p)
        BY <2>2, LeaveEffect
      <3> QED
        BY <1>0, <1>1, <3>1, ApplyAssumption DEF Reg!Forget, Reg!Acquire
    <2>3. CASE ~Leave(p)
      <3>1. /\ Alone(p)
            /\ \/ run'[p] = Turned(run[p], "exec")
               \/ run'[p] = Marked(run[p], "mark", InFlight(run[p]))
        BY <1>1, <2>3, ApplyLockEffect
      <3>2. Turned(run[p], "exec").pc = "exec"
        BY <1>0, Turning DEF AfterMove
      <3>3. Marked(run[p], "mark", InFlight(run[p])).pc = "save"
        BY <1>0 DEF Marked, Runs
      <3> QED
        BY <1>1, <2>1, <3>1, <3>2, <3>3 DEF InLock
    <2> QED
      BY <2>2, <2>3
  <1>2. CASE LockOnce(p) /\ Reg!Acquire(p)
    <2>1. seen' = seen
      BY <1>2 DEF Reg!Acquire
    <2>2. CASE Leave(p)
      <3>1. Reg!Forget(p)
        BY <2>2, LeaveEffect
      <3> QED
        BY <1>0, <1>2, <3>1, ApplyAssumption DEF Reg!Forget, Reg!Acquire
    <2>3. CASE ~Leave(p)
      <3>1. Alone(p) /\ run'[p] = Turned(run[p], "locked")
        BY <1>2, <2>3, LockOnceEffect
      <3>2. Turned(run[p], "locked").pc = "locked"
        BY <1>0, Turning DEF AfterMove
      <3> QED
        BY <1>2, <2>1, <3>1, <3>2 DEF InLock
    <2> QED
      BY <2>2, <2>3
  <1>3. CASE Skip(p)
    BY <1>3, SkipEffect DEF AfterConclude, InLock, regVars
  <1>4. CASE Preflight(p)
    BY <1>4, PreflightEffect DEF AfterConclude, InLock, regVars
  <1>5. CASE DestroyCall(p) \/ WriteCall(p)
    <2>1. PICK a \in Addrs :
            /\ Calling(run[p], a) /\ Alone(p) /\ UNCHANGED regVars
            /\ Proceeds(run'[p], run[p], a)
      BY <1>5, CallEffect
    <2>2. run[p].pc \in {"exec", "create"} /\ run'[p].pc \in {"exec", "save"}
      BY <2>1 DEF Calling, Proceeds, AfterConclude, AfterRecord
    <2> QED
      BY <2>1, <2>2 DEF InLock, regVars
  <1>7. CASE Wrapup(p)
    <2>1. /\ Marked(run[p], "final", Split(run[p])).pc = "save"
          /\ Marked(run[p], "final", NoMarker).pc = "save"
          /\ Ended(run[p], "ok").pc = "end"
      BY <1>0 DEF Marked, Ended, Runs
    <2> QED
      BY <1>7, <2>1, WrapupEffect DEF InLock, regVars
  <1>8. CASE SaveCommit(p)
    <2>1. Turned(run[p], "sync").pc = "sync"
      BY <1>0, Turning DEF AfterMove
    <2>2. /\ Alone(p) /\ run'[p] = Turned(run[p], "sync") /\ run[p].pc = "save"
          /\ Reg!Commit(p, [res |-> run[p].res, marker |-> run[p].marker])
      BY <1>8, SaveCommitEffect
    <2> QED
      BY <1>0, <2>1, <2>2 DEF InLock, Reg!Commit
  <1>9. CASE SaveAcknowledge(p)
    <2>1. /\ Alone(p) /\ run[p].pc = "sync" /\ AfterSave(run'[p], run[p], TRUE)
          /\ Reg!Acknowledge(p) /\ owner' = owner
      BY <1>9, SaveAcknowledgeEffect
    <2>2. run'[p].pc \in {"exec", "create", "end"}
      BY <1>0, <2>1, AfterSavePhase
    <2> QED
      BY <2>1, <2>2 DEF InLock, Reg!Acknowledge
  <1>10. CASE SaveFails(p)
    <2>1. /\ Alone(p) /\ run[p].pc \in {"save", "sync"} /\ AfterSave(run'[p], run[p], FALSE)
          /\ UNCHANGED regVars
      BY <1>10, SaveFailsEffect
    <2>2. run'[p].pc \in {"exec", "create", "end"}
      BY <1>0, <2>1, AfterSavePhase
    <2> QED
      BY <2>1, <2>2 DEF InLock, regVars
  <1>11. CASE ImportAdopt(p)
    BY <1>11, ImportAdoptEffect DEF AfterAdopt, InLock, regVars
  <1>12. CASE SanitizeSave(p)
    <2>1. Sanitized(run[p]).pc = "save"
      BY <1>0, Sanitizing DEF AfterMove
    <2> QED
      BY <1>12, <2>1, SanitizeSaveEffect DEF InLock, regVars
  <1>13. CASE GiveUpLocked(p)
    <2>1. Ended(run[p], "failed").pc = "end"
      BY <1>0, Ending DEF AfterMove
    <2> QED
      BY <1>13, <2>1, GiveUpLockedEffect DEF InLock, regVars
  <1> QED
    BY <1>1, <1>2, <1>3, <1>4, <1>5, <1>7, <1>8, <1>9, <1>10, <1>11, <1>12,
       <1>13 DEF LockedStep

\* A process that ends is no longer in the lock.
LEMMA NotLeaving ==
    ASSUME Typed, NEW p \in Procs, LockedStep(p)
    PROVE  ~Leave(p)
  <1>1. InLock(run'[p])
    BY LockedStepEffect
  <1>2. ~InLock(Idle)
    BY DEF InLock, Idle
  <1> QED
    BY <1>1, <1>2, LeaveEffect

\* While a process is in the lock, nobody else moves the state or the world.
LEMMA OthersWait ==
    ASSUME Typed, Held, Held', [Next]_vars, NEW q \in Procs, InLock(run'[q])
    PROVE  \/ LockedStep(q)
           \/ /\ InLock(run[q]) /\ run'[q] = run[q] /\ seen'[q] = seen[q]
              /\ UNCHANGED <<current, survivors, world>>
  <1>1. CASE \E p \in Procs : p # q /\ FreeStep(p)
    BY <1>1, FreeStepEffect DEF Alone
  <1>2. ASSUME NEW p \in Procs, p # q, LockedStep(p) PROVE FALSE
    <2>1. InLock(run'[p])
      BY <1>2, LockedStepEffect
    <2> QED
      BY <1>2, <2>1 DEF Held
  <1>3. ASSUME FreeStep(q) PROVE FALSE
    BY <1>3, FreeStepEffect
  <1>4. CASE EditConfig \/ UNCHANGED vars
    BY <1>4 DEF EditConfig, vars, regVars
  <1>5. ASSUME PowerLoss PROVE FALSE
    BY <1>5 DEF PowerLoss, InLock, Idle
  <1> QED
    BY <1>1, <1>2, <1>3, <1>4, <1>5, StepKinds

\* Initially nobody is in the lock.
LEMMA InitHeld == Init => Held
  <1>1. ~InLock(Idle)
    BY DEF InLock, Idle
  <1> QED
    BY <1>1, ApplyAssumption DEF Init, Reg!RegisterInit, Held

\* Only a process that takes the lock enters, and it leaves by freeing it.
LEMMA StepKeepsHeld == Typed /\ Held /\ [Next]_vars => Held'
  <1> SUFFICES ASSUME Typed, Held, [Next]_vars PROVE Held'
    OBVIOUS
  <1>1. ASSUME NEW p \in Procs, FreeStep(p) PROVE Held'
    <2>1. /\ Alone(p) /\ ~InLock(run'[p])
          /\ owner' = owner \/ (owner = p /\ owner' = NoProc)
          /\ Reg!Forget(p) \/ (owner' = owner /\ ~InLock(run[p]))
      BY <1>1, FreeStepEffect
    <2>2. owner' # p
      BY <2>1, ApplyAssumption DEF Held, Reg!Forget
    <2>3. \A q \in Procs : q # p => (owner' = q <=> InLock(run'[q]))
      BY <2>1, ApplyAssumption DEF Alone, Held
    <2> QED
      BY <2>1, <2>2, <2>3 DEF Held
  <1>2. ASSUME NEW p \in Procs, LockedStep(p) PROVE Held'
    <2>1. /\ Alone(p) /\ InLock(run'[p])
          /\ (InLock(run[p]) /\ owner' = owner) \/ Reg!Acquire(p)
      BY <1>2, LockedStepEffect
    <2>2. owner' = p /\ \A q \in Procs : q # p => owner # q
      BY <2>1, ApplyAssumption DEF Held, Reg!Acquire
    <2>3. \A q \in Procs : q # p => ~InLock(run'[q])
      BY <2>1, <2>2 DEF Alone, Held
    <2> QED
      BY <2>1, <2>2, <2>3 DEF Held
  <1>3. CASE EditConfig \/ UNCHANGED vars
    BY <1>3 DEF EditConfig, vars, regVars, Held
  <1>4. CASE PowerLoss
    <2>1. ~InLock(Idle)
      BY DEF InLock, Idle
    <2> QED
      BY <1>4, <2>1, ApplyAssumption DEF PowerLoss, Reg!Lose, Held
  <1> QED
    BY <1>1, <1>2, <1>3, <1>4, StepKinds

\* Hence the lock is owned exactly by the process inside it.
LEMMA HeldAlways == Spec => []Held
  <1>1. Typed /\ Held /\ [Next]_vars => Held'
    BY StepKeepsHeld
  <1> QED
    BY <1>1, InitHeld, TypedAlways, PTL DEF Spec

----------------------------------------------------------------------------
\* The loop's bookkeeping.

\* No change has a verdict.
Unworked(r) == r.outcome = [a \in Addrs |-> "none"] /\ r.failed = {} /\ r.lost = {}

\* No change has been attempted yet, or ever will be.
Early(r) ==
    \/ r.cmd # "apply"
    \/ r.pc \in {"started", "planning", "loaded"}
    \/ r.saving = "mark"

\* The list holds the planned changes without an outcome, in an order in
\* which they may be made.
Listed(r) ==
    /\ Distinct(r.todo)
    /\ \A a \in Addrs : a \in ToSet(r.todo) <=> a \in Planned(r) /\ r.outcome[a] = "none"
    /\ InOrder(r, r.todo)

\* Only planned changes have outcomes; the first that failed is remembered.
Verdicts(r) ==
    /\ \A a \in Addrs : r.outcome[a] # "none" => a \in Planned(r)
    /\ r.failed \subseteq Bad(r) /\ r.lost \subseteq Bad(r)
    /\ Bad(r) # {} => r.failed # {}

\* The head of the list is being changed at the provider or recorded.
Underway(r) == r.pc = "create" \/ r.next # "none"

\* Where in its list a process is.
Reached(r) ==
    /\ Underway(r) => ~Blocked(r, Head(r.todo))
    /\ r.pc = "create" \/ r.next = "create" => Change(r, Head(r.todo)) = "replace"
    /\ r.saving = "final" \/ r.exit = "ok" => r.todo = <<>>
    /\ r.saving = "mark" => r.todo # <<>>

\* The loop's bookkeeping is consistent.
Work(r) ==
    /\ Early(r) => Unworked(r)
    /\ r.cmd = "apply" /\ r.pc \notin {"idle", "started"} => Listed(r)
    /\ Verdicts(r)
    /\ Reached(r)

\* It is, in every process.
WorkInv == \A p \in Procs : Work(run[p])

\* Without verdicts nothing has failed and nothing is completed.
LEMMA UnworkedVerdicts ==
    ASSUME NEW r, Unworked(r)
    PROVE  Verdicts(r) /\ Bad(r) = {} /\ Completed(r) = {}
  BY DEF Unworked, Verdicts, Bad, Completed

\* A step that changes none of the bookkeeping.
LEMMA MovedWork ==
    ASSUME NEW r \in Runs, NEW c \in Runs, Work(r), SameInputs(c, r), SameProgress(c, r),
           r.pc \notin {"idle", "started"},
           Early(c) => Early(r),
           Underway(c) => Underway(r),
           c.pc = "create" \/ c.next = "create" => r.pc = "create" \/ r.next = "create",
           c.saving = "final" \/ c.exit = "ok" => c.todo = <<>>,
           c.saving = "mark" => c.todo # <<>>
    PROVE  Work(c)
  <1>1. Bad(c) = Bad(r) /\ Completed(c) = Completed(r)
    BY DEF SameProgress, Bad, Completed
  <1>2. /\ Planned(c) = Planned(r) /\ Deletes(c) = Deletes(r)
        /\ \A a : /\ Change(c, a) = Change(r, a) /\ StateOnly(c, a) = StateOnly(r, a)
                  /\ Prerequisites(c, a) = Prerequisites(r, a)
                  /\ Before(c, a) = Before(r, a)
    BY SameInputsSameWork
  <1>3. \A a : Blocked(c, a) = Blocked(r, a)
    BY <1>1, <1>2 DEF Blocked, SameProgress
  <1>4. Early(c) => Unworked(c)
    BY DEF Work, Unworked, SameProgress
  <1>5. Listed(r) => Listed(c)
    BY <1>2 DEF Listed, SameProgress, InOrder
  <1>6. Verdicts(c)
    BY <1>1, <1>2 DEF Work, Verdicts, SameProgress
  <1>7. Reached(c)
    BY <1>2, <1>3 DEF Work, Reached, SameProgress
  <1> QED
    BY <1>4, <1>5, <1>6, <1>7 DEF Work, SameInputs

\* What is left of a list without its head.
LEMMA RestOfList ==
    ASSUME NEW s \in Seq(Addrs), s # <<>>, Distinct(s)
    PROVE  /\ Rest(s) \in Seq(Addrs) /\ Distinct(Rest(s))
           /\ \A x : x \in ToSet(Rest(s)) <=> x \in ToSet(s) /\ x # Head(s)
           /\ Head(s) \in ToSet(s) /\ Head(s) = s[1]
           /\ Len(s) \in Nat /\ Len(s) >= 1
           /\ Len(Rest(s)) = Len(s) - 1
           /\ \A i \in 1..Len(Rest(s)) : i + 1 \in 1..Len(s) /\ Rest(s)[i] = s[i + 1]
  <1>1. Rest(s) \in Seq(Addrs)
    BY HeadTailProperties DEF Rest
  <1>2. Len(s) \in Nat /\ Len(s) >= 1
    BY LenProperties, EmptySeq
  <1>3. Head(s) = s[1] /\ Len(Rest(s)) = Len(s) - 1
    BY HeadTailProperties DEF Rest
  <1>4. \A i \in 1..Len(Rest(s)) : i + 1 \in 1..Len(s) /\ Rest(s)[i] = s[i + 1]
    BY <1>2, <1>3, HeadTailProperties DEF Rest
  <1>5. /\ \A x : x \in ToSet(s) <=> \E i \in 1..Len(s) : x = s[i]
        /\ \A x : x \in ToSet(Rest(s)) <=> \E i \in 1..Len(Rest(s)) : x = Rest(s)[i]
    BY <1>1, ToSetOfSeq
  <1>6. \A i \in 2..Len(s) : i - 1 \in 1..Len(Rest(s)) /\ (i - 1) + 1 = i
    BY <1>2, <1>3
  <1>7. Distinct(Rest(s))
    BY <1>2, <1>3, <1>4 DEF Distinct
  <1>8. ASSUME NEW x PROVE x \in ToSet(Rest(s)) <=> x \in ToSet(s) /\ x # Head(s)
    <2>1. ASSUME x \in ToSet(Rest(s)) PROVE x \in ToSet(s) /\ x # Head(s)
      <3>1. PICK i \in 1..Len(Rest(s)) : x = Rest(s)[i]
        BY <1>5, <2>1
      <3>2. x = s[i + 1] /\ i + 1 \in 1..Len(s) /\ i + 1 # 1
        BY <1>4, <3>1
      <3>3. 1 \in 1..Len(s)
        BY <1>2
      <3> QED
        BY <1>3, <1>5, <3>2, <3>3 DEF Distinct
    <2>2. ASSUME x \in ToSet(s), x # Head(s) PROVE x \in ToSet(Rest(s))
      <3>1. PICK i \in 1..Len(s) : x = s[i]
        BY <1>5, <2>2
      <3>2. i # 1
        BY <1>3, <2>2, <3>1
      <3>3. i \in 2..Len(s)
        BY <3>2
      <3>4. x = Rest(s)[i - 1] /\ i - 1 \in 1..Len(Rest(s))
        BY <1>4, <1>6, <3>1, <3>3
      <3> QED
        BY <1>5, <3>4
    <2> QED
      BY <2>1, <2>2
  <1>9. Head(s) \in ToSet(s)
    BY <1>2, <1>3, <1>5
  <1> QED
    BY <1>1, <1>2, <1>3, <1>4, <1>7, <1>8, <1>9

\* The head of the list is over.
LEMMA ConcludedList ==
    ASSUME NEW r \in Runs, NEW c \in Runs, Listed(r), r.todo # <<>>, SameInputs(c, r),
           c.todo = Rest(r.todo),
           NEW verdict \in {"completed", "failed", "blocked"},
           c.outcome = Updated(r.outcome, Head(r.todo), verdict)
    PROVE  Listed(c)
  <1> DEFINE s == r.todo
             t == Rest(s)
             h == Head(s)
  <1>1. s \in Seq(Addrs) /\ h \in Addrs
    BY HeadOfList
  <1>2. /\ t \in Seq(Addrs) /\ Distinct(t)
        /\ \A x : x \in ToSet(t) <=> x \in ToSet(s) /\ x # h
        /\ Len(t) \in Nat /\ \A i \in 1..Len(t) : i + 1 \in 1..Len(s) /\ t[i] = s[i + 1]
    BY <1>1, RestOfList, LenProperties DEF Listed
  <1>3. \A a \in Addrs : c.outcome[a] = IF a = h THEN verdict ELSE r.outcome[a]
    BY <1>1 DEF Updated, Runs
  <1>4. /\ Planned(c) = Planned(r)
        /\ \A a : StateOnly(c, a) = StateOnly(r, a) /\ Before(c, a) = Before(r, a)
    BY SameInputsSameWork
  <1>5. InOrder(c, t)
    <2> SUFFICES ASSUME NEW i \in 1..Len(t), NEW j \in 1..Len(t), i <= j,
                        ~StateOnly(c, t[i])
                 PROVE  t[j] \notin Before(c, t[i])
      BY DEF InOrder
    <2>1. i + 1 <= j + 1
      OBVIOUS
    <2> QED
      BY <1>2, <1>4, <2>1 DEF Listed, InOrder
  <1> QED
    BY <1>2, <1>3, <1>4, <1>5 DEF Listed

\* One more verdict counts as one more bad or completed change.
LEMMA ConcludedVerdicts ==
    ASSUME NEW r \in Runs, NEW c \in Runs, Verdicts(r), NEW a \in Addrs, a \in Planned(r),
           r.outcome[a] = "none", SameInputs(c, r),
           NEW verdict \in {"completed", "failed", "blocked"},
           c.outcome = Updated(r.outcome, a, verdict)
    PROVE  /\ \A b \in Addrs : c.outcome[b] # "none" => b \in Planned(c)
           /\ Bad(c) = IF verdict = "completed" THEN Bad(r) ELSE Bad(r) \cup {a}
           /\ Completed(c) = IF verdict = "completed" THEN Completed(r) \cup {a}
                             ELSE Completed(r)
  <1>1. \A b \in Addrs : c.outcome[b] = IF b = a THEN verdict ELSE r.outcome[b]
    BY DEF Updated, Runs
  <1>2. Planned(c) = Planned(r)
    BY SameInputsSameWork
  <1>3. \A b \in Addrs : c.outcome[b] # "none" => b \in Planned(c)
    BY <1>1, <1>2 DEF Verdicts
  <1>4. Bad(c) = IF verdict = "completed" THEN Bad(r) ELSE Bad(r) \cup {a}
    BY <1>1 DEF Bad
  <1>5. Completed(c) = IF verdict = "completed" THEN Completed(r) \cup {a} ELSE Completed(r)
    BY <1>1 DEF Completed
  <1> QED
    BY <1>3, <1>4, <1>5

\* The head of a working process's list is planned and has no outcome.
LEMMA HeadPlanned ==
    ASSUME NEW r \in Runs, Listed(r), r.todo # <<>>
    PROVE  /\ Head(r.todo) \in Addrs /\ Head(r.todo) \in Planned(r)
           /\ r.outcome[Head(r.todo)] = "none"
  <1>1. r.todo \in Seq(Addrs) /\ Head(r.todo) \in Addrs
    BY HeadOfList
  <1>2. Head(r.todo) \in ToSet(r.todo)
    BY <1>1, RestOfList DEF Listed
  <1> QED
    BY <1>1, <1>2 DEF Listed

\* The bookkeeping survives a verdict, ...
LEMMA ConcludedWork ==
    ASSUME NEW r \in Runs, Work(r), r.cmd = "apply", r.todo # <<>>, r.exit = "none",
           r.pc \in {"exec", "create", "save", "sync"},
           NEW c, NEW verdict \in {"completed", "failed", "blocked"},
           AfterConclude(c, r, Head(r.todo), verdict),
           verdict = "blocked" => Blocked(r, Head(r.todo))
    PROVE  Work(c)
  <1> DEFINE h == Head(r.todo)
  <1>1. /\ c \in Runs /\ SameInputs(c, r) /\ c.todo = Rest(r.todo)
        /\ c.outcome = Updated(r.outcome, h, verdict)
        /\ c.failed = IF verdict = "failed" /\ r.failed = {} THEN {h} ELSE r.failed
        /\ c.lost = r.lost /\ c.exit = r.exit /\ c.saving = "none" /\ c.next = "none"
        /\ c.pc = "exec"
    BY DEF AfterConclude
  <1>2. Listed(r) /\ Verdicts(r)
    BY DEF Work
  <1>3. h \in Addrs /\ h \in Planned(r) /\ r.outcome[h] = "none"
    BY <1>2, HeadPlanned
  <1>4. Listed(c)
    BY <1>1, <1>2, ConcludedList
  <1> HIDE DEF h
  <1>5. /\ \A b \in Addrs : c.outcome[b] # "none" => b \in Planned(c)
        /\ Bad(c) = IF verdict = "completed" THEN Bad(r) ELSE Bad(r) \cup {h}
    BY <1>1, <1>2, <1>3, ConcludedVerdicts
  <1>6. verdict = "blocked" => r.failed # {}
    BY <1>2 DEF Blocked, Verdicts, h
  <1>7. Verdicts(c)
    BY <1>1, <1>2, <1>5, <1>6 DEF Verdicts
  <1>8. Reached(c) /\ ~Early(c)
    BY <1>1 DEF Reached, Underway, Early, SameInputs
  <1> QED
    BY <1>4, <1>7, <1>8 DEF Work

\* ... the failed save of a leg, ...
LEMMA LostWork ==
    ASSUME NEW r \in Runs, Work(r), r.cmd = "apply", r.todo # <<>>, r.exit = "none",
           r.pc \in {"save", "sync"}, NEW c, AfterLegUnsaved(c, r)
    PROVE  Work(c)
  <1> DEFINE h == Head(r.todo)
             failed == "failed"
  <1>1. /\ c \in Runs /\ SameInputs(c, r) /\ c.todo = Rest(r.todo)
        /\ c.outcome = Updated(r.outcome, h, failed)
        /\ c.failed = IF r.failed = {} THEN {h} ELSE r.failed
        /\ c.lost = {h} /\ c.exit = r.exit /\ c.saving = "none" /\ c.next = "none"
        /\ c.pc = "exec"
    BY DEF AfterLegUnsaved
  <1>2. failed \in {"completed", "failed", "blocked"} /\ failed # "completed"
    OBVIOUS
  <1>3. Listed(r) /\ Verdicts(r)
    BY DEF Work
  <1>4. h \in Addrs /\ h \in Planned(r) /\ r.outcome[h] = "none"
    BY <1>3, HeadPlanned
  <1> HIDE DEF failed
  <1>5. Listed(c)
    BY <1>1, <1>2, <1>3, ConcludedList
  <1> HIDE DEF h
  <1>6. /\ \A b \in Addrs : c.outcome[b] # "none" => b \in Planned(c)
        /\ Bad(c) = Bad(r) \cup {h}
    BY <1>1, <1>2, <1>3, <1>4, ConcludedVerdicts
  <1>7. Verdicts(c)
    BY <1>1, <1>3, <1>6 DEF Verdicts
  <1>8. Reached(c) /\ ~Early(c)
    BY <1>1 DEF Reached, Underway, Early, SameInputs
  <1> QED
    BY <1>5, <1>7, <1>8 DEF Work

\* The head of a calling process is not blocked.
LEMMA CallingReached ==
    ASSUME NEW r \in Runs, Work(r), NEW a, Calling(r, a)
    PROVE  ~Blocked(r, a)
  BY DEF Calling, Work, Reached, Underway

\* ... the start of a leg's save ...
LEMMA RecordedWork ==
    ASSUME NEW r \in Runs, Work(r), NEW a \in Addrs, Calling(r, a), NEW c, NEW entry, NEW undo,
           NEW next \in {"create", "completed", "failed"},
           AfterRecord(c, r, a, entry, next, undo),
           next = "create" => Change(r, a) = "replace",
           r.exit = "none"
    PROVE  Work(c)
  <1>1. /\ c \in Runs /\ SameInputs(c, r) /\ SameProgress(c, r)
        /\ c.pc = "save" /\ c.saving = "leg" /\ c.next = next /\ c.exit = "none"
    BY DEF AfterRecord
  <1>2. /\ a = Head(r.todo) /\ r.todo # <<>> /\ r.cmd = "apply"
        /\ r.pc \in {"exec", "create"} /\ c.todo = r.todo
    BY <1>1 DEF Calling, SameProgress
  <1>3. Bad(c) = Bad(r)
    BY <1>1 DEF SameProgress, Bad
  <1>4. /\ Planned(c) = Planned(r)
        /\ \A b : /\ Change(c, b) = Change(r, b) /\ StateOnly(c, b) = StateOnly(r, b)
                  /\ Prerequisites(c, b) = Prerequisites(r, b)
                  /\ Before(c, b) = Before(r, b)
    BY <1>1, SameInputsSameWork
  <1>5. ~Blocked(c, a)
    BY <1>1, <1>3, <1>4, CallingReached DEF Blocked, SameProgress
  <1>6. Listed(r) /\ Verdicts(r)
    BY <1>2 DEF Work
  <1>7. Listed(c)
    BY <1>1, <1>2, <1>4, <1>6 DEF Listed, SameProgress, InOrder
  <1>8. Verdicts(c)
    BY <1>1, <1>3, <1>4, <1>6 DEF Verdicts, SameProgress
  <1>9. Reached(c) /\ ~Early(c)
    BY <1>1, <1>2, <1>4, <1>5 DEF Reached, Underway, Early, SameInputs
  <1> QED
    BY <1>7, <1>8, <1>9 DEF Work

\* ... and so every provider call.
LEMMA ProceedingWork ==
    ASSUME NEW r \in Runs, Work(r), r.exit = "none", NEW a \in Addrs, Calling(r, a),
           NEW c, Proceeds(c, r, a)
    PROVE  Work(c)
  <1>1. CASE AfterConclude(c, r, a, "failed")
    <2> DEFINE failed == "failed"
    <2>1. failed \in {"completed", "failed", "blocked"} /\ failed # "blocked"
      OBVIOUS
    <2>2. /\ r.cmd = "apply" /\ r.todo # <<>> /\ a = Head(r.todo)
          /\ r.pc \in {"exec", "create", "save", "sync"}
      BY DEF Calling
    <2>3. AfterConclude(c, r, Head(r.todo), failed)
      BY <1>1, <2>2
    <2> HIDE DEF failed
    <2> QED
      BY <2>1, <2>2, <2>3, ConcludedWork
  <1>2. CASE \E entry, undo : \E next \in {"create", "completed", "failed"} :
               /\ AfterRecord(c, r, a, entry, next, undo)
               /\ next = "create" => Change(r, a) = "replace" /\ r.pc = "exec"
    BY <1>2, RecordedWork
  <1> QED
    BY <1>1, <1>2 DEF Proceeds

\* A process that has not begun has no bookkeeping.
LEMMA FreshWork ==
    ASSUME NEW r \in Runs, Fresh(r), r.pc \in {"idle", "started"}
    PROVE  Work(r) /\ Unworked(r)
  <1>1. Unworked(r)
    BY DEF Fresh, Unworked
  <1>2. Verdicts(r)
    BY <1>1, UnworkedVerdicts
  <1>3. Reached(r)
    BY DEF Reached, Underway, Fresh
  <1> QED
    BY <1>1, <1>2, <1>3 DEF Work

\* Apply takes up the work it has checked.
LEMMA CheckedWork ==
    ASSUME NEW r \in Runs, Unworked(r), Accepted(r),
           r.saving = "none", r.next = "none", r.exit = "none"
    PROVE  Work(Checked(r))
  <1> DEFINE c == Checked(r)
  <1>1. /\ c \in Runs /\ c.pc = "loaded" /\ c.saving = "none" /\ c.next = "none"
        /\ c.outcome = r.outcome /\ c.failed = r.failed /\ c.lost = r.lost
        /\ SameInputs(c, r) /\ c.todo = ExecutionOrder(r) /\ c.exit = "none"
    BY Checking DEF AfterMove
  <1> HIDE DEF c
  <1>2. Unworked(c)
    BY <1>1 DEF Unworked
  <1>3. Verdicts(c)
    BY <1>2, UnworkedVerdicts
  <1>4. Reached(c)
    BY <1>1 DEF Reached, Underway
  <1>5. /\ Distinct(c.todo) /\ ToSet(c.todo) = Planned(r) /\ InOrder(r, c.todo)
    BY <1>1, ExecutionOrderSound DEF Accepted
  <1>6. /\ Planned(c) = Planned(r)
        /\ \A b : StateOnly(c, b) = StateOnly(r, b) /\ Before(c, b) = Before(r, b)
    BY <1>1, SameInputsSameWork
  <1>7. \A a \in Addrs : c.outcome[a] = "none"
    BY <1>2 DEF Unworked
  <1>8. Listed(c)
    BY <1>5, <1>6, <1>7 DEF Listed, InOrder
  <1> QED
    BY <1>2, <1>3, <1>4, <1>8 DEF Work, c

\* What a save leaves of the bookkeeping.
LEMMA SavedWork ==
    ASSUME NEW r \in Runs, Phases(r), Work(r), r.pc \in {"save", "sync"},
           NEW c, NEW saved \in BOOLEAN, AfterSave(c, r, saved)
    PROVE  Work(c)
  <1>0. c \in Runs /\ Phases(c)
    BY AfterSavePhases
  <1>1. r.exit = "none" /\ r.pc \notin {"idle", "started"}
    BY DEF Phases
  <1>2. CASE r.saving = "mark" /\ c = Spared(r)
    <2>1. AfterMove(c, r, "exec", "none", r.next) /\ Steady(c, r)
      BY <1>2, Sparing
    <2>2. r.cmd = "apply" /\ r.next = "none" /\ ~Underway(r)
      BY <1>2 DEF Phases, Underway
    <2> QED
      BY <1>0, <1>1, <1>2, <2>1, <2>2, MovedWork
         DEF AfterMove, Steady, SameInputs, SameProgress, Early, Underway
  <1>3. CASE r.saving = "leg" /\ r.next = "create" /\ c = HalfReplaced(r)
    <2>1. AfterMove(c, r, "create", "none", "none") /\ Steady(c, r)
      BY <1>3, HalfReplacing
    <2>2. r.cmd = "apply"
      BY <1>3 DEF Phases
    <2> QED
      BY <1>0, <1>1, <1>3, <2>1, <2>2, MovedWork
         DEF AfterMove, Steady, SameInputs, SameProgress, Early, Underway
  <1>4. CASE r.saving = "leg" /\ r.next \in {"completed", "failed"}
             /\ AfterConclude(c, r, Head(r.todo), r.next)
    <2> DEFINE next == r.next
    <2>1. /\ next \in {"completed", "failed", "blocked"} /\ next # "blocked"
          /\ AfterConclude(c, r, Head(r.todo), next)
      BY <1>4
    <2>2. r.cmd = "apply" /\ r.todo # <<>> /\ r.pc \in {"exec", "create", "save", "sync"}
      BY <1>4 DEF Phases
    <2> HIDE DEF next
    <2> QED
      BY <1>1, <2>1, <2>2, ConcludedWork
  <1>5. CASE r.saving = "leg" /\ AfterLegUnsaved(c, r)
    <2>1. r.cmd = "apply" /\ r.todo # <<>>
      BY <1>5 DEF Phases
    <2> QED
      BY <1>1, <1>5, <2>1, LostWork
  <1>6. ASSUME NEW e \in {"ok", "split", "saved", "failed"}, c = Ended(r, e),
               r.saving \in {"mark", "final", "once"}, e = "ok" => r.saving = "final"
        PROVE  Work(c)
    <2>1. AfterMove(c, r, "end", r.saving, r.next) /\ c.todo = r.todo /\ c.exit = e
      BY <1>6, Ending
    <2>2. r.next = "none"
      BY <1>6 DEF Phases
    <2>3. (r.saving = "final" => r.todo = <<>>) /\ (r.saving = "mark" => r.todo # <<>>)
      BY DEF Work, Reached
    <2> QED
      BY <1>0, <1>1, <1>6, <2>1, <2>2, <2>3, MovedWork
         DEF AfterMove, SameInputs, SameProgress, Early, Underway
  <1>7. CASE \/ r.saving \in {"mark", "final"} /\ c = Ended(r, "failed")
             \/ r.saving = "final" /\ c = Ended(r, "ok")
             \/ r.saving = "final" /\ c = Ended(r, "split")
             \/ r.saving = "once" /\ c = Ended(r, IF saved THEN "saved" ELSE "failed")
    BY <1>6, <1>7
  <1> QED
    BY <1>2, <1>3, <1>4, <1>5, <1>7 DEF AfterSave

\* The steps outside the lock keep the bookkeeping, ...
LEMMA FreeStepKeepsWork ==
    ASSUME Typed, NEW p \in Procs, Work(run[p]), FreeStep(p)
    PROVE  Work(run'[p])
  <1>0. run[p] \in Runs /\ Phases(run[p])
    BY TypedRun
  <1>1. CASE Leave(p)
    BY <1>1, LeaveEffect, IdlePhases, InitialTypes, FreshWork DEF Idle
  <1>2. CASE Start(p)
    <2>1. run'[p] \in Runs /\ Fresh(run'[p]) /\ run'[p].pc = "started"
      BY <1>2, StartEffect DEF Alone
    <2> QED
      BY <2>1, FreshWork
  <1>3. CASE LoadState(p)
    <2>1. /\ run[p].pc = "started" /\ run[p].cmd # "apply" /\ run'[p] \in Runs
          /\ \E pc \in {"planning", "loaded"} : AfterLoad(run'[p], run[p], pc)
      BY <1>3, LoadEffect DEF Alone
    <2>2. Fresh(run[p])
      BY <1>0, <2>1 DEF Phases
    <2>3. Unworked(run[p])
      BY <1>0, <2>1, <2>2, FreshWork
    <2>4. /\ Unworked(run'[p]) /\ run'[p].cmd # "apply" /\ run'[p].next = "none"
          /\ run'[p].pc # "create" /\ run'[p].saving = "none" /\ run'[p].exit = "none"
      BY <2>1, <2>2, <2>3 DEF AfterLoad, Unworked, Fresh, SameProgress
    <2>5. Verdicts(run'[p])
      BY <2>4, UnworkedVerdicts
    <2> QED
      BY <2>4, <2>5 DEF Work, Reached, Underway
  <1>4. CASE PlanWrite(p)
    BY <1>1, <1>4, PlanWriteEffect
  <1>5. CASE ApplyLoad(p) /\ ~Leave(p)
    <2>1. PICK r \in Runs : /\ run[p].pc = "started"
                            /\ AfterLoad(r, run[p], "loaded") /\ Accepted(r)
                            /\ run'[p] = Checked(r)
      BY <1>5, ApplyLoadEffect
    <2>2. Fresh(run[p])
      BY <1>0, <2>1 DEF Phases
    <2>3. /\ Unworked(r) /\ r.saving = "none" /\ r.next = "none" /\ r.exit = "none"
      BY <2>1, <2>2 DEF AfterLoad, Unworked, Fresh, SameProgress
    <2> QED
      BY <2>1, <2>3, CheckedWork
  <1>6. CASE DestroyConfirmed(p)
    <2>1. PICK plan \in Plans(run[p]), r \in Runs :
              /\ run[p].pc = "planning"
              /\ AfterConfirm(r, run[p], plan) /\ Accepted(r)
              /\ run'[p] = Checked(r)
      BY <1>6, DestroyConfirmedEffect
    <2>2. /\ run[p].saving = "none" /\ run[p].next = "none" /\ run[p].exit = "none"
      BY <1>0, <2>1 DEF Phases
    <2>3. Unworked(run[p])
      BY <2>1 DEF Work, Early
    <2>4. Unworked(r) /\ r.saving = "none" /\ r.next = "none" /\ r.exit = "none"
      BY <2>1, <2>2, <2>3 DEF AfterConfirm, Unworked, SameProgress
    <2> QED
      BY <2>1, <2>4, CheckedWork
  <1> QED
    BY <1>1, <1>2, <1>3, <1>4, <1>5, <1>6 DEF FreeStep

\* ... and so do those under it.
LEMMA LockedStepKeepsWork ==
    ASSUME Typed, NEW p \in Procs, Work(run[p]), LockedStep(p)
    PROVE  Work(run'[p])
  <1> DEFINE r == run[p]
             c == run'[p]
  <1>0. r \in Runs /\ Phases(r)
    BY TypedRun
  <1>00. Alone(p)
    BY LockedStepEffect
  <1>01. c \in Runs
    BY <1>00 DEF Alone
  <1>02. ~Leave(p)
    BY NotLeaving
  <1>1. CASE ApplyLock(p)
    <2>0. /\ r.pc = "loaded" /\ r.cmd = "apply"
          /\ r.saving = "none" /\ r.next = "none" /\ r.exit = "none"
      BY <1>0, <1>1, ApplyLockEffect DEF Phases
    <2>1. CASE c = Turned(r, "exec")
      <3>1. AfterMove(c, r, "exec", r.saving, r.next) /\ Steady(c, r)
        BY <1>0, <2>1, Turning
      <3> QED
        BY <1>0, <1>01, <2>0, <3>1, MovedWork
           DEF AfterMove, Steady, SameInputs, SameProgress, Early, Underway
    <2>2. CASE r.todo # <<>> /\ c = Marked(r, "mark", InFlight(r))
      <3>1. /\ AfterMove(c, r, "save", "mark", r.next) /\ c.todo = r.todo
            /\ c.exit = r.exit
        BY <1>0, <2>2, Marking, MarkersOfRun
      <3> QED
        BY <1>0, <1>01, <2>0, <2>2, <3>1, MovedWork
           DEF AfterMove, SameInputs, SameProgress, Early, Underway
    <2> QED
      BY <1>1, <1>02, <2>1, <2>2, ApplyLockEffect
  <1>2. CASE LockOnce(p)
    <2>0. /\ r.pc = "loaded" /\ r.cmd # "apply" /\ c = Turned(r, "locked")
          /\ r.saving = "none" /\ r.next = "none" /\ r.exit = "none"
      BY <1>0, <1>2, <1>02, LockOnceEffect DEF Phases
    <2>1. AfterMove(c, r, "locked", r.saving, r.next) /\ Steady(c, r)
      BY <1>0, <2>0, Turning
    <2> QED
      BY <1>0, <1>01, <2>0, <2>1, MovedWork
         DEF AfterMove, Steady, SameInputs, SameProgress, Early, Underway
  <1>3. CASE Skip(p)
    <2> DEFINE blocked == "blocked"
    <2>1. /\ r.pc = "exec" /\ r.cmd = "apply" /\ r.todo # <<>>
          /\ Blocked(r, Head(r.todo))
          /\ AfterConclude(c, r, Head(r.todo), blocked)
      BY <1>3, SkipEffect
    <2>2. r.exit = "none" /\ r.pc \in {"exec", "create", "save", "sync"}
      BY <1>0, <2>1 DEF Phases
    <2>3. blocked \in {"completed", "failed", "blocked"}
      OBVIOUS
    <2> HIDE DEF blocked, c
    <2> QED
      BY <1>0, <2>1, <2>2, <2>3, ConcludedWork DEF c
  <1>4. CASE Preflight(p)
    <2> DEFINE failed == "failed"
    <2>1. /\ r.pc = "exec" /\ r.cmd = "apply" /\ r.todo # <<>>
          /\ AfterConclude(c, r, Head(r.todo), failed)
      BY <1>4, PreflightEffect
    <2>2. r.exit = "none" /\ r.pc \in {"exec", "create", "save", "sync"}
      BY <1>0, <2>1 DEF Phases
    <2>3. failed \in {"completed", "failed", "blocked"} /\ failed # "blocked"
      OBVIOUS
    <2> HIDE DEF failed, c
    <2> QED
      BY <1>0, <2>1, <2>2, <2>3, ConcludedWork DEF c
  <1>5. CASE DestroyCall(p) \/ WriteCall(p)
    <2>1. PICK a \in Addrs : Calling(r, a) /\ Proceeds(c, r, a)
      BY <1>5, CallEffect
    <2>2. r.exit = "none"
      BY <1>0, <2>1 DEF Phases, Calling
    <2> HIDE DEF c
    <2> QED
      BY <1>0, <2>1, <2>2, ProceedingWork DEF c
  <1>6. CASE Wrapup(p)
    <2>0. /\ r.pc = "exec" /\ r.cmd = "apply" /\ r.todo = <<>>
          /\ r.saving = "none" /\ r.next = "none" /\ r.exit = "none"
      BY <1>0, <1>6, WrapupEffect DEF Phases
    <2>1. ASSUME NEW m \in Markers, c = Marked(r, "final", m) PROVE Work(c)
      <3>1. /\ AfterMove(c, r, "save", "final", r.next) /\ c.todo = r.todo
            /\ c.exit = r.exit
        BY <1>0, <2>1, Marking
      <3> QED
        BY <1>0, <1>01, <2>0, <3>1, MovedWork
           DEF AfterMove, SameInputs, SameProgress, Early, Underway
    <2>2. CASE c = Ended(r, "ok")
      <3>1. AfterMove(c, r, "end", r.saving, r.next) /\ c.todo = r.todo
        BY <1>0, <2>2, Ending
      <3> QED
        BY <1>0, <1>01, <2>0, <3>1, MovedWork
           DEF AfterMove, SameInputs, SameProgress, Early, Underway
    <2>3. Split(r) \in Markers /\ NoMarker \in Markers
      BY <1>0, MarkersOfRun
    <2> QED
      BY <1>6, <2>1, <2>2, <2>3, WrapupEffect
  <1>7. CASE SaveCommit(p)
    <2>0. /\ r.pc = "save" /\ c = Turned(r, "sync") /\ r.exit = "none"
      BY <1>0, <1>7, SaveCommitEffect DEF Phases
    <2>1. AfterMove(c, r, "sync", r.saving, r.next) /\ Steady(c, r)
      BY <1>0, <2>0, Turning
    <2>2. (r.saving = "final" => r.todo = <<>>) /\ (r.saving = "mark" => r.todo # <<>>)
      BY DEF Work, Reached
    <2> QED
      BY <1>0, <1>01, <2>0, <2>1, <2>2, MovedWork
         DEF AfterMove, Steady, SameInputs, SameProgress, Early, Underway
  <1>8. CASE SaveAcknowledge(p)
    <2> DEFINE saved == TRUE
    <2>1. r.pc = "sync" /\ AfterSave(c, r, saved) /\ saved \in BOOLEAN
      BY <1>8, SaveAcknowledgeEffect
    <2> HIDE DEF saved, c
    <2> QED
      BY <1>0, <2>1, SavedWork DEF c
  <1>9. CASE SaveFails(p)
    <2> DEFINE saved == FALSE
    <2>1. r.pc \in {"save", "sync"} /\ AfterSave(c, r, saved) /\ saved \in BOOLEAN
      BY <1>9, SaveFailsEffect
    <2> HIDE DEF saved, c
    <2> QED
      BY <1>0, <2>1, SavedWork DEF c
  <1>10. CASE ImportAdopt(p)
    <2>0. /\ r.pc = "locked" /\ r.cmd = "import"
          /\ \E a \in Addrs : \E o : AfterAdopt(c, r, a, o)
          /\ r.saving = "none" /\ r.next = "none" /\ r.exit = "none"
      BY <1>0, <1>10, ImportAdoptEffect DEF Phases
    <2>1. Unworked(r)
      BY <2>0 DEF Work, Early
    <2>2. /\ Unworked(c) /\ c.cmd # "apply" /\ c.next = "none" /\ c.pc = "save"
          /\ c.saving = "once" /\ c.exit = "none"
      BY <2>0, <2>1 DEF AfterAdopt, Unworked, SameInputs
    <2>3. Verdicts(c)
      BY <2>2, UnworkedVerdicts
    <2> QED
      BY <2>2, <2>3 DEF Work, Reached, Underway
  <1>11. CASE SanitizeSave(p)
    <2>0. /\ r.pc = "locked" /\ r.cmd = "sanitize" /\ c = Sanitized(r)
          /\ r.saving = "none" /\ r.next = "none" /\ r.exit = "none"
      BY <1>0, <1>11, SanitizeSaveEffect DEF Phases
    <2>1. AfterMove(c, r, "save", "once", r.next) /\ Steady(c, r)
      BY <1>0, <2>0, Sanitizing
    <2> QED
      BY <1>0, <1>01, <2>0, <2>1, MovedWork
         DEF AfterMove, Steady, SameInputs, SameProgress, Early, Underway
  <1>12. CASE GiveUpLocked(p)
    <2>0. /\ r.pc = "locked" /\ c = Ended(r, "failed")
          /\ r.cmd # "apply" /\ r.saving = "none" /\ r.next = "none" /\ r.exit = "none"
      BY <1>0, <1>12, GiveUpLockedEffect DEF Phases
    <2>1. AfterMove(c, r, "end", r.saving, r.next) /\ c.todo = r.todo /\ c.exit = "failed"
      BY <1>0, <2>0, Ending
    <2> QED
      BY <1>0, <1>01, <2>0, <2>1, MovedWork
         DEF AfterMove, SameInputs, SameProgress, Early, Underway
  <1> QED
    BY <1>1, <1>2, <1>3, <1>4, <1>5, <1>6, <1>7, <1>8, <1>9, <1>10, <1>11, <1>12
       DEF LockedStep

\* It is consistent initially ...
LEMMA InitWork == Init => WorkInv
  BY InitialTypes, IdlePhases, FreshWork DEF Init, WorkInv, Idle

\* ... and after every step, ...
LEMMA StepKeepsWork == Typed /\ WorkInv /\ [Next]_vars => WorkInv'
  <1> SUFFICES ASSUME Typed, WorkInv, [Next]_vars PROVE WorkInv'
    OBVIOUS
  <1>1. ASSUME NEW p \in Procs, FreeStep(p) \/ LockedStep(p)
        PROVE  WorkInv'
    <2>1. Alone(p)
      BY <1>1, FreeStepEffect, LockedStepEffect
    <2>2. Work(run'[p])
      BY <1>1, FreeStepKeepsWork, LockedStepKeepsWork DEF WorkInv
    <2> QED
      BY <2>1, <2>2 DEF Alone, WorkInv
  <1>2. CASE EditConfig \/ UNCHANGED vars
    BY <1>2 DEF EditConfig, vars, WorkInv
  <1>3. CASE PowerLoss
    <2>1. \A p \in Procs : run'[p] = Idle
      BY <1>3 DEF PowerLoss
    <2>2. Work(Idle)
      BY InitialTypes, IdlePhases, FreshWork DEF Idle
    <2> QED
      BY <2>1, <2>2 DEF WorkInv
  <1> QED
    BY <1>1, <1>2, <1>3, StepKinds

\* ... and so always.
LEMMA WorkAlways == Spec => []WorkInv
  <1>1. Typed /\ WorkInv /\ [Next]_vars => WorkInv'
    BY StepKeepsWork
  <1> QED
    BY <1>1, InitWork, TypedAlways, PTL DEF Spec

----------------------------------------------------------------------------
\* Provider calls.

\* The counter of provider calls moves with a call only.
LEMMA OnlyCallsMutate ==
    ASSUME Typed, [Next]_vars, calls' # calls
    PROVE  \E p \in Procs : DestroyCall(p) \/ WriteCall(p)
  <1>1. ASSUME NEW p \in Procs, FreeStep(p) PROVE FALSE
    BY <1>1, FreeStepEffect DEF world
  <1>2. ASSUME NEW p \in Procs, LockedStep(p), ~DestroyCall(p), ~WriteCall(p)
        PROVE  FALSE
    <2>1. UNCHANGED world \/ SaveCommit(p)
      BY <1>2 DEF LockedStep, ApplyLock, LockOnce, Skip, Preflight, Wrapup,
                  SaveAcknowledge, SaveFails, ImportAdopt, SanitizeSave, GiveUpLocked
    <2> QED
      BY <2>1 DEF world, SaveCommit
  <1>3. CASE EditConfig \/ PowerLoss \/ UNCHANGED vars
    BY <1>3 DEF EditConfig, PowerLoss, vars, world
  <1> QED
    BY <1>1, <1>2, <1>3, StepKinds

\* Whose call it is, and what is known of the caller then.
LEMMA CallerKnown ==
    ASSUME Typed, WorkInv, [Next]_vars, calls' # calls,
           NEW p \in Procs, run'[p] # run[p]
    PROVE  /\ run[p] \in Runs /\ Calling(run[p], Head(run[p].todo))
           /\ Listed(run[p]) /\ Verdicts(run[p])
           /\ ~Blocked(run[p], Head(run[p].todo))
           /\ Head(run[p].todo) \in Planned(run[p])
           /\ Head(run[p].todo) \in Addrs
  <1>1. PICK q \in Procs : DestroyCall(q) \/ WriteCall(q)
    BY OnlyCallsMutate
  <1>2. PICK a \in Addrs : Calling(run[q], a) /\ Alone(q)
    BY <1>1, CallEffect
  <1>3. q = p
    BY <1>2 DEF Alone
  <1>4. run[p] \in Runs /\ Work(run[p])
    BY TypedRun DEF WorkInv
  <1>5. /\ a = Head(run[p].todo) /\ run[p].todo # <<>> /\ run[p].cmd = "apply"
        /\ run[p].pc \in {"exec", "create"}
    BY <1>2, <1>3 DEF Calling
  <1>6. Listed(run[p]) /\ Verdicts(run[p])
    BY <1>4, <1>5 DEF Work
  <1>7. ~Blocked(run[p], a)
    BY <1>2, <1>3, <1>4, CallingReached
  <1> QED
    BY <1>2, <1>3, <1>4, <1>5, <1>6, <1>7, HeadPlanned

\* No provider call is made for an address before every planned change it has
\* to wait for is completed: what it transitively depends on is written
\* before it, what transitively depends on it is changed before its destroy.
THEOREM DependenciesComeFirst == Spec => DependenciesFirst
  <1>1. Typed /\ WorkInv /\ [Next]_vars =>
          \A p \in Procs : calls' # calls /\ run'[p] # run[p] =>
            LET r == run[p]
                a == Head(r.todo)
                before == IF a \in Deletes(r)
                          THEN Closure(Dependents(r.cfg.deps), a) \cap Planned(r)
                          ELSE Closure(r.cfg.deps, a) \cap (Planned(r) \ Deletes(r))
            IN  StateOnly(r, a) \/ before \subseteq Completed(r)
    <2> SUFFICES ASSUME Typed, WorkInv, [Next]_vars, NEW p \in Procs,
                        calls' # calls, run'[p] # run[p],
                        ~StateOnly(run[p], Head(run[p].todo)),
                        NEW b \in Before(run[p], Head(run[p].todo))
                 PROVE  b \in Completed(run[p])
      BY DEF Before
    <2> DEFINE r == run[p]
               a == Head(r.todo)
    <2>1. /\ r \in Runs /\ Calling(r, a) /\ Listed(r) /\ Verdicts(r) /\ ~Blocked(r, a)
          /\ a \in Planned(r) /\ a \in Addrs
      BY CallerKnown
    <2>2. b \in Planned(r) /\ b \in Prerequisites(r, a) /\ b \in Addrs
      BY <2>1 DEF Before, Prerequisites, Planned
    <2>3. b \notin ToSet(r.todo)
      <3> SUFFICES ASSUME b \in ToSet(r.todo) PROVE FALSE
        OBVIOUS
      <3>1. r.todo \in Seq(Addrs) /\ r.todo # <<>>
        BY <2>1, HeadOfList DEF Calling
      <3>2. PICK j \in 1..Len(r.todo) : b = r.todo[j]
        BY <3>1, ToSetOfSeq
      <3>3. 1 \in 1..Len(r.todo) /\ a = r.todo[1] /\ 1 <= j
        BY <2>1, <3>1, <3>2, RestOfList DEF Listed
      <3> HIDE DEF a
      <3> QED
        BY <2>1, <3>2, <3>3 DEF Listed, InOrder, a
    <2>4. r.outcome[b] # "none" /\ b \notin Bad(r)
      BY <2>1, <2>2, <2>3 DEF Listed, Blocked
    <2>5. r.outcome[b] \in {"none", "completed", "failed", "blocked"}
      BY <2>1, <2>2 DEF Runs
    <2> QED
      BY <2>2, <2>4, <2>5 DEF Bad, Completed
  <1> QED
    BY <1>1, TypedAlways, WorkAlways, PTL DEF Spec, DependenciesFirst
=============================================================================
