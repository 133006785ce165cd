------------------------------- MODULE Apply -------------------------------
(***************************************************************************)
(* tchori plan, apply, import and state sanitize as processes sharing one  *)
(* state file and one provider's objects (internal/apply, internal/plan,   *)
(* cmd/tchori).  The state file is the StateRegister that StateFile        *)
(* implements.  A provider call, the save that records it and the barrier  *)
(* that makes the save durable are separate steps: a process may be killed *)
(* or the host stop between any two.                                       *)
(***************************************************************************)
EXTENDS DependencyGraph

CONSTANTS Procs,        \* tchori processes
          NoProc,       \* owner of the free lock
          Addrs,        \* resource addresses, naturals in lexical order
          Configs,      \* configurations the operator may write
          Decisions,    \* what a provider may plan for an existing object
          Verbs,        \* the commands the operator may give
          MaxCommands,  \* bound: commands and configuration edits
          Null,         \* no object: a null value, an absent state entry
          Nothing       \* a reply without a usable value

Objects == [id : Nat, ver : Nat]

\* References are read out of resource blocks: an address without a block has
\* none.
ASSUME ApplyAssumption ==
    /\ NoProc \notin Procs
    /\ Addrs \subseteq Nat /\ IsFiniteSet(Addrs)
    /\ \A c \in Configs : /\ c \in [decl : SUBSET Addrs, deps : [Addrs -> SUBSET Addrs]]
                          /\ \A a \in Addrs \ c.decl : c.deps[a] = {}
    /\ Null # Nothing /\ Null \notin Objects /\ Nothing \notin Objects
    /\ Decisions \subseteq {"no-op", "update", "replace", "delete"}
    /\ Verbs \subseteq {"plan", "destroy", "apply", "import", "sanitize"}
    /\ MaxCommands \in Nat

Resources == [Addrs -> Objects \cup {Null}]
NoMarker == [failed |-> {}, applied |-> {}, remaining |-> {}]
Markers == [failed : SUBSET Addrs, applied : SUBSET Addrs, remaining : SUBSET Addrs]
Bodies == [res : Resources, marker : Markers]
EmptyBody == [res |-> [a \in Addrs |-> Null], marker |-> NoMarker]

VARIABLES current, survivors, promised, owner, seen  \* StateRegister
VARIABLES live,     \* live[a]: the objects that exist at the provider for a
          config,   \* the configuration on disk
          planFile, \* the saved plan document, or NoPlan
          run       \* run[p]: what process p holds in memory

\* Bounds and history.
VARIABLES commands, \* commands started so far
          calls,    \* provider mutations so far: the next object's identity
          touched,  \* addresses the latest run has changed at the provider
          stray,    \* stray[a]: objects that run did not start from
          uses      \* uses[a]: addresses a's object was last written to use

Reg == INSTANCE StateRegister

regVars == <<current, survivors, promised, owner, seen>>
world == <<live, calls, touched, stray, uses>>
vars == <<regVars, world, config, planFile, run, commands>>

Actions == {"none", "no-op", "create", "update", "replace", "delete"}
NoPlan == [serial |-> 0, from |-> Reg!Absent,
           settled |-> "no", changes |-> [a \in Addrs |-> "none"]]

Idle == [pc |-> "idle", cmd |-> "none", plan |-> NoPlan,
         cfg |-> [decl |-> {}, deps |-> [a \in Addrs |-> {}]],
         start |-> Reg!Absent, settled |-> "no", res |-> EmptyBody.res, marker |-> NoMarker,
         todo |-> <<>>, outcome |-> [a \in Addrs |-> "none"],
         failed |-> {}, lost |-> {}, saving |-> "none", next |-> "none",
         undo |-> Nothing, exit |-> "none"]

Init ==
    /\ Reg!RegisterInit
    /\ live = [a \in Addrs |-> {}]
    /\ config \in Configs
    /\ planFile = NoPlan
    /\ run = [p \in Procs |-> Idle]
    /\ commands = 0
    /\ calls = 0
    /\ touched = {}
    /\ stray = [a \in Addrs |-> {}]
    /\ uses = [a \in Addrs |-> {}]

Set(p, r) == run' = [run EXCEPT ![p] = r]

\* The process ends: a deferred unlock runs, memory is gone.
Leave(p) == Reg!Forget(p) /\ Set(p, Idle)

----------------------------------------------------------------------------
\* What every command begins with: its inputs, the configuration, the state.

Start(p) ==
    /\ run[p].pc = "idle"
    /\ commands < MaxCommands
    /\ commands' = commands + 1
    /\ \E cmd \in Verbs :
          /\ cmd = "apply" => planFile # NoPlan
          /\ Set(p, [Idle EXCEPT !.pc = "started", !.cmd = cmd, !.cfg = config,
                                 !.plan = IF cmd = "apply" THEN planFile ELSE @])
    /\ UNCHANGED <<regVars, world, config, planFile>>

\* state.Load: no lock is taken.
Loaded(r, pc) ==
    [r EXCEPT !.pc = pc, !.start = current, !.res = current.body.res,
              !.marker = current.body.marker,
              !.settled = IF survivors = {current} THEN "yes" ELSE "no"]

LoadState(p) ==
    /\ run[p].pc = "started"
    /\ run[p].cmd # "apply"
    /\ Reg!Observe(p)
    /\ Set(p, Loaded(run[p], IF run[p].cmd \in {"plan", "destroy"}
                             THEN "planning" ELSE "loaded"))
    /\ UNCHANGED <<world, config, planFile, commands>>

\* Mutation of Abandon: the lock is waited for without a limit.
AbandonUnlessWaiting(p) ==
    /\ run[p].pc \in {"started", "planning"}
    /\ Leave(p)
    /\ UNCHANGED <<world, config, planFile, commands>>

\* Any command may give up before it holds the lock: a provider that does
\* not launch, a diagnostic, a cancelled context, ten seconds without lock.
Abandon(p) ==
    /\ run[p].pc \in {"started", "planning", "loaded"}
    /\ Leave(p)
    /\ UNCHANGED <<world, config, planFile, commands>>

\* Mutation of TakeLock: the flock alone.
TakeLockUnchecked(p, r) == Reg!Acquire(p) /\ Set(p, r)

\* State.Lock: the flock, then the serial the process loaded.
TakeLock(p, r) ==
    /\ owner = NoProc
    /\ IF current.serial = seen[p].serial
       THEN Reg!Acquire(p) /\ Set(p, r)
       ELSE Leave(p)

----------------------------------------------------------------------------
\* tchori plan and tchori destroy: Planner.Plan.

\* The object a stored entry names, as the provider reads it now.
ReadObject(a, entry) ==
    IF entry = Null THEN Null
    ELSE LET found == {o \in live[a] : o.id = entry.id}
         IN  IF found = {} THEN Null ELSE CHOOSE o \in found : TRUE

\* The actions Planner.Plan may give to address a.
Classified(r, refresh, a) ==
    LET entry == r.start.body.res[a]
        prior == IF refresh THEN ReadObject(a, entry) ELSE entry
    IN  CASE r.cmd = "destroy" \/ a \notin r.cfg.decl ->
               IF entry = Null THEN {"none"} ELSE {"delete"}
          [] OTHER -> IF prior = Null THEN {"create"} ELSE Decisions

\* Destroying asks no provider and looks at no reference.
Plans(r) ==
    {[serial |-> r.start.serial, from |-> r.start, settled |-> r.settled,
      changes |-> changes] :
        changes \in UNION {
            {f \in [Addrs -> Actions] :
                \A a \in Addrs : f[a] \in Classified(r, refresh, a)} :
            refresh \in IF r.cmd = "destroy" THEN {FALSE} ELSE BOOLEAN}}

\* plan.Write.
PlanWrite(p) ==
    /\ run[p].pc = "planning"
    /\ run[p].cmd = "plan" => Orderable(run[p].cfg.decl, run[p].cfg.deps)
    /\ planFile' \in Plans(run[p])
    /\ Leave(p)
    /\ UNCHANGED <<world, config, commands>>

----------------------------------------------------------------------------
\* tchori apply, and destroy once the operator has typed yes: what Apply
\* does before the lock.

Change(r, a) == r.plan.changes[a]
Planned(r) == {a \in Addrs : Change(r, a) \notin {"none", "no-op"}}
Deletes(r) == {a \in Addrs : Change(r, a) = "delete"}
StateOnly(r, a) == a \in Deletes(r) /\ a \notin r.cfg.decl

\* Creates, updates and replaces in topological order; then configured
\* deletes in the reverse order; then deletes of removed addresses, the last
\* in lexical order first.
ExecutionOrder(r) ==
    LET order == TopoOrder(r.cfg.decl, r.cfg.deps)
        removed == Deletes(r) \ r.cfg.decl
    IN  Selected(order, Planned(r) \ Deletes(r))
          \o Reverse(Selected(order, Deletes(r)))
          \o Reverse(Lexical(removed))

\* Mutation of StalePlan: only a plan from the future is stale.
StalePlanAhead(r, doc) == r.plan.serial > doc.serial

StalePlan(r, doc) == r.plan.serial # doc.serial

\* Stale plan, invalid configuration, configuration drift, unknown resource.
Refused(r, doc) ==
    \/ StalePlan(r, doc)
    \/ ~Orderable(r.cfg.decl, r.cfg.deps)
    \/ ~(Planned(r) \ Deletes(r) \subseteq r.cfg.decl)
    \/ \E a \in Deletes(r) : a \notin r.cfg.decl /\ doc.body.res[a] = Null

Checked(r) == [r EXCEPT !.pc = "loaded", !.todo = ExecutionOrder(r)]

ApplyLoad(p) ==
    LET r == Loaded(run[p], "loaded") IN
    /\ run[p].pc = "started"
    /\ r.cmd = "apply"
    /\ IF Refused(r, current)
       THEN Leave(p)
       ELSE Reg!Observe(p) /\ Set(p, Checked(r))
    /\ UNCHANGED <<world, config, planFile, commands>>

DestroyConfirmed(p) ==
    /\ run[p].pc = "planning"
    /\ run[p].cmd = "destroy"
    /\ \E plan \in Plans(run[p]) :
          LET r == [run[p] EXCEPT !.plan = plan, !.cmd = "apply"] IN
          /\ Planned(r) # {}
          /\ ~Refused(r, r.start)
          /\ Set(p, Checked(r))
    /\ UNCHANGED <<regVars, world, config, planFile, commands>>

\* Mutation of InFlight: deletes are thought not to need it.
InFlightWrites(r) ==
    [failed |-> {}, applied |-> {}, remaining |-> Planned(r) \ Deletes(r)]

\* The marker of a run that has not finished.
InFlight(r) == [failed |-> {}, applied |-> {}, remaining |-> Planned(r)]

\* With something to do, the first save marks the state incomplete.
ApplyLock(p) ==
    LET r == run[p] IN
    /\ r.pc = "loaded"
    /\ r.cmd = "apply"
    /\ TakeLock(p, IF r.todo = <<>> THEN [r EXCEPT !.pc = "exec"]
                   ELSE [r EXCEPT !.pc = "save", !.saving = "mark",
                                  !.marker = InFlight(r)])
    /\ UNCHANGED <<world, config, planFile, commands>>

----------------------------------------------------------------------------
\* tchori apply: the loop over the ordered changes.

Bad(r) == {a \in Addrs : r.outcome[a] \in {"failed", "blocked"}}
Completed(r) == {a \in Addrs : r.outcome[a] = "completed"}

\* Mutation of Prerequisites: direct neighbours only.
PrerequisitesDirect(r, a) ==
    IF a \in Deletes(r) THEN Dependents(r.cfg.deps)[a] ELSE r.cfg.deps[a]

\* What closureBlocker visits: a's dependencies, or a delete's dependents.
Prerequisites(r, a) ==
    Closure(IF a \in Deletes(r) THEN Dependents(r.cfg.deps) ELSE r.cfg.deps, a)

\* Why the loop does not attempt a: an earlier save failed, or a change to
\* one of its prerequisites did or was itself blocked.
Blocked(r, a) ==
    /\ ~StateOnly(r, a)
    /\ r.lost # {} \/ Prerequisites(r, a) \cap Bad(r) # {}

\* The loop's bookkeeping for a change that is over; the marker's applied
\* list advances in memory only.
Conclude(r, a, verdict) ==
    LET done == [r EXCEPT !.pc = "exec", !.todo = Tail(@),
                          !.outcome[a] = verdict,
                          !.saving = "none", !.next = "none", !.undo = Nothing]
    IN  CASE verdict = "completed" -> [done EXCEPT !.marker.applied = Completed(done)]
          [] verdict = "failed" /\ r.failed = {} -> [done EXCEPT !.failed = {a}]
          [] OTHER -> done

\* Record entry for a and save; then go on to next.  On a failed save undo
\* becomes the entry again unless it is Nothing.
Record(r, a, entry, next, undo) ==
    [r EXCEPT !.res[a] = entry, !.pc = "save", !.saving = "leg",
              !.next = next, !.undo = undo]

\* p is at the head of its list and may attempt it.
Attempting(p, a) ==
    /\ run[p].pc = "exec"
    /\ run[p].todo # <<>>
    /\ a = Head(run[p].todo)
    /\ ~Blocked(run[p], a)

Skip(p) ==
    LET r == run[p] IN
    /\ r.pc = "exec"
    /\ r.todo # <<>>
    /\ Blocked(r, Head(r.todo))
    /\ Set(p, Conclude(r, Head(r.todo), "blocked"))
    /\ UNCHANGED <<regVars, world, config, planFile, commands>>

\* applyChange returns before any mutation: an unresolved reference, a
\* re-plan that diverged, a provider that is not running.
Preflight(p) ==
    \E a \in Addrs :
        /\ Attempting(p, a)
        /\ Set(p, Conclude(run[p], a, "failed"))
        /\ UNCHANGED <<regVars, world, config, planFile, commands>>

\* The provider answers a destroy: what exists afterwards, the state in the
\* reply and whether it carries errors.
DestroyReplies(a, prior) ==
    LET target == {o \in live[a] : prior # Null /\ o.id = prior.id}
        gone == live[a] \ target
        worn(o) == [o EXCEPT !.ver = calls + 1]
    IN  {[objs |-> gone, reply |-> Null, errors |-> e] : e \in {"no", "yes"}}
          \cup {[objs |-> s, reply |-> Nothing, errors |-> "yes"] : s \in {gone, live[a]}}
          \cup {[objs |-> live[a], reply |-> o, errors |-> e] : o \in target, e \in {"no", "yes"}}
          \cup {[objs |-> gone \cup {worn(o)}, reply |-> worn(o), errors |-> "yes"] : o \in target}

\* The provider answers a create (prior Null) or an update.  A reply that
\* breaks the plan's promises is one with errors: it is recorded and fails.
WriteReplies(a, prior) ==
    LET target == {o \in live[a] : prior # Null /\ o.id = prior.id}
        fresh == [id |-> IF prior = Null THEN calls + 1 ELSE prior.id,
                  ver |-> calls + 1]
        written == (live[a] \ target) \cup {fresh}
        possible == prior = Null \/ target # {}
    IN  {[objs |-> live[a], reply |-> v, errors |-> "yes"] : v \in {Nothing} \cup target}
          \cup {[objs |-> written, reply |-> v, errors |-> e] :
                  v \in IF possible THEN {fresh, Nothing} ELSE {}, e \in {"no", "yes"}}

\* The provider performs answer for a, and p goes on as r.
Call(p, a, answer, r) ==
    /\ live' = [live EXCEPT ![a] = answer.objs]
    /\ calls' = calls + 1
    /\ touched' = IF answer.objs = live[a] THEN touched ELSE touched \cup {a}
    /\ Set(p, r)
    /\ UNCHANGED <<regVars, config, planFile, commands, stray>>

\* Mutation of Destroyed: a replace saves once, after its second leg.
DestroyedUnsaved(r, a) ==
    IF Change(r, a) = "replace" THEN [r EXCEPT !.res[a] = Null, !.pc = "create"]
    ELSE Record(r, a, Null, "completed", Nothing)

\* The object is gone: its entry is removed and that is saved, between the
\* two legs of a replace as well.
Destroyed(r, a) ==
    Record(r, a, Null,
           IF Change(r, a) = "replace" THEN "create" ELSE "completed", Nothing)

\* executor.destroy: a delete, or the first leg of a replace.
DestroyCall(p) ==
    \E a \in Addrs :
      LET r == run[p]
          old == r.res[a]
      IN
      /\ Attempting(p, a)
      /\ Change(r, a) \in {"delete", "replace"}
      /\ \E answer \in DestroyReplies(a, old) :
           /\ Call(p, a, answer,
                CASE answer.reply = Null /\ answer.errors = "no" -> Destroyed(r, a)
                  [] /\ answer.errors = "yes"
                     /\ answer.reply # Nothing
                     /\ answer.reply = Null \/ answer.reply # old ->
                       Record(r, a, answer.reply, "failed", old)
                  [] OTHER -> Conclude(r, a, "failed"))
           /\ uses' = IF answer.objs = {} THEN [uses EXCEPT ![a] = {}] ELSE uses

\* Mutation of Unrecordable: a null or unknown result is taken as it comes.
UnrecordableNever(answer, prior) == answer.errors = "yes" /\ answer.reply = prior

\* Nothing usable came back, or a failed update left the entry as it was.
Unrecordable(answer, prior) ==
    \/ answer.reply = Nothing
    \/ answer.errors = "yes" /\ answer.reply = prior

\* executor.createOrUpdate: a create, an update, a replace's second leg.
WriteCall(p) ==
    \E a \in Addrs :
      LET r == run[p]
          prior == IF Change(r, a) = "update" THEN r.res[a] ELSE Null
      IN
      /\ \/ Attempting(p, a) /\ Change(r, a) \in {"create", "update"}
         \/ r.pc = "create" /\ a = Head(r.todo)
      /\ \E answer \in WriteReplies(a, prior) :
           /\ Call(p, a, answer,
                IF Unrecordable(answer, prior) THEN Conclude(r, a, "failed")
                ELSE Record(r, a, answer.reply,
                            IF answer.errors = "no" THEN "completed" ELSE "failed",
                            Nothing))
           /\ uses' = IF answer.objs = live[a] THEN uses
                      ELSE [uses EXCEPT ![a] = r.cfg.deps[a]]

\* Mutation of Split: what was blocked is not listed.
SplitAttempted(r) ==
    [failed |-> r.failed, applied |-> Completed(r),
     remaining |-> {a \in Addrs : r.outcome[a] = "failed"}]

\* The marker of a run that ends with failures.
Split(r) ==
    [failed |-> r.failed, applied |-> Completed(r), remaining |-> Bad(r)]

\* After the last change: the failure split, or the marker cleared.  An
\* empty run saves only to clear an earlier run's marker.
Wrapup(p) ==
    LET r == run[p] IN
    /\ r.pc = "exec"
    /\ r.todo = <<>>
    /\ Set(p,
         CASE Bad(r) # {} ->
                [r EXCEPT !.pc = "save", !.saving = "final", !.marker = Split(r)]
           [] /\ Bad(r) = {}
              /\ Planned(r) # {} \/ r.start.body.marker # NoMarker ->
                [r EXCEPT !.pc = "save", !.saving = "final", !.marker = NoMarker]
           [] OTHER -> [r EXCEPT !.pc = "end", !.exit = "ok"])
    /\ UNCHANGED <<regVars, world, config, planFile, commands>>

----------------------------------------------------------------------------
\* executor.save and what each caller does with its result.

\* Mutation of Unmarked: the run goes on.
UnmarkedGoesOn(r) == [r EXCEPT !.pc = "exec", !.saving = "none"]

\* Without its marker on disk a run makes no provider call.
Unmarked(r) == [r EXCEPT !.pc = "end", !.exit = "failed"]

LegSaved(r) ==
    IF r.next = "create"
    THEN [r EXCEPT !.pc = "create", !.saving = "none", !.next = "none"]
    ELSE Conclude(r, Head(r.todo), r.next)

\* Mutation of LegUnsaved: the error is only a diagnostic.
LegUnsavedIgnored(r) == LegSaved(r)

\* The change fails; most of what follows will be blocked.
LegUnsaved(r) ==
    LET a == Head(r.todo)
        kept == IF r.undo = Nothing THEN r ELSE [r EXCEPT !.res[a] = r.undo]
    IN  [Conclude(kept, a, "failed") EXCEPT !.lost = {a}]

Resume(r, saved) ==
    CASE r.saving = "mark" ->
           IF saved THEN [r EXCEPT !.pc = "exec", !.saving = "none"] ELSE Unmarked(r)
      [] r.saving = "leg" -> IF saved THEN LegSaved(r) ELSE LegUnsaved(r)
      [] r.saving = "final" ->
           [r EXCEPT !.pc = "end", !.exit = CASE ~saved -> "failed"
                                              [] saved /\ Bad(r) = {} -> "ok"
                                              [] OTHER -> "split"]
      [] r.saving = "once" ->
           [r EXCEPT !.pc = "end", !.exit = IF saved THEN "saved" ELSE "failed"]

\* The rename.  For the history a run begins when its marker is visible, and
\* an import settles the entry it writes.
SaveCommit(p) ==
    LET r == run[p] IN
    /\ r.pc = "save"
    /\ Reg!Commit(p, [res |-> r.res, marker |-> r.marker])
    /\ Set(p, [r EXCEPT !.pc = "sync"])
    /\ touched' = CASE r.saving = "mark" \/ (r.saving = "final" /\ Planned(r) = {}) -> {}
                     [] r.cmd = "import" -> touched \ ToSet(r.todo)
                     [] OTHER -> touched
    /\ stray' = IF r.saving = "mark"
                THEN [a \in Addrs |-> IF Change(r, a) = "create" THEN live[a]
                                      ELSE live[a] \ {r.res[a]}]
                ELSE stray
    /\ UNCHANGED <<live, calls, uses, config, planFile, commands>>

SaveAcknowledge(p) ==
    /\ run[p].pc = "sync"
    /\ Reg!Acknowledge(p)
    /\ owner' = owner
    /\ Set(p, Resume(run[p], TRUE))
    /\ UNCHANGED <<world, config, planFile, commands>>

\* Before the rename nothing is visible; after it only durability is missing.
SaveFails(p) ==
    /\ run[p].pc \in {"save", "sync"}
    /\ Set(p, Resume(run[p], FALSE))
    /\ UNCHANGED <<regVars, world, config, planFile, commands>>

End(p) ==
    /\ run[p].pc = "end"
    /\ Leave(p)
    /\ UNCHANGED <<world, config, planFile, commands>>

----------------------------------------------------------------------------
\* tchori import and tchori state sanitize: load, lock, one save.

LockOnce(p) ==
    /\ run[p].pc = "loaded"
    /\ run[p].cmd \in {"import", "sanitize"}
    /\ TakeLock(p, [run[p] EXCEPT !.pc = "locked"])
    /\ UNCHANGED <<world, config, planFile, commands>>

\* The provider reads the object the operator named for a declared address;
\* its entry is created or, with --refresh, replaced.
ImportAdopt(p) ==
    /\ run[p].pc = "locked"
    /\ run[p].cmd = "import"
    /\ \E a \in run[p].cfg.decl : \E o \in live[a] :
          Set(p, [run[p] EXCEPT !.pc = "save", !.saving = "once",
                                !.todo = <<a>>, !.res[a] = o])
    /\ UNCHANGED <<regVars, world, config, planFile, commands>>

\* Resources and marker are saved as they were loaded.
SanitizeSave(p) ==
    /\ run[p].pc = "locked"
    /\ run[p].cmd = "sanitize"
    /\ Set(p, [run[p] EXCEPT !.pc = "save", !.saving = "once"])
    /\ UNCHANGED <<regVars, world, config, planFile, commands>>

\* Every refusal under the lock, before the save.
GiveUpLocked(p) ==
    /\ run[p].pc = "locked"
    /\ Set(p, [run[p] EXCEPT !.pc = "end", !.exit = "failed"])
    /\ UNCHANGED <<regVars, world, config, planFile, commands>>

----------------------------------------------------------------------------
\* The operator, a kill, a power loss.

EditConfig ==
    /\ commands < MaxCommands
    /\ commands' = commands + 1
    /\ config' \in Configs \ {config}
    /\ UNCHANGED <<regVars, world, planFile, run>>

Kill(p) ==
    /\ run[p].pc # "idle"
    /\ Leave(p)
    /\ UNCHANGED <<world, config, planFile, commands>>

PowerLoss ==
    /\ Reg!Lose
    /\ run' = [p \in Procs |-> Idle]
    /\ UNCHANGED <<world, config, planFile, commands>>

Running(p) ==
    \/ LoadState(p) \/ Abandon(p) \/ PlanWrite(p)
    \/ ApplyLoad(p) \/ DestroyConfirmed(p) \/ ApplyLock(p)
    \/ Skip(p) \/ Preflight(p) \/ DestroyCall(p) \/ WriteCall(p) \/ Wrapup(p)
    \/ SaveCommit(p) \/ SaveAcknowledge(p) \/ SaveFails(p)
    \/ LockOnce(p) \/ ImportAdopt(p) \/ SanitizeSave(p) \/ GiveUpLocked(p)
    \/ End(p)

Next ==
    \/ \E p \in Procs : Start(p) \/ Running(p) \/ Kill(p)
    \/ EditConfig
    \/ PowerLoss

Spec == Init /\ [][Next]_vars

\* p's next step is up to a provider (launched, configured, read, planned with
\* or asked to apply, all without a deadline) or to the operator at destroy's
\* prompt.
Awaits(p) ==
    \/ run[p].pc = "started" /\ run[p].cmd # "sanitize"
    \/ run[p].pc \in {"planning", "locked", "create"}
    \/ \E a \in Addrs : Attempting(p, a)

\* A command is scheduled, its file operations end, and acquireLock gives up
\* after ten seconds.  Nothing is assumed of providers and the operator.
FairSpec == Spec /\ \A p \in Procs : WF_vars(~Awaits(p) /\ Running(p))

----------------------------------------------------------------------------
\* Type invariant.
Changes == [Addrs -> Actions]
Documents == [serial : Nat, body : Bodies]
Plan == [serial : Nat, from : Documents, settled : {"yes", "no"}, changes : Changes]

Runs == [pc : {"idle", "started", "planning", "loaded", "locked", "exec",
               "create", "save", "sync", "end"},
         cmd : {"none"} \cup Verbs \cup {"apply"},
         plan : Plan,
         cfg : Configs \cup {Idle.cfg},
         start : Documents,
         settled : {"yes", "no"},
         res : Resources,
         marker : Markers,
         todo : Seq(Addrs),
         outcome : [Addrs -> {"none", "completed", "failed", "blocked"}],
         failed : SUBSET Addrs,
         lost : SUBSET Addrs,
         saving : {"none", "mark", "leg", "final", "once"},
         next : {"none", "create", "completed", "failed"},
         undo : Objects \cup {Null, Nothing},
         exit : {"none", "ok", "split", "saved", "failed"}]

TypeOK ==
    /\ current \in Documents /\ promised \in Documents
    /\ survivors \subseteq Documents
    /\ owner \in Procs \cup {NoProc}
    /\ seen \in [Procs -> Documents]
    /\ live \in [Addrs -> SUBSET Objects]
    /\ config \in Configs
    /\ planFile \in Plan
    /\ run \in [Procs -> Runs]
    /\ commands \in 0..MaxCommands /\ calls \in Nat
    /\ touched \subseteq Addrs
    /\ stray \in [Addrs -> SUBSET Objects]
    /\ uses \in [Addrs -> SUBSET Addrs]

\* The objects an entry stands for, and those that exist because of the run.
Recorded(doc, a) == {doc.body.res[a]} \ {Null}
Produced(a) == live[a] \ stray[a]

\* Whatever is killed or lost, a document that disagrees with the provider on
\* something the latest run did is marked incomplete and lists the address.
MarkerCoversRun ==
    \A doc \in survivors : \A a \in touched :
        Produced(a) # Recorded(doc, a) => a \in doc.body.marker.remaining

\* A change the loop counts as completed is on disk for good: no power loss
\* and no later save of the run takes it back.
CompletedIsDurable ==
    \A p \in Procs : \A a \in Completed(run[p]) : \A doc \in survivors :
        Produced(a) = Recorded(doc, a)

\* The exit code tells the truth: after 0 every planned change is recorded as
\* it is at the provider and the marker is gone; after a recorded failure the
\* marker on disk splits the plan, and what it lists as applied is recorded.
ExitIsTruthful ==
    \A p \in Procs :
      LET r == run[p]
          marker == current.body.marker
      IN
      /\ r.exit = "ok" =>
           /\ marker = NoMarker
           /\ \A a \in Planned(r) : Produced(a) = Recorded(current, a)
      /\ r.exit = "split" =>
           /\ marker.applied \cap marker.remaining = {}
           /\ marker.applied \cup marker.remaining = Planned(r)
           /\ marker.failed # {} /\ marker.failed \subseteq marker.remaining
           /\ \A a \in marker.applied : Produced(a) = Recorded(current, a)

\* A run marks, and so executes, only the document its plan was made from -
\* not another one with its serial.  A plan made while the last save was not
\* yet durable is excepted: a power loss may give its serial out again.
PlanIsFresh ==
    \A p \in Procs :
        run[p].saving = "mark" /\ run[p].pc = "save" /\ run[p].plan.settled = "yes"
            => current = run[p].plan.from

\* No provider call changes anything unless every document a power loss may
\* leave lists the address as unfinished, the caller owns the lock and its
\* copy is the state on disk.
MutationsAreMarked ==
    [][\A p \in Procs : calls' # calls /\ run'[p] # run[p] =>
          /\ owner = p
          /\ seen[p] = current
          /\ \A doc \in survivors :
                Head(run[p].todo) \in doc.body.marker.remaining]_vars

\* An address is written only after every planned change it transitively
\* depends on is completed, and a declared address is destroyed only after
\* every planned change that transitively depends on it is.
DependenciesFirst ==
    [][\A p \in Procs : calls' # calls /\ run'[p] # run[p] =>
          LET r == run[p]
              a == Head(r.todo)
              before == IF a \in Deletes(r)
                        THEN Closure(Dependents(r.cfg.deps), a) \cap Planned(r)
                        ELSE Closure(r.cfg.deps, a) \cap (Planned(r) \ Deletes(r))
          IN  StateOnly(r, a) \/ before \subseteq Completed(r)]_vars

\* A successful run of N legs advances the serial by N + 2: the marker, one
\* save per leg, two legs for a replace, and the clearing save.
SerialCountsLegs ==
    \A p \in Procs :
        run[p].exit = "ok" /\ Planned(run[p]) # {} =>
            LET replaced == {a \in Addrs : Change(run[p], a) = "replace"}
            IN  current.serial = run[p].start.serial + Cardinality(Planned(run[p]))
                                   + Cardinality(replaced) + 2

\* No command waits for another: it ends, or comes to where only a provider
\* or the operator keeps it, although another that is kept so holds the lock
\* for ever.
NoneWaitsForAnother ==
    \A p \in Procs : (run[p].pc # "idle") ~> (run[p].pc = "idle" \/ Awaits(p))

----------------------------------------------------------------------------
\* What the repository says of itself and the model refutes.

\* docs/formats.md: a failed finalizing save still leaves an artifact that
\* admits it is non-converged.
FailedFinalizerKeepsMarker ==
    \A p \in Procs :
        run[p].saving = "final" /\ run[p].exit = "failed" /\ Planned(run[p]) # {}
            => current.body.marker # NoMarker

\* apply.go: a state-only delete is always safe to attempt, even when another
\* config change failed.  No object whose own change failed in this run still
\* uses the address being destroyed.
StateOnlyDeleteIsSafe ==
    [][\A p \in Procs : calls' # calls /\ run'[p] # run[p] =>
          LET r == run[p]
              a == Head(r.todo)
          IN  StateOnly(r, a) =>
                 \A b \in Bad(r) : live[b] # {} => a \notin uses[b]]_vars
============================================================================
