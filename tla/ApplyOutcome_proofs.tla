------------------------ MODULE ApplyOutcome_proofs ------------------------
(***************************************************************************)
(* What an apply works on and what it leaves behind.  CopyInv and SeenInv  *)
(* say what a process knows of the document it works on, PlanInv what is   *)
(* known of plans: the commands use the state file only as the abstract    *)
(* register, and a marked run executes the document its plan was made      *)
(* from.  OutcomeInv relates the marker in a process's memory              *)
(* (MarkerOfRun), the documents a power loss may leave (Disk) and the      *)
(* objects at the provider (AtProvider); nobody else moves any of these    *)
(* while the process is in the lock (OthersWait).  From it follow the      *)
(* properties of completed changes, exit codes and markers; SerialInv      *)
(* counts the saves.                                                       *)
(***************************************************************************)
EXTENDS Apply_proofs

----------------------------------------------------------------------------
\* The document a process works on.

\* Under the lock a process keeps its command, plan, configuration and the
\* document it loaded.
LEMMA SavedInputs ==
    ASSUME NEW r \in Runs, NEW c, NEW saved \in BOOLEAN, AfterSave(c, r, saved)
    PROVE  SameInputs(c, r)
  <1>1. \A e \in {"ok", "split", "saved", "failed"} : c = Ended(r, e) => SameInputs(c, r)
    BY Ending DEF AfterMove
  <1>2. c = Ended(r, IF saved THEN "saved" ELSE "failed") => SameInputs(c, r)
    BY <1>1
  <1> QED
    BY <1>1, <1>2, Sparing, HalfReplacing DEF AfterSave, AfterMove, AfterConclude, AfterLegUnsaved

\* No step under the lock changes the inputs of the run.
LEMMA LockedStepInputs ==
    ASSUME Typed, NEW p \in Procs, LockedStep(p)
    PROVE  SameInputs(run'[p], run[p])
  <1> DEFINE r == run[p]
             c == run'[p]
  <1>0. r \in Runs /\ ~Leave(p)
    BY TypedRun, NotLeaving
  <1>1. \A e \in {"ok", "split", "saved", "failed"} : c = Ended(r, e) => SameInputs(c, r)
    BY <1>0, Ending DEF AfterMove
  <1>2. \A pc \in {"locked", "exec", "sync"} : c = Turned(r, pc) => SameInputs(c, r)
    BY <1>0, Turning DEF AfterMove
  <1>3. \A s \in {"mark", "final"}, m \in Markers : c = Marked(r, s, m) => SameInputs(c, r)
    BY <1>0, Marking DEF AfterMove
  <1>4. InFlight(r) \in Markers /\ Split(r) \in Markers /\ NoMarker \in Markers
    BY <1>0, MarkersOfRun
  <1>5. CASE ApplyLock(p)
    BY <1>0, <1>2, <1>3, <1>4, <1>5, ApplyLockEffect
  <1>6. CASE LockOnce(p)
    BY <1>0, <1>2, <1>6, LockOnceEffect
  <1>7. CASE Skip(p)
    BY <1>7, SkipEffect DEF AfterConclude
  <1>8. CASE Preflight(p)
    BY <1>8, PreflightEffect DEF AfterConclude
  <1>9. CASE DestroyCall(p) \/ WriteCall(p)
    BY <1>9, CallEffect DEF Proceeds, AfterConclude, AfterRecord
  <1>10. CASE Wrapup(p)
    BY <1>1, <1>3, <1>4, <1>10, WrapupEffect
  <1>11. CASE SaveCommit(p)
    BY <1>2, <1>11, SaveCommitEffect
  <1>12. CASE SaveAcknowledge(p)
    BY <1>0, <1>12, SaveAcknowledgeEffect, SavedInputs
  <1>13. CASE SaveFails(p)
    BY <1>0, <1>13, SaveFailsEffect, SavedInputs
  <1>14. CASE ImportAdopt(p)
    BY <1>14, ImportAdoptEffect DEF AfterAdopt
  <1>15. CASE SanitizeSave(p)
    BY <1>0, <1>15, SanitizeSaveEffect, Sanitizing DEF AfterMove
  <1>16. CASE GiveUpLocked(p)
    BY <1>1, <1>16, GiveUpLockedEffect
  <1> QED
    BY <1>5, <1>6, <1>7, <1>8, <1>9, <1>10, <1>11, <1>12, <1>13, <1>14, <1>15, <1>16
       DEF LockedStep

\* Until its first save a process works on the document it loaded.
Unsaved(r) ==
    \/ r.pc \in {"planning", "loaded", "locked"}
    \/ r.pc = "save" /\ r.saving \in {"mark", "once"}
    \/ r.pc \in {"exec", "save"} /\ r.cmd = "apply" /\ Planned(r) = {}

\* What such a process holds in memory besides.
Copied(r) ==
    /\ Unsaved(r) =>
         /\ r.saving # "once" => r.res = r.start.body.res
         /\ r.saving = "once" =>
              \A a \in Addrs \ ToSet(r.todo) : r.res[a] = r.start.body.res[a]
         /\ r.saving \notin {"mark", "final"} => r.marker = r.start.body.marker
    /\ r.cmd = "sanitize" => r.todo = <<>>

\* What every process holds of the document it loaded.
CopyInv == \A p \in Procs : Copied(run[p])

\* A working process has something to do, or had.
LEMMA WorkingPlanned ==
    ASSUME NEW r \in Runs, Work(r), r.cmd = "apply", r.pc \notin {"idle", "started"},
           r.todo # <<>>
    PROVE  Planned(r) # {}
  BY HeadPlanned DEF Work

\* After its first save a process no longer works on the document it loaded.
LEMMA SavedCopied ==
    ASSUME NEW r \in Runs, Phases(r), Work(r), Copied(r), r.pc \in {"save", "sync"},
           NEW c, NEW saved \in BOOLEAN, AfterSave(c, r, saved)
    PROVE  ~Unsaved(c) /\ Copied(c)
  <1>1. SameInputs(c, r) /\ c \in Runs
    BY SavedInputs, AfterSavePhases
  <1>2. Planned(c) = Planned(r)
    BY <1>1, SameInputsSameWork
  <1>3. r.saving \in {"mark", "leg"} => Planned(r) # {} /\ r.cmd = "apply"
    <2>1. r.saving \in {"mark", "leg"} => r.cmd = "apply" /\ r.todo # <<>>
      BY DEF Phases, Work, Reached, Runs
    <2> QED
      BY <2>1, WorkingPlanned
  <1>4. c.pc = "exec" => r.saving \in {"mark", "leg"}
    <2>1. \A e \in {"ok", "split", "saved", "failed"} : c = Ended(r, e) => c.pc = "end"
      BY Ending DEF AfterMove
    <2>2. c = Ended(r, IF saved THEN "saved" ELSE "failed") => c.pc = "end"
      BY <2>1
    <2> QED
      BY <2>1, <2>2 DEF AfterSave
  <1>5. ~Unsaved(c)
    <2>1. c.pc \in {"exec", "create", "end"}
      BY AfterSavePhase
    <2> QED
      BY <1>2, <1>3, <1>4, <2>1 DEF Unsaved
  <1>6. c.cmd = "sanitize" => c.todo = <<>>
    <2>1. r.saving \in {"mark", "leg", "final"} => r.cmd = "apply"
      BY DEF Phases
    <2>2. r.saving = "once" => c.todo = r.todo
      <3>1. \A e \in {"ok", "split", "saved", "failed"} : c = Ended(r, e) => c.todo = r.todo
        BY Ending
      <3>2. c = Ended(r, IF saved THEN "saved" ELSE "failed") => c.todo = r.todo
        BY <3>1
      <3> QED
        BY <3>2 DEF AfterSave
    <2>3. r.saving \in {"mark", "leg", "final", "once"}
      BY DEF Phases, Runs
    <2> QED
      BY <1>1, <2>1, <2>2, <2>3 DEF SameInputs, Copied
  <1> QED
    BY <1>5, <1>6 DEF Copied

\* Steps outside the lock keep the copy, ...
LEMMA FreeStepKeepsCopied ==
    ASSUME Typed, NEW p \in Procs, Copied(run[p]), FreeStep(p)
    PROVE  Copied(run'[p])
  <1> DEFINE r == run[p]
             c == run'[p]
  <1>0. r \in Runs /\ Phases(r)
    BY TypedRun
  <1>1. ASSUME Fresh(c), c.pc \in {"idle", "started"} PROVE Copied(c)
    BY <1>1 DEF Copied, Unsaved, Fresh
  <1>2. CASE Leave(p)
    BY <1>1, <1>2, LeaveEffect, IdlePhases DEF Idle
  <1>3. CASE Start(p)
    BY <1>1, <1>3, StartEffect
  <1>4. CASE LoadState(p)
    <2>1. PICK pc \in {"planning", "loaded"} : AfterLoad(c, r, pc)
      BY <1>4, LoadEffect
    <2>2. Fresh(r)
      BY <1>0, <1>4 DEF LoadState, Phases
    <2> QED
      BY <2>1, <2>2 DEF AfterLoad, Fresh, SameProgress, Copied
  <1>5. CASE PlanWrite(p)
    BY <1>2, <1>5, PlanWriteEffect
  <1>6. CASE ApplyLoad(p) /\ ~Leave(p)
    <2>1. PICK d \in Runs : r.pc = "started" /\ r.cmd = "apply"
                            /\ AfterLoad(d, r, "loaded") /\ c = Checked(d)
      BY <1>6, ApplyLoadEffect
    <2>2. /\ AfterMove(c, d, "loaded", d.saving, d.next) /\ c.marker = d.marker
      BY <2>1, Checking
    <2>3. Fresh(r)
      BY <1>0, <2>1 DEF Phases
    <2> QED
      BY <2>1, <2>2, <2>3 DEF AfterLoad, AfterMove, SameInputs, Fresh, Copied
  <1>7. CASE DestroyConfirmed(p)
    <2>1. PICK plan \in Plans(r), d \in Runs :
              r.pc = "planning" /\ AfterConfirm(d, r, plan) /\ c = Checked(d)
      BY <1>7, DestroyConfirmedEffect
    <2>2. /\ AfterMove(c, d, "loaded", d.saving, d.next) /\ c.marker = d.marker
      BY <2>1, Checking
    <2>3. r.saving = "none"
      BY <1>0, <2>1 DEF Phases
    <2> QED
      BY <2>1, <2>2, <2>3 DEF AfterConfirm, AfterMove, SameInputs, Copied, Unsaved
  <1> QED
    BY <1>2, <1>3, <1>4, <1>5, <1>6, <1>7 DEF FreeStep

\* ... and so do those under it until the first save.
LEMMA LockedStepKeepsCopied ==
    ASSUME Typed, NEW p \in Procs, Work(run[p]), Copied(run[p]), LockedStep(p)
    PROVE  /\ Copied(run'[p])
           /\ Unsaved(run'[p]) => Unsaved(run[p]) /\ ~SaveCommit(p)
  <1> DEFINE r == run[p]
             c == run'[p]
  <1>0. r \in Runs /\ Phases(r) /\ ~Leave(p)
    BY TypedRun, NotLeaving
  <1>00. SameInputs(c, r) /\ Planned(c) = Planned(r)
    BY LockedStepInputs, SameInputsSameWork
  <1>1. CASE ApplyLock(p)
    <2>0. /\ r.pc = "loaded" /\ r.cmd = "apply" /\ r.saving = "none" /\ Unsaved(r)
          /\ ~SaveCommit(p)
      BY <1>0, <1>1, ApplyLockEffect DEF Phases, Unsaved, SaveCommit
    <2>1. CASE c = Turned(r, "exec")
      <3>1. AfterMove(c, r, "exec", r.saving, r.next) /\ Steady(c, r)
        BY <1>0, <2>1, Turning
      <3> QED
        BY <1>00, <2>0, <3>1 DEF AfterMove, Steady, SameInputs, Copied
    <2>2. CASE c = Marked(r, "mark", InFlight(r))
      <3>1. AfterMove(c, r, "save", "mark", r.next) /\ c.todo = r.todo
        BY <1>0, <2>2, Marking, MarkersOfRun
      <3> QED
        BY <1>00, <2>0, <3>1 DEF AfterMove, SameInputs, Copied
    <2> QED
      BY <1>0, <1>1, <2>1, <2>2, ApplyLockEffect
  <1>2. CASE LockOnce(p)
    <2>0. /\ r.pc = "loaded" /\ r.saving = "none" /\ c = Turned(r, "locked") /\ Unsaved(r)
          /\ ~SaveCommit(p)
      BY <1>0, <1>2, LockOnceEffect DEF Phases, Unsaved, SaveCommit
    <2>1. AfterMove(c, r, "locked", r.saving, r.next) /\ Steady(c, r)
      BY <1>0, <2>0, Turning
    <2> QED
      BY <2>0, <2>1 DEF AfterMove, Steady, SameInputs, Copied
  <1>3. CASE Skip(p) \/ Preflight(p)
    <2>1. /\ r.pc = "exec" /\ r.cmd = "apply" /\ r.todo # <<>>
          /\ c.pc = "exec" /\ c.cmd = "apply"
      BY <1>00, <1>3, SkipEffect, PreflightEffect DEF AfterConclude, SameInputs
    <2>2. Planned(c) # {}
      BY <1>0, <1>00, <2>1, WorkingPlanned
    <2> QED
      BY <2>1, <2>2 DEF Copied, Unsaved
  <1>4. CASE DestroyCall(p) \/ WriteCall(p)
    <2>1. PICK a \in Addrs : Calling(r, a) /\ Proceeds(c, r, a)
      BY <1>4, CallEffect
    <2>2. /\ r.pc \in {"exec", "create"} /\ r.cmd = "apply" /\ r.todo # <<>>
          /\ c.cmd = "apply"
      BY <1>00, <2>1 DEF Calling, SameInputs
    <2>3. c.pc = "exec" \/ (c.pc = "save" /\ c.saving = "leg")
      BY <2>1 DEF Proceeds, AfterConclude, AfterRecord
    <2>4. Planned(c) # {}
      BY <1>0, <1>00, <2>2, WorkingPlanned
    <2> QED
      BY <2>2, <2>3, <2>4 DEF Copied, Unsaved
  <1>5. CASE Wrapup(p)
    <2>0. r.pc = "exec" /\ r.cmd = "apply" /\ c.cmd = "apply" /\ ~SaveCommit(p)
      BY <1>00, <1>5, WrapupEffect DEF SameInputs, SaveCommit
    <2>1. ASSUME NEW m \in Markers, c = Marked(r, "final", m)
          PROVE  Copied(c) /\ (Unsaved(c) => Unsaved(r))
      <3>1. AfterMove(c, r, "save", "final", r.next)
        BY <1>0, <2>1, Marking
      <3>2. Unsaved(c) => Unsaved(r)
        BY <1>00, <2>0, <3>1 DEF AfterMove, Unsaved
      <3>3. r.saving = "none"
        BY <1>0, <2>0 DEF Phases
      <3> QED
        BY <1>00, <2>0, <3>1, <3>2, <3>3 DEF Copied, AfterMove, SameInputs
    <2>2. CASE c = Ended(r, "ok")
      <3>1. c.pc = "end"
        BY <1>0, <2>2, Ending DEF AfterMove
      <3> QED
        BY <2>0, <3>1 DEF Copied, Unsaved
    <2>3. Split(r) \in Markers /\ NoMarker \in Markers
      BY <1>0, MarkersOfRun
    <2> QED
      BY <1>5, <2>0, <2>1, <2>2, <2>3, WrapupEffect
  <1>6. CASE SaveCommit(p)
    <2>1. c = Turned(r, "sync")
      BY <1>6, SaveCommitEffect
    <2>2. AfterMove(c, r, "sync", r.saving, r.next) /\ Steady(c, r)
      BY <1>0, <2>1, Turning
    <2> QED
      BY <2>2 DEF Copied, Unsaved, AfterMove, Steady, SameInputs
  <1>7. CASE SaveAcknowledge(p)
    <2> DEFINE saved == TRUE
    <2>1. r.pc \in {"save", "sync"} /\ AfterSave(c, r, saved) /\ saved \in BOOLEAN
      BY <1>7, SaveAcknowledgeEffect
    <2> HIDE DEF saved
    <2> QED
      BY <1>0, <2>1, SavedCopied
  <1>8. CASE SaveFails(p)
    <2> DEFINE saved == FALSE
    <2>1. r.pc \in {"save", "sync"} /\ AfterSave(c, r, saved) /\ saved \in BOOLEAN
      BY <1>8, SaveFailsEffect
    <2> HIDE DEF saved
    <2> QED
      BY <1>0, <2>1, SavedCopied
  <1>9. CASE ImportAdopt(p)
    <2>0. r.pc = "locked" /\ r.cmd = "import" /\ r.saving = "none"
      BY <1>0, <1>9, ImportAdoptEffect DEF Phases
    <2>1. PICK a \in Addrs : \E o : AfterAdopt(c, r, a, o)
      BY <1>9, ImportAdoptEffect
    <2>2. a \in ToSet(<<a>>)
      BY DEF ToSet
    <2>3. \A b \in Addrs \ ToSet(<<a>>) : c.res[b] = r.res[b]
      BY <1>0, <2>1, <2>2 DEF AfterAdopt, Updated, Runs, Resources
    <2>4. Unsaved(r) /\ ~SaveCommit(p)
      BY <2>0 DEF Unsaved, SaveCommit
    <2> QED
      BY <2>0, <2>1, <2>3, <2>4 DEF AfterAdopt, Copied, SameInputs
  <1>10. CASE SanitizeSave(p)
    <2>0. r.pc = "locked" /\ r.saving = "none" /\ c = Sanitized(r) /\ ~SaveCommit(p)
      BY <1>0, <1>10, SanitizeSaveEffect DEF Phases, SaveCommit
    <2>1. AfterMove(c, r, "save", "once", r.next) /\ Steady(c, r)
      BY <1>0, <2>0, Sanitizing
    <2> QED
      BY <2>0, <2>1 DEF AfterMove, Steady, Copied, Unsaved, SameInputs
  <1>11. CASE GiveUpLocked(p)
    <2>1. AfterMove(c, r, "end", r.saving, r.next) /\ c.todo = r.todo
      BY <1>0, <1>11, GiveUpLockedEffect, Ending
    <2> QED
      BY <2>1 DEF AfterMove, Copied, Unsaved, SameInputs
  <1> QED
    BY <1>1, <1>2, <1>3, <1>4, <1>5, <1>6, <1>7, <1>8, <1>9, <1>10, <1>11
       DEF LockedStep

\* Hence the copy is right until then.
LEMMA CopyAlways == Spec => []CopyInv
  <1>1. Copied(Idle)
    BY DEF Copied, Unsaved, Idle
  <1>2. Init => CopyInv
    BY <1>1 DEF Init, CopyInv
  <1>3. Typed /\ WorkInv /\ CopyInv /\ [Next]_vars => CopyInv'
    <2> SUFFICES ASSUME Typed, WorkInv, CopyInv, [Next]_vars PROVE CopyInv'
      OBVIOUS
    <2>1. ASSUME NEW p \in Procs, FreeStep(p) \/ LockedStep(p) PROVE CopyInv'
      <3>1. Alone(p)
        BY <2>1, FreeStepEffect, LockedStepEffect
      <3>2. Copied(run'[p])
        BY <2>1, FreeStepKeepsCopied, LockedStepKeepsCopied DEF CopyInv, WorkInv
      <3> QED
        BY <3>1, <3>2 DEF Alone, CopyInv
    <2>2. CASE EditConfig \/ UNCHANGED vars
      BY <2>2 DEF EditConfig, vars, CopyInv
    <2>3. CASE PowerLoss
      BY <1>1, <2>3 DEF PowerLoss, CopyInv
    <2> QED
      BY <2>1, <2>2, <2>3, StepKinds
  <1> QED
    BY <1>2, <1>3, TypedAlways, WorkAlways, PTL DEF Spec

----------------------------------------------------------------------------
\* The state file as these commands use it.

\* Under the lock: acquire, commit, acknowledge, or no operation at all.
LEMMA LockedStepRegister ==
    ASSUME Typed, NEW p \in Procs, LockedStep(p)
    PROVE  \/ Reg!Acquire(p) /\ run[p].pc = "loaded" /\ current.serial = seen[p].serial
           \/ /\ SaveCommit(p) /\ [res |-> run[p].res, marker |-> run[p].marker] \in Bodies
              /\ Reg!Commit(p, [res |-> run[p].res, marker |-> run[p].marker])
           \/ SaveAcknowledge(p) /\ Reg!Acknowledge(p) /\ owner' = owner
           \/ UNCHANGED regVars
  <1>0. ~Leave(p)
    BY NotLeaving
  <1>1. CASE DestroyCall(p) \/ WriteCall(p)
    BY <1>1, CallEffect
  <1> QED
    BY <1>0, <1>1, ApplyLockEffect, LockOnceEffect, SaveCommitEffect, SaveAcknowledgeEffect
       DEF LockedStep, Skip, Preflight, Wrapup, SaveFails, ImportAdopt, SanitizeSave, GiveUpLocked

\* Outside it: observe, forget, or none.
LEMMA FreeStepRegister ==
    ASSUME Typed, NEW p \in Procs, FreeStep(p)
    PROVE  \/ Reg!Observe(p) /\ (LoadState(p) \/ ApplyLoad(p))
           \/ Reg!Forget(p) /\ run'[p] = Idle
           \/ UNCHANGED regVars /\ (Start(p) \/ DestroyConfirmed(p))
  BY LeaveEffect, PlanWriteEffect, ApplyLoadEffect
     DEF FreeStep, LoadState, Start, DestroyConfirmed

\* The commands use the state file only as the register that StateFile
\* implements: every step is one of its operations, or none.
THEOREM UsesRegister == Spec => Reg!RegisterSpec
  <1>1. Init => Reg!RegisterInit
    BY DEF Init
  <1>2. Typed /\ [Next]_vars => [Reg!RegisterNext]_Reg!regVars
    <2> SUFFICES ASSUME Typed, [Next]_vars, ~UNCHANGED regVars PROVE Reg!RegisterNext
      BY DEF Reg!regVars, regVars
    <2>1. ASSUME NEW p \in Procs, FreeStep(p) PROVE Reg!RegisterNext
      BY <2>1, FreeStepRegister DEF Reg!RegisterNext
    <2>2. ASSUME NEW p \in Procs, LockedStep(p) PROVE Reg!RegisterNext
      BY <2>2, LockedStepRegister DEF Reg!RegisterNext
    <2>3. CASE EditConfig \/ UNCHANGED vars
      BY <2>3 DEF EditConfig, vars
    <2>4. CASE PowerLoss
      BY <2>4 DEF PowerLoss, Reg!RegisterNext
    <2> QED
      BY <2>1, <2>2, <2>3, <2>4, StepKinds
  <1> QED
    BY <1>1, <1>2, TypedAlways, PTL DEF Spec, Reg!RegisterSpec

\* What p has seen is not newer than the state on disk, and the same document
\* if it has the same serial.
Seen(p) ==
    /\ run[p].pc \notin {"idle", "started"} =>
         /\ seen[p].serial <= current.serial
         /\ seen[p].serial = current.serial => seen[p] = current
    /\ InLock(run[p]) => seen[p] = current
    /\ Unsaved(run[p]) => run[p].start = seen[p]

\* This holds of every process, and the document on disk may survive.
SeenInv == current \in survivors /\ \A p \in Procs : Seen(p)

\* A process that has not begun has loaded nothing.
LEMMA UnsavedPhases ==
    ASSUME NEW r, r.pc \in {"idle", "started"}
    PROVE  ~Unsaved(r) /\ ~InLock(r)
  BY DEF Unsaved, InLock

\* A process that observes sees the current document, ...
LEMMA FreeStepKeepsSeen ==
    ASSUME Typed, SeenInv, NEW p \in Procs, FreeStep(p)
    PROVE  SeenInv'
  <1>1. /\ Alone(p) /\ ~InLock(run'[p])
        /\ UNCHANGED <<current, survivors>>
        /\ \A q \in Procs : q # p => seen'[q] = seen[q]
    BY FreeStepEffect
  <1>2. current \in Documents /\ seen \in [Procs -> Documents] /\ run[p] \in Runs /\ Phases(run[p])
    BY TypedRun DEF Typed, TypeOK
  <1>3. \A q \in Procs : q # p => Seen(q)'
    BY <1>1 DEF Alone, SeenInv, Seen
  <1>4. CASE run'[p].pc \in {"idle", "started"}
    BY <1>1, <1>3, <1>4, UnsavedPhases DEF SeenInv, Seen
  <1>5. CASE Reg!Observe(p) /\ run'[p].start = current
    <2>1. seen'[p] = current /\ current.serial \in Nat
      BY <1>2, <1>5 DEF Reg!Observe, Documents
    <2>2. Seen(p)'
      BY <1>1, <1>5, <2>1 DEF Seen
    <2> QED
      BY <1>1, <1>3, <2>2 DEF SeenInv
  <1>6. CASE DestroyConfirmed(p)
    <2>1. PICK plan \in Plans(run[p]), r \in Runs :
              /\ run[p].pc = "planning" /\ AfterConfirm(r, run[p], plan)
              /\ run'[p] = Checked(r) /\ UNCHANGED regVars
      BY <1>6, DestroyConfirmedEffect
    <2>2. run'[p].start = run[p].start
      BY <2>1, Checking DEF AfterMove, SameInputs, AfterConfirm
    <2>3. Unsaved(run[p]) /\ seen' = seen
      BY <2>1 DEF Unsaved, regVars
    <2>4. Seen(p)'
      BY <1>1, <2>1, <2>2, <2>3 DEF SeenInv, Seen
    <2> QED
      BY <1>1, <1>3, <2>4 DEF SeenInv
  <1>7. CASE ApplyLoad(p) /\ ~Leave(p)
    <2>1. PICK r \in Runs : Reg!Observe(p) /\ AfterLoad(r, run[p], "loaded") /\ run'[p] = Checked(r)
      BY <1>7, ApplyLoadEffect
    <2>2. run'[p].start = current
      BY <2>1, Checking DEF AfterMove, SameInputs, AfterLoad
    <2> QED
      BY <1>5, <2>1, <2>2
  <1>8. CASE LoadState(p)
    BY <1>5, <1>8, LoadEffect DEF AfterLoad
  <1>9. CASE Leave(p)
    BY <1>4, <1>9, LeaveEffect DEF Idle
  <1>10. CASE Start(p)
    BY <1>4, <1>10, StartEffect
  <1>11. CASE PlanWrite(p)
    BY <1>9, <1>11, PlanWriteEffect
  <1> QED
    BY <1>6, <1>7, <1>8, <1>9, <1>10, <1>11 DEF FreeStep

\* ... and one that commits has seen its own.
LEMMA LockedStepKeepsSeen ==
    ASSUME Typed, Held, Held', WorkInv, CopyInv, SeenInv, NEW p \in Procs, LockedStep(p)
    PROVE  SeenInv'
  <1>1. /\ Alone(p) /\ InLock(run'[p])
        /\ \A q \in Procs : q # p => seen'[q] = seen[q]
        /\ (InLock(run[p]) /\ owner' = owner) \/ Reg!Acquire(p)
    BY LockedStepEffect
  <1>2. /\ current \in Documents /\ seen \in [Procs -> Documents] /\ RegisterTypes
        /\ run[p] \in Runs /\ Phases(run[p])
    BY TypedRun, TypesTogether DEF Typed, TypeOK
  <1>3. SameInputs(run'[p], run[p])
    BY LockedStepInputs
  <1>4. Unsaved(run'[p]) => Unsaved(run[p]) /\ ~SaveCommit(p)
    BY LockedStepKeepsCopied DEF WorkInv, CopyInv
  <1>5. \A q \in Procs : q # p => ~InLock(run'[q])
    BY <1>1 DEF Held
  <1>6. ASSUME current' = current, seen'[p] = seen[p], seen[p] = current,
               current \in survivors'
        PROVE  SeenInv'
    <2>1. \A q \in Procs : q # p => Seen(q)'
      BY <1>1, <1>6 DEF Alone, SeenInv, Seen
    <2>2. current.serial \in Nat
      BY <1>2 DEF Documents
    <2>3. Unsaved(run'[p]) => run'[p].start = seen'[p]
      BY <1>3, <1>4, <1>6 DEF SeenInv, Seen, SameInputs
    <2>4. Seen(p)'
      BY <1>6, <2>2, <2>3 DEF Seen
    <2> QED
      BY <1>6, <2>1, <2>4 DEF SeenInv
  <1>7. InLock(run[p]) => seen[p] = current
    BY DEF SeenInv, Seen
  <1>8. current \in survivors
    BY DEF SeenInv
  <1>9. CASE Reg!Acquire(p) /\ run[p].pc = "loaded" /\ current.serial = seen[p].serial
    <2>1. seen[p] = current
      BY <1>9 DEF SeenInv, Seen
    <2>2. UNCHANGED <<current, survivors, seen>>
      BY <1>9 DEF Reg!Acquire
    <2> QED
      BY <1>6, <1>8, <2>1, <2>2
  <1>10. CASE SaveAcknowledge(p) /\ Reg!Acknowledge(p) /\ owner' = owner
    <2>1. seen[p] = current /\ seen' = seen /\ current' = current /\ survivors' = {current}
      BY <1>10 DEF Reg!Acknowledge
    <2> QED
      BY <1>6, <2>1
  <1>11. CASE UNCHANGED regVars
    <2>1. UNCHANGED <<current, survivors, seen, owner>>
      BY <1>11 DEF regVars
    <2>2. InLock(run[p])
      BY <1>1, <2>1, ApplyAssumption DEF Reg!Acquire
    <2> QED
      BY <1>6, <1>7, <1>8, <2>1, <2>2
  <1>12. CASE /\ SaveCommit(p) /\ [res |-> run[p].res, marker |-> run[p].marker] \in Bodies
              /\ Reg!Commit(p, [res |-> run[p].res, marker |-> run[p].marker])
    <2> DEFINE b == [res |-> run[p].res, marker |-> run[p].marker]
    <2>0. b \in Bodies /\ Reg!Commit(p, b)
      BY <1>12
    <2> HIDE DEF b
    <2>1. /\ current'.serial = current.serial + 1 /\ current' \in Documents
          /\ survivors' = survivors \cup {current'}
          /\ seen' = [seen EXCEPT ![p] = current']
      BY <1>2, <2>0, Committing
    <2>2. current.serial \in Nat /\ current'.serial \in Nat /\ seen'[p] = current'
      BY <1>2, <2>1 DEF Documents
    <2>3. Seen(p)'
      BY <1>4, <1>12, <2>2 DEF Seen
    <2>4. ASSUME NEW q \in Procs, q # p PROVE Seen(q)'
      <3>1. run'[q] = run[q] /\ seen'[q] = seen[q] /\ seen[q].serial \in Nat
        BY <1>1, <1>2, <2>4 DEF Alone, Documents
      <3>2. ~InLock(run'[q])
        BY <1>5, <2>4
      <3> QED
        BY <2>1, <2>2, <3>1, <3>2 DEF SeenInv, Seen
    <2> QED
      BY <2>1, <2>3, <2>4 DEF SeenInv
  <1> QED
    BY <1>9, <1>10, <1>11, <1>12, LockedStepRegister

\* Hence no process is ahead of the disk, and under the lock none is behind.
LEMMA SeenAlways == Spec => []SeenInv
  <1>1. ~InLock(Idle) /\ ~Unsaved(Idle) /\ Idle.pc = "idle"
    BY DEF InLock, Unsaved, Idle
  <1>2. Init => SeenInv
    BY <1>1 DEF Init, Reg!RegisterInit, SeenInv, Seen
  <1>3. Typed /\ Held /\ Held' /\ WorkInv /\ CopyInv /\ SeenInv /\ [Next]_vars => SeenInv'
    <2> SUFFICES ASSUME Typed, Held, Held', WorkInv, CopyInv, SeenInv, [Next]_vars
                 PROVE  SeenInv'
      OBVIOUS
    <2>1. CASE EditConfig \/ UNCHANGED vars
      BY <2>1 DEF EditConfig, vars, regVars, SeenInv, Seen
    <2>2. CASE PowerLoss
      BY <1>1, <2>2 DEF PowerLoss, Reg!Lose, SeenInv, Seen
    <2> QED
      BY <2>1, <2>2, StepKinds, FreeStepKeepsSeen, LockedStepKeepsSeen
  <1> QED
    BY <1>2, <1>3, TypedAlways, HeldAlways, WorkAlways, CopyAlways, PTL DEF Spec

----------------------------------------------------------------------------
\* Plans and the documents they were made from.

\* No document that a power loss may leave can have d's serial but differ.
Settled(d) == \A doc \in survivors : doc.serial > d.serial \/ doc = d

\* What a plan document says of the state it was made from.
PlanSound(plan) ==
    /\ plan.serial = plan.from.serial
    /\ plan.settled = "yes" => Settled(plan.from)

\* A process that may execute its plan has compared serials.
PlanChecked(r) ==
    /\ PlanSound(r.plan)
    /\ r.settled = "yes" => Settled(r.start)
    /\ \/ r.pc = "loaded" /\ r.cmd = "apply"
       \/ r.pc = "save" /\ r.saving = "mark"
       => r.plan.serial = r.start.serial

\* The saved plan and the plans in memory.
PlanInv == PlanSound(planFile) /\ \A p \in Procs : PlanChecked(run[p])

\* A document once settled stays so: later ones have higher serials.
LEMMA SettledKept ==
    ASSUME Typed, current \in survivors, [Next]_vars, NEW d \in Documents, Settled(d)
    PROVE  Settled(d)'
  <1>1. /\ current \in Documents /\ survivors \subseteq Documents /\ RegisterTypes
        /\ d.serial \in Nat /\ current.serial \in Nat
    BY TypesTogether DEF Typed, TypeOK, Documents
  <1>2. ASSUME survivors' \subseteq survivors PROVE Settled(d)'
    BY <1>2 DEF Settled
  <1>3. ASSUME NEW p \in Procs, LockedStep(p) PROVE Settled(d)'
    <2>1. CASE /\ SaveCommit(p) /\ [res |-> run[p].res, marker |-> run[p].marker] \in Bodies
               /\ Reg!Commit(p, [res |-> run[p].res, marker |-> run[p].marker])
      <3>1. /\ current'.serial = current.serial + 1 
            /\ survivors' = survivors \cup {current'}
        BY <1>1, <2>1, Committing
      <3>2. current'.serial > d.serial
        BY <1>1, <3>1 DEF Settled
      <3> QED
        BY <3>1, <3>2 DEF Settled
    <2>2. CASE SaveAcknowledge(p) /\ Reg!Acknowledge(p)
      BY <1>2, <2>2 DEF Reg!Acknowledge
    <2> QED
      BY <1>2, <1>3, <2>1, <2>2, LockedStepRegister DEF regVars, Reg!Acquire
  <1>4. ASSUME NEW p \in Procs, FreeStep(p) PROVE Settled(d)'
    BY <1>2, <1>4, FreeStepEffect
  <1>5. CASE EditConfig \/ UNCHANGED vars
    BY <1>2, <1>5 DEF EditConfig, vars, regVars
  <1>6. CASE PowerLoss
    BY <1>2, <1>6 DEF PowerLoss, Reg!Lose
  <1> QED
    BY <1>3, <1>4, <1>5, <1>6, StepKinds

\* A sound plan stays sound, whatever is saved or lost later.
LEMMA PlanSoundKept ==
    ASSUME Typed, current \in survivors, [Next]_vars, NEW plan \in Plan, PlanSound(plan)
    PROVE  PlanSound(plan)'
  BY SettledKept DEF PlanSound, Plan

\* What stays true of a process that takes no step.
LEMMA PlanCheckedKept ==
    ASSUME Typed, current \in survivors, [Next]_vars, NEW p \in Procs,
           PlanChecked(run[p]), SameInputs(run'[p], run[p]),
           \/ run'[p].pc = "loaded" /\ run'[p].cmd = "apply"
           \/ run'[p].pc = "save" /\ run'[p].saving = "mark"
           => \/ run[p].pc = "loaded" /\ run[p].cmd = "apply"
              \/ run[p].pc = "save" /\ run[p].saving = "mark"
    PROVE  PlanChecked(run[p])'
  <1>1. /\ run[p].plan.from \in Documents /\ run[p].start \in Documents
        /\ run'[p].plan = run[p].plan /\ run'[p].start = run[p].start
        /\ run'[p].settled = run[p].settled
    BY TypedRun DEF Runs, Plan, SameInputs
  <1>2. \A d \in Documents : Settled(d) => Settled(d)'
    BY SettledKept
  <1> QED
    BY <1>1, <1>2 DEF PlanChecked, PlanSound

\* No plan is sound.
LEMMA IdlePlan == PlanChecked(Idle) /\ PlanSound(NoPlan)
  BY DEF PlanChecked, PlanSound, Idle, NoPlan, Reg!Absent

\* Only Apply's lock begins the save of the first marker.
LEMMA MarkingStarts ==
    ASSUME Typed, NEW p \in Procs, LockedStep(p), run'[p].pc = "save", run'[p].saving = "mark"
    PROVE  run[p].pc = "loaded" /\ run[p].cmd = "apply"
  <1> DEFINE r == run[p]
             c == run'[p]
  <1>0. r \in Runs /\ Phases(r)
    BY TypedRun
  <1>1. CASE Skip(p) \/ Preflight(p)
    BY <1>1, SkipEffect, PreflightEffect DEF AfterConclude
  <1>2. CASE DestroyCall(p) \/ WriteCall(p)
    BY <1>2, CallEffect DEF Proceeds, AfterConclude, AfterRecord
  <1>3. CASE Wrapup(p)
    <2>1. run[p] \in Runs /\ Split(run[p]) \in Markers /\ NoMarker \in Markers
      BY <1>0, MarkersOfRun
    <2>2. \/ run'[p] = Marked(run[p], "final", Split(run[p]))
          \/ run'[p] = Marked(run[p], "final", NoMarker)
          \/ run'[p] = Ended(run[p], "ok")
      BY <1>3, WrapupEffect
    <2>3. Marked(run[p], "final", Split(run[p])).saving # "mark"
      BY <2>1, Marking DEF AfterMove
    <2>4. Marked(run[p], "final", NoMarker).saving # "mark"
      BY <2>1, Marking DEF AfterMove
    <2>5. Ended(run[p], "ok").pc # "save"
      BY <2>1, Ending DEF AfterMove
    <2> QED
      BY <2>2, <2>3, <2>4, <2>5
  <1>4. CASE SaveCommit(p)
    BY <1>0, <1>4, SaveCommitEffect, Turning DEF AfterMove
  <1>5. CASE SaveAcknowledge(p)
    BY <1>0, <1>5, SaveAcknowledgeEffect, AfterSavePhase
  <1>6. CASE SaveFails(p)
    BY <1>0, <1>6, SaveFailsEffect, AfterSavePhase
  <1>7. CASE ImportAdopt(p)
    BY <1>7, ImportAdoptEffect DEF AfterAdopt
  <1>8. CASE SanitizeSave(p)
    BY <1>0, <1>8, SanitizeSaveEffect, Sanitizing DEF AfterMove
  <1>9. CASE GiveUpLocked(p)
    BY <1>0, <1>9, GiveUpLockedEffect, Ending DEF AfterMove
  <1>10. CASE ApplyLock(p) \/ (LockOnce(p) /\ Reg!Acquire(p))
    BY <1>0, <1>10, ApplyLockEffect, LockOnceEffect, NotLeaving, Turning DEF AfterMove
  <1> QED
    BY <1>1, <1>2, <1>3, <1>4, <1>5, <1>6, <1>7, <1>8, <1>9, <1>10 DEF LockedStep

\* No step under the lock writes a plan.
LEMMA LockedStepPlanFile ==
    ASSUME Typed, NEW p \in Procs, LockedStep(p)
    PROVE  planFile' = planFile
  <1>1. CASE DestroyCall(p) \/ WriteCall(p)
    BY <1>1, CallEffect DEF Mutates
  <1>2. CASE SaveCommit(p) \/ SaveAcknowledge(p) \/ SaveFails(p)
    BY <1>2 DEF SaveCommit, SaveAcknowledge, SaveFails
  <1>3. CASE Skip(p) \/ Preflight(p) \/ Wrapup(p)
    BY <1>3 DEF Skip, Preflight, Wrapup
  <1>4. CASE ImportAdopt(p) \/ SanitizeSave(p) \/ GiveUpLocked(p)
    BY <1>4 DEF ImportAdopt, SanitizeSave, GiveUpLocked
  <1>5. CASE ApplyLock(p) \/ LockOnce(p)
    BY <1>5 DEF ApplyLock, LockOnce
  <1> QED
    BY <1>1, <1>2, <1>3, <1>4, <1>5 DEF LockedStep

\* A plan made or loaded outside the lock is sound.
LEMMA FreeStepKeepsPlans ==
    ASSUME Typed, SeenInv, PlanInv, [Next]_vars, NEW p \in Procs, FreeStep(p)
    PROVE  PlanSound(planFile)' /\ PlanChecked(run[p])'
  <1>0. /\ run[p] \in Runs /\ Phases(run[p]) /\ current \in survivors /\ planFile \in Plan
        /\ current \in Documents
    BY TypedRun DEF Typed, TypeOK, SeenInv
  <1>1. /\ \A d \in Documents : Settled(d) => Settled(d)'
        /\ \A plan \in Plan : PlanSound(plan) => PlanSound(plan)'
    BY <1>0, SettledKept, PlanSoundKept
  <1>2. ASSUME planFile' = planFile PROVE PlanSound(planFile)'
    BY <1>0, <1>1, <1>2 DEF PlanInv
  <1>3. /\ PlanSound(run[p].plan) /\ run[p].plan \in Plan /\ run[p].start \in Documents
        /\ run[p].settled = "yes" => Settled(run[p].start)
    BY <1>0 DEF PlanInv, PlanChecked, Runs
  <1>4. ASSUME run'[p] = Idle PROVE PlanChecked(run[p])'
    BY <1>4 DEF PlanChecked, PlanSound, Idle, NoPlan, Reg!Absent
  <1>5. ASSUME UNCHANGED <<current, survivors>>, NEW r, NEW pc, AfterLoad(r, run[p], pc),
               run'[p].plan = r.plan, run'[p].start = r.start,
               run'[p].settled = r.settled,
               \/ run'[p].plan.serial = run'[p].start.serial
               \/ run'[p].pc # "save" /\ ~(run'[p].pc = "loaded" /\ run'[p].cmd = "apply")
        PROVE  PlanChecked(run[p])'
    <2>1. run'[p].plan = run[p].plan /\ run'[p].start = current
      BY <1>5 DEF AfterLoad
    <2>2. run'[p].settled = "yes" => Settled(current)
      BY <1>5 DEF AfterLoad, Settled
    <2>3. Settled(current) => Settled(current)'
      BY <1>5 DEF Settled
    <2>4. PlanSound(run[p].plan)'
      BY <1>1, <1>3, <2>1
    <2>5. run'[p].settled = "yes" => Settled(run[p].start)'
      BY <1>5, <2>1, <2>2 DEF Settled
    <2> QED
      BY <1>5, <2>4, <2>5 DEF PlanChecked
  <1>6. CASE Start(p)
    <2>1. /\ run'[p].plan \in {planFile, NoPlan} /\ run'[p].pc = "started"
          /\ Fresh(run'[p]) /\ planFile' = planFile
      BY <1>6, StartEffect
    <2>2. PlanSound(planFile)'
      BY <1>2, <2>1
    <2>3. PlanSound(run[p].plan)'
      BY <2>1, <2>2 DEF PlanSound, NoPlan, Reg!Absent
    <2> QED
      BY <2>1, <2>2, <2>3 DEF PlanChecked, Fresh
  <1>7. CASE LoadState(p)
    <2>1. PICK pc \in {"planning", "loaded"} : AfterLoad(run'[p], run[p], pc)
      BY <1>7, LoadEffect
    <2>2. /\ run'[p].pc # "save" /\ run'[p].cmd # "apply" /\ planFile' = planFile
          /\ UNCHANGED <<current, survivors>>
      BY <1>7, <2>1, LoadEffect DEF AfterLoad, Reg!Observe
    <2> QED
      BY <1>2, <1>5, <2>1, <2>2
  <1>8. CASE Leave(p) /\ UNCHANGED <<world, config, planFile, commands>>
    BY <1>2, <1>4, <1>8, LeaveEffect
  <1>9. CASE PlanWrite(p)
    <2>1. /\ run'[p] = Idle /\ planFile' \in Plan
          /\ planFile'.serial = run[p].start.serial /\ planFile'.from = run[p].start
          /\ planFile'.settled = run[p].settled
      BY <1>9, PlanWriteEffect, LeaveEffect
    <2>2. PlanSound(planFile)'
      BY <1>1, <1>3, <2>1 DEF PlanSound
    <2> QED
      BY <1>4, <2>1, <2>2
  <1>10. CASE ApplyLoad(p) /\ ~Leave(p)
    <2>1. PICK r \in Runs : /\ AfterLoad(r, run[p], "loaded") /\ Accepted(r)
                            /\ run'[p] = Checked(r) /\ Reg!Observe(p)
                            /\ planFile' = planFile
      BY <1>10, ApplyLoadEffect
    <2>2. /\ run'[p].plan = r.plan /\ run'[p].start = r.start
          /\ run'[p].settled = r.settled
      BY <2>1, Checking DEF AfterMove, SameInputs
    <2> QED
      BY <1>2, <1>5, <2>1, <2>2 DEF Accepted, Reg!Observe
  <1>11. CASE DestroyConfirmed(p)
    <2>1. PICK plan \in Plans(run[p]), r \in Runs :
              /\ AfterConfirm(r, run[p], plan) /\ Accepted(r) /\ run'[p] = Checked(r)
              /\ planFile' = planFile
      BY <1>11, DestroyConfirmedEffect
    <2>2. /\ run'[p].plan = plan /\ run'[p].start = run[p].start
          /\ run'[p].settled = run[p].settled
          /\ run'[p].plan.serial = run'[p].start.serial
      BY <2>1, Checking DEF AfterMove, SameInputs, AfterConfirm, Accepted
    <2>3. /\ plan.serial = run[p].start.serial /\ plan.from = run[p].start
          /\ plan.settled = run[p].settled
      BY <1>0, PlansTyped
    <2>4. run'[p].settled = "yes" => Settled(run[p].start)'
      BY <1>1, <1>3, <2>2
    <2>5. PlanSound(run[p].plan)'
      BY <1>1, <1>3, <2>2, <2>3 DEF PlanSound
    <2> QED
      BY <1>2, <2>1, <2>2, <2>4, <2>5 DEF PlanChecked
  <1> QED
    BY <1>6, <1>7, <1>8, <1>9, <1>10, <1>11, ApplyLoadEffect DEF FreeStep

\* Hence every plan is sound and what is marked was compared with it.
LEMMA PlanAlways == Spec => []PlanInv
  <1>1. Init => PlanInv
    BY IdlePlan DEF Init, PlanInv
  <1>2. Typed /\ SeenInv /\ PlanInv /\ [Next]_vars => PlanInv'
    <2> SUFFICES ASSUME Typed, SeenInv, PlanInv, [Next]_vars
                 PROVE  PlanInv'
      OBVIOUS
    <2>0. current \in survivors /\ planFile \in Plan
      BY DEF SeenInv, Typed, TypeOK
    <2>1. ASSUME planFile' = planFile PROVE PlanSound(planFile)'
      <3>1. PlanSound(planFile) => \A plan \in Plan : plan = planFile => PlanSound(plan)'
        BY <2>0, PlanSoundKept
      <3> QED
        BY <2>0, <2>1, <3>1 DEF PlanInv
    <2>2. ASSUME NEW p \in Procs, run'[p] = run[p] PROVE PlanChecked(run[p])'
      BY <2>0, <2>2, PlanCheckedKept DEF PlanInv, SameInputs
    <2>3. ASSUME NEW p \in Procs, FreeStep(p) PROVE PlanInv'
      <3>1. \A q \in Procs : q # p => run'[q] = run[q]
        BY <2>3, FreeStepEffect DEF Alone
      <3> QED
        BY <2>2, <2>3, <3>1, FreeStepKeepsPlans DEF PlanInv
    <2>4. ASSUME NEW p \in Procs, LockedStep(p) PROVE PlanInv'
      <3>1. /\ \A q \in Procs : q # p => run'[q] = run[q]
            /\ InLock(run'[p])
        BY <2>4, LockedStepEffect DEF Alone
      <3>2. SameInputs(run'[p], run[p])
        BY <2>4, LockedStepInputs
      <3>3. PlanChecked(run[p])'
        BY <2>0, <2>4, <3>1, <3>2, MarkingStarts, PlanCheckedKept DEF PlanInv, InLock
      <3>4. planFile' = planFile
        BY <2>4, LockedStepPlanFile
      <3> QED
        BY <2>1, <2>2, <3>1, <3>3, <3>4 DEF PlanInv
    <2>5. CASE EditConfig \/ UNCHANGED vars
      BY <2>1, <2>2, <2>5 DEF EditConfig, vars, PlanInv
    <2>6. CASE PowerLoss
      BY <2>1, <2>6, IdlePlan DEF PowerLoss, PlanInv, PlanChecked, PlanSound, Settled, Idle, NoPlan
    <2> QED
      BY <2>3, <2>4, <2>5, <2>6, StepKinds
  <1> QED
    BY <1>1, <1>2, TypedAlways, SeenAlways, PTL DEF Spec

\* A run marks, and so executes, only the document its plan was made from,
\* unless the plan was made while the last save was not yet durable.
THEOREM PlansAreFresh == Spec => []PlanIsFresh
  <1>1. Typed /\ SeenInv /\ PlanInv => PlanIsFresh
    <2> SUFFICES ASSUME Typed, SeenInv, PlanInv, NEW p \in Procs,
                        run[p].saving = "mark", run[p].pc = "save",
                        run[p].plan.settled = "yes"
                 PROVE  current = run[p].plan.from
      BY DEF PlanIsFresh
    <2>1. current = run[p].start
      BY DEF SeenInv, Seen, InLock, Unsaved
    <2>2. run[p].plan.from.serial = current.serial
      BY <2>1 DEF PlanInv, PlanChecked, PlanSound
    <2>3. current \in survivors /\ Settled(run[p].plan.from)
      BY DEF PlanInv, PlanChecked, PlanSound, SeenInv
    <2>4. current.serial \in Nat
      BY DEF Typed, TypeOK, Documents
    <2> QED
      BY <2>2, <2>3, <2>4 DEF Settled
  <1> QED
    BY <1>1, TypedAlways, SeenAlways, PlanAlways, PTL

----------------------------------------------------------------------------
\* How an apply moves on under its lock, field by field.

\* The process is about to return with exit e.
Finished(c, r, e) ==
    /\ AfterMove(c, r, "end", r.saving, r.next)
    /\ c.todo = r.todo /\ c.marker = r.marker /\ c.exit = e

\* The lock is taken with nothing to do.
LocksIdle(c, r) ==
    /\ r.pc = "loaded" /\ r.todo = <<>>
    /\ AfterMove(c, r, "exec", "none", "none") /\ Steady(c, r)
\* With something to do, the first marker is on its way.
LocksMarking(c, r) ==
    /\ r.pc = "loaded" /\ r.todo # <<>>
    /\ AfterMove(c, r, "save", "mark", "none")
    /\ c.todo = r.todo /\ c.marker = InFlight(r) /\ c.exit = "none"

\* The head of the list is given up without a call.
GivesUpHead(c, r) ==
    /\ r.pc = "exec" /\ r.todo # <<>>
    /\ \E verdict \in {"failed", "blocked"} : AfterConclude(c, r, Head(r.todo), verdict)

\* The list is empty: the final save.
WrapsUp(c, r) ==
    /\ r.pc = "exec" /\ r.todo = <<>>
    /\ AfterMove(c, r, "save", "final", "none") /\ c.todo = r.todo /\ c.exit = "none"
    /\ c.marker = IF Bad(r) # {} THEN Split(r) ELSE NoMarker
\* With nothing planned and nothing marked there is nothing to save.
WrapsUpEmpty(c, r) ==
    /\ r.pc = "exec" /\ r.todo = <<>>
    /\ Planned(r) = {} /\ r.start.body.marker = NoMarker
    /\ Finished(c, r, "ok")

\* The document becomes visible.
Commits(c, r) ==
    /\ r.pc = "save"
    /\ AfterMove(c, r, "sync", r.saving, r.next) /\ Steady(c, r)

\* A save has returned.
Returns(c, r, saved) ==
    /\ r.pc \in {"save", "sync"} /\ (saved => r.pc = "sync")
    /\ \/ r.saving = "mark" /\ saved /\ AfterMove(c, r, "exec", "none", "none") /\ Steady(c, r)
       \/ r.saving = "mark" /\ ~saved /\ Finished(c, r, "failed")
       \/ /\ r.saving = "leg" /\ saved /\ r.next = "create"
          /\ AfterMove(c, r, "create", "none", "none") /\ Steady(c, r)
       \/ /\ r.saving = "leg" /\ saved /\ r.next \in {"completed", "failed"}
          /\ AfterConclude(c, r, Head(r.todo), r.next)
       \/ r.saving = "leg" /\ ~saved /\ AfterLegUnsaved(c, r)
       \/ r.saving = "final" /\ ~saved /\ Finished(c, r, "failed")
       \/ r.saving = "final" /\ saved /\ Bad(r) = {} /\ Finished(c, r, "ok")
       \/ r.saving = "final" /\ saved /\ Bad(r) # {} /\ Finished(c, r, "split")

\* Ending a process finishes it.
LEMMA Finishing ==
    ASSUME NEW r \in Runs, NEW e \in {"ok", "split", "saved", "failed"}
    PROVE  Finished(Ended(r, e), r, e)
  BY Ending DEF Finished

\* What an apply does after a save, as one of these shapes.
LEMMA Returning ==
    ASSUME NEW r \in Runs, Phases(r), r.cmd = "apply",
           NEW c, NEW saved \in BOOLEAN, AfterSave(c, r, saved),
           r.pc \in {"save", "sync"}, saved => r.pc = "sync"
    PROVE  Returns(c, r, saved)
  <1>1. r.saving # "once" /\ (r.saving = "mark" => r.next = "none")
    BY DEF Phases
  <1>2. /\ c = Spared(r) => AfterMove(c, r, "exec", "none", r.next) /\ Steady(c, r)
        /\ c = HalfReplaced(r) => AfterMove(c, r, "create", "none", "none") /\ Steady(c, r)
        /\ c = Ended(r, "failed") => Finished(c, r, "failed")
        /\ c = Ended(r, "ok") => Finished(c, r, "ok")
        /\ c = Ended(r, "split") => Finished(c, r, "split")
    BY Sparing, HalfReplacing, Finishing
  <1>3. CASE r.saving = "mark" /\ saved /\ c = Spared(r)
    BY <1>1, <1>2, <1>3 DEF Returns
  <1>4. CASE r.saving = "mark" /\ ~saved /\ c = Ended(r, "failed")
    BY <1>2, <1>4 DEF Returns
  <1>5. CASE r.saving = "leg" /\ saved /\ r.next = "create" /\ c = HalfReplaced(r)
    BY <1>2, <1>5 DEF Returns
  <1>6. CASE /\ r.saving = "leg" /\ saved /\ r.next \in {"completed", "failed"}
             /\ AfterConclude(c, r, Head(r.todo), r.next)
    BY <1>6 DEF Returns
  <1>7. CASE r.saving = "leg" /\ ~saved /\ AfterLegUnsaved(c, r)
    BY <1>7 DEF Returns
  <1>8. CASE r.saving = "final" /\ ~saved /\ c = Ended(r, "failed")
    BY <1>2, <1>8 DEF Returns
  <1>9. CASE r.saving = "final" /\ saved /\ Bad(r) = {} /\ c = Ended(r, "ok")
    BY <1>2, <1>9 DEF Returns
  <1>10. CASE r.saving = "final" /\ saved /\ Bad(r) # {} /\ c = Ended(r, "split")
    BY <1>2, <1>10 DEF Returns
  <1> QED
    BY <1>1, <1>3, <1>4, <1>5, <1>6, <1>7, <1>8, <1>9, <1>10 DEF AfterSave

\* Neither the state nor the world moves.
Still == UNCHANGED <<current, survivors, live, calls, touched, stray>>

\* The steps of an apply between its Lock and its Unlock.
Moves(p, c, r) ==
    \/ Still /\ LocksIdle(c, r)
    \/ Still /\ LocksMarking(c, r)
    \/ Still /\ GivesUpHead(c, r)
    \/ Still /\ WrapsUp(c, r)
    \/ Still /\ WrapsUpEmpty(c, r)
    \/ Still /\ Returns(c, r, FALSE)
    \/ /\ Returns(c, r, TRUE) /\ survivors' = {current}
       /\ UNCHANGED <<current, live, calls, touched, stray>>
    \/ /\ Commits(c, r) /\ Recounted(r) /\ UNCHANGED <<live, calls>>
       /\ current'.serial = current.serial + 1
       /\ current'.body = [res |-> r.res, marker |-> r.marker]
       /\ survivors' = survivors \cup {current'}
    \/ DestroyCall(p) /\ UNCHANGED <<current, survivors>>
    \/ WriteCall(p) /\ UNCHANGED <<current, survivors>>

\* These are all the steps of an apply under its lock.
LEMMA ApplyMoves ==
    ASSUME Typed, NEW p \in Procs, LockedStep(p), run[p].cmd = "apply"
    PROVE  Moves(p, run'[p], run[p])
  <1> DEFINE r == run[p]
             c == run'[p]
  <1>0. r \in Runs /\ Phases(r) /\ ~Leave(p) /\ RegisterTypes
    BY TypedRun, NotLeaving, TypesTogether DEF Typed
  <1>a. r.pc # "locked"
    BY <1>0 DEF Phases
  <1>1. CASE ApplyLock(p)
    <2>1. /\ UNCHANGED world /\ r.pc = "loaded" /\ Reg!Acquire(p)
          /\ \/ r.todo = <<>> /\ c = Turned(r, "exec")
             \/ r.todo # <<>> /\ c = Marked(r, "mark", InFlight(r))
      BY <1>0, <1>1, ApplyLockEffect
    <2>2. Still /\ r.saving = "none" /\ r.next = "none" /\ r.exit = "none"
      BY <1>0, <2>1 DEF Still, world, Reg!Acquire, Phases
    <2>3. CASE r.todo = <<>> /\ c = Turned(r, "exec")
      <3>1. AfterMove(c, r, "exec", r.saving, r.next) /\ Steady(c, r)
        BY <1>0, <2>3, Turning
      <3>2. LocksIdle(c, r)
        BY <2>1, <2>2, <2>3, <3>1 DEF LocksIdle
      <3> QED
        BY <2>2, <3>2 DEF Moves
    <2>4. CASE r.todo # <<>> /\ c = Marked(r, "mark", InFlight(r))
      <3>1. /\ AfterMove(c, r, "save", "mark", r.next) /\ c.todo = r.todo
            /\ c.marker = InFlight(r) /\ c.exit = r.exit
        BY <1>0, <2>4, Marking, MarkersOfRun
      <3>2. LocksMarking(c, r)
        BY <2>1, <2>2, <2>4, <3>1 DEF LocksMarking
      <3> QED
        BY <2>2, <3>2 DEF Moves
    <2> QED
      BY <2>1, <2>3, <2>4
  <1>2. CASE LockOnce(p)
    BY <1>2, LockOnceEffect
  <1>3. CASE Skip(p) \/ Preflight(p)
    <2>1. Still /\ GivesUpHead(c, r)
      BY <1>3, SkipEffect, PreflightEffect DEF Still, world, regVars, GivesUpHead
    <2> QED
      BY <2>1 DEF Moves
  <1>4. CASE DestroyCall(p) \/ WriteCall(p)
    <2>1. UNCHANGED <<current, survivors>>
      BY <1>4, CallEffect DEF regVars
    <2> QED
      BY <1>4, <2>1 DEF Moves
  <1>5. CASE Wrapup(p)
    <2>0. /\ Still /\ r.pc = "exec" /\ r.todo = <<>>
          /\ r.saving = "none" /\ r.next = "none" /\ r.exit = "none"
      BY <1>0, <1>5, WrapupEffect DEF Still, world, regVars, Phases
    <2>1. ASSUME NEW m \in Markers, c = Marked(r, "final", m),
                 m = IF Bad(r) # {} THEN Split(r) ELSE NoMarker
          PROVE  WrapsUp(c, r)
      <3>1. /\ AfterMove(c, r, "save", "final", r.next) /\ c.todo = r.todo
            /\ c.marker = m /\ c.exit = r.exit
        BY <1>0, <2>1, Marking
      <3> QED
        BY <2>0, <2>1, <3>1 DEF WrapsUp
    <2>2. ASSUME c = Ended(r, "ok"), Planned(r) = {}, r.start.body.marker = NoMarker
          PROVE  WrapsUpEmpty(c, r)
      BY <1>0, <2>0, <2>2, Finishing DEF WrapsUpEmpty
    <2>3. Split(r) \in Markers /\ NoMarker \in Markers
      BY <1>0, MarkersOfRun
    <2>4. WrapsUp(c, r) \/ WrapsUpEmpty(c, r)
      BY <1>5, <2>1, <2>2, <2>3, WrapupEffect
    <2> QED
      BY <2>0, <2>4 DEF Moves
  <1>6. CASE SaveCommit(p)
    <2>1. /\ r.pc = "save" /\ c = Turned(r, "sync") /\ Recounted(r)
          /\ UNCHANGED <<live, calls>>
      BY <1>6, SaveCommitEffect
    <2>2. Commits(c, r)
      BY <1>0, <2>1, Turning DEF Commits
    <2>3. /\ current'.serial = current.serial + 1
          /\ current'.body = [res |-> r.res, marker |-> r.marker]
          /\ survivors' = survivors \cup {current'}
      BY <1>0, <1>6, SaveCommitEffect, Committing
    <2> QED
      BY <2>1, <2>2, <2>3 DEF Moves
  <1>7. CASE SaveAcknowledge(p)
    <2> DEFINE saved == TRUE
    <2>1. r.pc = "sync" /\ AfterSave(c, r, saved) /\ saved \in BOOLEAN
      BY <1>7, SaveAcknowledgeEffect
    <2>2. survivors' = {current} /\ UNCHANGED <<current, live, calls, touched, stray>>
      BY <1>7, SaveAcknowledgeEffect DEF Reg!Acknowledge, world
    <2>3. Returns(c, r, saved)
      <3> HIDE DEF saved
      <3> QED
        BY <1>0, <2>1, Returning
    <2> QED
      BY <2>2, <2>3 DEF Moves
  <1>8. CASE SaveFails(p)
    <2> DEFINE saved == FALSE
    <2>1. /\ r.pc \in {"save", "sync"} /\ AfterSave(c, r, saved) /\ saved \in BOOLEAN
          /\ saved => r.pc = "sync"
      BY <1>8, SaveFailsEffect
    <2>2. Still
      BY <1>8, SaveFailsEffect DEF Still, world, regVars
    <2>3. Returns(c, r, saved)
      <3> HIDE DEF saved
      <3> QED
        BY <1>0, <2>1, Returning
    <2> QED
      BY <2>2, <2>3 DEF Moves
  <1>9. CASE ImportAdopt(p) \/ SanitizeSave(p) \/ GiveUpLocked(p)
    BY <1>9, <1>a, ImportAdoptEffect, SanitizeSaveEffect, GiveUpLockedEffect
  <1> QED
    BY <1>1, <1>2, <1>3, <1>4, <1>5, <1>6, <1>7, <1>8, <1>9 DEF LockedStep

----------------------------------------------------------------------------
\* The marker in memory.

\* While it works, a run's marker lists every planned change as remaining and
\* the completed ones as applied; at its end, what failed - or nothing.
MarkerOfRun(r) ==
    /\ r.saving = "mark" => r.marker = InFlight(r)
    /\ Planned(r) # {} /\ (r.pc \in {"exec", "create"} \/ r.saving = "leg") =>
         r.marker = [failed |-> {}, applied |-> Completed(r), remaining |-> Planned(r)]
    /\ r.saving = "final" => r.marker = IF Bad(r) # {} THEN Split(r) ELSE NoMarker


\* The verdicts count the same when the bookkeeping is the same.
LEMMA SameMarkers ==
    ASSUME NEW r, NEW c, SameInputs(c, r), c.outcome = r.outcome, c.failed = r.failed
    PROVE  /\ Planned(c) = Planned(r) /\ Bad(c) = Bad(r) /\ Completed(c) = Completed(r)
           /\ Split(c) = Split(r) /\ InFlight(c) = InFlight(r)
  BY DEF SameInputs, Planned, Change, Bad, Completed, Split, InFlight

\* Neither a failed nor a blocked change counts as completed.
LEMMA ConcludedMarker ==
    ASSUME NEW r \in Runs, Work(r), r.cmd = "apply", r.todo # <<>>,
           r.pc \notin {"idle", "started"}, NEW c \in Runs, SameInputs(c, r),
           NEW verdict \in {"completed", "failed", "blocked"},
           c.outcome = Updated(r.outcome, Head(r.todo), verdict)
    PROVE  /\ Bad(c) = IF verdict = "completed" THEN Bad(r) ELSE Bad(r) \cup {Head(r.todo)}
           /\ Completed(c) = IF verdict = "completed" THEN Completed(r) \cup {Head(r.todo)}
                             ELSE Completed(r)
           /\ Planned(c) = Planned(r)
           /\ Head(r.todo) \in Planned(r) /\ r.outcome[Head(r.todo)] = "none"
           /\ Head(r.todo) \in Addrs
  <1>1. Listed(r) /\ Verdicts(r)
    BY DEF Work
  <1>2. /\ Head(r.todo) \in Addrs /\ Head(r.todo) \in Planned(r)
        /\ r.outcome[Head(r.todo)] = "none"
    BY <1>1, HeadPlanned
  <1> DEFINE a == Head(r.todo)
  <1>3. a \in Addrs /\ a \in Planned(r) /\ r.outcome[a] = "none"
        /\ c.outcome = Updated(r.outcome, a, verdict)
    BY <1>2
  <1>4. Planned(c) = Planned(r)
    BY SameInputsSameWork
  <1> HIDE DEF a
  <1>5. /\ Bad(c) = IF verdict = "completed" THEN Bad(r) ELSE Bad(r) \cup {a}
        /\ Completed(c) = IF verdict = "completed" THEN Completed(r) \cup {a}
                          ELSE Completed(r)
    BY <1>1, <1>3, ConcludedVerdicts
  <1> QED
    BY <1>2, <1>4, <1>5 DEF a

\* The failed save of a leg adds its change to the bad ones.
LEMMA LosingMarker ==
    ASSUME NEW r \in Runs, Work(r), r.cmd = "apply", r.todo # <<>>,
           r.pc \notin {"idle", "started"}, NEW c, AfterLegUnsaved(c, r)
    PROVE  /\ Completed(c) = Completed(r) /\ Planned(c) = Planned(r)
           /\ Bad(c) = Bad(r) \cup {Head(r.todo)}
  <1> DEFINE verdict == "failed"
  <1>1. /\ c \in Runs /\ SameInputs(c, r) /\ verdict \in {"completed", "failed", "blocked"}
        /\ c.outcome = Updated(r.outcome, Head(r.todo), verdict)
        /\ verdict # "completed"
    BY DEF AfterLegUnsaved
  <1> HIDE DEF verdict
  <1> QED
    BY <1>1, ConcludedMarker

\* The marker in memory is right after a verdict, ...
LEMMA MarkerConcluded ==
    ASSUME NEW r \in Runs, Work(r), r.cmd = "apply", r.todo # <<>>,
           r.pc \in {"exec", "create"} \/ r.saving = "leg",
           r.pc \notin {"idle", "started"}, MarkerOfRun(r),
           NEW verdict \in {"completed", "failed", "blocked"},
           NEW c, AfterConclude(c, r, Head(r.todo), verdict)
    PROVE  MarkerOfRun(c)
  <1>1. /\ c \in Runs /\ SameInputs(c, r) /\ c.saving = "none" /\ c.pc = "exec"
        /\ c.outcome = Updated(r.outcome, Head(r.todo), verdict)
        /\ c.marker = IF verdict = "completed"
                      THEN Advanced(r.marker, Completed(c)) ELSE r.marker
    BY DEF AfterConclude
  <1>2. /\ Planned(c) = Planned(r)
        /\ verdict # "completed" => Completed(c) = Completed(r)
    BY <1>1, ConcludedMarker
  <1>3. ASSUME Planned(r) # {}
        PROVE  c.marker = [failed |-> {}, applied |-> Completed(c), remaining |-> Planned(r)]
    <2>1. r.marker = [failed |-> {}, applied |-> Completed(r), remaining |-> Planned(r)]
      BY <1>3 DEF MarkerOfRun
    <2>2. r.marker \in Markers /\ Completed(c) \in SUBSET Addrs /\ Planned(r) \in SUBSET Addrs
      BY DEF Runs, Completed, Planned
    <2>3. /\ Advanced(r.marker, Completed(c)) \in Markers
          /\ Advanced(r.marker, Completed(c)).failed = r.marker.failed
          /\ Advanced(r.marker, Completed(c)).applied = Completed(c)
          /\ Advanced(r.marker, Completed(c)).remaining = r.marker.remaining
      BY <2>2 DEF Advanced, Markers
    <2>4. r.marker.failed = {} /\ r.marker.remaining = Planned(r)
      BY <2>1
    <2>5. Advanced(r.marker, Completed(c))
             = [failed |-> {}, applied |-> Completed(c), remaining |-> Planned(r)]
      BY <2>2, <2>3, <2>4 DEF Markers
    <2> QED
      BY <1>1, <1>2, <2>1, <2>5
  <1> QED
    BY <1>1, <1>2, <1>3 DEF MarkerOfRun

\* ... and after every step of the run.
LEMMA MarkerMoves ==
    ASSUME Typed, NEW p \in Procs, Work(run[p]), run[p].cmd = "apply", MarkerOfRun(run[p]),
           LockedStep(p)
    PROVE  MarkerOfRun(run'[p])
  <1> DEFINE r == run[p]
             c == run'[p]
  <1>0. r \in Runs /\ Phases(r)
    BY TypedRun
  <1>1. Moves(p, c, r)
    BY ApplyMoves
  <1>2. ASSUME SameInputs(c, r), c.outcome = r.outcome, c.failed = r.failed,
               c.marker = r.marker, c.saving = r.saving,
               c.pc \in {"exec", "create"} => r.pc \in {"exec", "create"} \/ r.saving = "leg"
        PROVE  MarkerOfRun(c)
    BY <1>2, SameMarkers DEF MarkerOfRun
  <1>3. Early(r) => Completed(r) = {}
    BY <1>0, UnworkedVerdicts DEF Work
  <1>4. CASE LocksIdle(c, r)
    <2>1. Planned(r) = {}
      <3>1. Listed(r) /\ Unworked(r) /\ r.todo = <<>>
        BY <1>4 DEF Work, Early, LocksIdle
      <3> QED
        BY <3>1 DEF Listed, Unworked, Planned, ToSet
    <2>2. SameInputs(c, r) /\ c.saving = "none"
      BY <1>4 DEF LocksIdle, AfterMove
    <2>3. Planned(c) = {}
      BY <2>1, <2>2, SameInputsSameWork
    <2> QED
      BY <2>2, <2>3 DEF MarkerOfRun
  <1>5. CASE LocksMarking(c, r)
    <2>1. /\ SameInputs(c, r) /\ c.outcome = r.outcome /\ c.failed = r.failed
          /\ c.marker = InFlight(r) /\ c.saving = "mark" /\ c.pc = "save"
      BY <1>5 DEF LocksMarking, AfterMove
    <2> QED
      BY <2>1, SameMarkers DEF MarkerOfRun
  <1>6. CASE GivesUpHead(c, r)
    BY <1>0, <1>6, MarkerConcluded DEF GivesUpHead
  <1>7. CASE WrapsUp(c, r)
    <2>1. /\ SameInputs(c, r) /\ c.outcome = r.outcome /\ c.failed = r.failed
          /\ c.marker = (IF Bad(r) # {} THEN Split(r) ELSE NoMarker)
          /\ c.saving = "final" /\ c.pc = "save"
      BY <1>7 DEF WrapsUp, AfterMove
    <2> QED
      BY <2>1, SameMarkers DEF MarkerOfRun
  <1>8. CASE WrapsUpEmpty(c, r)
    <2>1. r.saving = "none" /\ c.pc = "end" /\ c.saving = "none"
      BY <1>0, <1>8 DEF WrapsUpEmpty, Finished, AfterMove, Phases
    <2> QED
      BY <2>1 DEF MarkerOfRun
  <1>9. CASE Commits(c, r)
    BY <1>2, <1>9 DEF Commits, AfterMove, Steady
  <1>10. ASSUME NEW saved \in BOOLEAN, Returns(c, r, saved) PROVE MarkerOfRun(c)
    <2>0. r.pc \in {"save", "sync"}
      BY <1>10 DEF Returns
    <2>1. CASE /\ r.saving = "mark" /\ AfterMove(c, r, "exec", "none", "none")
               /\ Steady(c, r)
      <3>1. /\ r.marker = [failed |-> {}, applied |-> Completed(r), remaining |-> Planned(r)]
        BY <1>3, <2>1 DEF Early, MarkerOfRun, InFlight
      <3>2. /\ SameInputs(c, r) /\ c.outcome = r.outcome /\ c.failed = r.failed
            /\ c.marker = r.marker /\ c.saving = "none"
        BY <2>1 DEF AfterMove, Steady
      <3> QED
        BY <3>1, <3>2, SameMarkers DEF MarkerOfRun
    <2>2. CASE Finished(c, r, "failed") \/ Finished(c, r, "ok") \/ Finished(c, r, "split")
      BY <1>2, <2>2 DEF Finished, AfterMove
    <2>3. CASE /\ r.saving = "leg" /\ r.next = "create"
               /\ AfterMove(c, r, "create", "none", "none") /\ Steady(c, r)
      <3>1. /\ SameInputs(c, r) /\ c.outcome = r.outcome /\ c.failed = r.failed
            /\ c.marker = r.marker /\ c.saving = "none"
        BY <2>3 DEF AfterMove, Steady
      <3> QED
        BY <2>3, <3>1, SameMarkers DEF MarkerOfRun
    <2>4. ASSUME r.saving = "leg" PROVE r.todo # <<>>
      BY <1>0, <2>0, <2>4 DEF Phases
    <2>5. CASE /\ r.saving = "leg" /\ r.next \in {"completed", "failed"}
               /\ AfterConclude(c, r, Head(r.todo), r.next)
      BY <1>0, <2>0, <2>4, <2>5, MarkerConcluded
    <2>6. CASE r.saving = "leg" /\ AfterLegUnsaved(c, r)
      <3>1. Completed(c) = Completed(r) /\ Planned(c) = Planned(r)
        BY <1>0, <2>0, <2>4, <2>6, LosingMarker
      <3>2. c.saving = "none" /\ c.marker = r.marker
        BY <2>6 DEF AfterLegUnsaved
      <3> QED
        BY <2>6, <3>1, <3>2 DEF MarkerOfRun
    <2> QED
      BY <1>10, <2>1, <2>2, <2>3, <2>5, <2>6 DEF Returns
  <1>11. CASE DestroyCall(p) \/ WriteCall(p)
    <2>1. PICK a \in Addrs : Calling(r, a) /\ Proceeds(c, r, a)
      BY <1>11, CallEffect
    <2>2. CASE AfterConclude(c, r, a, "failed")
      <3> DEFINE verdict == "failed"
      <3>1. /\ AfterConclude(c, r, Head(r.todo), verdict) /\ r.todo # <<>>
            /\ r.pc \in {"exec", "create"}
            /\ verdict \in {"completed", "failed", "blocked"}
        BY <2>1, <2>2 DEF Calling
      <3> HIDE DEF verdict
      <3> QED
        BY <1>0, <3>1, MarkerConcluded
    <2>3. CASE \E entry, undo : \E next \in {"create", "completed", "failed"} :
                  AfterRecord(c, r, a, entry, next, undo)
      <3>1. /\ SameInputs(c, r) /\ c.outcome = r.outcome /\ c.failed = r.failed
            /\ c.marker = r.marker /\ c.saving = "leg"
        BY <2>3 DEF AfterRecord, SameProgress
      <3>2. r.pc \in {"exec", "create"}
        BY <2>1 DEF Calling
      <3> QED
        BY <3>1, <3>2, SameMarkers DEF MarkerOfRun
    <2> QED
      BY <2>1, <2>2, <2>3 DEF Proceeds
  <1> QED
    BY <1>1, <1>4, <1>5, <1>6, <1>7, <1>8, <1>9, <1>10, <1>11 DEF Moves

----------------------------------------------------------------------------
\* The marker on disk.

\* Between the acknowledged marker and the rename of the final save.
InFlightOnDisk(r) ==
    /\ r.cmd = "apply" /\ Planned(r) # {}
    /\ r.pc \in {"exec", "create"} \/ r.saving = "leg" \/ (r.saving = "final" /\ r.pc = "save")

\* In between every document that a power loss may leave lists the whole plan
\* as unfinished; and what an exit code says of the final save is so.
Disk(r) ==
    /\ InFlightOnDisk(r) =>
          \A doc \in survivors : doc.body.marker.remaining = Planned(r)
    /\ r.pc = "sync" \/ (r.exit \in {"ok", "split"} /\ r.saving = "final") =>
          current.body = [res |-> r.res, marker |-> r.marker]
    /\ r.exit \in {"ok", "split"} /\ r.saving = "final" => (r.exit = "ok" <=> Bad(r) = {})
    /\ r.exit = "split" => r.saving = "final"
    /\ r.exit = "ok" /\ r.saving # "final" =>
          Planned(r) = {} /\ current.body.marker = NoMarker
    /\ r.pc = "end" /\ r.saving = "none" => Planned(r) = {}


\* Every step of the run keeps what is said of the disk: no leg is reached
\* before the marker is durable, and no exit code is set before the final save
\* is.
LEMMA DiskMoves ==
    ASSUME Typed, NEW p \in Procs, Work(run[p]), run[p].cmd = "apply", MarkerOfRun(run[p]),
           Seen(p), Disk(run[p]), LockedStep(p)
    PROVE  Disk(run[p])'
  <1> DEFINE r == run[p]
             c == run'[p]
  <1>0. r \in Runs /\ Phases(r)
    BY TypedRun
  <1>00. SameInputs(c, r) /\ Planned(c) = Planned(r) /\ c.cmd = "apply"
    BY LockedStepInputs, SameInputsSameWork DEF SameInputs
  <1>1. Moves(p, c, r)
    BY ApplyMoves
  \* The usual case: the list goes on.
  <1>2. ASSUME c.pc \in {"exec", "create"} \/ (c.pc = "save" /\ c.saving = "leg"),
               c.exit = "none",
               Planned(r) # {} =>
                  \A doc \in survivors' : doc.body.marker.remaining = Planned(r)
        PROVE  Disk(run[p])'
    BY <1>00, <1>2 DEF Disk, InFlightOnDisk
  <1>3. CASE Still /\ LocksIdle(c, r)
    <2>1. Planned(r) = {}
      <3>1. Listed(r) /\ Unworked(r) /\ r.todo = <<>>
        BY <1>3 DEF Work, Early, LocksIdle
      <3> QED
        BY <3>1 DEF Listed, Unworked, Planned, ToSet
    <2>2. c.pc = "exec" /\ c.exit = "none"
      BY <1>0, <1>3 DEF LocksIdle, AfterMove, Steady, Phases
    <2> QED
      BY <1>2, <2>1, <2>2
  <1>4. CASE Still /\ LocksMarking(c, r)
    <2>1. c.pc = "save" /\ c.saving = "mark" /\ c.exit = "none"
      BY <1>4 DEF LocksMarking, AfterMove
    <2> QED
      BY <2>1 DEF Disk, InFlightOnDisk
  <1>5. CASE Still /\ GivesUpHead(c, r)
    <2>1. c.pc = "exec" /\ r.pc = "exec" /\ c.exit = r.exit /\ r.exit = "none"
      BY <1>0, <1>5 DEF GivesUpHead, AfterConclude, Phases
    <2> QED
      BY <1>2, <1>5, <2>1 DEF Disk, InFlightOnDisk, Still
  <1>6. CASE Still /\ WrapsUp(c, r)
    <2>1. r.pc = "exec" /\ c.pc = "save" /\ c.saving = "final" /\ c.exit = "none"
      BY <1>6 DEF WrapsUp, AfterMove
    <2>2. Planned(r) # {} => \A doc \in survivors' : doc.body.marker.remaining = Planned(r)
      BY <1>6, <2>1 DEF Disk, InFlightOnDisk, Still
    <2> QED
      BY <1>00, <2>1, <2>2 DEF Disk, InFlightOnDisk
  <1>7. CASE Still /\ WrapsUpEmpty(c, r)
    <2>1. /\ r.pc = "exec" /\ Planned(r) = {} /\ r.start.body.marker = NoMarker
          /\ c.pc = "end" /\ c.saving = r.saving /\ c.exit = "ok" /\ r.saving = "none"
      BY <1>0, <1>7 DEF WrapsUpEmpty, Finished, AfterMove, Phases
    <2>2. r.start = current
      BY <2>1 DEF Seen, Unsaved, InLock
    <2>3. current'.body.marker = NoMarker
      BY <1>7, <2>1, <2>2 DEF Still
    <2> QED
      BY <1>00, <2>1, <2>3 DEF Disk, InFlightOnDisk
  <1>8. ASSUME NEW saved \in BOOLEAN, Returns(c, r, saved), current' = current,
               survivors' = IF saved THEN {current} ELSE survivors
        PROVE  Disk(run[p])'
    <2>0. r.pc \in {"save", "sync"} /\ r.exit = "none"
      BY <1>0, <1>8 DEF Returns, Phases
    <2>1. ASSUME saved
          PROVE  /\ current.body = [res |-> r.res, marker |-> r.marker]
                 /\ current.body.marker = r.marker
      BY <1>8, <2>1 DEF Returns, Disk
    <2>2. ASSUME r.saving = "leg", Planned(r) # {}
          PROVE  \A doc \in survivors' : doc.body.marker.remaining = Planned(r)
      <3>1. \A doc \in survivors : doc.body.marker.remaining = Planned(r)
        BY <2>2 DEF Disk, InFlightOnDisk
      <3>2. r.marker.remaining = Planned(r)
        BY <2>2 DEF MarkerOfRun
      <3> QED
        BY <1>8, <2>1, <3>1, <3>2
    <2>3. CASE r.saving = "mark" /\ saved /\ AfterMove(c, r, "exec", "none", "none") /\ Steady(c, r)
      <3>1. survivors' = {current}
        BY <1>8, <2>3
      <3>2. r.marker.remaining = Planned(r)
        BY <2>3 DEF MarkerOfRun, InFlight
      <3>3. c.pc = "exec" /\ c.exit = "none"
        BY <2>0, <2>3 DEF AfterMove, Steady
      <3> QED
        BY <1>2, <2>1, <2>3, <3>1, <3>2, <3>3
    <2>4. CASE r.saving = "mark" /\ ~saved /\ Finished(c, r, "failed")
      BY <2>4 DEF Finished, AfterMove, Disk, InFlightOnDisk
    <2>5. CASE /\ r.saving = "leg" /\ saved /\ r.next = "create"
               /\ AfterMove(c, r, "create", "none", "none") /\ Steady(c, r)
      <3>1. c.pc = "create" /\ c.exit = "none"
        BY <2>0, <2>5 DEF AfterMove, Steady
      <3> QED
        BY <1>2, <2>2, <2>5, <3>1
    <2>6. CASE /\ r.saving = "leg" /\ saved /\ r.next \in {"completed", "failed"}
               /\ AfterConclude(c, r, Head(r.todo), r.next)
      <3>1. c.pc = "exec" /\ c.exit = "none"
        BY <2>0, <2>6 DEF AfterConclude
      <3> QED
        BY <1>2, <2>2, <2>6, <3>1
    <2>7. CASE r.saving = "leg" /\ ~saved /\ AfterLegUnsaved(c, r)
      <3>1. c.pc = "exec" /\ c.exit = "none"
        BY <2>0, <2>7 DEF AfterLegUnsaved
      <3> QED
        BY <1>2, <2>2, <2>7, <3>1
    <2>8. CASE r.saving = "final" /\ ~saved /\ Finished(c, r, "failed")
      BY <2>8 DEF Finished, AfterMove, Disk, InFlightOnDisk
    <2>9. ASSUME NEW e \in {"ok", "split"}, r.saving = "final", saved, Finished(c, r, e),
                 e = "ok" <=> Bad(r) = {}
          PROVE  Disk(run[p])'
      <3>1. /\ c.pc = "end" /\ c.saving = "final" /\ c.exit = e
            /\ c.res = r.res /\ c.marker = r.marker /\ c.outcome = r.outcome
        BY <2>9 DEF Finished, AfterMove
      <3>2. Bad(c) = Bad(r)
        BY <3>1 DEF Bad
      <3>3. current'.body = [res |-> c.res, marker |-> c.marker]
        BY <1>8, <2>1, <2>9, <3>1
      <3> QED
        BY <2>9, <3>1, <3>2, <3>3 DEF Disk, InFlightOnDisk
    <2>10. CASE r.saving = "final" /\ saved /\ Bad(r) = {} /\ Finished(c, r, "ok")
      BY <2>9, <2>10
    <2>11. CASE r.saving = "final" /\ saved /\ Bad(r) # {} /\ Finished(c, r, "split")
      BY <2>9, <2>11
    <2> QED
      BY <1>8, <2>3, <2>4, <2>5, <2>6, <2>7, <2>8, <2>10, <2>11 DEF Returns
  <1>9. CASE /\ Commits(c, r)
             /\ current'.body = [res |-> r.res, marker |-> r.marker]
             /\ survivors' = survivors \cup {current'}
    <2>1. /\ r.pc = "save" /\ c.pc = "sync" /\ c.saving = r.saving
          /\ c.res = r.res /\ c.marker = r.marker /\ c.exit = r.exit /\ r.exit = "none"
      BY <1>0, <1>9 DEF Commits, AfterMove, Steady, Phases
    <2>2. ASSUME r.saving = "leg", Planned(r) # {}
          PROVE  \A doc \in survivors' : doc.body.marker.remaining = Planned(r)
      <3>1. \A doc \in survivors : doc.body.marker.remaining = Planned(r)
        BY <2>2 DEF Disk, InFlightOnDisk
      <3>2. r.marker.remaining = Planned(r)
        BY <2>2 DEF MarkerOfRun
      <3>3. current'.body.marker = r.marker
        BY <1>9
      <3> QED
        BY <1>9, <3>1, <3>2, <3>3
    <2> QED
      BY <1>00, <1>9, <2>1, <2>2 DEF Disk, InFlightOnDisk
  <1>10. CASE (DestroyCall(p) \/ WriteCall(p)) /\ UNCHANGED <<current, survivors>>
    <2>1. PICK a \in Addrs : Calling(r, a) /\ Proceeds(c, r, a)
      BY <1>10, CallEffect
    <2>2. r.pc \in {"exec", "create"} /\ r.exit = "none"
      BY <1>0, <2>1 DEF Calling, Phases
    <2>3. /\ c.pc = "exec" \/ (c.pc = "save" /\ c.saving = "leg")
          /\ c.exit = "none"
      BY <2>1, <2>2 DEF Proceeds, AfterConclude, AfterRecord
    <2>4. Planned(r) # {} => \A doc \in survivors' : doc.body.marker.remaining = Planned(r)
      BY <1>10, <2>2 DEF Disk, InFlightOnDisk
    <2> QED
      BY <1>2, <2>3, <2>4
  <1>11. CASE Still /\ Returns(c, r, FALSE)
    BY <1>8, <1>11 DEF Still
  <1>12. CASE Returns(c, r, TRUE) /\ survivors' = {current} /\ current' = current
    BY <1>8, <1>12
  <1> QED
    BY <1>1, <1>3, <1>4, <1>5, <1>6, <1>7, <1>9, <1>10, <1>11, <1>12 DEF Moves

----------------------------------------------------------------------------
\* The objects at the provider.

\* From the moment its marker is visible a run has a history.
MarkedRun(r) ==
    /\ r.cmd = "apply" /\ Planned(r) # {}
    /\ \/ r.pc \in {"exec", "create"} \/ r.saving \in {"leg", "final"}
       \/ r.saving = "mark" /\ r.pc = "sync"

\* The change of a has a verdict or is being made.
Attempted(r, a) == r.outcome[a] # "none" \/ (Underway(r) /\ a = Head(r.todo))

\* Only planned changes have touched anything; what was not attempted is as it
\* was, less the object its entry names; an object half replaced is gone; and
\* of a completed change exactly the recorded object exists.
AtProvider(r) ==
    /\ touched \subseteq Planned(r)
    /\ \A a \in Planned(r) : ~Attempted(r, a) =>
          stray[a] = IF Change(r, a) = "create" THEN live[a] ELSE live[a] \ {r.res[a]}
    /\ r.pc = "create" \/ r.next = "create" => Produced(Head(r.todo)) = {}
    /\ r.next = "completed" => Produced(Head(r.todo)) = {r.res[Head(r.todo)]} \ {Null}
    /\ \A a \in Completed(r) :
          /\ Produced(a) = {r.res[a]} \ {Null}
          /\ \A doc \in survivors : doc.body.res[a] = r.res[a]

\* Every object is as old as some earlier call.
Aged == \A a \in Addrs : \A o \in live[a] \cup stray[a] : o.ver <= calls


\* A destroy that answers null without errors leaves no object of the entry.
LEMMA DestroyedObjects ==
    ASSUME WorldTypes, NEW a \in Addrs, NEW prior \in Objects \cup {Null},
           NEW answer \in DestroyReplies(a, prior)
    PROVE  /\ answer.reply = Null /\ answer.errors = "no" =>
                answer.objs \subseteq live[a] \ {prior}
           /\ \A o \in answer.objs : o \in live[a] \/ o.ver = calls + 1
  <1> DEFINE target == {o \in live[a] : prior # Null /\ o.id = prior.id}
             gone == live[a] \ target
             worn(o) == [o EXCEPT !.ver = calls + 1]
  <1>0. /\ live[a] \subseteq Objects /\ calls \in Nat /\ Null # Nothing
        /\ Null \notin Objects /\ Nothing \notin Objects
    BY ApplyAssumption DEF WorldTypes
  <1>1. \A o \in Objects : worn(o) \in Objects /\ worn(o).ver = calls + 1
    BY <1>0 DEF Objects
  <1>2. gone \subseteq live[a] \ {prior} /\ target \subseteq Objects
    BY <1>0
  <1>3. \/ \E e \in {"no", "yes"} : answer = [objs |-> gone, reply |-> Null, errors |-> e]
        \/ \E s \in {gone, live[a]} : answer = [objs |-> s, reply |-> Nothing, errors |-> "yes"]
        \/ \E o \in target, e \in {"no", "yes"} :
              answer = [objs |-> live[a], reply |-> o, errors |-> e]
        \/ \E o \in target :
              answer = [objs |-> gone \cup {worn(o)}, reply |-> worn(o), errors |-> "yes"]
    BY DEF DestroyReplies
  <1> HIDE DEF target, gone, worn
  <1>4. CASE \E e \in {"no", "yes"} : answer = [objs |-> gone, reply |-> Null, errors |-> e]
    BY <1>2, <1>4
  <1>5. CASE \E s \in {gone, live[a]} :
                 answer = [objs |-> s, reply |-> Nothing, errors |-> "yes"]
    BY <1>0, <1>2, <1>5
  <1>6. CASE \E o \in target, e \in {"no", "yes"} :
              answer = [objs |-> live[a], reply |-> o, errors |-> e]
    BY <1>0, <1>2, <1>6
  <1>7. CASE \E o \in target :
              answer = [objs |-> gone \cup {worn(o)}, reply |-> worn(o), errors |-> "yes"]
    BY <1>0, <1>1, <1>2, <1>7
  <1> QED
    BY <1>3, <1>4, <1>5, <1>6, <1>7

\* What an answer without errors says of the objects.
Writes(a, prior, answer) ==
    answer.errors = "no" /\ ~Unrecordable(answer, prior) =>
        /\ answer.reply \in Objects /\ answer.reply.ver = calls + 1
        /\ \E kept \in SUBSET (live[a] \ {prior}) :
              /\ prior = Null => kept = live[a]
              /\ answer.objs = kept \cup {answer.reply}

\* A write that answers a recordable object without errors leaves that object,
\* in the place of the one the entry named.
LEMMA WrittenObjects ==
    ASSUME WorldTypes, NEW a \in Addrs, NEW prior \in Objects \cup {Null},
           NEW answer \in WriteReplies(a, prior)
    PROVE  /\ Writes(a, prior, answer)
           /\ \A o \in answer.objs : o \in live[a] \/ o.ver = calls + 1
  <1> DEFINE target == {o \in live[a] : prior # Null /\ o.id = prior.id}
             fresh == [id |-> IF prior = Null THEN calls + 1 ELSE prior.id,
                       ver |-> calls + 1]
             kept == live[a] \ target
             written == kept \cup {fresh}
             values == IF prior = Null \/ target # {} THEN {fresh, Nothing} ELSE {}
  <1>0. /\ live[a] \subseteq Objects /\ calls \in Nat /\ Null # Nothing
        /\ Null \notin Objects /\ Nothing \notin Objects
    BY ApplyAssumption DEF WorldTypes
  <1>1. fresh \in Objects /\ fresh.ver = calls + 1
    BY <1>0 DEF Objects
  <1>2. kept \in SUBSET (live[a] \ {prior}) /\ (prior = Null => kept = live[a])
    BY <1>0
  <1>3. \/ \E v \in {Nothing} \cup target :
              answer = [objs |-> live[a], reply |-> v, errors |-> "yes"]
        \/ \E v \in values, e \in {"no", "yes"} :
              answer = [objs |-> written, reply |-> v, errors |-> e]
    BY DEF WriteReplies
  <1>4. values \subseteq {fresh, Nothing} /\ written = kept \cup {fresh}
    OBVIOUS
  <1> HIDE DEF target, fresh, kept, written, values
  <1>5. CASE \E v \in {Nothing} \cup target :
              answer = [objs |-> live[a], reply |-> v, errors |-> "yes"]
    BY <1>5 DEF Writes
  <1>6. CASE \E v \in values, e \in {"no", "yes"} :
              answer = [objs |-> written, reply |-> v, errors |-> e]
    <2>1. PICK v \in values, e \in {"no", "yes"} :
              answer = [objs |-> written, reply |-> v, errors |-> e]
      BY <1>6
    <2>2. answer.objs = kept \cup {fresh} /\ answer.reply \in {fresh, Nothing}
      BY <1>4, <2>1
    <2>3. answer.errors = "no" /\ ~Unrecordable(answer, prior) => answer.reply = fresh
      BY <2>2 DEF Unrecordable
    <2>4. \A o \in answer.objs : o \in live[a] \/ o.ver = calls + 1
      BY <1>1, <1>2, <2>2
    <2> QED
      BY <1>1, <1>2, <2>2, <2>3, <2>4 DEF Writes
  <1> QED
    BY <1>3, <1>5, <1>6

\* A step that neither calls a provider nor concludes a change.
LEMMA SteadyObjects ==
    ASSUME NEW p \in Procs, MarkedRun(run[p]), AtProvider(run[p]),
           UNCHANGED <<live, touched, stray>>,
           \A doc \in survivors' : doc \in survivors \/ doc.body.res = run[p].res,
           SameInputs(run'[p], run[p]), run'[p].res = run[p].res,
           run'[p].todo = run[p].todo, run'[p].outcome = run[p].outcome,
           Underway(run'[p]) <=> Underway(run[p]),
           run'[p].pc = "create" \/ run'[p].next = "create"
              => run[p].pc = "create" \/ run[p].next = "create",
           run'[p].next = "completed" => run[p].next = "completed"
    PROVE  AtProvider(run[p])'
  <1> DEFINE r == run[p]
             c == run'[p]
  <1>1. /\ Planned(c) = Planned(r) /\ \A a : Change(c, a) = Change(r, a)
        /\ Completed(c) = Completed(r)
    BY SameInputsSameWork DEF Completed
  <1>2. \A a : Attempted(c, a) <=> Attempted(r, a)
    BY DEF Attempted
  <1>3. \A a : Produced(a)' = Produced(a)
    BY DEF Produced
  <1> QED
    BY <1>1, <1>2, <1>3 DEF AtProvider, Produced

\* The head of the list is over.
LEMMA ConcludedObjects ==
    ASSUME Typed, NEW p \in Procs, Work(run[p]), MarkedRun(run[p]), AtProvider(run[p]),
           run[p].todo # <<>>, run[p].pc \notin {"idle", "started"},
           UNCHANGED <<live, touched, stray>>, survivors' \subseteq survivors,
           SameInputs(run'[p], run[p]), run'[p] \in Runs,
           run'[p].pc = "exec", run'[p].next = "none",
           run'[p].todo = Rest(run[p].todo),
           NEW verdict \in {"completed", "failed", "blocked"},
           run'[p].outcome = Updated(run[p].outcome, Head(run[p].todo), verdict),
           \A b \in Addrs : b # Head(run[p].todo) => run'[p].res[b] = run[p].res[b],
           verdict = "completed" =>
              /\ run'[p].res = run[p].res
              /\ Produced(Head(run[p].todo)) = {run[p].res[Head(run[p].todo)]} \ {Null}
              /\ \A doc \in survivors' : doc.body.res[Head(run[p].todo)]
                                            = run[p].res[Head(run[p].todo)]
    PROVE  AtProvider(run[p])'
  <1> DEFINE r == run[p]
             c == run'[p]
             h == Head(r.todo)
  <1>0. r \in Runs /\ r.cmd = "apply"
    BY TypedRun DEF MarkedRun
  <1>1. /\ Completed(c) = IF verdict = "completed" THEN Completed(r) \cup {h} ELSE Completed(r)
        /\ Planned(c) = Planned(r) /\ h \in Planned(r) /\ r.outcome[h] = "none" /\ h \in Addrs
    BY <1>0, ConcludedMarker
  <1>2. \A a : Change(c, a) = Change(r, a)
    BY SameInputsSameWork
  <1>3. ~Underway(c) /\ c.pc # "create" /\ c.next # "create"
    BY DEF Underway
  <1>4. r.outcome \in [Addrs -> {"none", "completed", "failed", "blocked"}]
    BY <1>0 DEF Runs
  <1>5. Planned(r) \subseteq Addrs
    BY DEF Planned
  <1>6. /\ c.outcome[h] # "none"
        /\ \A a \in Addrs : a # h => c.outcome[a] = r.outcome[a]
    BY <1>1, <1>4 DEF Updated
  <1>7. ASSUME NEW a \in Planned(r), ~Attempted(c, a)
        PROVE  /\ c.res[a] = r.res[a]
               /\ stray[a] = IF Change(r, a) = "create" THEN live[a] ELSE live[a] \ {r.res[a]}
    <2>1. a # h /\ r.outcome[a] = "none"
      BY <1>5, <1>6, <1>7 DEF Attempted
    <2>2. ~Attempted(r, a)
      BY <2>1 DEF Attempted
    <2> QED
      BY <1>5, <2>1, <2>2 DEF AtProvider
  <1>8. ASSUME NEW a \in Completed(c)
        PROVE  /\ Produced(a) = {c.res[a]} \ {Null}
               /\ \A doc \in survivors' : doc.body.res[a] = c.res[a]
    <2>1. CASE a \in Completed(r)
      <3>1. a # h /\ a \in Addrs
        BY <1>1, <2>1 DEF Completed
      <3>2. c.res[a] = r.res[a]
        BY <3>1
      <3> QED
        BY <2>1, <3>2 DEF AtProvider
    <2>2. CASE a = h /\ verdict = "completed"
      BY <2>2
    <2> QED
      BY <1>1, <1>8, <2>1, <2>2
  <1>9. touched' \subseteq Planned(c)
    BY <1>1 DEF AtProvider
  <1>10. live' = live /\ stray' = stray
    OBVIOUS
  <1>11. \A a \in Planned(c) : ~Attempted(c, a) =>
            stray'[a] = IF Change(c, a) = "create" THEN live'[a] ELSE live'[a] \ {c.res[a]}
    BY <1>1, <1>2, <1>7, <1>10, ZenonT(30)
  <1>12. \A a \in Completed(c) :
            /\ live'[a] \ stray'[a] = {c.res[a]} \ {Null}
            /\ \A doc \in survivors' : doc.body.res[a] = c.res[a]
    BY <1>8, <1>10 DEF Produced
  <1> HIDE DEF h
  <1> QED
    BY <1>3, <1>9, <1>11, <1>12 DEF AtProvider, Produced

\* A call for the head of the list.
LEMMA CalledObjects ==
    ASSUME Typed, NEW p \in Procs, Work(run[p]), MarkedRun(run[p]), AtProvider(run[p]),
           NEW a \in Addrs, Calling(run[p], a), NEW answer, Mutates(a, answer),
           UNCHANGED survivors, SameInputs(run'[p], run[p]), run'[p] \in Runs,
           \/ AfterConclude(run'[p], run[p], a, "failed")
           \/ \E entry, next, undo :
                 /\ next \in {"create", "completed", "failed"}
                 /\ AfterRecord(run'[p], run[p], a, entry, next, undo)
                 /\ next = "create" => Produced(a)' = {}
                 /\ next = "completed" => Produced(a)' = {entry} \ {Null}
    PROVE  AtProvider(run[p])'
  <1> DEFINE r == run[p]
             c == run'[p]
  <1>0. /\ r \in Runs /\ r.cmd = "apply" /\ r.todo # <<>> /\ a = Head(r.todo)
        /\ r.pc \in {"exec", "create"} /\ r.todo \in Seq(Addrs)
        /\ live \in [Addrs -> SUBSET Objects]
    BY TypedRun, HeadOfList DEF Calling, Typed, TypeOK
  <1>1. a \in Planned(r) /\ r.outcome[a] = "none"
    BY <1>0, HeadPlanned DEF Work
  <1>2. /\ Planned(c) = Planned(r) /\ \A b : Change(c, b) = Change(r, b)
    BY SameInputsSameWork
  <1>3. /\ \A b \in Addrs : b # a => live'[b] = live[b]
        /\ stray' = stray /\ touched' \subseteq touched \cup {a}
    BY <1>0 DEF Mutates
  <1>4. touched' \subseteq Planned(c)
    BY <1>1, <1>2, <1>3 DEF AtProvider
  <1>5. r.res \in Resources /\ r.outcome \in [Addrs -> {"none", "completed", "failed", "blocked"}]
    BY <1>0 DEF Runs
  <1>6. /\ \A b \in Addrs : b # a => c.res[b] = r.res[b]
        /\ \A b \in Addrs : b # a => c.outcome[b] = r.outcome[b]
    BY <1>0, <1>5 DEF AfterConclude, AfterRecord, SameProgress, Updated, Resources
  <1>7. Attempted(c, a) /\ a \notin Completed(c)
    <2>1. CASE AfterConclude(c, r, a, "failed")
      <3>1. c.outcome[a] = "failed"
        BY <1>5, <2>1 DEF AfterConclude, Updated
      <3> QED
        BY <3>1 DEF Attempted, Completed
    <2>2. CASE \E entry, next, undo : /\ next \in {"create", "completed", "failed"}
                                      /\ AfterRecord(c, r, a, entry, next, undo)
      <3>1. c.next # "none" /\ Head(c.todo) = a /\ c.outcome[a] = "none"
        BY <1>0, <1>1, <2>2 DEF AfterRecord, SameProgress
      <3> QED
        BY <3>1 DEF Attempted, Underway, Completed
    <2> QED
      BY <2>1, <2>2
  <1>8. Planned(r) \subseteq Addrs
    BY DEF Planned
  <1>9. ASSUME NEW b \in Planned(c), ~Attempted(c, b)
        PROVE  stray'[b] = IF Change(c, b) = "create" THEN live'[b] ELSE live'[b] \ {c.res[b]}
    <2>1. b # a /\ b \in Planned(r) /\ b \in Addrs
      BY <1>2, <1>7, <1>8, <1>9
    <2>2. ~Attempted(r, b)
      BY <1>0, <1>6, <1>9, <2>1 DEF Attempted
    <2> QED
      BY <1>2, <1>3, <1>6, <2>1, <2>2 DEF AtProvider
  <1>10. ASSUME NEW b \in Completed(c)
         PROVE  /\ live'[b] \ stray'[b] = {c.res[b]} \ {Null}
                /\ \A doc \in survivors' : doc.body.res[b] = c.res[b]
    <2>1. b # a /\ b \in Addrs /\ b \in Completed(r)
      BY <1>6, <1>7, <1>10 DEF Completed
    <2> QED
      BY <1>3, <1>6, <2>1 DEF AtProvider, Produced
  <1>11. /\ c.pc = "create" \/ c.next = "create" =>
              live'[Head(c.todo)] \ stray'[Head(c.todo)] = {}
         /\ c.next = "completed" =>
              live'[Head(c.todo)] \ stray'[Head(c.todo)] = {c.res[Head(c.todo)]} \ {Null}
    <2>1. CASE AfterConclude(c, r, a, "failed")
      BY <2>1 DEF AfterConclude
    <2>2. CASE \E entry, next, undo :
                 /\ next \in {"create", "completed", "failed"}
                 /\ AfterRecord(run'[p], run[p], a, entry, next, undo)
                 /\ next = "create" => Produced(a)' = {}
                 /\ next = "completed" => Produced(a)' = {entry} \ {Null}
      <3>1. PICK entry, next, undo :
                 /\ AfterRecord(c, r, a, entry, next, undo)
                 /\ next = "create" => Produced(a)' = {}
                 /\ next = "completed" => Produced(a)' = {entry} \ {Null}
        BY <2>2
      <3>2. /\ c.next = next /\ c.pc = "save" /\ c.todo = r.todo
            /\ c.res = Updated(r.res, a, entry)
        BY <3>1 DEF AfterRecord, SameProgress
      <3>3. c.res[a] = entry /\ Head(c.todo) = a
        BY <1>0, <1>5, <3>2 DEF Updated, Resources
      <3> QED
        BY <3>1, <3>2, <3>3 DEF Produced
    <2> QED
      BY <2>1, <2>2
  <1> QED
    BY <1>4, <1>9, <1>10, <1>11 DEF AtProvider, Produced

\* A call makes objects of its own age.
LEMMA AgedByCall ==
    ASSUME WorldTypes, Aged, NEW a \in Addrs, NEW answer, Mutates(a, answer),
           answer.objs \subseteq Objects,
           \A o \in answer.objs : o \in live[a] \/ o.ver = calls + 1
    PROVE  Aged'
  <1>1. /\ calls \in Nat /\ live \in [Addrs -> SUBSET Objects]
        /\ stray \in [Addrs -> SUBSET Objects]
    BY DEF WorldTypes
  <1>2. \A o \in Objects : o.ver \in Nat
    BY DEF Objects
  <1>3. calls' = calls + 1 /\ stray' = stray
    BY DEF Mutates
  <1>4. ASSUME NEW b \in Addrs, NEW o \in live'[b] \cup stray'[b] PROVE o.ver <= calls'
    <2>1. CASE o \in live[b] \cup stray[b]
      <3>1. o.ver <= calls /\ o \in Objects
        BY <1>1, <2>1 DEF Aged
      <3> QED
        BY <1>1, <1>2, <1>3, <3>1
    <2>2. CASE b = a /\ o \in answer.objs
      BY <1>1, <1>2, <1>3, <2>1, <2>2
    <2> QED
      BY <1>1, <1>3, <1>4, <2>1, <2>2 DEF Mutates
  <1> QED
    BY <1>4 DEF Aged

\* A run that calls a provider has a visible marker and a pending change.
LEMMA CallerMarked ==
    ASSUME NEW r \in Runs, Work(r), NEW a, Calling(r, a)
    PROVE  MarkedRun(r) /\ a \in Planned(r) /\ r.outcome[a] = "none" /\ a \in Addrs
  <1>1. Listed(r) /\ r.todo # <<>> /\ a = Head(r.todo)
    BY DEF Calling, Work
  <1>2. a \in Planned(r) /\ r.outcome[a] = "none" /\ a \in Addrs
    BY <1>1, HeadPlanned
  <1> QED
    BY <1>2 DEF MarkedRun, Calling

\* A destroy call keeps what is said of the objects, ...
LEMMA DestroyObjects ==
    ASSUME Typed, Aged, NEW p \in Procs, Work(run[p]),
           MarkedRun(run[p]) => AtProvider(run[p]), DestroyCall(p), LockedStep(p)
    PROVE  AtProvider(run[p])' /\ Aged'
  <1> DEFINE r == run[p]
             c == run'[p]
  <1>0. r \in Runs /\ Phases(r) /\ c \in Runs /\ WorldTypes /\ SameInputs(c, r)
    BY TypedRun, TypesTogether, LockedStepEffect, LockedStepInputs DEF Typed, Alone
  <1>1. PICK a \in Addrs : \E answer \in DestroyReplies(a, r.res[a]) :
             /\ Calling(r, a) /\ r.pc = "exec"
             /\ Change(r, a) \in {"delete", "replace"}
             /\ Mutates(a, answer)
             /\ \/ /\ answer.reply = Null /\ answer.errors = "no"
                   /\ AfterRecord(c, r, a, Null,
                                  IF Change(r, a) = "replace" THEN "create"
                                  ELSE "completed", Nothing)
                \/ /\ answer.errors = "yes" /\ answer.reply # Nothing
                   /\ AfterRecord(c, r, a, answer.reply, "failed", r.res[a])
                \/ AfterConclude(c, r, a, "failed")
    BY DestroyCallEffect
  <1>2. PICK answer \in DestroyReplies(a, r.res[a]) :
             /\ Calling(r, a) /\ r.pc = "exec"
             /\ Change(r, a) \in {"delete", "replace"}
             /\ Mutates(a, answer)
             /\ \/ /\ answer.reply = Null /\ answer.errors = "no"
                   /\ AfterRecord(c, r, a, Null,
                                  IF Change(r, a) = "replace" THEN "create"
                                  ELSE "completed", Nothing)
                \/ /\ answer.errors = "yes" /\ answer.reply # Nothing
                   /\ AfterRecord(c, r, a, answer.reply, "failed", r.res[a])
                \/ AfterConclude(c, r, a, "failed")
    BY <1>1
  <1>3. MarkedRun(r) /\ a \in Planned(r) /\ r.outcome[a] = "none"
    BY <1>0, <1>2, CallerMarked
  <1>4. r.res[a] \in Objects \cup {Null}
    BY <1>0 DEF Runs, Resources
  <1>5. /\ answer.reply = Null /\ answer.errors = "no" => answer.objs \subseteq live[a] \ {r.res[a]}
        /\ \A o \in answer.objs : o \in live[a] \/ o.ver = calls + 1
        /\ answer.objs \in SUBSET Objects
    BY <1>0, <1>4, DestroyedObjects, DestroyAnswers
  <1>6. Aged'
    BY <1>0, <1>2, <1>5, AgedByCall
  <1>7. stray[a] = live[a] \ {r.res[a]}
    <2>1. ~Attempted(r, a)
      BY <1>0, <1>2, <1>3 DEF Attempted, Underway, Phases
    <2> QED
      BY <1>2, <1>3, <2>1 DEF AtProvider
  <1>8. ASSUME answer.reply = Null, answer.errors = "no" PROVE Produced(a)' = {}
    <2>1. live'[a] = answer.objs /\ stray' = stray
      BY <1>0, <1>2 DEF Mutates, WorldTypes
    <2> QED
      BY <1>5, <1>7, <1>8, <2>1 DEF Produced
  <1>9. UNCHANGED survivors
    BY <1>2 DEF Mutates, regVars
  <1>10. CASE /\ answer.reply = Null /\ answer.errors = "no"
              /\ AfterRecord(c, r, a, Null,
                             IF Change(r, a) = "replace" THEN "create"
                             ELSE "completed", Nothing)
    <2> DEFINE next == IF Change(r, a) = "replace" THEN "create" ELSE "completed"
    <2>1. next \in {"create", "completed", "failed"} /\ AfterRecord(c, r, a, Null, next, Nothing)
      BY <1>10
    <2>2. Produced(a)' = {} /\ Produced(a)' = {Null} \ {Null}
      BY <1>8, <1>10
    <2> HIDE DEF next
    <2> QED
      BY <1>0, <1>2, <1>3, <1>6, <1>9, <2>1, <2>2, CalledObjects
  <1>11. CASE AfterRecord(c, r, a, answer.reply, "failed", r.res[a])
    <2> DEFINE next == "failed"
    <2>1. /\ next \in {"create", "completed", "failed"} /\ next # "create" /\ next # "completed"
          /\ AfterRecord(c, r, a, answer.reply, next, r.res[a])
      BY <1>11
    <2> HIDE DEF next
    <2> QED
      BY <1>0, <1>2, <1>3, <1>6, <1>9, <2>1, CalledObjects
  <1>12. CASE AfterConclude(c, r, a, "failed")
    BY <1>0, <1>2, <1>3, <1>6, <1>9, <1>12, CalledObjects
  <1> QED
    BY <1>2, <1>10, <1>11, <1>12

\* ... a create or an update does, ...
LEMMA WriteObjects ==
    ASSUME Typed, Aged, NEW p \in Procs, Work(run[p]),
           MarkedRun(run[p]) => AtProvider(run[p]), WriteCall(p), LockedStep(p)
    PROVE  AtProvider(run[p])' /\ Aged'
  <1> DEFINE r == run[p]
             c == run'[p]
  <1>0. r \in Runs /\ Phases(r) /\ c \in Runs /\ WorldTypes /\ SameInputs(c, r)
    BY TypedRun, TypesTogether, LockedStepEffect, LockedStepInputs DEF Typed, Alone
  <1>1. PICK a \in Addrs, prior \in Objects \cup {Null} :
           \E answer \in WriteReplies(a, prior) :
             /\ Calling(r, a)
             /\ prior = IF Change(r, a) = "update" THEN r.res[a] ELSE Null
             /\ r.pc = "exec" => Change(r, a) \in {"create", "update"}
             /\ Mutates(a, answer)
             /\ \/ /\ ~Unrecordable(answer, prior)
                   /\ AfterRecord(c, r, a, answer.reply,
                                  IF answer.errors = "no" THEN "completed" ELSE "failed",
                                  Nothing)
                \/ AfterConclude(c, r, a, "failed")
    BY WriteCallEffect
  <1>2. PICK answer \in WriteReplies(a, prior) :
             /\ Calling(r, a)
             /\ prior = IF Change(r, a) = "update" THEN r.res[a] ELSE Null
             /\ r.pc = "exec" => Change(r, a) \in {"create", "update"}
             /\ Mutates(a, answer)
             /\ \/ /\ ~Unrecordable(answer, prior)
                   /\ AfterRecord(c, r, a, answer.reply,
                                  IF answer.errors = "no" THEN "completed" ELSE "failed",
                                  Nothing)
                \/ AfterConclude(c, r, a, "failed")
    BY <1>1
  <1>3. MarkedRun(r) /\ a \in Planned(r) /\ r.outcome[a] = "none"
    BY <1>0, <1>2, CallerMarked
  <1>5. /\ Writes(a, prior, answer)
        /\ \A o \in answer.objs : o \in live[a] \/ o.ver = calls + 1
    BY <1>0, WrittenObjects
  <1>4. answer.objs \in SUBSET Objects
    BY <1>0, WriteAnswers
  <1>6. Aged'
    BY <1>0, <1>2, <1>4, <1>5, AgedByCall
  <1>7. ASSUME NEW kept \in SUBSET (live[a] \ {prior}), prior = Null => kept = live[a]
        PROVE  kept \subseteq stray[a]
    <2>1. CASE r.pc = "exec"
      <3>1. ~Attempted(r, a)
        BY <1>0, <1>3, <2>1 DEF Attempted, Underway, Phases
      <3>2. stray[a] = IF Change(r, a) = "create" THEN live[a] ELSE live[a] \ {r.res[a]}
        BY <1>3, <3>1 DEF AtProvider
      <3> QED
        BY <1>2, <1>7, <2>1, <3>2
    <2>2. CASE r.pc = "create"
      <3>1. Change(r, a) = "replace" /\ Produced(a) = {}
        BY <1>2, <1>3, <2>2 DEF Work, Reached, Calling, AtProvider
      <3> QED
        BY <1>2, <1>7, <3>1 DEF Produced
    <2> QED
      BY <1>2, <2>1, <2>2 DEF Calling
  <1>8. ASSUME answer.errors = "no", ~Unrecordable(answer, prior)
        PROVE  Produced(a)' = {answer.reply} \ {Null}
    <2>1. live'[a] = answer.objs /\ stray' = stray
      BY <1>0, <1>2 DEF Mutates, WorldTypes
    <2>2. PICK kept \in SUBSET (live[a] \ {prior}) :
             (prior = Null => kept = live[a]) /\ answer.objs = kept \cup {answer.reply}
      BY <1>5, <1>8 DEF Writes
    <2>3. kept \subseteq stray[a]
      BY <1>7, <2>2
    <2>4. answer.reply \in Objects /\ answer.reply.ver = calls + 1 /\ calls \in Nat
      BY <1>0, <1>5, <1>8 DEF WorldTypes, Writes
    <2>5. answer.reply \notin stray[a]
      BY <1>0, <1>2, <2>4, CallerMarked DEF Aged
    <2>6. answer.reply # Null
      BY <2>4, ApplyAssumption
    <2> QED
      BY <2>1, <2>2, <2>3, <2>5, <2>6 DEF Produced
  <1>9. UNCHANGED survivors
    BY <1>2 DEF Mutates, regVars
  <1>10. CASE /\ ~Unrecordable(answer, prior)
              /\ AfterRecord(c, r, a, answer.reply,
                             IF answer.errors = "no" THEN "completed" ELSE "failed", Nothing)
    <2> DEFINE next == IF answer.errors = "no" THEN "completed" ELSE "failed"
    <2>1. /\ next \in {"create", "completed", "failed"} /\ next # "create"
          /\ AfterRecord(c, r, a, answer.reply, next, Nothing)
      BY <1>10
    <2>2. next = "completed" => Produced(a)' = {answer.reply} \ {Null}
      BY <1>8, <1>10
    <2> HIDE DEF next
    <2> QED
      BY <1>0, <1>2, <1>3, <1>6, <1>9, <2>1, <2>2, CalledObjects
  <1>11. CASE AfterConclude(c, r, a, "failed")
    BY <1>0, <1>2, <1>3, <1>6, <1>9, <1>11, CalledObjects
  <1> QED
    BY <1>2, <1>10, <1>11

\* ... and so does every step of the run.
LEMMA ObjectsMoves ==
    ASSUME Typed, Aged, NEW p \in Procs, Work(run[p]), run[p].cmd = "apply",
           current \in survivors, Disk(run[p]),
           MarkedRun(run[p]) => AtProvider(run[p]), LockedStep(p)
    PROVE  Aged' /\ (MarkedRun(run'[p]) => AtProvider(run[p])')
  <1> DEFINE r == run[p]
             c == run'[p]
  <1>0. r \in Runs /\ Phases(r) /\ c \in Runs /\ WorldTypes /\ SameInputs(c, r)
    BY TypedRun, TypesTogether, LockedStepEffect, LockedStepInputs DEF Typed, Alone
  <1>00. Planned(c) = Planned(r) /\ Deletes(c) = Deletes(r) /\ \A a : Change(c, a) = Change(r, a)
    BY <1>0, SameInputsSameWork
  <1>1. Moves(p, c, r)
    BY ApplyMoves
  <1>2. ASSUME UNCHANGED <<live, calls, stray>> PROVE Aged'
    BY <1>2 DEF Aged
  <1>3. CASE Still /\ LocksIdle(c, r)
    <2>1. Planned(r) = {}
      <3>1. Listed(r) /\ Unworked(r) /\ r.todo = <<>>
        BY <1>3 DEF Work, Early, LocksIdle
      <3> QED
        BY <3>1 DEF Listed, Unworked, Planned, ToSet
    <2> QED
      BY <1>00, <1>2, <1>3, <2>1 DEF MarkedRun, Still
  <1>4. CASE Still /\ LocksMarking(c, r)
    <2>1. c.saving = "mark" /\ c.pc = "save"
      BY <1>4 DEF LocksMarking, AfterMove
    <2> QED
      BY <1>2, <1>4, <2>1 DEF MarkedRun, Still
  <1>5. CASE Still /\ GivesUpHead(c, r)
    <2>1. PICK verdict \in {"failed", "blocked"} :
             r.pc = "exec" /\ r.todo # <<>> /\ AfterConclude(c, r, Head(r.todo), verdict)
      BY <1>5 DEF GivesUpHead
    <2>2. /\ c.pc = "exec" /\ c.next = "none" /\ c.todo = Rest(r.todo) /\ c.res = r.res
          /\ c.outcome = Updated(r.outcome, Head(r.todo), verdict)
      BY <2>1 DEF AfterConclude
    <2>3. MarkedRun(c) => MarkedRun(r)
      BY <1>00, <2>1 DEF MarkedRun
    <2>4. UNCHANGED <<live, touched, stray>> /\ survivors' \subseteq survivors
      BY <1>5 DEF Still
    <2>5. MarkedRun(c) => AtProvider(run[p])'
      BY <1>0, <2>1, <2>2, <2>3, <2>4, ConcludedObjects
    <2> QED
      BY <1>2, <1>5, <2>5 DEF Still
  <1>6. CASE Still /\ WrapsUp(c, r)
    <2>1. /\ r.pc = "exec" /\ c.pc = "save" /\ c.next = "none" /\ r.next = "none"
          /\ c.todo = r.todo /\ c.res = r.res /\ c.outcome = r.outcome
      BY <1>0, <1>6 DEF WrapsUp, AfterMove, Phases
    <2>2. MarkedRun(c) => MarkedRun(r)
      BY <1>00, <2>1 DEF MarkedRun
    <2>3. UNCHANGED <<live, touched, stray, survivors>>
      BY <1>6 DEF Still
    <2>4. MarkedRun(c) => AtProvider(run[p])'
      BY <1>0, <2>1, <2>2, <2>3, SteadyObjects DEF Underway
    <2> QED
      BY <1>2, <1>6, <2>4 DEF Still
  <1>7. CASE Still /\ WrapsUpEmpty(c, r)
    BY <1>00, <1>2, <1>7 DEF WrapsUpEmpty, MarkedRun, Still
  <1>8. CASE /\ Commits(c, r) /\ Recounted(r) /\ UNCHANGED <<live, calls>>
             /\ current'.body = [res |-> r.res, marker |-> r.marker]
             /\ survivors' = survivors \cup {current'}
    <2>1. /\ r.pc = "save" /\ c.pc = "sync" /\ c.saving = r.saving /\ c.next = r.next
          /\ c.res = r.res /\ c.outcome = r.outcome /\ c.todo = r.todo /\ c.cmd = "apply"
      BY <1>0, <1>8 DEF Commits, AfterMove, Steady, SameInputs
    <2>2. CASE r.saving = "mark"
      <3>1. /\ touched' = {}
            /\ stray' = [a \in Addrs |-> IF Change(r, a) = "create" THEN live[a]
                                         ELSE live[a] \ {r.res[a]}]
        BY <1>8, <2>2 DEF Recounted
      <3>2. c.next = "none" /\ Unworked(r)
        BY <1>0, <2>1, <2>2 DEF Phases, Work, Early
      <3>3. Completed(c) = {}
        BY <1>0, <2>1, <3>2 DEF Completed, Unworked
      <3>4. Planned(c) \subseteq Addrs
        BY DEF Planned
      <3>5. \A a \in Planned(c) :
               stray'[a] = IF Change(c, a) = "create" THEN live'[a] ELSE live'[a] \ {c.res[a]}
        BY <1>8, <1>00, <2>1, <3>1, <3>4
      <3>6. AtProvider(run[p])'
        BY <2>1, <3>1, <3>2, <3>3, <3>5 DEF AtProvider
      <3>7. Aged'
        BY <1>8, <3>1 DEF Aged
      <3> QED
        BY <3>6, <3>7
    <2>3. CASE r.saving # "mark"
      <3>1. stray' = stray
        BY <1>8, <2>3 DEF Recounted
      <3>2. Aged'
        BY <1>2, <1>8, <3>1
      <3>3. ASSUME MarkedRun(c) PROVE AtProvider(run[p])'
        <4>1. MarkedRun(r)
          BY <1>00, <2>1, <2>3, <3>3 DEF MarkedRun
        <4>2. touched' = touched
          BY <1>8, <2>3, <4>1 DEF Recounted, MarkedRun
        <4>3. \A doc \in survivors' : doc \in survivors \/ doc.body.res = r.res
          BY <1>8
        <4> QED
          BY <1>0, <1>8, <2>1, <3>1, <4>1, <4>2, <4>3, SteadyObjects DEF Underway
      <3> QED
        BY <3>2, <3>3
    <2> QED
      BY <2>2, <2>3
  <1>9. ASSUME NEW saved \in BOOLEAN, Returns(c, r, saved),
               UNCHANGED <<current, live, calls, touched, stray>>,
               survivors' = IF saved THEN {current} ELSE survivors
        PROVE  Aged' /\ (MarkedRun(c) => AtProvider(run[p])')
    <2>0. /\ r.pc \in {"save", "sync"} /\ (saved => r.pc = "sync")
          /\ survivors' \subseteq survivors
      BY <1>9 DEF Returns
    <2>a. Aged'
      BY <1>2, <1>9
    <2>1. ASSUME c.res = r.res, c.todo = r.todo, c.outcome = r.outcome, MarkedRun(r),
                 Underway(c) <=> Underway(r),
                 c.pc = "create" \/ c.next = "create" => r.pc = "create" \/ r.next = "create",
                 c.next = "completed" => r.next = "completed"
          PROVE  AtProvider(run[p])'
      BY <1>0, <1>9, <2>0, <2>1, SteadyObjects
    <2>2. CASE r.saving = "mark" /\ saved /\ AfterMove(c, r, "exec", "none", "none") /\ Steady(c, r)
      <3>1. /\ c.res = r.res /\ c.todo = r.todo /\ c.outcome = r.outcome
            /\ r.next = "none" /\ c.next = "none" /\ c.pc = "exec" /\ r.pc = "sync"
        BY <1>0, <2>0, <2>2 DEF AfterMove, Steady, Phases
      <3>2. MarkedRun(c) => MarkedRun(r)
        BY <1>00, <2>2, <3>1 DEF MarkedRun
      <3> QED
        BY <2>1, <2>a, <3>1, <3>2 DEF Underway
    <2>3. CASE r.saving = "mark" /\ ~saved /\ Finished(c, r, "failed")
      <3>1. c.saving = "mark" /\ c.pc = "end"
        BY <2>3 DEF Finished, AfterMove
      <3> QED
        BY <2>a, <3>1 DEF MarkedRun
    <2>4. CASE r.saving = "final" /\ (\E e : Finished(c, r, e))
      <3>1. /\ c.res = r.res /\ c.todo = r.todo /\ c.outcome = r.outcome
            /\ r.next = "none" /\ c.next = "none" /\ c.pc = "end"
            /\ r.pc # "create"
        BY <1>0, <2>0, <2>4 DEF Finished, AfterMove, Phases
      <3>2. MarkedRun(c) => MarkedRun(r)
        BY <1>00, <2>4 DEF MarkedRun
      <3> QED
        BY <2>1, <2>a, <3>1, <3>2 DEF Underway
    <2>5. ASSUME r.saving = "leg", MarkedRun(c)
          PROVE  /\ MarkedRun(r) /\ r.todo # <<>>
                 /\ Underway(r)
      BY <1>0, <1>00, <2>0, <2>5 DEF MarkedRun, Phases, Underway
    <2>6. CASE /\ r.saving = "leg" /\ saved /\ r.next = "create"
               /\ AfterMove(c, r, "create", "none", "none") /\ Steady(c, r)
      <3>1. /\ c.res = r.res /\ c.todo = r.todo /\ c.outcome = r.outcome
            /\ c.next = "none" /\ c.pc = "create"
        BY <2>6 DEF AfterMove, Steady
      <3> QED
        BY <2>1, <2>a, <2>5, <2>6, <3>1 DEF Underway
    <2>7. CASE /\ r.saving = "leg" /\ saved /\ r.next \in {"completed", "failed"}
               /\ AfterConclude(c, r, Head(r.todo), r.next)
      <3>1. ASSUME MarkedRun(c) PROVE AtProvider(run[p])'
        <4> DEFINE verdict == r.next
        <4>1. MarkedRun(r) /\ r.todo # <<>> /\ AtProvider(r)
          BY <2>5, <2>7, <3>1
        <4>2. /\ c.pc = "exec" /\ c.next = "none" /\ c.todo = Rest(r.todo) /\ c.res = r.res
              /\ c.outcome = Updated(r.outcome, Head(r.todo), verdict)
          BY <2>7 DEF AfterConclude
        <4>3. verdict \in {"completed", "failed", "blocked"} /\ r.pc \notin {"idle", "started"}
          BY <2>0, <2>7
        <4>4. current.body = [res |-> r.res, marker |-> r.marker] /\ current.body.res = r.res
          BY <2>0, <2>7 DEF Disk
        <4>5. \A doc \in survivors' : doc.body.res[Head(r.todo)] = r.res[Head(r.todo)]
          BY <1>9, <2>7, <4>4
        <4>6. verdict = "completed" => Produced(Head(r.todo)) = {r.res[Head(r.todo)]} \ {Null}
          BY <4>1 DEF AtProvider
        <4>7. UNCHANGED <<live, touched, stray>>
          BY <1>9
        <4> HIDE DEF verdict
        <4> QED
          BY <1>0, <2>0, <4>1, <4>2, <4>3, <4>5, <4>6, <4>7, ConcludedObjects
      <3> QED
        BY <2>a, <3>1
    <2>8. CASE r.saving = "leg" /\ ~saved /\ AfterLegUnsaved(c, r)
      <3>1. ASSUME MarkedRun(c) PROVE AtProvider(run[p])'
        <4> DEFINE verdict == "failed"
        <4>1. MarkedRun(r) /\ r.todo # <<>> /\ AtProvider(r)
          BY <2>5, <2>8, <3>1
        <4>2. /\ c.pc = "exec" /\ c.next = "none" /\ c.todo = Rest(r.todo)
              /\ c.outcome = Updated(r.outcome, Head(r.todo), verdict)
              /\ c.res = IF r.undo = Nothing THEN r.res ELSE Updated(r.res, Head(r.todo), r.undo)
          BY <2>8 DEF AfterLegUnsaved
        <4>3. /\ verdict \in {"completed", "failed", "blocked"} /\ verdict # "completed"
              /\ r.pc \notin {"idle", "started"}
          BY <2>0
        <4>4. \A b \in Addrs : b # Head(r.todo) => c.res[b] = r.res[b]
          <5>1. r.res \in Resources
            BY <1>0 DEF Runs
          <5> QED
            BY <4>2, <5>1 DEF Updated, Resources
        <4>7. UNCHANGED <<live, touched, stray>>
          BY <1>9
        <4> HIDE DEF verdict
        <4> QED
          BY <1>0, <2>0, <4>1, <4>2, <4>3, <4>4, <4>7, ConcludedObjects
      <3> QED
        BY <2>a, <3>1
    <2> QED
      BY <1>9, <2>2, <2>3, <2>4, <2>6, <2>7, <2>8 DEF Returns
  <1>10. CASE DestroyCall(p)
    BY <1>10, DestroyObjects
  <1>11. CASE WriteCall(p)
    BY <1>11, WriteObjects
  <1>12. CASE Still /\ Returns(c, r, FALSE)
    BY <1>9, <1>12 DEF Still
  <1>13. CASE /\ Returns(c, r, TRUE) /\ survivors' = {current}
              /\ UNCHANGED <<current, live, calls, touched, stray>>
    BY <1>9, <1>13
  <1> QED
    BY <1>1, <1>3, <1>4, <1>5, <1>6, <1>7, <1>8, <1>10, <1>11, <1>12, <1>13 DEF Moves

----------------------------------------------------------------------------
\* The three together, as an invariant.

\* The one save of an import or a sanitize.
CommitsOnce(p) ==
    LET r == run[p] IN
    /\ r.pc = "save" /\ r.saving = "once" /\ Recounted(r)
    /\ current'.body = [res |-> r.res, marker |-> r.marker]
    /\ survivors' = survivors \cup {current'}

\* The steps under the lock of the other commands make no call.
LEMMA OtherMoves ==
    ASSUME Typed, NEW p \in Procs, LockedStep(p), run[p].cmd # "apply"
    PROVE  /\ UNCHANGED <<live, calls, stray>>
           /\ \/ UNCHANGED <<current, survivors, touched>>
              \/ survivors' = {current} /\ UNCHANGED <<current, touched>>
              \/ CommitsOnce(p)
  <1>0. run[p] \in Runs /\ Phases(run[p]) /\ ~Leave(p) /\ RegisterTypes
    BY TypedRun, NotLeaving, TypesTogether DEF Typed
  <1>1. CASE ApplyLock(p)
    BY <1>1, ApplyLockEffect
  <1>2. CASE LockOnce(p)
    BY <1>0, <1>2, LockOnceEffect DEF world, Reg!Acquire
  <1>3. CASE Skip(p) \/ Preflight(p) \/ Wrapup(p)
    BY <1>3, SkipEffect, PreflightEffect, WrapupEffect
  <1>4. CASE DestroyCall(p) \/ WriteCall(p)
    BY <1>4, CallEffect DEF Calling
  <1>5. CASE SaveCommit(p)
    <2>1. run[p].pc = "save" /\ run[p].saving = "once"
      BY <1>0, <1>5, SaveCommitEffect DEF Phases, Runs
    <2>2. /\ Recounted(run[p]) /\ UNCHANGED <<live, calls>>
          /\ current'.body = [res |-> run[p].res, marker |-> run[p].marker]
          /\ survivors' = survivors \cup {current'}
      BY <1>0, <1>5, SaveCommitEffect, Committing
    <2> QED
      BY <2>1, <2>2 DEF CommitsOnce, Recounted
  <1>6. CASE SaveAcknowledge(p)
    BY <1>6, SaveAcknowledgeEffect DEF Reg!Acknowledge, world
  <1>7. CASE SaveFails(p)
    BY <1>7, SaveFailsEffect DEF world, regVars
  <1>8. CASE ImportAdopt(p) \/ SanitizeSave(p) \/ GiveUpLocked(p)
    BY <1>8, ImportAdoptEffect, SanitizeSaveEffect, GiveUpLockedEffect DEF world, regVars
  <1> QED
    BY <1>1, <1>2, <1>3, <1>4, <1>5, <1>6, <1>7, <1>8 DEF LockedStep

\* What holds of an apply.
Sound(p) ==
    run[p].cmd = "apply" =>
        /\ MarkerOfRun(run[p])
        /\ Disk(run[p])
        /\ MarkedRun(run[p]) => AtProvider(run[p])

\* And of all of them.
OutcomeInv == Aged /\ \A p \in Procs : Sound(p)

\* Outside the lock there is nothing to say.
LEMMA OutsideLock ==
    ASSUME NEW r, Phases(r), ~InLock(r)
    PROVE  MarkerOfRun(r) /\ Disk(r) /\ ~MarkedRun(r)
  BY DEF Phases, InLock, MarkerOfRun, Disk, InFlightOnDisk, MarkedRun

\* A run stays sound by its own steps and, by OthersWait, through all others.
LEMMA StepKeepsSound ==
    ASSUME Typed, Typed', Held, Held', WorkInv, SeenInv, OutcomeInv, [Next]_vars,
           NEW q \in Procs
    PROVE  Sound(q)'
  <1>1. CASE ~InLock(run'[q])
    <2>1. Phases(run'[q])
      BY DEF Typed, PhaseInv
    <2>2. \A r : Phases(r) /\ ~InLock(r) => MarkerOfRun(r) /\ ~MarkedRun(r)
      BY OutsideLock
    <2>3. Disk(run[q])'
      BY <1>1, <2>1 DEF Phases, InLock, Disk, InFlightOnDisk
    <2> QED
      BY <1>1, <2>1, <2>2, <2>3 DEF Sound
  <1>2. CASE LockedStep(q)
    <2>1. run'[q].cmd = run[q].cmd
      BY <1>2, LockedStepInputs DEF SameInputs
    <2>2. CASE run[q].cmd = "apply"
      <3>1. /\ Work(run[q]) /\ Seen(q) /\ MarkerOfRun(run[q]) /\ Disk(run[q])
            /\ MarkedRun(run[q]) => AtProvider(run[q])
            /\ current \in survivors /\ Aged
        BY <2>2 DEF WorkInv, SeenInv, OutcomeInv, Sound
      <3>2. MarkerOfRun(run'[q])
        BY <1>2, <2>2, <3>1, MarkerMoves
      <3>3. Disk(run[q])'
        BY <1>2, <2>2, <3>1, DiskMoves
      <3>4. MarkedRun(run'[q]) => AtProvider(run[q])'
        BY <1>2, <2>2, <3>1, ObjectsMoves
      <3> QED
        BY <3>2, <3>3, <3>4 DEF Sound
    <2> QED
      BY <2>1, <2>2 DEF Sound
  <1>3. CASE run'[q] = run[q] /\ UNCHANGED <<current, survivors, world>>
    <2>1. UNCHANGED <<live, touched, stray>>
      BY <1>3 DEF world
    <2>2. Disk(run[q]) => Disk(run[q])'
      BY <1>3 DEF Disk
    <2>3. AtProvider(run[q]) => AtProvider(run[q])'
      BY <1>3, <2>1 DEF AtProvider, Produced
    <2> QED
      BY <1>3, <2>2, <2>3 DEF OutcomeInv, Sound
  <1> QED
    BY <1>1, <1>2, <1>3, OthersWait

\* Hence every run is sound.
LEMMA OutcomeAlways == Spec => []OutcomeInv
  <1>1. Init => OutcomeInv
    <2> SUFFICES ASSUME Init PROVE OutcomeInv
      OBVIOUS
    <2>1. Phases(Idle) /\ ~InLock(Idle)
      BY IdlePhases DEF InLock, Idle
    <2>2. \A p \in Procs : Sound(p)
      BY <2>1, OutsideLock DEF Init, Sound
    <2>3. Aged
      BY DEF Init, Aged
    <2> QED
      BY <2>2, <2>3 DEF OutcomeInv
  <1>2. ASSUME Typed, WorkInv, SeenInv, OutcomeInv, [Next]_vars PROVE Aged'
    <2>0. Aged /\ current \in survivors
      BY <1>2 DEF OutcomeInv, SeenInv
    <2>1. ASSUME UNCHANGED <<live, calls, stray>> PROVE Aged'
      BY <2>0, <2>1 DEF Aged
    <2>2. ASSUME NEW p \in Procs, FreeStep(p) PROVE Aged'
      BY <1>2, <2>1, <2>2, FreeStepEffect DEF world
    <2>3. ASSUME NEW p \in Procs, LockedStep(p) PROVE Aged'
      <3>1. CASE run[p].cmd = "apply"
        BY <1>2, <2>0, <2>3, <3>1, ObjectsMoves DEF OutcomeInv, Sound, WorkInv
      <3>2. CASE run[p].cmd # "apply"
        BY <1>2, <2>1, <2>3, <3>2, OtherMoves
      <3> QED
        BY <3>1, <3>2
    <2>4. CASE EditConfig \/ PowerLoss \/ UNCHANGED vars
      BY <2>1, <2>4 DEF EditConfig, PowerLoss, world, vars
    <2> QED
      BY <1>2, <2>2, <2>3, <2>4, StepKinds
  <1>3. Typed /\ Typed' /\ Held /\ Held' /\ WorkInv /\ SeenInv /\ OutcomeInv /\ [Next]_vars
           => OutcomeInv'
    BY <1>2, StepKeepsSound DEF OutcomeInv
  <1> QED
    BY <1>1, <1>3, TypedAlways, HeldAlways, WorkAlways, SeenAlways, PTL DEF Spec

----------------------------------------------------------------------------
\* What follows.

\* No provider call changes anything unless every document a power loss may
\* leave lists the address as unfinished, the caller owns the lock and its
\* copy is the state on disk.
THEOREM MutationsComeMarked == Spec => MutationsAreMarked
  <1>1. Typed /\ Held /\ WorkInv /\ SeenInv /\ OutcomeInv /\ [Next]_vars =>
           \A p \in Procs : calls' # calls /\ run'[p] # run[p] =>
             /\ owner = p
             /\ seen[p] = current
             /\ \A doc \in survivors : Head(run[p].todo) \in doc.body.marker.remaining
    <2> SUFFICES ASSUME Typed, Held, WorkInv, SeenInv, OutcomeInv, [Next]_vars,
                        NEW p \in Procs, calls' # calls, run'[p] # run[p]
                 PROVE  /\ owner = p
                        /\ seen[p] = current
                        /\ \A doc \in survivors :
                              Head(run[p].todo) \in doc.body.marker.remaining
      OBVIOUS
    <2>1. /\ Calling(run[p], Head(run[p].todo))
          /\ Head(run[p].todo) \in Planned(run[p])
      BY CallerKnown
    <2>2. run[p].cmd = "apply" /\ run[p].pc \in {"exec", "create"}
      BY <2>1 DEF Calling
    <2>3. InLock(run[p])
      BY <2>2 DEF InLock
    <2>4. \A doc \in survivors : doc.body.marker.remaining = Planned(run[p])
      BY <2>1, <2>2 DEF OutcomeInv, Sound, Disk, InFlightOnDisk
    <2> QED
      BY <2>1, <2>3, <2>4 DEF Held, SeenInv, Seen
  <1> QED
    BY <1>1, TypedAlways, HeldAlways, WorkAlways, SeenAlways, OutcomeAlways, PTL
       DEF Spec, MutationsAreMarked

\* A process that counts something as completed is a marked run.
LEMMA CompletedMarked ==
    ASSUME NEW r \in Runs, Phases(r), Work(r), r.cmd = "apply" => Disk(r),
           NEW a \in Completed(r)
    PROVE  MarkedRun(r) /\ a \in Planned(r)
  <1>1. a \in Addrs /\ r.outcome[a] = "completed"
    BY DEF Completed
  <1>2. ~Early(r)
    BY <1>1 DEF Work, Unworked
  <1>3. a \in Planned(r)
    BY <1>1 DEF Work, Verdicts
  <1>4. r.cmd = "apply" /\ r.pc \notin {"started", "planning", "loaded"} /\ r.saving # "mark"
    BY <1>2 DEF Early
  <1>5. r.pc # "idle" /\ r.pc # "locked" /\ r.saving # "once"
    BY <1>1, <1>4 DEF Phases, Idle
  <1>6. r.pc = "end" /\ r.saving = "none" => FALSE
    BY <1>3, <1>4 DEF Disk
  <1>7. r.pc \in {"exec", "create", "save", "sync", "end"}
        /\ r.saving \in {"none", "mark", "leg", "final", "once"}
    BY <1>4, <1>5 DEF Runs
  <1>8. r.pc \in {"exec", "create"} \/ r.saving \in {"leg", "final"}
    BY <1>4, <1>5, <1>6, <1>7 DEF Phases
  <1> QED
    BY <1>3, <1>4, <1>8 DEF MarkedRun

\* A change the loop counts as completed is on disk for good: no power loss
\* and no later save of the run takes it back.
THEOREM CompletedStays == Spec => []CompletedIsDurable
  <1>1. Typed /\ WorkInv /\ OutcomeInv => CompletedIsDurable
    <2> SUFFICES ASSUME Typed, WorkInv, OutcomeInv, NEW p \in Procs,
                        NEW a \in Completed(run[p]), NEW doc \in survivors
                 PROVE  Produced(a) = Recorded(doc, a)
      BY DEF CompletedIsDurable
    <2>1. MarkedRun(run[p])
      BY TypedRun, CompletedMarked DEF WorkInv, OutcomeInv, Sound
    <2>2. AtProvider(run[p])
      BY <2>1 DEF OutcomeInv, Sound, MarkedRun
    <2> QED
      BY <2>2 DEF AtProvider, Recorded
  <1> QED
    BY <1>1, TypedAlways, WorkAlways, OutcomeAlways, PTL

\* A run at the end of its list has a verdict on every planned change.
LEMMA EndOfList ==
    ASSUME NEW r \in Runs, Work(r), r.cmd = "apply", r.pc \notin {"idle", "started"},
           r.todo = <<>>
    PROVE  /\ Completed(r) \cup Bad(r) = Planned(r) /\ Completed(r) \cap Bad(r) = {}
           /\ r.failed \subseteq Bad(r) /\ (Bad(r) # {} => r.failed # {})
  <1>1. Listed(r) /\ Verdicts(r)
    BY DEF Work
  <1>2. \A a \in Addrs : a \notin ToSet(r.todo)
    BY DEF ToSet
  <1>3. Planned(r) \subseteq Addrs /\ Completed(r) \subseteq Addrs /\ Bad(r) \subseteq Addrs
    BY DEF Planned, Completed, Bad
  <1>4. \A a \in Planned(r) : r.outcome[a] # "none"
    BY <1>1, <1>2, <1>3 DEF Listed
  <1>5. \A a \in Addrs : r.outcome[a] \in {"none", "completed", "failed", "blocked"}
    BY DEF Runs
  <1>6. \A a \in Addrs : r.outcome[a] # "none" <=> a \in Completed(r) \cup Bad(r)
    BY <1>5 DEF Completed, Bad
  <1>7. Completed(r) \cap Bad(r) = {}
    BY DEF Completed, Bad
  <1>8. Completed(r) \cup Bad(r) = Planned(r)
    BY <1>1, <1>3, <1>4, <1>6 DEF Verdicts
  <1> QED
    BY <1>1, <1>7, <1>8 DEF Verdicts

\* The exit code tells the truth: after 0 every planned change is recorded as
\* it is at the provider and the marker is gone; after a recorded failure the
\* marker on disk splits the plan, and what it lists as applied is recorded.
THEOREM ExitsAreTruthful == Spec => []ExitIsTruthful
  <1>1. Typed /\ WorkInv /\ SeenInv /\ OutcomeInv => ExitIsTruthful
    <2> SUFFICES ASSUME Typed, WorkInv, SeenInv, OutcomeInv, NEW p \in Procs
                 PROVE
                   /\ run[p].exit = "ok" =>
                        /\ current.body.marker = NoMarker
                        /\ \A a \in Planned(run[p]) : Produced(a) = Recorded(current, a)
                   /\ run[p].exit = "split" =>
                        /\ current.body.marker.applied \cap current.body.marker.remaining = {}
                        /\ current.body.marker.applied \cup current.body.marker.remaining
                             = Planned(run[p])
                        /\ current.body.marker.failed # {}
                        /\ current.body.marker.failed \subseteq current.body.marker.remaining
                        /\ \A a \in current.body.marker.applied :
                              Produced(a) = Recorded(current, a)
      BY DEF ExitIsTruthful
    <2> DEFINE r == run[p]
    <2>0. r \in Runs /\ Phases(r) /\ Work(r) /\ current \in survivors
      BY TypedRun DEF WorkInv, SeenInv
    <2>1. CASE r.saving = "final" /\ r.exit \in {"ok", "split"}
      <3>1. r.cmd = "apply" /\ r.pc = "end" /\ r.todo = <<>>
        BY <2>0, <2>1 DEF Phases, Work, Reached
      <3>2. /\ MarkerOfRun(r) /\ Disk(r) /\ (MarkedRun(r) => AtProvider(r))
        BY <3>1 DEF OutcomeInv, Sound
      <3>3. /\ current.body = [res |-> r.res, marker |-> r.marker]
            /\ r.exit = "ok" <=> Bad(r) = {}
            /\ r.marker = IF Bad(r) # {} THEN Split(r) ELSE NoMarker
        BY <2>1, <3>2 DEF Disk, MarkerOfRun
      <3>4. current.body.marker = r.marker /\ current.body.res = r.res
        BY <3>3
      <3>5. /\ Completed(r) \cup Bad(r) = Planned(r) /\ Completed(r) \cap Bad(r) = {}
            /\ r.failed \subseteq Bad(r) /\ (Bad(r) # {} => r.failed # {})
        BY <2>0, <3>1, EndOfList
      <3>6. \A a \in Completed(r) : Produced(a) = Recorded(current, a)
        <4>1. \A a \in Completed(r) : MarkedRun(r)
          BY <2>1, <3>1, <3>5 DEF MarkedRun
        <4> QED
          BY <3>2, <3>4, <4>1 DEF AtProvider, Recorded
      <3>7. CASE r.exit = "ok"
        BY <3>3, <3>4, <3>5, <3>6, <3>7
      <3>8. CASE r.exit = "split"
        <4>1. r.marker = Split(r)
          BY <3>3, <3>8
        <4>2. /\ current.body.marker.failed = r.failed
              /\ current.body.marker.applied = Completed(r)
              /\ current.body.marker.remaining = Bad(r)
          BY <3>4, <4>1 DEF Split
        <4>3. Bad(r) # {}
          BY <3>3, <3>8
        <4> QED
          BY <3>5, <3>6, <3>8, <4>2, <4>3
      <3> QED
        BY <2>1, <3>7, <3>8
    <2>2. r.exit \in {"ok", "split"} => Disk(r)
      BY <2>0 DEF OutcomeInv, Sound, Phases
    <2>3. r.exit \in {"ok", "split"} /\ r.saving # "final" =>
            r.exit = "ok" /\ Planned(r) = {} /\ current.body.marker = NoMarker
      BY <2>2 DEF Disk
    <2> QED
      BY <2>1, <2>2, <2>3
  <1> QED
    BY <1>1, TypedAlways, WorkAlways, SeenAlways, OutcomeAlways, PTL

\* Less history and fewer documents are covered as well.
LEMMA CoverKept ==
    ASSUME MarkerCoversRun, UNCHANGED <<live, stray>>, touched' \subseteq touched,
           survivors' \subseteq survivors
    PROVE  MarkerCoversRun'
  BY DEF MarkerCoversRun, Produced, Recorded

\* So is what a run has touched while the documents list its whole plan.
LEMMA CoverByPlan ==
    ASSUME NEW S, touched' \subseteq S,
           \A doc \in survivors' : doc.body.marker.remaining = S
    PROVE  MarkerCoversRun'
  BY DEF MarkerCoversRun

\* The steps of an apply keep every document covered.
LEMMA ApplyKeepsCover ==
    ASSUME Typed, NEW p \in Procs, Work(run[p]), run[p].cmd = "apply", Sound(p),
           current \in survivors, MarkerCoversRun, LockedStep(p)
    PROVE  MarkerCoversRun'
  <1> DEFINE r == run[p]
             c == run'[p]
  <1>0. /\ r \in Runs /\ Phases(r) /\ r.cmd = "apply"
        /\ MarkerOfRun(r) /\ Disk(r) /\ (MarkedRun(r) => AtProvider(r))
    BY TypedRun DEF Sound
  <1>1. Moves(p, c, r)
    BY ApplyMoves
  <1>2. CASE Still
    BY <1>2, CoverKept DEF Still
  <1>3. CASE survivors' = {current} /\ UNCHANGED <<current, live, calls, touched, stray>>
    BY <1>3, CoverKept
  <1>4. CASE (DestroyCall(p) \/ WriteCall(p)) /\ UNCHANGED <<current, survivors>>
    <2>1. PICK a \in Addrs : Calling(r, a) /\ \E answer : Mutates(a, answer)
      BY <1>4, CallEffect
    <2>2. MarkedRun(r) /\ a \in Planned(r) /\ r.pc \in {"exec", "create"}
      BY <1>0, <2>1, CallerMarked DEF Calling
    <2>3. touched' \subseteq touched \cup {a} /\ touched \subseteq Planned(r)
      BY <1>0, <2>1, <2>2 DEF Mutates, AtProvider
    <2>4. \A doc \in survivors' : doc.body.marker.remaining = Planned(r)
      BY <1>0, <1>4, <2>2 DEF Disk, InFlightOnDisk
    <2>5. touched' \subseteq Planned(r)
      BY <2>2, <2>3
    <2> QED
      BY <2>4, <2>5, CoverByPlan
  <1>5. CASE /\ Commits(c, r) /\ Recounted(r) /\ UNCHANGED <<live, calls>>
             /\ current'.body = [res |-> r.res, marker |-> r.marker]
             /\ survivors' = survivors \cup {current'}
    <2>0. r.pc = "save" /\ r.saving \in {"mark", "leg", "final"}
      BY <1>0, <1>5 DEF Commits, Phases, Runs
    <2>1. current'.body.marker = r.marker /\ current'.body.res = r.res
      BY <1>5
    <2>2. CASE r.saving = "mark" \/ (r.saving = "final" /\ Planned(r) = {})
      BY <1>5, <2>2 DEF Recounted, MarkerCoversRun
    <2>3. ASSUME r.saving # "mark" PROVE touched' = touched \/ touched' = {}
      BY <1>0, <1>5, <2>3 DEF Recounted
    <2>4. CASE r.saving = "leg"
      <3>1. Planned(r) # {}
        BY <1>0, <2>0, <2>4, WorkingPlanned DEF Phases
      <3>2. touched \subseteq Planned(r)
        BY <1>0, <2>4, <3>1 DEF MarkedRun, AtProvider
      <3>3. r.marker.remaining = Planned(r)
        BY <1>0, <2>4, <3>1 DEF MarkerOfRun
      <3>4. \A doc \in survivors : doc.body.marker.remaining = Planned(r)
        BY <1>0, <2>4, <3>1 DEF Disk, InFlightOnDisk
      <3>5. \A doc \in survivors' : doc.body.marker.remaining = Planned(r)
        BY <1>5, <2>1, <3>3, <3>4
      <3>6. touched' \subseteq Planned(r)
        BY <2>3, <2>4, <3>2
      <3> QED
        BY <3>5, <3>6, CoverByPlan
    <2>5. CASE r.saving = "final" /\ Planned(r) # {}
      <3>1. AtProvider(r) /\ touched \subseteq Planned(r)
        BY <1>0, <2>5 DEF MarkedRun, AtProvider
      <3>2. \A doc \in survivors : doc.body.marker.remaining = Planned(r)
        BY <1>0, <2>0, <2>5 DEF Disk, InFlightOnDisk
      <3>3. Completed(r) \cup Bad(r) = Planned(r)
        BY <1>0, <2>0, <2>5, EndOfList DEF Work, Reached
      <3>4. r.marker.remaining = Bad(r)
        BY <1>0, <2>5 DEF MarkerOfRun, Split, NoMarker
      <3>5. stray' = stray /\ touched' \subseteq touched
        BY <1>5, <2>3, <2>5 DEF Recounted
      <3>6. ASSUME NEW a \in touched' PROVE a \in Bad(r) \/ Produced(a) = {r.res[a]} \ {Null}
        BY <3>1, <3>3, <3>5, <3>6 DEF AtProvider
      <3>7. ASSUME NEW a \in touched', Produced(a)' # Recorded(current', a)
            PROVE  a \in current'.body.marker.remaining
        <4>1. live'[a] \ stray'[a] # {r.res[a]} \ {Null}
          BY <2>1, <3>7 DEF Produced, Recorded
        <4> QED
          BY <1>5, <2>1, <3>4, <3>5, <3>6, <4>1 DEF Produced
      <3>8. ASSUME NEW doc \in survivors, NEW a \in touched'
            PROVE  a \in doc.body.marker.remaining
        BY <3>1, <3>2, <3>5, <3>8
      <3> QED
        BY <1>5, <3>7, <3>8 DEF MarkerCoversRun, Produced, Recorded
    <2> QED
      BY <2>0, <2>2, <2>4, <2>5
  <1> QED
    BY <1>1, <1>2, <1>3, <1>4, <1>5 DEF Moves

\* The one save of an import or a sanitize changes no entry but the imported.
LEMMA OtherKeepsCover ==
    ASSUME Typed, NEW p \in Procs, Copied(run[p]), Seen(p), run[p].cmd # "apply",
           current \in survivors, MarkerCoversRun, LockedStep(p)
    PROVE  MarkerCoversRun'
  <1> DEFINE r == run[p]
  <1>0. r \in Runs /\ Phases(r) /\ UNCHANGED <<live, calls, stray>>
    BY TypedRun, OtherMoves
  <1>1. CASE UNCHANGED <<current, survivors, touched>>
    BY <1>0, <1>1, CoverKept
  <1>2. CASE survivors' = {current} /\ UNCHANGED <<current, touched>>
    BY <1>0, <1>2, CoverKept
  <1>3. CASE CommitsOnce(p)
    <2>1. /\ r.pc = "save" /\ r.saving = "once" /\ Recounted(r)
          /\ current'.body = [res |-> r.res, marker |-> r.marker]
          /\ survivors' = survivors \cup {current'}
      BY <1>3 DEF CommitsOnce
    <2>2. r.start = current /\ Unsaved(r) /\ r.cmd \in {"import", "sanitize"}
      BY <1>0, <2>1 DEF Seen, InLock, Unsaved, Phases
    <2>3. /\ r.marker = current.body.marker
          /\ \A a \in Addrs \ ToSet(r.todo) : r.res[a] = current.body.res[a]
      BY <2>1, <2>2 DEF Copied
    <2>4. touched' = touched \ ToSet(r.todo) /\ touched \subseteq Addrs
      <3>1. CASE r.cmd = "import"
        BY <2>1, <3>1 DEF Recounted, Typed, TypeOK
      <3>2. CASE r.cmd = "sanitize"
        <4>1. ToSet(r.todo) = {}
          BY <3>2 DEF Copied, ToSet
        <4> QED
          BY <2>1, <3>2, <4>1 DEF Recounted, Typed, TypeOK
      <3> QED
        BY <2>2, <3>1, <3>2
    <2>5. ASSUME NEW a \in touched'
          PROVE  live'[a] \ stray'[a] # {r.res[a]} \ {Null} => a \in r.marker.remaining
      <3>1. a \in touched /\ a \in Addrs \ ToSet(r.todo)
        BY <2>4, <2>5
      <3>2. r.res[a] = current.body.res[a] /\ r.marker = current.body.marker
        BY <2>3, <3>1
      <3>3. live[a] \ stray[a] # {current.body.res[a]} \ {Null}
               => a \in current.body.marker.remaining
        BY <3>1 DEF MarkerCoversRun, Produced, Recorded
      <3> QED
        BY <1>0, <3>2, <3>3
    <2>6. current'.body.res = r.res /\ current'.body.marker = r.marker
      BY <2>1
    <2>7. ASSUME NEW doc \in survivors, NEW a \in touched'
          PROVE  live'[a] \ stray'[a] # {doc.body.res[a]} \ {Null}
                    => a \in doc.body.marker.remaining
      BY <1>0, <2>4, <2>7 DEF MarkerCoversRun, Produced, Recorded
    <2>8. ASSUME NEW doc \in survivors', NEW a \in touched'
          PROVE  live'[a] \ stray'[a] # {doc.body.res[a]} \ {Null}
                    => a \in doc.body.marker.remaining
      BY <2>1, <2>5, <2>6, <2>7, <2>8
    <2> QED
      BY <2>8 DEF MarkerCoversRun, Produced, Recorded
  <1> QED
    BY <1>1, <1>2, <1>3, OtherMoves

\* Whatever is killed or lost, a document that disagrees with the provider on
\* something the latest run did is marked incomplete and lists the address.
THEOREM MarkersCover == Spec => []MarkerCoversRun
  <1>1. Init => MarkerCoversRun
    BY DEF Init, MarkerCoversRun
  <1>2. /\ Typed /\ WorkInv /\ CopyInv /\ SeenInv /\ OutcomeInv /\ MarkerCoversRun
        /\ [Next]_vars
        => MarkerCoversRun'
    <2> SUFFICES ASSUME Typed, WorkInv, CopyInv, SeenInv, OutcomeInv, MarkerCoversRun,
                        [Next]_vars
                 PROVE  MarkerCoversRun'
      OBVIOUS
    <2>1. ASSUME NEW p \in Procs, FreeStep(p) PROVE MarkerCoversRun'
      BY <2>1, FreeStepEffect, CoverKept DEF world
    <2>2. ASSUME NEW p \in Procs, LockedStep(p) PROVE MarkerCoversRun'
      BY <2>2, ApplyKeepsCover, OtherKeepsCover
         DEF WorkInv, CopyInv, SeenInv, OutcomeInv
    <2>3. CASE EditConfig \/ UNCHANGED vars
      BY <2>3, CoverKept DEF EditConfig, vars, regVars, world
    <2>4. CASE PowerLoss
      BY <2>4, CoverKept DEF PowerLoss, Reg!Lose, world
    <2> QED
      BY <2>1, <2>2, <2>3, <2>4, StepKinds
  <1> QED
    BY <1>1, <1>2, TypedAlways, WorkAlways, CopyAlways, SeenAlways, OutcomeAlways, PTL
       DEF Spec

----------------------------------------------------------------------------
\* Serials.

\* The planned replacements.
Replaced(r) == {a \in Addrs : Change(r, a) = "replace"}

\* The first leg of a replace whose second is not recorded: Completed does not
\* count it.
FirstLeg(r) ==
    IF r.pc = "create" \/ (r.next = "completed" /\ Change(r, Head(r.todo)) = "replace")
    THEN 1 ELSE 0
\* The save under way, or the last one, is visible.
Visible(r) == IF r.saving \in {"leg", "final"} /\ r.pc \in {"sync", "end"} THEN 1 ELSE 0

\* As long as nothing fails, the serial counts the marker and the legs.
Counted(r) ==
    MarkedRun(r) /\ Bad(r) = {} /\ r.next # "failed" /\ r.exit # "failed" =>
        current.serial = r.start.serial + 1 + Cardinality(Completed(r))
                           + Cardinality(Completed(r) \cap Replaced(r))
                           + FirstLeg(r) + Visible(r)

\* The count is right in every process.
SerialInv == \A p \in Procs : Counted(run[p])

\* The counts are natural numbers.
LEMMA LegCounts ==
    ASSUME NEW r
    PROVE  /\ Cardinality(Completed(r)) \in Nat
           /\ Cardinality(Completed(r) \cap Replaced(r)) \in Nat
           /\ IsFiniteSet(Completed(r)) /\ IsFiniteSet(Completed(r) \cap Replaced(r))
           /\ FirstLeg(r) \in Nat /\ Visible(r) \in Nat
  <1>1. Completed(r) \subseteq Addrs /\ Completed(r) \cap Replaced(r) \subseteq Addrs
    BY DEF Completed
  <1>2. IsFiniteSet(Completed(r)) /\ IsFiniteSet(Completed(r) \cap Replaced(r))
    BY <1>1, ApplyAssumption, FS_Subset
  <1> QED
    BY <1>2, FS_CardinalityType DEF FirstLeg, Visible

\* One more completed change counts once, a replace twice.
LEMMA OneMoreCompleted ==
    ASSUME NEW r, NEW c, SameInputs(c, r), NEW h \in Addrs, h \notin Completed(r),
           Completed(c) = Completed(r) \cup {h}
    PROVE  /\ Cardinality(Completed(c)) = Cardinality(Completed(r)) + 1
           /\ Cardinality(Completed(c) \cap Replaced(c))
                = Cardinality(Completed(r) \cap Replaced(r))
                    + (IF Change(r, h) = "replace" THEN 1 ELSE 0)
  <1>1. Replaced(c) = Replaced(r)
    BY SameInputsSameWork DEF Replaced
  <1>2. IsFiniteSet(Completed(r)) /\ IsFiniteSet(Completed(r) \cap Replaced(r))
        /\ Cardinality(Completed(r) \cap Replaced(r)) \in Nat
    BY LegCounts
  <1>3. Cardinality(Completed(c)) = Cardinality(Completed(r)) + 1
    BY <1>2, FS_AddElement
  <1>4. CASE Change(r, h) = "replace"
    <2>1. Completed(c) \cap Replaced(c) = (Completed(r) \cap Replaced(r)) \cup {h}
      BY <1>1, <1>4 DEF Replaced
    <2>2. h \notin Completed(r) \cap Replaced(r)
      OBVIOUS
    <2>3. Cardinality((Completed(r) \cap Replaced(r)) \cup {h})
             = Cardinality(Completed(r) \cap Replaced(r)) + 1
      BY <1>2, <2>2, FS_AddElement
    <2> QED
      BY <1>3, <1>4, <2>1, <2>3
  <1>5. CASE Change(r, h) # "replace"
    <2>1. Completed(c) \cap Replaced(c) = Completed(r) \cap Replaced(r)
      BY <1>1, <1>5 DEF Replaced
    <2>2. Cardinality(Completed(r) \cap Replaced(r)) + 0
             = Cardinality(Completed(r) \cap Replaced(r))
      BY <1>2
    <2> QED
      BY <1>3, <1>5, <2>1, <2>2
  <1> QED
    BY <1>4, <1>5

\* A step that counts as many legs as before.
LEMMA CountKept ==
    ASSUME Typed, NEW p \in Procs, Counted(run[p]), SameInputs(run'[p], run[p]),
           run'[p].outcome = run[p].outcome,
           UNCHANGED current,
           MarkedRun(run'[p]) => MarkedRun(run[p]),
           run'[p].next # "failed" => run[p].next # "failed",
           run'[p].exit # "failed" => run[p].exit # "failed",
           run'[p].next # "failed" /\ run'[p].exit # "failed" =>
              FirstLeg(run'[p]) + Visible(run'[p]) = FirstLeg(run[p]) + Visible(run[p])
    PROVE  Counted(run[p])'
  <1> DEFINE r == run[p]
             c == run'[p]
  <1>1. Completed(c) = Completed(r) /\ Bad(c) = Bad(r) /\ c.start = r.start
        /\ Replaced(c) = Replaced(r)
    BY SameInputsSameWork DEF Completed, Bad, SameInputs, Replaced
  <1>2. /\ FirstLeg(r) \in Nat /\ Visible(r) \in Nat /\ FirstLeg(c) \in Nat /\ Visible(c) \in Nat
    BY LegCounts
  <1>3. /\ current.serial \in Nat /\ r.start.serial \in Nat
        /\ Cardinality(Completed(r)) \in Nat
        /\ Cardinality(Completed(r) \cap Replaced(r)) \in Nat
    BY TypedRun, LegCounts DEF Typed, TypeOK, Documents, Runs
  <1> HIDE DEF r, c
  <1>4. ASSUME MarkedRun(c), Bad(c) = {}, c.next # "failed", c.exit # "failed"
        PROVE  current.serial = c.start.serial + 1 + Cardinality(Completed(c))
                           + Cardinality(Completed(c) \cap Replaced(c))
                           + FirstLeg(c) + Visible(c)
    <2>1. /\ current.serial = r.start.serial + 1 + Cardinality(Completed(r))
                               + Cardinality(Completed(r) \cap Replaced(r))
                               + FirstLeg(r) + Visible(r)
          /\ FirstLeg(c) + Visible(c) = FirstLeg(r) + Visible(r)
      BY <1>1, <1>4 DEF Counted, r, c
    <2> QED
      BY <1>1, <1>2, <1>3, <2>1
  <1> QED
    BY <1>4 DEF Counted, c

\* Every step of the run keeps the count.
LEMMA SerialMoves ==
    ASSUME Typed, NEW p \in Procs, Work(run[p]), run[p].cmd = "apply", Seen(p),
           Counted(run[p]), LockedStep(p)
    PROVE  Counted(run[p])'
  <1> DEFINE r == run[p]
             c == run'[p]
  <1>0. r \in Runs /\ Phases(r) /\ c \in Runs /\ SameInputs(c, r)
    BY TypedRun, LockedStepEffect, LockedStepInputs DEF Alone
  <1>00. Planned(c) = Planned(r) /\ \A a : Change(c, a) = Change(r, a)
    BY <1>0, SameInputsSameWork
  <1>1. Moves(p, c, r)
    BY ApplyMoves
  <1>2. ASSUME ~MarkedRun(c) \/ Bad(c) # {} \/ c.next = "failed" \/ c.exit = "failed"
        PROVE  Counted(run[p])'
    BY <1>2 DEF Counted
  <1>3. CASE Still /\ LocksIdle(c, r)
    <2>1. Planned(r) = {}
      <3>1. Listed(r) /\ Unworked(r) /\ r.todo = <<>>
        BY <1>3 DEF Work, Early, LocksIdle
      <3> QED
        BY <3>1 DEF Listed, Unworked, Planned, ToSet
    <2> QED
      BY <1>00, <1>2, <2>1 DEF MarkedRun
  <1>4. CASE Still /\ LocksMarking(c, r)
    <2>1. c.saving = "mark" /\ c.pc = "save"
      BY <1>4 DEF LocksMarking, AfterMove
    <2> QED
      BY <1>2, <2>1 DEF MarkedRun
  <1>5. CASE Still /\ GivesUpHead(c, r)
    <2>1. PICK verdict \in {"failed", "blocked"} :
             r.pc = "exec" /\ r.todo # <<>> /\ AfterConclude(c, r, Head(r.todo), verdict)
      BY <1>5 DEF GivesUpHead
    <2>2. c.outcome = Updated(r.outcome, Head(r.todo), verdict)
      BY <2>1 DEF AfterConclude
    <2>3. Bad(c) = Bad(r) \cup {Head(r.todo)}
      BY <1>0, <2>1, <2>2, ConcludedMarker
    <2> QED
      BY <1>2, <2>3
  <1>6. CASE Still /\ WrapsUp(c, r)
    <2>1. /\ r.pc = "exec" /\ c.pc = "save" /\ c.next = "none" /\ r.next = "none"
          /\ c.outcome = r.outcome /\ r.exit = "none" /\ current' = current
      BY <1>0, <1>6 DEF WrapsUp, AfterMove, Phases, Still
    <2>2. MarkedRun(c) => MarkedRun(r)
      BY <1>0, <1>00, <2>1 DEF MarkedRun, SameInputs
    <2>3. FirstLeg(c) = FirstLeg(r) /\ Visible(c) = Visible(r)
      BY <2>1 DEF FirstLeg, Visible
    <2> QED
      BY <1>0, <2>1, <2>2, <2>3, CountKept
  <1>7. CASE Still /\ WrapsUpEmpty(c, r)
    BY <1>00, <1>2, <1>7 DEF WrapsUpEmpty, MarkedRun
  <1>8. CASE Commits(c, r) /\ current'.serial = current.serial + 1
    <2>0. /\ r.pc = "save" /\ c.pc = "sync" /\ c.saving = r.saving /\ c.next = r.next
          /\ c.outcome = r.outcome /\ c.todo = r.todo /\ c.exit = r.exit /\ r.exit = "none"
          /\ c.start = r.start /\ c.cmd = "apply"
      BY <1>0, <1>8 DEF Commits, AfterMove, Steady, SameInputs, Phases
    <2>1. /\ Completed(c) = Completed(r) /\ Bad(c) = Bad(r) /\ Replaced(c) = Replaced(r)
      BY <1>00, <2>0 DEF Completed, Bad, Replaced
    <2>2. /\ current.serial \in Nat /\ r.start.serial \in Nat
          /\ Cardinality(Completed(r)) \in Nat
          /\ Cardinality(Completed(r) \cap Replaced(r)) \in Nat
          /\ FirstLeg(r) \in Nat
      BY <1>0, LegCounts DEF Typed, TypeOK, Documents, Runs
    <2>3. FirstLeg(c) = FirstLeg(r) /\ Visible(r) = 0
      BY <1>00, <2>0 DEF FirstLeg, Visible
    <2>4. CASE r.saving = "mark"
      <3>1. Completed(r) = {} /\ r.next = "none"
        BY <1>0, <2>0, <2>4, UnworkedVerdicts DEF Work, Early, Phases
      <3>2. r.start = current
        BY <2>0, <2>4 DEF Seen, InLock, Unsaved
      <3>3. /\ Cardinality(Completed(c)) = 0 /\ Cardinality(Completed(c) \cap Replaced(c)) = 0
        BY <2>1, <3>1, FS_EmptySet
      <3>4. FirstLeg(c) = 0 /\ Visible(c) = 0
        BY <2>0, <2>4, <3>1 DEF FirstLeg, Visible
      <3> QED
        BY <1>8, <2>0, <2>2, <3>2, <3>3, <3>4 DEF Counted
    <2>5. CASE r.saving # "mark"
      <3>1. MarkedRun(c) => MarkedRun(r) /\ Visible(c) = 1
        BY <1>00, <2>0, <2>5 DEF MarkedRun, Visible
      <3> QED
        BY <1>8, <2>0, <2>1, <2>2, <2>3, <3>1 DEF Counted
    <2> QED
      BY <2>4, <2>5
  <1>9. ASSUME NEW saved \in BOOLEAN, Returns(c, r, saved), UNCHANGED current
        PROVE  Counted(run[p])'
    <2>0. /\ r.pc \in {"save", "sync"} /\ (saved => r.pc = "sync") /\ r.exit = "none"
      BY <1>0, <1>9 DEF Returns, Phases
    <2>1. CASE r.saving = "mark" /\ saved /\ AfterMove(c, r, "exec", "none", "none") /\ Steady(c, r)
      <3>1. /\ c.outcome = r.outcome /\ c.exit = "none" /\ r.next = "none" /\ c.next = "none"
            /\ c.pc = "exec" /\ r.pc = "sync" /\ r.cmd = "apply" /\ r.saving = "mark"
            /\ c.saving = "none"
        BY <1>0, <2>0, <2>1 DEF AfterMove, Steady, Phases
      <3>2. MarkedRun(c) => MarkedRun(r)
        BY <1>00, <3>1 DEF MarkedRun
      <3>3. FirstLeg(c) = FirstLeg(r) /\ Visible(c) = Visible(r)
        BY <3>1 DEF FirstLeg, Visible
      <3> QED
        BY <1>0, <1>9, <2>0, <3>1, <3>2, <3>3, CountKept
    <2>2. CASE Finished(c, r, "failed")
      BY <1>2, <2>2 DEF Finished
    <2>3. CASE r.saving = "final" /\ saved /\ Bad(r) # {} /\ Finished(c, r, "split")
      <3>1. Bad(c) = Bad(r)
        BY <2>3 DEF Finished, AfterMove, Bad
      <3> QED
        BY <1>2, <2>3, <3>1
    <2>4. CASE r.saving = "final" /\ saved /\ Bad(r) = {} /\ Finished(c, r, "ok")
      <3>1. /\ c.outcome = r.outcome /\ r.next = "none" /\ c.next = "none"
            /\ c.pc = "end" /\ r.pc = "sync" /\ c.saving = "final"
        BY <1>0, <2>0, <2>4 DEF Finished, AfterMove, Phases
      <3>2. MarkedRun(c) => MarkedRun(r)
        BY <1>00, <2>4 DEF MarkedRun
      <3>3. FirstLeg(c) = FirstLeg(r) /\ Visible(c) = Visible(r)
        BY <2>4, <3>1 DEF FirstLeg, Visible
      <3> QED
        BY <1>0, <1>9, <2>0, <3>1, <3>2, <3>3, CountKept
    <2>5. ASSUME r.saving = "leg" PROVE (MarkedRun(c) => MarkedRun(r)) /\ r.todo # <<>>
      BY <1>0, <1>00, <2>0, <2>5 DEF MarkedRun, Phases
    <2>6. CASE /\ r.saving = "leg" /\ saved /\ r.next = "create"
               /\ AfterMove(c, r, "create", "none", "none") /\ Steady(c, r)
      <3>1. /\ c.outcome = r.outcome /\ c.next = "none" /\ c.exit = r.exit
            /\ c.pc = "create" /\ r.pc = "sync" /\ c.saving = "none"
        BY <2>0, <2>6 DEF AfterMove, Steady
      <3>2. FirstLeg(c) = 1 /\ Visible(c) = 0 /\ FirstLeg(r) = 0 /\ Visible(r) = 1
        BY <2>6, <3>1 DEF FirstLeg, Visible
      <3> QED
        BY <1>0, <1>9, <2>0, <2>5, <2>6, <3>1, <3>2, CountKept
    <2>7. CASE /\ r.saving = "leg" /\ saved /\ r.next \in {"completed", "failed"}
               /\ AfterConclude(c, r, Head(r.todo), r.next)
      <3> DEFINE h == Head(r.todo)
                 verdict == r.next
      <3>1. /\ c.outcome = Updated(r.outcome, h, verdict) /\ c.pc = "exec"
            /\ c.next = "none" /\ c.saving = "none" /\ c.exit = r.exit /\ r.pc = "sync"
            /\ verdict \in {"completed", "failed", "blocked"}
            /\ r.pc \notin {"idle", "started"} /\ r.todo # <<>>
        BY <2>0, <2>5, <2>7 DEF AfterConclude
      <3>2. /\ Bad(c) = IF verdict = "completed" THEN Bad(r) ELSE Bad(r) \cup {h}
            /\ Completed(c) = IF verdict = "completed" THEN Completed(r) \cup {h}
                              ELSE Completed(r)
            /\ r.outcome[h] = "none" /\ h \in Addrs
        <4> HIDE DEF verdict
        <4> QED
          BY <1>0, <3>1, ConcludedMarker
      <3>3. CASE verdict = "completed"
        <4>1. h \notin Completed(r) /\ Completed(c) = Completed(r) \cup {h} /\ Bad(c) = Bad(r)
          BY <3>2, <3>3 DEF Completed
        <4>2. /\ Cardinality(Completed(c)) = Cardinality(Completed(r)) + 1
              /\ Cardinality(Completed(c) \cap Replaced(c))
                = Cardinality(Completed(r) \cap Replaced(r))
                    + (IF Change(r, h) = "replace" THEN 1 ELSE 0)
          <5> HIDE DEF h
          <5> QED
            BY <1>0, <3>2, <4>1, OneMoreCompleted
        <4>3. /\ FirstLeg(r) = (IF Change(r, h) = "replace" THEN 1 ELSE 0) /\ Visible(r) = 1
              /\ FirstLeg(c) = 0 /\ Visible(c) = 0
          BY <2>7, <3>1, <3>3 DEF FirstLeg, Visible
        <4>4. /\ current.serial \in Nat /\ r.start.serial \in Nat
              /\ Cardinality(Completed(r)) \in Nat
              /\ Cardinality(Completed(r) \cap Replaced(r)) \in Nat
              /\ FirstLeg(r) \in Nat
          BY <1>0, LegCounts DEF Typed, TypeOK, Documents, Runs
        <4>5. c.start = r.start
          BY <1>0 DEF SameInputs
        <4>6. ASSUME MarkedRun(c), Bad(c) = {}
              PROVE  current.serial = r.start.serial + 1 + Cardinality(Completed(r))
                               + Cardinality(Completed(r) \cap Replaced(r))
                               + FirstLeg(r) + Visible(r)
          BY <2>0, <2>5, <2>7, <3>3, <4>1, <4>6 DEF Counted
        <4> HIDE DEF h
        <4>7. ASSUME MarkedRun(c), Bad(c) = {}
              PROVE  current.serial = c.start.serial + 1 + Cardinality(Completed(c))
                               + Cardinality(Completed(c) \cap Replaced(c))
                               + FirstLeg(c) + Visible(c)
          BY <4>2, <4>3, <4>4, <4>5, <4>6, <4>7
        <4> QED
          BY <1>9, <4>7 DEF Counted
      <3>4. CASE verdict # "completed"
        BY <1>2, <3>2, <3>4
      <3> QED
        BY <3>3, <3>4
    <2>8. CASE r.saving = "leg" /\ ~saved /\ AfterLegUnsaved(c, r)
      <3>1. Bad(c) = Bad(r) \cup {Head(r.todo)}
        BY <1>0, <2>0, <2>5, <2>8, LosingMarker
      <3> QED
        BY <1>2, <3>1
    <2> QED
      BY <1>9, <2>1, <2>2, <2>3, <2>4, <2>6, <2>7, <2>8 DEF Returns
  <1>10. CASE (DestroyCall(p) \/ WriteCall(p)) /\ UNCHANGED <<current, survivors>>
    <2>1. PICK a \in Addrs : Calling(r, a) /\ Proceeds(c, r, a)
      BY <1>10, CallEffect
    <2>2. CASE AfterConclude(c, r, a, "failed")
      <3> DEFINE verdict == "failed"
      <3>1. /\ c.outcome = Updated(r.outcome, Head(r.todo), verdict) /\ r.todo # <<>>
            /\ verdict \in {"completed", "failed", "blocked"} /\ verdict # "completed"
            /\ r.pc \notin {"idle", "started"}
        BY <2>1, <2>2 DEF AfterConclude, Calling
      <3> HIDE DEF verdict
      <3>2. Bad(c) = Bad(r) \cup {Head(r.todo)}
        BY <1>0, <3>1, ConcludedMarker
      <3> QED
        BY <1>2, <3>2
    <2>3. ASSUME NEW entry, NEW undo, NEW next \in {"create", "completed", "failed"},
                 AfterRecord(c, r, a, entry, next, undo),
                 next = "completed" => (r.pc = "create" <=> Change(r, a) = "replace"),
                 next = "create" => r.pc = "exec"
          PROVE  Counted(run[p])'
      <3>1. /\ c.pc = "save" /\ c.next = next /\ c.exit = r.exit /\ c.outcome = r.outcome
            /\ c.todo = r.todo
        BY <2>3 DEF AfterRecord, SameProgress
      <3>2. /\ r.pc \in {"exec", "create"} /\ r.next = "none" /\ r.exit = "none"
            /\ a = Head(r.todo)
        BY <1>0, <2>1 DEF Calling, Phases
      <3>3. MarkedRun(r)
        BY <1>0, <2>1, CallerMarked
      <3>4. Visible(c) = 0 /\ Visible(r) = 0
        BY <3>1, <3>2 DEF Visible
      <3>5. c.next # "failed" => FirstLeg(c) = FirstLeg(r)
        BY <1>00, <2>3, <3>1, <3>2 DEF FirstLeg
      <3> QED
        BY <1>0, <1>10, <3>1, <3>2, <3>3, <3>4, <3>5, CountKept
    <2>4. CASE DestroyCall(p)
      <3>1. PICK b \in Addrs : /\ Calling(r, b) /\ r.pc = "exec"
                               /\ \E answer :
                                  \/ AfterRecord(c, r, b, Null,
                                        IF Change(r, b) = "replace" THEN "create"
                                        ELSE "completed", Nothing)
                                  \/ AfterRecord(c, r, b, answer.reply, "failed", r.res[b])
                                  \/ AfterConclude(c, r, b, "failed")
        BY <2>4, DestroyCallEffect
      <3>2. b = a
        BY <2>1, <3>1 DEF Calling
      <3>3. CASE AfterRecord(c, r, a, Null, IF Change(r, a) = "replace" THEN "create"
                                            ELSE "completed", Nothing)
        <4> DEFINE next == IF Change(r, a) = "replace" THEN "create" ELSE "completed"
        <4>1. /\ next \in {"create", "completed", "failed"} 
              /\ AfterRecord(c, r, a, Null, next, Nothing)
              /\ next = "completed" => (r.pc = "create" <=> Change(r, a) = "replace")
              /\ next = "create" => r.pc = "exec"
          BY <3>1, <3>3
        <4> HIDE DEF next
        <4> QED
          BY <2>3, <4>1
      <3>4. ASSUME NEW answer, AfterRecord(c, r, a, answer.reply, "failed", r.res[a])
            PROVE  Counted(run[p])'
        BY <1>2, <3>4 DEF AfterRecord
      <3> QED
        BY <2>2, <3>1, <3>2, <3>3, <3>4
    <2>5. CASE WriteCall(p)
      <3>1. PICK b \in Addrs : /\ Calling(r, b)
                               /\ r.pc = "exec" => Change(r, b) \in {"create", "update"}
                               /\ \E answer :
                                  \/ AfterRecord(c, r, b, answer.reply,
                                        IF answer.errors = "no" THEN "completed" ELSE "failed",
                                        Nothing)
                                  \/ AfterConclude(c, r, b, "failed")
        BY <2>5, WriteCallEffect
      <3>2. b = a /\ r.pc \in {"exec", "create"}
        BY <2>1, <3>1 DEF Calling
      <3>3. r.pc = "create" => Change(r, a) = "replace"
        BY <3>1, <3>2 DEF Work, Reached, Calling
      <3>4. ASSUME NEW answer,
                   AfterRecord(c, r, a, answer.reply,
                               IF answer.errors = "no" THEN "completed" ELSE "failed", Nothing)
            PROVE  Counted(run[p])'
        <4> DEFINE next == IF answer.errors = "no" THEN "completed" ELSE "failed"
        <4>1. /\ next \in {"create", "completed", "failed"} /\ next # "create"
              /\ AfterRecord(c, r, a, answer.reply, next, Nothing)
              /\ (r.pc = "create" <=> Change(r, a) = "replace")
          BY <3>1, <3>2, <3>3, <3>4
        <4> HIDE DEF next
        <4> QED
          BY <2>3, <4>1
      <3> QED
        BY <2>2, <3>1, <3>2, <3>4
    <2> QED
      BY <1>10, <2>4, <2>5
  <1>11. CASE Still /\ Returns(c, r, FALSE)
    BY <1>9, <1>11 DEF Still
  <1>12. CASE Returns(c, r, TRUE) /\ UNCHANGED current
    BY <1>9, <1>12
  <1> QED
    BY <1>1, <1>3, <1>4, <1>5, <1>6, <1>7, <1>8, <1>10, <1>11, <1>12 DEF Moves

\* Hence the serial always counts the saves.
LEMMA SerialAlways == Spec => []SerialInv
  <1>1. Init => SerialInv
    BY IdlePhases, OutsideLock DEF Init, SerialInv, Counted, MarkedRun, Idle
  <1>2. Typed /\ Typed' /\ Held /\ Held' /\ WorkInv /\ SeenInv /\ SerialInv /\ [Next]_vars
           => SerialInv'
    <2> SUFFICES ASSUME Typed, Typed', Held, Held', WorkInv, SeenInv, SerialInv, [Next]_vars,
                        NEW q \in Procs
                 PROVE  Counted(run[q])'
      BY DEF SerialInv
    <2>1. CASE ~InLock(run'[q])
      <3>1. ~MarkedRun(run'[q])
        BY <2>1, OutsideLock DEF Typed, PhaseInv
      <3> QED
        BY <3>1 DEF Counted
    <2>2. CASE LockedStep(q) /\ run[q].cmd = "apply"
      BY <2>2, SerialMoves DEF WorkInv, SeenInv, SerialInv
    <2>3. CASE LockedStep(q) /\ run[q].cmd # "apply"
      <3>1. ~MarkedRun(run'[q])
        BY <2>3, LockedStepInputs DEF SameInputs, MarkedRun
      <3> QED
        BY <3>1 DEF Counted
    <2>4. CASE run'[q] = run[q] /\ UNCHANGED <<current, survivors, world>>
      BY <2>4 DEF SerialInv, Counted
    <2> QED
      BY <2>1, <2>2, <2>3, <2>4, OthersWait
  <1> QED
    BY <1>1, <1>2, TypedAlways, HeldAlways, WorkAlways, SeenAlways, PTL DEF Spec

\* A successful run of N legs advances the serial by N + 2: the marker, one
\* save per leg, two legs for a replace, and the clearing save.
THEOREM SerialsCount == Spec => []SerialCountsLegs
  <1>1. Typed /\ WorkInv /\ OutcomeInv /\ SerialInv => SerialCountsLegs
    <2> SUFFICES ASSUME Typed, WorkInv, OutcomeInv, SerialInv, NEW p \in Procs,
                        run[p].exit = "ok", Planned(run[p]) # {}
                 PROVE  current.serial
                          = run[p].start.serial + Cardinality(Planned(run[p]))
                              + Cardinality({a \in Addrs : Change(run[p], a) = "replace"}) + 2
      BY DEF SerialCountsLegs
    <2> DEFINE r == run[p]
    <2>0. r \in Runs /\ Phases(r) /\ Work(r)
      BY TypedRun DEF WorkInv
    <2>1. r.cmd = "apply" /\ r.pc = "end" /\ r.todo = <<>> /\ r.next = "none"
      BY <2>0 DEF Phases, Work, Reached
    <2>2. r.saving = "final" /\ Bad(r) = {}
      BY <2>1 DEF OutcomeInv, Sound, Disk
    <2>3. MarkedRun(r)
      BY <2>1, <2>2 DEF MarkedRun
    <2>4. Completed(r) = Planned(r)
      BY <2>0, <2>1, <2>2, EndOfList
    <2>5. Completed(r) \cap Replaced(r) = {a \in Addrs : Change(r, a) = "replace"}
      BY <2>4 DEF Planned, Replaced
    <2>6. FirstLeg(r) = 0 /\ Visible(r) = 1
      BY <2>1, <2>2 DEF FirstLeg, Visible
    <2>7. /\ current.serial \in Nat /\ r.start.serial \in Nat
          /\ Cardinality(Completed(r)) \in Nat
          /\ Cardinality(Completed(r) \cap Replaced(r)) \in Nat
      BY <2>0, LegCounts DEF Typed, TypeOK, Documents, Runs
    <2>8. current.serial = r.start.serial + 1 + Cardinality(Completed(r))
                           + Cardinality(Completed(r) \cap Replaced(r))
                           + FirstLeg(r) + Visible(r)
      BY <2>1, <2>2, <2>3 DEF SerialInv, Counted
    <2> QED
      BY <2>4, <2>5, <2>6, <2>7, <2>8
  <1> QED
    BY <1>1, TypedAlways, WorkAlways, OutcomeAlways, SerialAlways, PTL
=============================================================================
