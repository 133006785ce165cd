----------------------------- MODULE StateFile -----------------------------
(***************************************************************************)
(* internal/state/state.go: state.json, its .backup and its .lock, as      *)
(* several tchori processes Load, Lock and Save them.  A Save is as many   *)
(* steps as there are points where another process, a kill or a power loss *)
(* can be observed.                                                        *)
(***************************************************************************)
EXTENDS Naturals, FiniteSets

CONSTANTS Procs,      \* the tchori processes sharing one working directory
          Bodies,     \* what a state document can say besides its serial
          EmptyBody,  \* no resources, no incomplete-apply marker
          NoProc,     \* the holder of a free flock
          MaxSerial   \* bound: no Save starts from a serial this large

ASSUME StateFileAssumption ==
    /\ EmptyBody \in Bodies
    /\ NoProc \notin Procs
    /\ MaxSerial \in Nat

VARIABLES file,            \* the document at path
          backup,          \* the document at path.backup
          fileSurvivors,   \* what a power loss may leave at path
          backupSurvivors, \* what a power loss may leave at path.backup
          flock,           \* the process holding path.lock, or NoProc
          pc,              \* pc[p]: where p is in the package's code
          handle,          \* handle[p]: p's *State
          held,            \* the processes whose State keeps a lock (s.lock)
          result           \* result[p]: what p's last call returned

\* History: the last document whose Save returned nil.
VARIABLE promised

disk == <<file, backup, fileSurvivors, backupSurvivors>>
vars == <<file, backup, fileSurvivors, backupSurvivors, flock, pc, handle,
          held, result, promised>>

Documents == [serial : Nat, body : Bodies]
Absent == [serial |-> 0, body |-> EmptyBody]

\* origin is history: the document this State was loaded from or last wrote.
Handles == [serial : Nat, base : Nat, body : Bodies, origin : Documents]

FreshHandle ==
    [serial |-> 0, base |-> 0, body |-> EmptyBody, origin |-> Absent]

\* The steps of Save between taking the lock and returning.
Writing == {"check", "backup", "rename", "sync"}
Saving == Writing \cup {"acquire"}

Init ==
    /\ file = Absent
    /\ backup = Absent
    /\ fileSurvivors = {Absent}
    /\ backupSurvivors = {Absent}
    /\ flock = NoProc
    /\ pc = [p \in Procs |-> "none"]
    /\ handle = [p \in Procs |-> FreshHandle]
    /\ held = {}
    /\ result = [p \in Procs |-> "none"]
    /\ promised = Absent

----------------------------------------------------------------------------
\* Load: a lock-free read.

\* Mutation of Load: the base lags one behind.
LoadBaseBehind(p) ==
    /\ pc[p] = "none"
    /\ handle' = [handle EXCEPT ![p] =
          [serial |-> file.serial, base |-> file.serial - 1, body |-> file.body,
           origin |-> file]]
    /\ pc' = [pc EXCEPT ![p] = "loaded"]
    /\ UNCHANGED <<disk, flock, held, result, promised>>

Load(p) ==
    /\ pc[p] = "none"
    /\ handle' = [handle EXCEPT ![p] =
          [serial |-> file.serial, base |-> file.serial, body |-> file.body,
           origin |-> file]]
    /\ pc' = [pc EXCEPT ![p] = "loaded"]
    /\ UNCHANGED <<disk, flock, held, result, promised>>

\* The command returns; Lock's unlock function has run by then.
Exit(p) ==
    /\ pc[p] = "loaded"
    /\ p \notin held
    /\ pc' = [pc EXCEPT ![p] = "none"]
    /\ handle' = [handle EXCEPT ![p] = FreshHandle]
    /\ UNCHANGED <<disk, flock, held, result, promised>>

----------------------------------------------------------------------------
\* Lock and the unlock function it returns.

\* The flock is taken, then the serial on disk is compared with the base;
\* on a difference the flock is closed again.
Lock(p) ==
    /\ pc[p] = "loaded"
    /\ p \notin held
    /\ flock = NoProc
    /\ IF file.serial = handle[p].base
       THEN /\ flock' = p
            /\ held' = held \cup {p}
            /\ result' = [result EXCEPT ![p] = "ok"]
       ELSE /\ result' = [result EXCEPT ![p] = "conflict"]
            /\ UNCHANGED <<flock, held>>
    /\ UNCHANGED <<disk, pc, handle, promised>>

\* The ten seconds pass, the command is cancelled, or the sidecar is refused.
LockFails(p) ==
    /\ pc[p] = "loaded"
    /\ p \notin held
    /\ result' = [result EXCEPT ![p] = "failed"]
    /\ UNCHANGED <<disk, flock, pc, handle, held, promised>>

Unlock(p) ==
    /\ pc[p] = "loaded"
    /\ p \in held
    /\ flock' = NoProc
    /\ held' = held \ {p}
    /\ UNCHANGED <<disk, pc, handle, result, promised>>

----------------------------------------------------------------------------
\* Save.

\* The caller has changed the State's resources or marker to body.
SaveBegin(p, body) ==
    /\ pc[p] = "loaded"
    /\ handle[p].serial < MaxSerial
    /\ handle' = [handle EXCEPT ![p].body = body]
    /\ pc' = [pc EXCEPT ![p] = IF p \in held THEN "check" ELSE "acquire"]
    /\ UNCHANGED <<disk, flock, held, result, promised>>

\* Return from Save; only a lock taken by this Save is released.
Return(p, outcome) ==
    /\ pc' = [pc EXCEPT ![p] = "loaded"]
    /\ result' = [result EXCEPT ![p] = outcome]
    /\ flock' = IF p \in held THEN flock ELSE NoProc

\* Mutation of SaveAcquire: a process that never called Lock takes no lock.
SaveAcquireShared(p) ==
    /\ pc[p] = "acquire"
    /\ pc' = [pc EXCEPT ![p] = "check"]
    /\ UNCHANGED <<disk, flock, handle, held, result, promised>>

SaveAcquire(p) ==
    /\ pc[p] = "acquire"
    /\ flock = NoProc
    /\ flock' = p
    /\ pc' = [pc EXCEPT ![p] = "check"]
    /\ UNCHANGED <<disk, handle, held, result, promised>>

\* Mutation of SaveAcquireFails: a blocking flock without a deadline.
SaveAcquireBlocks(p) ==
    /\ pc[p] = "acquire"
    /\ flock = NoProc
    /\ pc' = [pc EXCEPT ![p] = "loaded"]
    /\ UNCHANGED <<disk, flock, handle, held, result, promised>>

SaveAcquireFails(p) ==
    /\ pc[p] = "acquire"
    /\ pc' = [pc EXCEPT ![p] = "loaded"]
    /\ result' = [result EXCEPT ![p] = "failed"]
    /\ UNCHANGED <<disk, flock, handle, held, promised>>

\* Mutation of SaveCheck: holding the lock is taken for being up to date.
SaveCheckSkipped(p) ==
    /\ pc[p] = "check"
    /\ pc' = [pc EXCEPT ![p] = "backup"]
    /\ UNCHANGED <<disk, flock, handle, held, result, promised>>

SaveCheck(p) ==
    /\ pc[p] = "check"
    /\ IF file.serial = handle[p].base
       THEN /\ pc' = [pc EXCEPT ![p] = "backup"]
            /\ UNCHANGED <<flock, result>>
       ELSE Return(p, "conflict")
    /\ UNCHANGED <<disk, handle, held, promised>>

\* Every error between the compare and the rename: reading or parsing the
\* previous document, sanitizing, a refused format, marshalling, the backup,
\* the temporary file.  The State keeps its serial and the path its document.
SaveRefused(p) ==
    /\ pc[p] \in {"check", "backup", "rename"}
    /\ Return(p, "failed")
    /\ UNCHANGED <<disk, handle, held, promised>>

\* The previous document is copied aside; there is none on the first Save.
SaveBackup(p) ==
    /\ pc[p] = "backup"
    /\ IF file = Absent
       THEN UNCHANGED <<backup, backupSurvivors>>
       ELSE /\ backup' = file
            /\ backupSurvivors' = backupSurvivors \cup {file}
    /\ pc' = [pc EXCEPT ![p] = "rename"]
    /\ UNCHANGED <<file, fileSurvivors, flock, handle, held, result,
                   promised>>

\* The document that State h marshals.
Successor(h) == [serial |-> h.serial + 1, body |-> h.body]

\* Mutation of Advanced: the base would follow once the directory is synced.
AdvancedLate(h, doc) ==
    [serial |-> doc.serial, base |-> h.base, body |-> doc.body, origin |-> doc]

\* State h once doc is at the path.
Advanced(h, doc) ==
    [serial |-> doc.serial, base |-> doc.serial, body |-> doc.body, origin |-> doc]

\* The rename is visible; the State's serial and base follow it at once.
SaveRename(p) ==
    /\ pc[p] = "rename"
    /\ LET next == Successor(handle[p])
       IN  /\ file' = next
           /\ fileSurvivors' = fileSurvivors \cup {next}
           /\ handle' = [handle EXCEPT ![p] = Advanced(handle[p], next)]
    /\ pc' = [pc EXCEPT ![p] = "sync"]
    /\ UNCHANGED <<backup, backupSurvivors, flock, held, result, promised>>

\* Mutation of SaveSync: nil is returned without syncing the directory.
SaveSyncOmitted(p) ==
    /\ pc[p] = "sync"
    /\ promised' = file
    /\ Return(p, "ok")
    /\ UNCHANGED <<disk, handle, held>>

\* syncDir covers both renames of this directory.
SaveSync(p) ==
    /\ pc[p] = "sync"
    /\ fileSurvivors' = {file}
    /\ backupSurvivors' = {backup}
    /\ promised' = file
    /\ Return(p, "ok")
    /\ UNCHANGED <<file, backup, handle, held>>

SaveSyncFails(p) ==
    /\ pc[p] = "sync"
    /\ Return(p, "failed")
    /\ UNCHANGED <<disk, handle, held, promised>>

SaveStep(p) ==
    \/ SaveAcquire(p) \/ SaveAcquireFails(p)
    \/ SaveCheck(p) \/ SaveRefused(p) \/ SaveBackup(p)
    \/ SaveRename(p)
    \/ SaveSync(p) \/ SaveSyncFails(p)

----------------------------------------------------------------------------
\* What can end a process early.

\* Mutation of Kill: the lock is a file that outlives its owner.
KillLeavesLock(p) ==
    /\ pc[p] # "none"
    /\ pc' = [pc EXCEPT ![p] = "none"]
    /\ handle' = [handle EXCEPT ![p] = FreshHandle]
    /\ held' = held \ {p}
    /\ result' = [result EXCEPT ![p] = "none"]
    /\ UNCHANGED <<disk, flock, promised>>

\* A second signal or SIGKILL: the kernel drops the flock with the process.
Kill(p) ==
    /\ pc[p] # "none"
    /\ pc' = [pc EXCEPT ![p] = "none"]
    /\ handle' = [handle EXCEPT ![p] = FreshHandle]
    /\ held' = held \ {p}
    /\ result' = [result EXCEPT ![p] = "none"]
    /\ flock' = IF flock = p THEN NoProc ELSE flock
    /\ UNCHANGED <<disk, promised>>

PowerLoss ==
    /\ file' \in fileSurvivors
    /\ backup' \in backupSurvivors
    /\ fileSurvivors' = {file'}
    /\ backupSurvivors' = {backup'}
    /\ flock' = NoProc
    /\ pc' = [p \in Procs |-> "none"]
    /\ handle' = [p \in Procs |-> FreshHandle]
    /\ held' = {}
    /\ result' = [p \in Procs |-> "none"]
    /\ UNCHANGED promised

Next ==
    \/ \E p \in Procs :
          \/ Load(p) \/ Exit(p)
          \/ Lock(p) \/ LockFails(p) \/ Unlock(p)
          \/ \E body \in Bodies : SaveBegin(p, body)
          \/ SaveStep(p)
          \/ Kill(p)
    \/ PowerLoss

Spec == Init /\ [][Next]_vars

\* A call that has started keeps running: the goroutine is scheduled and
\* acquireLock's timer fires.  Nothing obliges a holder to unlock.
Fairness == \A p \in Procs : WF_vars(SaveStep(p))

FairSpec == Spec /\ Fairness

----------------------------------------------------------------------------
\* Type invariant: every variable keeps the shape the code gives it.
TypeOK ==
    /\ file \in Documents
    /\ backup \in Documents
    /\ fileSurvivors \subseteq Documents
    /\ backupSurvivors \subseteq Documents
    /\ flock \in Procs \cup {NoProc}
    /\ pc \in [Procs -> Saving \cup {"none", "loaded"}]
    /\ handle \in [Procs -> Handles]
    /\ held \subseteq Procs
    /\ result \in [Procs -> {"none", "ok", "conflict", "failed"}]
    /\ promised \in Documents

\* No lost update: the document a Save is about to replace is the very one
\* its State was loaded from or last wrote - not another with its serial.
NoLostUpdate ==
    \A p \in Procs :
        pc[p] \in {"backup", "rename"} => handle[p].origin = file

\* A Save that returned nil survives any power loss, until a later Save
\* replaces its document.
PromisedSurvives ==
    \A d \in fileSurvivors :
        \/ d.serial > promised.serial
        \/ d = promised

\* Inside a locked operation no Save and no retry of a failed Save meets a
\* false ErrConcurrentModification, a failed directory sync included.
NoFalseConflict ==
    \A p \in Procs :
        p \in held => handle[p].base = file.serial

\* While a process holds the operation lock, only its own Save (or a power
\* loss) changes the state or its backup: no other process's checkpoint
\* comes between two of its own.
OperationIsolated ==
    [][\A p \in Procs :
          p \in held /\ p \in held'
             => \/ <<file', backup'>> = <<file, backup>>
                \/ pc[p] \in {"backup", "rename"} /\ pc'[p] # pc[p]]_vars

\* A Save that is going to report ErrConcurrentModification has not touched
\* the backup: whoever replaces the backup works from the current serial.
BackupOnlyFromCurrent ==
    [][backup' # backup =>
          \/ \A p \in Procs : pc'[p] = "none"
          \/ \E p \in Procs : /\ pc[p] = "backup"
                              /\ flock = p
                              /\ handle[p].base = file.serial]_vars

\* The serial on disk grows by exactly one with every replacement, and only
\* a power loss takes it back.
SerialByOne ==
    [][file' # file => \/ file'.serial = file.serial + 1
                       \/ \A p \in Procs : pc'[p] = "none"]_vars

\* A started Save returns (or dies) even if the lock's holder never lets go:
\* acquireLock gives up.
SaveReturns ==
    \A p \in Procs : (pc[p] \in Saving) ~> (pc[p] \notin Saving)

\* The file, its lock and its durability implement the versioned register.
Register == INSTANCE StateRegister
    WITH current <- file, survivors <- fileSurvivors, owner <- flock,
         seen <- [p \in Procs |-> handle[p].origin]

ImplementsRegister == Register!RegisterSpec
============================================================================
