-------------------------- MODULE StateFile_proofs --------------------------
(***************************************************************************)
(* What StateFile's runs check on two processes, proved for any number of  *)
(* processes, any documents and any bound on the serial.                   *)
(***************************************************************************)
EXTENDS StateFile, TLAPS

\* A process inside a locked operation or past the acquisition in Save.
InLock(p) == p \in held \/ pc[p] \in Writing

\* The flock belongs to whoever relies on it, hence to one process at most.
LockInv ==
    \A p \in Procs :
        /\ InLock(p) => flock = p
        /\ p \in held => pc[p] \notin {"none", "acquire"}
        /\ flock = p => InLock(p)

\* A State's three views of its serial agree, and what it was loaded from is
\* not ahead of the disk.  Among documents a live State may derive from, the
\* serial identifies the document.
HandleInv ==
    \A p \in Procs : pc[p] # "none" =>
        /\ handle[p].serial = handle[p].base
        /\ handle[p].origin.serial = handle[p].base
        /\ handle[p].base <= file.serial
        /\ handle[p].base = file.serial => handle[p].origin = file

\* Past its compare, or inside a locked operation, a State is current.
CurrentInv ==
    \A p \in Procs :
        \/ p \in held
        \/ pc[p] \in {"backup", "rename", "sync"}
        => handle[p].base = file.serial

\* A power loss cannot reach behind the last acknowledged document.
DurableInv ==
    /\ file \in fileSurvivors
    /\ backup \in backupSurvivors
    /\ \A d \in fileSurvivors : d.serial > promised.serial \/ d = promised

\* The inductive invariant.
IInv == TypeOK /\ LockInv /\ HandleInv /\ CurrentInv /\ DurableInv

USE DEF Documents, Handles, Saving, Writing, disk

----------------------------------------------------------------------------

\* Before the first command there is no document, no lock and no handle.
LEMMA InitEstablishes == Init => IInv
  BY StateFileAssumption
  DEF Init, IInv, TypeOK, LockInv, InLock, HandleInv, CurrentInv, DurableInv,
      Absent, FreshHandle

\* Type correctness: no operation of internal/state gives a variable a value
\* outside its type.
LEMMA StepKeepsTypes ==
    TypeOK /\ HandleInv /\ [Next]_vars => TypeOK'
  <1> SUFFICES ASSUME TypeOK, [Next]_vars PROVE TypeOK'
    OBVIOUS
  <1> USE StateFileAssumption DEF TypeOK
  <1>0. Absent \in Documents /\ FreshHandle \in Handles
    BY DEF Absent, FreshHandle
  <1>1. ASSUME NEW p \in Procs, Load(p) PROVE TypeOK'
    BY <1>1 DEF Load
  <1>2. ASSUME NEW p \in Procs, Exit(p) PROVE TypeOK'
    BY <1>0, <1>2 DEF Exit
  <1>3. ASSUME NEW p \in Procs, Lock(p) PROVE TypeOK'
    BY <1>3, SMTT(30) DEF Lock
  <1>4. ASSUME NEW p \in Procs, LockFails(p) PROVE TypeOK'
    BY <1>4 DEF LockFails
  <1>5. ASSUME NEW p \in Procs, Unlock(p) PROVE TypeOK'
    BY <1>5 DEF Unlock
  <1>6. ASSUME NEW p \in Procs, NEW b \in Bodies, SaveBegin(p, b) PROVE TypeOK'
    BY <1>6 DEF SaveBegin
  <1>7. ASSUME NEW p \in Procs, SaveAcquire(p) \/ SaveAcquireFails(p) PROVE TypeOK'
    BY <1>7 DEF SaveAcquire, SaveAcquireFails
  <1>8. ASSUME NEW p \in Procs, SaveCheck(p) \/ SaveRefused(p) PROVE TypeOK'
    BY <1>8 DEF SaveCheck, SaveRefused, Return
  <1>9. ASSUME NEW p \in Procs, SaveBackup(p) PROVE TypeOK'
    BY <1>9 DEF SaveBackup
  <1>10. ASSUME NEW p \in Procs, SaveRename(p) PROVE TypeOK'
    <2> DEFINE next == [serial |-> handle[p].serial + 1, body |-> handle[p].body]
    <2>1. next \in Documents
      OBVIOUS
    <2>2. handle' \in [Procs -> Handles]
      BY <1>10, <2>1 DEF SaveRename, Successor, Advanced
    <2>3. file' \in Documents /\ fileSurvivors' \subseteq Documents
      BY <1>10, <2>1 DEF SaveRename, Successor, Advanced
    <2>4. pc' \in [Procs -> Saving \cup {"none", "loaded"}]
      BY <1>10 DEF SaveRename, Successor, Advanced
    <2> QED
      BY <1>10, <2>2, <2>3, <2>4 DEF SaveRename, Successor, Advanced
  <1>11. ASSUME NEW p \in Procs, SaveSync(p) \/ SaveSyncFails(p) PROVE TypeOK'
    BY <1>11 DEF SaveSync, SaveSyncFails, Return
  <1>12. ASSUME NEW p \in Procs, Kill(p) PROVE TypeOK'
    BY <1>0, <1>12 DEF Kill
  <1>13. CASE PowerLoss
    BY <1>0, <1>13 DEF PowerLoss
  <1>14. CASE UNCHANGED vars
    BY <1>14 DEF vars
  <1> QED
    BY <1>1, <1>2, <1>3, <1>4, <1>5, <1>6, <1>7, <1>8, <1>9, <1>10, <1>11,
       <1>12, <1>13, <1>14 DEF Next, SaveStep

\* No process loses the lock to another, and none keeps it past its use.
LEMMA StepKeepsLock ==
    TypeOK /\ LockInv /\ [Next]_vars => LockInv'
  <1> SUFFICES ASSUME TypeOK, LockInv, [Next]_vars PROVE LockInv'
    OBVIOUS
  <1> USE StateFileAssumption DEF TypeOK, LockInv, InLock
  <1>1. ASSUME NEW p \in Procs, Load(p) PROVE LockInv'
    BY <1>1 DEF Load
  <1>2. ASSUME NEW p \in Procs, Exit(p) PROVE LockInv'
    BY <1>2 DEF Exit, FreshHandle
  <1>3. ASSUME NEW p \in Procs, Lock(p) PROVE LockInv'
    BY <1>3 DEF Lock
  <1>4. ASSUME NEW p \in Procs, LockFails(p) PROVE LockInv'
    BY <1>4 DEF LockFails
  <1>5. ASSUME NEW p \in Procs, Unlock(p) PROVE LockInv'
    BY <1>5 DEF Unlock
  <1>6. ASSUME NEW p \in Procs, NEW b \in Bodies, SaveBegin(p, b) PROVE LockInv'
    BY <1>6 DEF SaveBegin
  <1>7. ASSUME NEW p \in Procs, SaveAcquire(p) \/ SaveAcquireFails(p) PROVE LockInv'
    BY <1>7 DEF SaveAcquire, SaveAcquireFails
  <1>8. ASSUME NEW p \in Procs, SaveCheck(p) \/ SaveRefused(p) PROVE LockInv'
    BY <1>8 DEF SaveCheck, SaveRefused, Return
  <1>9. ASSUME NEW p \in Procs, SaveBackup(p) PROVE LockInv'
    BY <1>9 DEF SaveBackup
  <1>10. ASSUME NEW p \in Procs, SaveRename(p) PROVE LockInv'
    BY <1>10 DEF SaveRename, Successor, Advanced
  <1>11. ASSUME NEW p \in Procs, SaveSync(p) \/ SaveSyncFails(p) PROVE LockInv'
    BY <1>11 DEF SaveSync, SaveSyncFails, Return
  <1>12. ASSUME NEW p \in Procs, Kill(p) PROVE LockInv'
    BY <1>12 DEF Kill, FreshHandle
  <1>13. CASE PowerLoss
    BY <1>13 DEF PowerLoss, FreshHandle
  <1>14. CASE UNCHANGED vars
    BY <1>14 DEF vars
  <1> QED
    BY <1>1, <1>2, <1>3, <1>4, <1>5, <1>6, <1>7, <1>8, <1>9, <1>10, <1>11,
       <1>12, <1>13, <1>14 DEF Next, SaveStep

\* Serials of live States stay behind the disk and keep naming one document.
LEMMA StepKeepsHandles ==
    IInv /\ [Next]_vars => HandleInv'
  <1> SUFFICES ASSUME IInv, [Next]_vars PROVE HandleInv'
    OBVIOUS
  <1> USE StateFileAssumption DEF IInv, TypeOK, HandleInv
  <1>1. ASSUME NEW p \in Procs, Load(p) PROVE HandleInv'
    BY <1>1 DEF Load
  <1>2. ASSUME NEW p \in Procs, Exit(p) PROVE HandleInv'
    BY <1>2 DEF Exit
  <1>3. ASSUME NEW p \in Procs, Lock(p) \/ LockFails(p) \/ Unlock(p) PROVE HandleInv'
    BY <1>3 DEF Lock, LockFails, Unlock
  <1>4. ASSUME NEW p \in Procs, NEW b \in Bodies, SaveBegin(p, b) PROVE HandleInv'
    BY <1>4 DEF SaveBegin
  <1>5. ASSUME NEW p \in Procs, SaveAcquire(p) \/ SaveAcquireFails(p) PROVE HandleInv'
    BY <1>5 DEF SaveAcquire, SaveAcquireFails
  <1>6. ASSUME NEW p \in Procs, SaveCheck(p) \/ SaveRefused(p) PROVE HandleInv'
    BY <1>6 DEF SaveCheck, SaveRefused, Return
  <1>7. ASSUME NEW p \in Procs, SaveBackup(p) PROVE HandleInv'
    BY <1>7 DEF SaveBackup
  <1>8. ASSUME NEW p \in Procs, SaveRename(p) PROVE HandleInv'
    <2>1. handle[p].base = file.serial /\ handle[p].serial = file.serial
      BY <1>8 DEF SaveRename, Successor, Advanced, CurrentInv
    <2>2. file'.serial = file.serial + 1
      BY <1>8, <2>1 DEF SaveRename, Successor, Advanced
    <2>3. ASSUME NEW q \in Procs, q # p, pc'[q] # "none"
          PROVE  /\ handle'[q] = handle[q] /\ pc'[q] = pc[q]
                 /\ handle[q].base < file'.serial
      BY <1>8, <2>2, <2>3 DEF SaveRename, Successor, Advanced
    <2> QED
      BY <1>8, <2>1, <2>2, <2>3 DEF SaveRename, Successor, Advanced
  <1>9. ASSUME NEW p \in Procs, SaveSync(p) \/ SaveSyncFails(p) PROVE HandleInv'
    BY <1>9 DEF SaveSync, SaveSyncFails, Return
  <1>10. ASSUME NEW p \in Procs, Kill(p) PROVE HandleInv'
    BY <1>10 DEF Kill
  <1>11. CASE PowerLoss
    BY <1>11 DEF PowerLoss
  <1>12. CASE UNCHANGED vars
    BY <1>12 DEF vars
  <1> QED
    BY <1>1, <1>2, <1>3, <1>4, <1>5, <1>6, <1>7, <1>8, <1>9, <1>10, <1>11,
       <1>12 DEF Next, SaveStep

\* A current State stays current: nobody else can rename while it relies on
\* the flock.
LEMMA StepKeepsCurrent ==
    IInv /\ [Next]_vars => CurrentInv'
  <1> SUFFICES ASSUME IInv, [Next]_vars PROVE CurrentInv'
    OBVIOUS
  <1> USE StateFileAssumption DEF IInv, TypeOK, CurrentInv
  <1>1. ASSUME NEW p \in Procs, Load(p) PROVE CurrentInv'
    BY <1>1 DEF Load, LockInv
  <1>2. ASSUME NEW p \in Procs, Exit(p) PROVE CurrentInv'
    BY <1>2 DEF Exit
  <1>3. ASSUME NEW p \in Procs, Lock(p) \/ LockFails(p) \/ Unlock(p) PROVE CurrentInv'
    BY <1>3 DEF Lock, LockFails, Unlock
  <1>4. ASSUME NEW p \in Procs, NEW b \in Bodies, SaveBegin(p, b) PROVE CurrentInv'
    BY <1>4 DEF SaveBegin
  <1>5. ASSUME NEW p \in Procs, SaveAcquire(p) \/ SaveAcquireFails(p) PROVE CurrentInv'
    BY <1>5 DEF SaveAcquire, SaveAcquireFails
  <1>6. ASSUME NEW p \in Procs, SaveCheck(p) \/ SaveRefused(p) PROVE CurrentInv'
    BY <1>6 DEF SaveCheck, SaveRefused, Return
  <1>7. ASSUME NEW p \in Procs, SaveBackup(p) PROVE CurrentInv'
    BY <1>7 DEF SaveBackup
  <1>8. ASSUME NEW p \in Procs, SaveRename(p) PROVE CurrentInv'
    <2>1. ASSUME NEW q \in Procs, q # p
          PROVE  q \notin held /\ pc[q] \notin {"backup", "rename", "sync"}
      BY <1>8, <2>1 DEF SaveRename, Successor, Advanced, LockInv, InLock
    <2>2. file'.serial = handle'[p].base
      BY <1>8 DEF SaveRename, Successor, Advanced
    <2>3. \A q \in Procs : q # p => pc'[q] = pc[q]
      BY <1>8 DEF SaveRename, Successor, Advanced
    <2>4. held' = held
      BY <1>8 DEF SaveRename, Successor, Advanced
    <2> QED
      BY <2>1, <2>2, <2>3, <2>4
  <1>9. ASSUME NEW p \in Procs, SaveSync(p) \/ SaveSyncFails(p) PROVE CurrentInv'
    BY <1>9 DEF SaveSync, SaveSyncFails, Return
  <1>10. ASSUME NEW p \in Procs, Kill(p) PROVE CurrentInv'
    BY <1>10 DEF Kill
  <1>11. CASE PowerLoss
    BY <1>11 DEF PowerLoss
  <1>12. CASE UNCHANGED vars
    BY <1>12 DEF vars
  <1> QED
    BY <1>1, <1>2, <1>3, <1>4, <1>5, <1>6, <1>7, <1>8, <1>9, <1>10, <1>11,
       <1>12 DEF Next, SaveStep

\* Only renames add survivors, and a rename's serial is past the promise.
LEMMA StepKeepsDurable ==
    IInv /\ [Next]_vars => DurableInv'
  <1> SUFFICES ASSUME IInv, [Next]_vars PROVE DurableInv'
    OBVIOUS
  <1> USE StateFileAssumption DEF IInv, TypeOK, DurableInv
  <1>1. CASE UNCHANGED <<disk, promised>>
    BY <1>1
  <1>2. ASSUME NEW p \in Procs, SaveBackup(p) PROVE DurableInv'
    BY <1>2 DEF SaveBackup
  <1>3. ASSUME NEW p \in Procs, SaveRename(p) PROVE DurableInv'
    <2>1. file'.serial = file.serial + 1 /\ file' \in fileSurvivors'
      BY <1>3 DEF SaveRename, Successor, Advanced, CurrentInv, HandleInv
    <2>2. file'.serial > promised.serial
      <3>1. file.serial > promised.serial \/ file = promised
        OBVIOUS
      <3>2. file.serial \in Nat /\ promised.serial \in Nat
        OBVIOUS
      <3> QED
        BY <2>1, <3>1, <3>2
    <2> QED
      BY <1>3, <2>1, <2>2 DEF SaveRename, Successor, Advanced
  <1>4. ASSUME NEW p \in Procs, SaveSync(p) PROVE DurableInv'
    BY <1>4 DEF SaveSync
  <1>5. CASE PowerLoss
    BY <1>5 DEF PowerLoss
  <1> QED
    BY <1>1, <1>2, <1>3, <1>4, <1>5
    DEF Next, SaveStep, vars, Load, Exit, Lock, LockFails, Unlock, SaveBegin,
        SaveAcquire, SaveAcquireFails, SaveCheck, SaveRefused, SaveSyncFails,
        Kill

\* The strengthening holds in every reachable state.
THEOREM Inductive == Spec => []IInv
  <1>1. IInv /\ [Next]_vars => IInv'
    BY StepKeepsTypes, StepKeepsLock, StepKeepsHandles, StepKeepsCurrent,
       StepKeepsDurable DEF IInv
  <1> QED
    BY InitEstablishes, <1>1, PTL DEF Spec

----------------------------------------------------------------------------

\* Every variable of the state package keeps its type.
THEOREM TypeCorrect == Spec => []TypeOK
  BY Inductive, PTL DEF IInv

\* No lost update: a Save replaces exactly the document its State derives
\* from, whatever other processes loaded, saved or died in between.
THEOREM NoUpdateLost == Spec => []NoLostUpdate
  <1>1. IInv => NoLostUpdate
    BY DEF IInv, HandleInv, CurrentInv, NoLostUpdate
  <1> QED
    BY <1>1, Inductive, PTL

\* A document whose Save returned nil outlives any power loss.
THEOREM PromiseKept == Spec => []PromisedSurvives
  <1>1. IInv => PromisedSurvives
    BY DEF IInv, DurableInv, PromisedSurvives
  <1> QED
    BY <1>1, Inductive, PTL

\* Within a locked operation a Save never reports a conflict that is none,
\* not even after a failed directory sync.
THEOREM ConflictsAreReal == Spec => []NoFalseConflict
  <1>1. IInv => NoFalseConflict
    BY DEF IInv, CurrentInv, NoFalseConflict
  <1> QED
    BY <1>1, Inductive, PTL

\* Between two of a locked operation's own checkpoints nobody else's Save
\* touches the state or its backup.
THEOREM OperationsIsolated == Spec => OperationIsolated
  <1> DEFINE Isolated ==
        \A p \in Procs :
          p \in held /\ p \in held'
             => \/ <<file', backup'>> = <<file, backup>>
                \/ pc[p] \in {"backup", "rename"} /\ pc'[p] # pc[p]
  <1>1. IInv /\ [Next]_vars => [Isolated]_vars
    <2> SUFFICES ASSUME IInv, [Next]_vars, NEW p \in held, p \in held', p \in Procs,
                        <<file', backup'>> # <<file, backup>>
                 PROVE  pc[p] \in {"backup", "rename"} /\ pc'[p] # pc[p]
      OBVIOUS
    <2> USE DEF IInv, TypeOK
    <2>1. ~PowerLoss
      BY DEF PowerLoss
    <2>2. PICK q \in Procs : SaveBackup(q) \/ SaveRename(q)
      BY <2>1 DEF Next, SaveStep, vars, Load, Exit, Lock, LockFails, Unlock,
         SaveBegin, SaveAcquire, SaveAcquireFails, SaveCheck, SaveRefused,
         SaveSync, SaveSyncFails, Kill
    <2>3. flock = p /\ flock = q
      BY <2>2 DEF LockInv, InLock, SaveBackup, SaveRename, Successor, Advanced
    <2> QED
      BY <2>2, <2>3 DEF SaveBackup, SaveRename, Successor, Advanced
  <1> QED
    BY <1>1, Inductive, PTL DEF Spec, OperationIsolated

\* A Save that is going to report a conflict has left the backup alone: only
\* the lock's owner, working from the serial on disk, replaces the backup.
THEOREM BackupFollowsCompare == Spec => BackupOnlyFromCurrent
  <1> DEFINE Compared == backup' # backup =>
          \/ \A p \in Procs : pc'[p] = "none"
          \/ \E p \in Procs : /\ pc[p] = "backup"
                              /\ flock = p
                              /\ handle[p].base = file.serial
  <1>1. IInv /\ [Next]_vars => [Compared]_vars
    <2> SUFFICES ASSUME IInv, [Next]_vars, backup' # backup PROVE Compared
      OBVIOUS
    <2> USE DEF IInv, TypeOK
    <2>1. CASE PowerLoss
      BY <2>1 DEF PowerLoss
    <2>2. ASSUME NEW p \in Procs, SaveBackup(p) PROVE Compared
      BY <2>2 DEF SaveBackup, LockInv, InLock, CurrentInv
    <2> QED
      BY <2>1, <2>2 DEF Next, SaveStep, vars, Load, Exit, Lock, LockFails,
         Unlock, SaveBegin, SaveAcquire, SaveAcquireFails, SaveCheck,
         SaveRefused, SaveRename, SaveSync, SaveSyncFails, Kill
  <1> QED
    BY <1>1, Inductive, PTL DEF Spec, BackupOnlyFromCurrent

\* The serial on disk counts the replacements one by one.
THEOREM SerialCounts == Spec => SerialByOne
  <1> DEFINE ByOne == file' # file => \/ file'.serial = file.serial + 1
                                     \/ \A p \in Procs : pc'[p] = "none"
  <1>1. IInv /\ [Next]_vars => [ByOne]_vars
    <2> SUFFICES ASSUME IInv, [Next]_vars, file' # file PROVE ByOne
      OBVIOUS
    <2> USE DEF IInv, TypeOK
    <2>1. CASE PowerLoss
      BY <2>1 DEF PowerLoss
    <2>2. CASE \E q \in Procs : SaveRename(q)
      BY <2>2 DEF SaveRename, Successor, Advanced, CurrentInv, HandleInv
    <2> QED
      BY <2>1, <2>2 DEF Next, SaveStep, vars, Load, Exit, Lock, LockFails,
         Unlock, SaveBegin, SaveAcquire, SaveAcquireFails, SaveCheck,
         SaveRefused, SaveBackup, SaveSync, SaveSyncFails, Kill
  <1> QED
    BY <1>1, Inductive, PTL DEF Spec, SerialByOne

----------------------------------------------------------------------------
\* The refinement: one lemma per kind of step.

\* A step that leaves file, survivors, promise, lock and origins alone is a
\* stutter of the register.
LEMMA RegisterStutters ==
    UNCHANGED <<file, fileSurvivors, promised, flock, handle>>
      => UNCHANGED Register!regVars
  BY DEF Register!regVars

\* Giving the lock back, or keeping it: how every call returns.
LEMMA RegisterReturns ==
    ASSUME IInv, NEW p \in Procs, pc[p] \in Writing, NEW o,
           Return(p, o), UNCHANGED <<file, fileSurvivors, promised, handle>>
    PROVE  Register!Release(p) \/ UNCHANGED Register!regVars
  BY DEF IInv, LockInv, InLock, Return, Register!Release, Register!regVars

\* A step that only edits the parts of handles the register does not see.
LEMMA OriginsKept ==
    ASSUME TypeOK, NEW p \in Procs, NEW b \in Bodies, SaveBegin(p, b)
    PROVE  [q \in Procs |-> handle[q].origin]'
             = [q \in Procs |-> handle[q].origin]
  BY DEF SaveBegin, TypeOK

\* Refinement: the file protocol implements the versioned register with
\* exclusive sessions, compare-and-swap and durable acknowledgement.
THEOREM Refinement == Spec => ImplementsRegister
  <1>1. Init => Register!RegisterInit
    BY DEF Init, Register!RegisterInit, Register!Absent, Absent, FreshHandle
  <1>2. IInv /\ [Next]_vars => [Register!RegisterNext]_(Register!regVars)
    <2> SUFFICES ASSUME IInv, [Next]_vars
                 PROVE  Register!RegisterNext \/ UNCHANGED Register!regVars
      OBVIOUS
    <2> USE StateFileAssumption DEF IInv, TypeOK
    <2> DEFINE seen == [q \in Procs |-> handle[q].origin]
    <2>1. ASSUME NEW p \in Procs, Load(p) PROVE Register!Observe(p)
      <3>1. seen' = [seen EXCEPT ![p] = file]
        BY <2>1 DEF Load
      <3> QED
        BY <2>1, <3>1 DEF Load, Register!Observe
    <2>2. ASSUME NEW p \in Procs, Exit(p) PROVE Register!Forget(p)
      <3>1. seen' = [seen EXCEPT ![p] = Absent]
        BY <2>2 DEF Exit, FreshHandle
      <3>2. flock # p
        BY <2>2 DEF Exit, LockInv, InLock
      <3> QED
        BY <2>2, <3>1, <3>2 DEF Exit, Register!Forget, Register!Absent, Absent
    <2>3. ASSUME NEW p \in Procs, Lock(p)
          PROVE  Register!Acquire(p) \/ UNCHANGED Register!regVars
      BY <2>3, RegisterStutters DEF Lock, Register!Acquire, Register!regVars
    <2>4. ASSUME NEW p \in Procs, Unlock(p) PROVE Register!Release(p)
      BY <2>4 DEF Unlock, Register!Release, LockInv, InLock
    <2>5. ASSUME NEW p \in Procs, NEW b \in Bodies, SaveBegin(p, b)
          PROVE  UNCHANGED Register!regVars
      BY <2>5, OriginsKept DEF SaveBegin, Register!regVars
    <2>6. ASSUME NEW p \in Procs, SaveAcquire(p) PROVE Register!Acquire(p)
      BY <2>6 DEF SaveAcquire, Register!Acquire
    <2>7. ASSUME NEW p \in Procs,
                 LockFails(p) \/ SaveAcquireFails(p) \/ SaveBackup(p)
          PROVE  UNCHANGED Register!regVars
      BY <2>7, RegisterStutters DEF LockFails, SaveAcquireFails, SaveBackup
    <2>8. ASSUME NEW p \in Procs, SaveCheck(p)
          PROVE  Register!Release(p) \/ UNCHANGED Register!regVars
      BY <2>8, RegisterReturns, RegisterStutters DEF SaveCheck
    <2>9. ASSUME NEW p \in Procs, SaveRefused(p) \/ SaveSyncFails(p)
          PROVE  Register!Release(p) \/ UNCHANGED Register!regVars
      BY <2>9, RegisterReturns DEF SaveRefused, SaveSyncFails
    <2>10. ASSUME NEW p \in Procs, SaveRename(p)
           PROVE  \E b \in Bodies : Register!Commit(p, b)
      <3>1. handle[p].serial = file.serial /\ handle[p].origin = file
        BY <2>10 DEF SaveRename, Successor, Advanced, HandleInv, CurrentInv
      <3>2. flock = p
        BY <2>10 DEF SaveRename, Successor, Advanced, LockInv, InLock
      <3>3. seen' = [seen EXCEPT ![p] = file']
        BY <2>10 DEF SaveRename, Successor, Advanced
      <3>4. PICK b \in Bodies : b = handle[p].body
        OBVIOUS
      <3>5. /\ file' = [serial |-> file.serial + 1, body |-> b]
            /\ fileSurvivors' = fileSurvivors \cup {file'}
            /\ promised' = promised /\ flock' = flock
        BY <2>10, <3>1, <3>4 DEF SaveRename, Successor, Advanced
      <3>6. Register!Commit(p, b)
        BY <3>1, <3>2, <3>3, <3>5 DEF Register!Commit
      <3> QED
        BY <3>6
    <2>11. ASSUME NEW p \in Procs, SaveSync(p) PROVE Register!Acknowledge(p)
      <3>1. handle[p].origin = file
        BY <2>11 DEF SaveSync, HandleInv, CurrentInv
      <3>2. flock = p
        BY <2>11 DEF SaveSync, LockInv, InLock
      <3> QED
        BY <2>11, <3>1, <3>2 DEF SaveSync, Return, Register!Acknowledge
    <2>12. ASSUME NEW p \in Procs, Kill(p) PROVE Register!Forget(p)
      <3>1. seen' = [seen EXCEPT ![p] = Absent]
        BY <2>12 DEF Kill, FreshHandle
      <3> QED
        BY <2>12, <3>1 DEF Kill, Register!Forget, Register!Absent, Absent
    <2>13. ASSUME PowerLoss PROVE Register!Lose
      <3>1. seen' = [q \in Procs |-> Absent]
        BY <2>13 DEF PowerLoss, FreshHandle
      <3> QED
        BY <2>13, <3>1 DEF PowerLoss, Register!Lose, Register!Absent, Absent
    <2>14. CASE UNCHANGED vars
      BY <2>14, RegisterStutters DEF vars
    <2> QED
      BY <2>1, <2>2, <2>3, <2>4, <2>5, <2>6, <2>7, <2>8, <2>9, <2>10, <2>11,
         <2>12, <2>13, <2>14 DEF Next, SaveStep, Register!RegisterNext
  <1> QED
    BY <1>1, <1>2, Inductive, PTL DEF Spec, ImplementsRegister, Register!RegisterSpec
=============================================================================
