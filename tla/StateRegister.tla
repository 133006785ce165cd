--------------------------- MODULE StateRegister ---------------------------
(***************************************************************************)
(* What internal/state promises its callers, without files: one versioned  *)
(* document, replaced only by the session that owns the lock and only when *)
(* that session's copy derives from the document it replaces.  A           *)
(* replacement is visible at once and durable only when acknowledged.      *)
(* StateFile implements this module; the Apply module builds on it.        *)
(***************************************************************************)
EXTENDS Naturals

CONSTANTS Procs,      \* the tchori processes sharing one working directory
          Bodies,     \* what a state document can say besides its serial
          EmptyBody,  \* no resources, no incomplete-apply marker
          NoProc      \* the owner of a free lock

VARIABLES current,   \* the document a reader finds
          survivors, \* the documents a power loss may leave in its place
          promised,  \* the last document whose Save returned nil
          owner,     \* the process that owns the lock, or NoProc
          seen       \* seen[p]: the document p loaded or last wrote

regVars == <<current, survivors, promised, owner, seen>>

Documents == [serial : Nat, body : Bodies]

\* The document Load and readSerial report when there is no file.
Absent == [serial |-> 0, body |-> EmptyBody]

RegisterInit ==
    /\ current = Absent
    /\ survivors = {Absent}
    /\ promised = Absent
    /\ owner = NoProc
    /\ seen = [p \in Procs |-> Absent]

----------------------------------------------------------------------------

\* Reading takes no lock.
Observe(p) ==
    /\ seen' = [seen EXCEPT ![p] = current]
    /\ UNCHANGED <<current, survivors, promised, owner>>

Acquire(p) ==
    /\ owner = NoProc
    /\ owner' = p
    /\ UNCHANGED <<current, survivors, promised, seen>>

Release(p) ==
    /\ owner = p
    /\ owner' = NoProc
    /\ UNCHANGED <<current, survivors, promised, seen>>

\* The compare-and-swap: p replaces exactly the document its copy is made of.
Commit(p, body) ==
    /\ owner = p
    /\ seen[p] = current
    /\ current' = [serial |-> current.serial + 1, body |-> body]
    /\ survivors' = survivors \cup {current'}
    /\ seen' = [seen EXCEPT ![p] = current']
    /\ UNCHANGED <<promised, owner>>

\* The durability barrier succeeds; a lone save gives its lock back with it.
Acknowledge(p) ==
    /\ owner = p
    /\ seen[p] = current
    /\ survivors' = {current}
    /\ promised' = current
    /\ owner' \in {p, NoProc}
    /\ UNCHANGED <<current, seen>>

\* Process p ends, by returning or by being killed.
Forget(p) ==
    /\ seen' = [seen EXCEPT ![p] = Absent]
    /\ owner' = IF owner = p THEN NoProc ELSE owner
    /\ UNCHANGED <<current, survivors, promised>>

\* The host stops: every process is gone and an unacknowledged replacement
\* may be undone.
Lose ==
    /\ current' \in survivors
    /\ survivors' = {current'}
    /\ owner' = NoProc
    /\ seen' = [p \in Procs |-> Absent]
    /\ UNCHANGED promised

RegisterNext ==
    \/ \E p \in Procs :
          \/ Observe(p)
          \/ Acquire(p)
          \/ Release(p)
          \/ \E body \in Bodies : Commit(p, body)
          \/ Acknowledge(p)
          \/ Forget(p)
    \/ Lose

RegisterSpec == RegisterInit /\ [][RegisterNext]_regVars
============================================================================
