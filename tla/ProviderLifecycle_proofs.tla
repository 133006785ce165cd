---------------------- MODULE ProviderLifecycle_proofs ----------------------
(***************************************************************************)
(* Proofs about ProviderLifecycle for any number of providers.             *)
(***************************************************************************)
EXTENDS ProviderLifecycle, TLAPS

\* The launches that have not begun.
Ahead(n) == n > next \/ (n = next /\ phase = "launch")

\* Nothing has happened to a provider that is still ahead.
FreshInv ==
    \A n \in Providers : Ahead(n) =>
        /\ start[n] = "none" /\ process[n] = "none"
        /\ hook[n] = "none" /\ command[n] = "live"
        /\ n \notin clients

\* Where the command is in its loop, and whose launch it is about.
PhaseInv ==
    /\ phase \in {"select", "kill", "setup"} => next \in Providers
    /\ phase \in {"select", "kill"} => next \notin clients
    /\ phase = "setup" => next \in clients
    /\ phase = "returned" => clients = {}

\* A client's start is over, and a launch whose hook has not fired has a live
\* process context.
StartInv ==
    /\ \A n \in clients : start[n] = "connected"
    /\ phase = "select" /\ hook[next] = "armed" => command[next] = "live"

\* Without an error every provider behind the loop is a client.
LoopInv ==
    /\ ~erred /\ phase \in {"launch", "select", "kill", "setup"} =>
           \A n \in Providers : n < next => n \in clients
    /\ phase \in {"working", "prompt", "confirmed"} => clients = Providers

\* The inductive invariant.
IInv ==
    /\ TypeOK
    /\ FreshInv
    /\ PhaseInv
    /\ StartInv
    /\ LoopInv
    /\ OwnedOrGone
    /\ DetachedFromCancellation

USE NAssumption DEF Providers

\* Nothing is launched when a command starts.
LEMMA InitInv == Init => IInv
<1> SUFFICES ASSUME Init PROVE IInv
  OBVIOUS
<1> USE DEF Init
<1>1. TypeOK
  <2>1. next \in 1..(N + 1)
    BY SMT
  <2>2. /\ hook \in [Providers -> {"none", "armed", "fired", "ran", "stopped"}]
        /\ command \in [Providers -> {"live", "cancelled"}]
        /\ start \in [Providers -> {"none", "starting", "locked", "handshake", "agreed",
                                    "connected", "failed"}]
        /\ process \in [Providers -> {"none", "running", "dead"}]
    BY Zenon
  <2>3. QED
    BY <2>1, <2>2, Zenon DEF TypeOK
<1>2. FreshInv
  BY SMT DEF FreshInv, Ahead
<1>3. PhaseInv
  BY SMT DEF PhaseInv
<1>4. StartInv
  BY SMT DEF StartInv
<1>5. LoopInv
  BY SMT DEF LoopInv
<1>6. OwnedOrGone
  BY SMT DEF OwnedOrGone, RunsOrWill
<1>7. DetachedFromCancellation
  BY SMT DEF DetachedFromCancellation
<1>8. QED
  BY <1>1, <1>2, <1>3, <1>4, <1>5, <1>6, <1>7 DEF IInv

\* No step of the command, of a goroutine, of a provider or of the user breaks
\* the invariant.
LEMMA Preserved == IInv /\ [Next]_vars => IInv'
<1> SUFFICES ASSUME IInv, [Next]_vars PROVE IInv'
  OBVIOUS
<1> USE DEF IInv, TypeOK, FreshInv, PhaseInv, StartInv, LoopInv, OwnedOrGone,
        RunsOrWill, DetachedFromCancellation, Ahead
<1>1. CASE NotInstalled
  BY <1>1, SMT DEF NotInstalled, GiveUp
<1>2. CASE Launched
  <2>1. TypeOK'
    BY <1>2, SMT DEF Launched
  <2>2. FreshInv'
    BY <1>2, SMT DEF Launched
  <2>3. PhaseInv'
    BY <1>2, SMT DEF Launched
  <2>4. StartInv'
    BY <1>2, SMT DEF Launched
  <2>5. LoopInv'
    <3>1. next = N + 1
      BY <1>2, SMT DEF Launched
    <3>2. ASSUME ~erred PROVE clients = Providers
      <4>1. Providers \subseteq clients
        BY <1>2, <3>1, <3>2, SMT DEF Launched
      <4>2. QED
        BY <4>1
    <3>3. QED
      BY <1>2, <3>2, SMT DEF Launched
  <2>6. OwnedOrGone'
    BY <1>2, SMT DEF Launched
  <2>7. DetachedFromCancellation'
    BY <1>2, SMT DEF Launched
  <2>8. QED
    BY <2>1, <2>2, <2>3, <2>4, <2>5, <2>6, <2>7
<1>3. CASE SetUp
  <2>1. TypeOK'
    <3>1. next \in 1..N /\ next + 1 \in 1..(N + 1)
      BY <1>3, SMT DEF SetUp
    <3>2. phase' \in {"launch", "closing"} /\ next' \in {next, next + 1} /\ erred' \in BOOLEAN
      BY <1>3, Zenon DEF SetUp, GiveUp
    <3>3. QED
      BY <1>3, <3>1, <3>2, SMT DEF SetUp
  <2>2. FreshInv'
    BY <1>3, SMT DEF SetUp, GiveUp
  <2>3. PhaseInv'
    BY <1>3, SMT DEF SetUp, GiveUp
  <2>4. StartInv'
    BY <1>3, SMT DEF SetUp, GiveUp
  <2>5. LoopInv'
    BY <1>3, SMT DEF SetUp, GiveUp
  <2>6. OwnedOrGone'
    BY <1>3, SMT DEF SetUp, GiveUp
  <2>7. DetachedFromCancellation'
    BY <1>3, SMT DEF SetUp, GiveUp
  <2>8. QED
    BY <2>1, <2>2, <2>3, <2>4, <2>5, <2>6, <2>7
<1>4. CASE Finish
  BY <1>4, SMT DEF Finish
<1>4a. CASE Ask
  BY <1>4a, SMT DEF Ask
<1>4b. CASE Confirm
  BY <1>4b, SMT DEF Confirm
<1>5. CASE Launch
  BY <1>5, SMT DEF Launch
<1>6. CASE TakeResult
  <2>a. /\ hook' \in [Providers -> {"none", "armed", "fired", "ran", "stopped"}]
        /\ hook'[next] # "armed"
        /\ hook[next] = "armed" => hook'[next] = "stopped"
        /\ \A n \in Providers : n # next => hook'[n] = hook[n]
        /\ next \in Providers
    BY <1>6, SMT DEF TakeResult
  <2>b. \/ /\ Detached(next)
           /\ start[next] = "connected"
           /\ phase' = "setup"
           /\ clients' = clients \cup {next}
        \/ phase' = "kill" /\ clients' = clients
    BY <1>6 DEF TakeResult
  <2>c. /\ phase = "select"
        /\ UNCHANGED <<mode, mute, next, erred, cancelled, command, start, process>>
    BY <1>6 DEF TakeResult
  <2>1. TypeOK'
    <3>1. clients' \subseteq Providers /\ phase' \in {"setup", "kill"}
      BY <2>a, <2>b, Zenon
    <3>2. QED
      BY <2>a, <2>c, <3>1, Zenon
  <2>2. FreshInv'
    BY <1>6, SMT DEF TakeResult, Detached
  <2>3. PhaseInv'
    BY <1>6, SMT DEF TakeResult, Detached
  <2>4. StartInv'
    <3>1. phase' # "select" /\ \A n \in clients' : start[n] = "connected"
      BY <2>b, Zenon
    <3>2. QED
      BY <2>c, <3>1, Zenon
  <2>5. LoopInv'
    BY <1>6, SMT DEF TakeResult, Detached
  <2>6. OwnedOrGone'
    BY <1>6, SMT DEF TakeResult, Detached
  <2>7. DetachedFromCancellation'
    <3>1. next \notin clients /\ clients \subseteq Providers
      BY <2>c, Zenon
    <3>2. \A n \in clients : command[n] = "live" /\ hook'[n] = "stopped"
      BY <2>a, <3>1, ZenonT(40)
    <3>3. next \in clients' => command[next] = "live" /\ hook'[next] = "stopped"
      BY <2>a, <2>b, <2>c, <3>1, Zenon DEF Detached
    <3>4. command' = command /\ \A n \in clients' : n \in clients \/ n = next
      BY <2>b, <2>c, Zenon
    <3>5. \A n \in clients' : command[n] = "live" /\ hook'[n] = "stopped"
      BY <3>2, <3>3, <3>4, Zenon
    <3>6. QED
      BY <3>4, <3>5, Zenon
  <2>8. QED
    BY <2>1, <2>2, <2>3, <2>4, <2>5, <2>6, <2>7
<1>7. CASE TakeCancellation
  BY <1>7, SMT DEF TakeCancellation
<1>8. CASE KillFailed
  <2>1. TypeOK'
    BY <1>8, SMT DEF KillFailed, Unlocked, GiveUp
  <2>2. FreshInv'
    BY <1>8, SMT DEF KillFailed, Unlocked, GiveUp
  <2>3. PhaseInv'
    BY <1>8, SMT DEF KillFailed, Unlocked, GiveUp
  <2>4. StartInv'
    BY <1>8, SMT DEF KillFailed, Unlocked, GiveUp
  <2>5. LoopInv'
    BY <1>8, SMT DEF KillFailed, Unlocked, GiveUp
  <2>6. OwnedOrGone'
    BY <1>8, SMT DEF KillFailed, Unlocked, GiveUp
  <2>7. DetachedFromCancellation'
    BY <1>8, SMT DEF KillFailed, Unlocked, GiveUp
  <2>8. QED
    BY <2>1, <2>2, <2>3, <2>4, <2>5, <2>6, <2>7
<1>9. ASSUME NEW n \in Providers, Close(n) PROVE IInv'
  BY <1>9, SMT DEF Close, StopReturns
<1>10. CASE Return
  BY <1>10, SMT DEF Return
<1>10a. ASSUME NEW n \in Providers, StartLocks(n) PROVE IInv'
  BY <1>10a, SMT DEF StartLocks
<1>11. ASSUME NEW n \in Providers, Spawn(n) PROVE IInv'
  <2>1. TypeOK'
    BY <1>11, SMT DEF Spawn
  <2>2. FreshInv'
    BY <1>11, SMT DEF Spawn
  <2>3. PhaseInv'
    BY <1>11, SMT DEF Spawn
  <2>4. StartInv'
    BY <1>11, SMT DEF Spawn
  <2>5. LoopInv'
    BY <1>11, SMT DEF Spawn
  <2>6. OwnedOrGone'
    BY <1>11, SMT DEF Spawn
  <2>7. DetachedFromCancellation'
    BY <1>11, SMT DEF Spawn
  <2>8. QED
    BY <2>1, <2>2, <2>3, <2>4, <2>5, <2>6, <2>7
<1>11a. ASSUME NEW n \in Providers, Agreed(n) PROVE IInv'
  BY <1>11a, SMT DEF Agreed
<1>12. ASSUME NEW n \in Providers, Connected(n) PROVE IInv'
  BY <1>12, SMT DEF Connected
<1>13. ASSUME NEW n \in Providers, NotConnected(n) PROVE IInv'
  BY <1>13, SMT DEF NotConnected
<1>14. ASSUME NEW n \in Providers, HookFires(n) PROVE IInv'
  BY <1>14, SMT DEF HookFires
<1>15. ASSUME NEW n \in Providers, HookRuns(n) PROVE IInv'
  <2>a. \A m \in Providers : Ahead(m) => hook[m] = "none"
    OBVIOUS
  <2>1. TypeOK'
    BY <1>15, SMT DEF HookRuns
  <2>2. FreshInv'
    BY <1>15, <2>a, SMT DEF HookRuns
  <2>3. PhaseInv'
    BY <1>15, SMT DEF HookRuns
  <2>4. StartInv'
    BY <1>15, SMT DEF HookRuns
  <2>5. LoopInv'
    BY <1>15, SMT DEF HookRuns
  <2>6. OwnedOrGone'
    BY <1>15, SMT DEF HookRuns
  <2>7. DetachedFromCancellation'
    BY <1>15, SMT DEF HookRuns
  <2>8. QED
    BY <2>1, <2>2, <2>3, <2>4, <2>5, <2>6, <2>7
<1>16. ASSUME NEW n \in Providers, Reaped(n) PROVE IInv'
  BY <1>16, SMT DEF Reaped
<1>17. ASSUME NEW n \in Providers, Crash(n) PROVE IInv'
  BY <1>17, SMT DEF Crash
<1>18. ASSUME NEW n \in Providers, Hang(n) PROVE IInv'
  BY <1>18, SMT DEF Hang
<1>19. CASE Cancel
  BY <1>19, SMT DEF Cancel
<1>20. CASE HardKill
  BY <1>20, SMT DEF HardKill
<1>21. CASE UNCHANGED vars
  BY <1>21, SMT DEF vars
<1>22. QED
  BY <1>1, <1>2, <1>3, <1>4, <1>4a, <1>4b, <1>5, <1>6, <1>7, <1>8, <1>9, <1>10,
     <1>10a, <1>11, <1>11a, <1>12, <1>13, <1>14, <1>15, <1>16, <1>17, <1>18, <1>19, <1>20, <1>21, Zenon
     DEF Next, Main, Background, Done

\* The strengthening that the theorems below follow from holds in every
\* reachable state.
THEOREM Inductive == Spec => []IInv
BY InitInv, Preserved, PTL DEF Spec

\* No variable of a command's launching and closing leaves its type; the loop
\* never runs past the declared providers.
THEOREM TypeCorrect == Spec => []TypeOK
<1>1. IInv => TypeOK
  BY DEF IInv
<1>2. QED
  BY Inductive, <1>1, PTL

\* A command that Launch, Build or a signal ends leaves no provider process
\* behind, and no start that could still make one: go-plugin's Kill does not
\* wait for a goroutine that has not come to the startup lock, so the start may
\* outlive the command's launch, but the context it would need is then done.
THEOREM NoOrphans == Spec => []OwnedOrGone
<1>1. IInv => OwnedOrGone
  BY DEF IInv
<1>2. QED
  BY Inductive, <1>1, PTL

\* No cancellation reaches the process of a provider that Launch returned.
THEOREM ClientsDetached == Spec => []DetachedFromCancellation
<1>1. IInv => DetachedFromCancellation
  BY DEF IInv
<1>2. QED
  BY Inductive, <1>1, PTL

\* The launching loops give a command all its providers or an error.
THEOREM AllOrError == Spec => []WorksWithAll
<1>1. IInv => WorksWithAll
  BY DEF IInv, LoopInv, StartInv, WorksWithAll
<1>2. QED
  BY Inductive, <1>1, PTL
=============================================================================
