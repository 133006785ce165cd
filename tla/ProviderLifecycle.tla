------------------------- MODULE ProviderLifecycle -------------------------
(***************************************************************************)
(* The plugin processes of one command: internal/provider/client.go        *)
(* launches and closes them, internal/runtime.Build (or                    *)
(* buildSensitiveContext in cmd/tchori) launches all that a configuration  *)
(* declares, one after the other.  A termination signal cancels the        *)
(* command's context at any moment, a handshake included.                  *)
(***************************************************************************)
EXTENDS Naturals

CONSTANT N  \* how many providers the command needs

ASSUME NAssumption == N \in Nat

Providers == 1..N

VARIABLES
    mode,      \* "build": an error ends the launching; "schemas": it goes on
    mute,      \* the providers that have stopped answering RPCs
    phase,     \* where the command is
    next,      \* the provider it is launching
    erred,     \* some provider could not be launched or set up
    cancelled, \* the command's context is done
    hook,      \* hook[n]: context.AfterFunc(ctx, cancelCommand)
    command,   \* command[n]: commandCtx, which bounds the process
    start,     \* start[n]: how far the goroutine in go-plugin's Client() is
    process,   \* process[n]: the operating system's process
    clients    \* the launched providers the command will close

vars == <<mode, mute, phase, next, erred, cancelled, hook, command, start,
          process, clients>>

Init ==
    /\ mode \in {"build", "schemas"}
    /\ mute = {}
    /\ phase = "launch"
    /\ next = 1
    /\ erred = FALSE
    /\ cancelled = FALSE
    /\ hook = [n \in Providers |-> "none"]
    /\ command = [n \in Providers |-> "live"]
    /\ start = [n \in Providers |-> "none"]
    /\ process = [n \in Providers |-> "none"]
    /\ clients = {}

----------------------------------------------------------------------------
\* The loop over the declared providers.

\* Mutation of GiveUp: the provider after the one that failed is left out.
GiveUpSkips ==
    /\ erred' = TRUE
    /\ IF mode = "build" THEN phase' = "closing" /\ UNCHANGED next
                         ELSE phase' = "launch" /\ next' = next + 2

\* The command is done with a provider it could not get ready: Build returns,
\* buildSensitiveContext continues and returns after its loop.
GiveUp ==
    /\ erred' = TRUE
    /\ IF mode = "build" THEN phase' = "closing" /\ UNCHANGED next
                         ELSE phase' = "launch" /\ next' = next + 1

\* registry.Discover finds no binary.
NotInstalled ==
    /\ phase = "launch"
    /\ next \in Providers
    /\ GiveUp
    /\ UNCHANGED <<mode, mute, cancelled, hook, command, start, process, clients>>

\* All providers have been tried.
Launched ==
    /\ phase = "launch"
    /\ next \notin Providers
    /\ phase' = IF erred THEN "closing" ELSE "working"
    /\ UNCHANGED <<mode, mute, next, erred, cancelled, hook, command, start,
                   process, clients>>

\* An RPC has no deadline: it waits for an answer, an end of the process or
\* the cancellation of the command's context.
Answers(n) == cancelled \/ n \notin mute \/ process[n] = "dead"

\* Schemas, and in Build Configure: RPCs under the command's context.
SetUp ==
    /\ phase = "setup"
    /\ Answers(next)
    /\ \/ /\ ~cancelled
          /\ process[next] = "running"
          /\ phase' = "launch" /\ next' = next + 1
          /\ UNCHANGED erred
       \/ GiveUp
    /\ UNCHANGED <<mode, mute, cancelled, hook, command, start, process, clients>>

\* A destroy without -out has computed its plan and asks for confirmation.
\* Which command runs is left open: any that Build serves may ask.
Ask ==
    /\ phase = "working"
    /\ mode = "build"
    /\ \A n \in clients : Answers(n)
    /\ phase' = "prompt"
    /\ UNCHANGED <<mode, mute, next, erred, cancelled, hook, command, start,
                   process, clients>>

\* The operator's line or the end of the input: ReadString waits for nothing
\* else, the command's context least of all.
Confirm ==
    /\ phase = "prompt"
    /\ phase' \in {"confirmed", "closing"}
    /\ UNCHANGED <<mode, mute, next, erred, cancelled, hook, command, start,
                   process, clients>>

\* What the command does with its providers ends, with or without success,
\* unless a call waits for ever.
Finish ==
    /\ phase \in {"working", "confirmed"}
    /\ \A n \in clients : Answers(n)
    /\ phase' = "closing"
    /\ UNCHANGED <<mode, mute, next, erred, cancelled, hook, command, start,
                   process, clients>>

----------------------------------------------------------------------------
\* Launch.

\* The caller's cancellation is hooked to the command's, then go-plugin
\* starts in a goroutine of its own.
Launch ==
    /\ phase = "launch"
    /\ next \in Providers
    /\ hook' = [hook EXCEPT ![next] = "armed"]
    /\ start' = [start EXCEPT ![next] = "starting"]
    /\ phase' = "select"
    /\ UNCHANGED <<mode, mute, next, erred, cancelled, command, process, clients>>

\* The goroutine takes go-plugin's startup lock, whenever it is scheduled.
StartLocks(n) ==
    /\ start[n] = "starting"
    /\ start' = [start EXCEPT ![n] = "locked"]
    /\ UNCHANGED <<mode, mute, phase, next, erred, cancelled, hook, command,
                   process, clients>>

\* Mutation of Spawn: the process is not bound to the command's context.
SpawnAnyway(n) ==
    /\ start[n] = "locked"
    /\ process' = [process EXCEPT ![n] = "running"]
    /\ start' = [start EXCEPT ![n] = "handshake"]
    /\ UNCHANGED <<mode, mute, phase, next, erred, cancelled, hook, command, clients>>

\* The process is started unless its context is already done.
Spawn(n) ==
    /\ start[n] = "locked"
    /\ IF command[n] = "live"
       THEN /\ process' = [process EXCEPT ![n] = "running"]
            /\ start' = [start EXCEPT ![n] = "handshake"]
       ELSE /\ start' = [start EXCEPT ![n] = "failed"]
            /\ UNCHANGED process
    /\ UNCHANGED <<mode, mute, phase, next, erred, cancelled, hook, command, clients>>

\* The process has announced its address; the startup lock is free again.
Agreed(n) ==
    /\ start[n] = "handshake"
    /\ process[n] = "running"
    /\ start' = [start EXCEPT ![n] = "agreed"]
    /\ UNCHANGED <<mode, mute, phase, next, erred, cancelled, hook, command,
                   process, clients>>

\* Client() has made its connection, which needs no answer of the process.
Connected(n) ==
    /\ start[n] = "agreed"
    /\ start' = [start EXCEPT ![n] = "connected"]
    /\ UNCHANGED <<mode, mute, phase, next, erred, cancelled, hook, command,
                   process, clients>>

\* The process died, StartTimeout passed, no protocol was agreed on or no
\* connection made; go-plugin may leave the process running.
NotConnected(n) ==
    /\ start[n] \in {"handshake", "agreed"}
    /\ start' = [start EXCEPT ![n] = "failed"]
    /\ process' \in {process, [process EXCEPT ![n] = "dead"]}
    /\ UNCHANGED <<mode, mute, phase, next, erred, cancelled, hook, command, clients>>

\* The hook's function is handed to a goroutine: from here on stopping the
\* hook reports that it came too late.
HookFires(n) ==
    /\ cancelled
    /\ hook[n] = "armed"
    /\ hook' = [hook EXCEPT ![n] = "fired"]
    /\ UNCHANGED <<mode, mute, phase, next, erred, cancelled, command, start,
                   process, clients>>

HookRuns(n) ==
    /\ hook[n] = "fired"
    /\ hook' = [hook EXCEPT ![n] = "ran"]
    /\ command' = [command EXCEPT ![n] = "cancelled"]
    /\ UNCHANGED <<mode, mute, phase, next, erred, cancelled, start, process, clients>>

\* Mutation of Detached: what stopping the hook returns is not looked at.
DetachedAnyway(n) == TRUE

\* stopCallerCancellation() returns true: the hook will never fire.
Detached(n) == hook[n] = "armed"

\* The goroutine's result is received first.  With a connected provider that
\* could be detached and whose dispensed client fits, Launch returns it.
TakeResult ==
    /\ phase = "select"
    /\ start[next] \in {"connected", "failed"}
    /\ hook' = [hook EXCEPT ![next] = IF @ = "armed" THEN "stopped" ELSE @]
    /\ \/ /\ Detached(next)
          /\ start[next] = "connected"
          /\ phase' = "setup"
          /\ clients' = clients \cup {next}
       \/ phase' = "kill" /\ UNCHANGED clients
    /\ UNCHANGED <<mode, mute, next, erred, cancelled, command, start, process>>

\* The cancellation is seen first.
TakeCancellation ==
    /\ phase = "select"
    /\ cancelled
    /\ command' = [command EXCEPT ![next] = "cancelled"]
    /\ phase' = "kill"
    /\ UNCHANGED <<mode, mute, next, erred, cancelled, hook, start, process, clients>>

\* go-plugin's startup lock is free: the start has not come to it, or is past
\* it.
Unlocked(n) == start[n] \notin {"locked", "handshake"}

\* pc.Kill() and Launch's deferred calls; Launch returns an error.  Kill needs
\* the startup lock to see what there is to kill: a start that has not come
\* to the lock has made no process, and goes on after Launch has returned.
KillFailed ==
    /\ phase = "kill"
    /\ Unlocked(next)
    /\ process' = [process EXCEPT ![next] = IF @ = "running" THEN "dead" ELSE @]
    /\ command' = [command EXCEPT ![next] = "cancelled"]
    /\ hook' = [hook EXCEPT ![next] = IF @ = "armed" THEN "stopped" ELSE @]
    /\ GiveUp
    /\ UNCHANGED <<mode, mute, cancelled, start, clients>>

----------------------------------------------------------------------------
\* Runtime.Close and Client.Close.

\* Mutation of StopReturns: StopProvider gets no deadline.
StopReturnsWhenAnswered(n) == n \notin mute \/ process[n] = "dead"

\* StopProvider is answered, fails, or the five seconds pass.
StopReturns(n) == n \in clients

Close(n) ==
    /\ phase = "closing"
    /\ n \in clients
    /\ StopReturns(n)
    /\ process' = [process EXCEPT ![n] = "dead"]
    /\ command' = [command EXCEPT ![n] = "cancelled"]
    /\ clients' = clients \ {n}
    /\ UNCHANGED <<mode, mute, phase, next, erred, cancelled, hook, start>>

Return ==
    /\ phase = "closing"
    /\ clients = {}
    /\ phase' = "returned"
    /\ UNCHANGED <<mode, mute, next, erred, cancelled, hook, command, start,
                   process, clients>>

----------------------------------------------------------------------------
\* Signals and processes.

\* The first termination signal.
Cancel ==
    /\ ~cancelled
    /\ cancelled' = TRUE
    /\ UNCHANGED <<mode, mute, phase, next, erred, hook, command, start,
                   process, clients>>

\* A second signal, after the first restored the default handling.
HardKill ==
    /\ cancelled
    /\ phase \notin {"returned", "killed"}
    /\ phase' = "killed"
    /\ UNCHANGED <<mode, mute, next, erred, cancelled, hook, command, start,
                   process, clients>>

\* CommandContext kills a process whose context is done.
Reaped(n) ==
    /\ command[n] = "cancelled"
    /\ process[n] = "running"
    /\ process' = [process EXCEPT ![n] = "dead"]
    /\ UNCHANGED <<mode, mute, phase, next, erred, cancelled, hook, command,
                   start, clients>>

\* A provider crashes.
Crash(n) ==
    /\ process[n] = "running"
    /\ process' = [process EXCEPT ![n] = "dead"]
    /\ UNCHANGED <<mode, mute, phase, next, erred, cancelled, hook, command,
                   start, clients>>

\* A provider hangs: it runs and answers nothing any more.
Hang(n) ==
    /\ process[n] = "running"
    /\ n \notin mute
    /\ mute' = mute \cup {n}
    /\ UNCHANGED <<mode, phase, next, erred, cancelled, hook, command, start,
                   process, clients>>

Done == phase \in {"returned", "killed"} /\ UNCHANGED vars

\* The command's goroutine.
Main ==
    \/ NotInstalled \/ Launched \/ SetUp \/ Ask \/ Finish
    \/ Launch \/ TakeResult \/ TakeCancellation \/ KillFailed
    \/ \E n \in Providers : Close(n)
    \/ Return

\* go-plugin's goroutine and the context's.
Background(n) ==
    StartLocks(n) \/ Spawn(n) \/ Agreed(n) \/ Connected(n) \/ NotConnected(n)
      \/ HookFires(n) \/ HookRuns(n) \/ Reaped(n)

Next ==
    \/ phase # "killed" /\ Main
    \/ Confirm
    \/ \E n \in Providers : (phase # "killed" /\ Background(n)) \/ Crash(n) \/ Hang(n)
    \/ Cancel \/ HardKill \/ Done

\* Goroutines are scheduled; StopProvider and go-plugin's start have timers.
\* Nothing is assumed of providers, of signals and of the operator at the
\* prompt.
Spec ==
    /\ Init /\ [][Next]_vars
    /\ WF_vars(phase # "killed" /\ Main)
    /\ \A n \in Providers : WF_vars(phase # "killed" /\ Background(n))

----------------------------------------------------------------------------
\* Type invariant.
TypeOK ==
    /\ mode \in {"build", "schemas"}
    /\ mute \subseteq Providers
    /\ phase \in {"launch", "select", "kill", "setup", "working", "prompt",
                  "confirmed", "closing", "returned", "killed"}
    /\ next \in 1..(N + 1)
    /\ erred \in BOOLEAN /\ cancelled \in BOOLEAN
    /\ hook \in [Providers -> {"none", "armed", "fired", "ran", "stopped"}]
    /\ command \in [Providers -> {"live", "cancelled"}]
    /\ start \in [Providers -> {"none", "starting", "locked", "handshake", "agreed",
                                "connected", "failed"}]
    /\ process \in [Providers -> {"none", "running", "dead"}]
    /\ clients \subseteq Providers

\* A process runs, is being started, or will be started by a goroutine that
\* is on its way to do so.
RunsOrWill(n) ==
    \/ process[n] = "running"
    \/ start[n] = "handshake"
    \/ start[n] \in {"starting", "locked"} /\ command[n] = "live"

\* Every provider process, and every start that can still make one, belongs
\* to the launch in progress or to the clients the command is going to close.
\* A command that returns leaves no process behind, whenever it was cancelled,
\* and a start that outlives its launch makes none.
OwnedOrGone ==
    \A n \in Providers : RunsOrWill(n) =>
        \/ n \in clients /\ phase # "returned"
        \/ n = next /\ phase \in {"select", "kill"}
        \/ phase = "killed"

\* A provider that Launch has returned is out of the reach of the startup
\* hook: a later cancellation never kills it in the middle of a call.
DetachedFromCancellation ==
    \A n \in clients : command[n] = "live" /\ hook[n] = "stopped"

\* A command without errors works with all its providers, each connected.
WorksWithAll ==
    phase \in {"working", "prompt", "confirmed"} =>
        clients = Providers /\ \A n \in Providers : start[n] = "connected"

\* A cancelled command closes its providers and returns, whichever of them
\* hang and wherever the signal finds it, unless a second signal ends it.
\* Only at destroy's prompt does it wait for the operator instead, and once
\* answered it returns as well.
CancelledReturns == cancelled ~> phase \in {"returned", "killed", "prompt"}
============================================================================
