# A TLA+ model of tchori

tchori plans and applies infrastructure changes through Terraform provider
plugins and keeps what it manages in a JSON file, `state.json`. This directory
holds TLA+ modules that model its core, TLC configurations that check them on
small instances, and theorems about the state file, the commands over it, the
order, the provider processes, the provider cache and the sensitive parts of the
state that TLAPS proves for every instance. Source paths are relative to the
repository root; `PROJECT.json` maps each definition to the lines it models and
lists the hazards the properties aim at.

## 1. The system

| Component | State it keeps | Operations | Interacts with |
|---|---|---|---|
| `internal/state` | `state.json`, `state.json.backup`, `state.json.lock`; a `State` in memory with `Serial`, `baseSerial`, resources, incomplete-apply marker, lock | `Load`, `Lock`/unlock, `Save`, `NoteSensitive`, `SetSensitiveResolver` | every command, other tchori processes through the lock and the serial |
| `internal/apply` | one run: ordered changes, outcomes, completed and unfinished lists, in-memory state | `Apply`, `applyChange`, `destroy`, `createOrUpdate`, `save` | `state.Save` around provider calls; the plan; the configuration |
| `internal/plan` | a plan document: state serial and one change per address | `Planner.Plan`, `Classify`, `Write`, `Read` | reads the state without a lock, providers for refresh and plan |
| `internal/config` | the configuration; reference edges | `Load`, `ExtractRefs`, `Dependencies`, `Order` | plan and apply use its order |
| `cmd/tchori` | nothing beyond one process | `plan`, `apply`, `destroy`, `import`, `state sanitize`, readers | all of the above |
| `internal/provider` | a plugin subprocess and its connection | `Launch`, `Schemas`, `Configure`, `PlanResource`, `ApplyResource`, `ReadResource`, `ImportResource`, `Close` | the remote objects |
| `internal/runtime` | the launched providers of one command | `Build`, `Close` | registry, provider |
| `internal/registry` | the provider cache directory | `Install`, `Discover`, `List` | concurrent installs, launches of what they install, the registry over HTTPS |
| `internal/sensitive` | per-value redaction and recovery data | `Project`, `Restore`, `Sanitizer`, `CarryForward` | called by plan, apply and `state.Save` |
| `internal/mcpserv` | nothing | read-only tools over `Load` and `Plan` | state, runtime |
| `internal/privateblob`, `diag`, `version` | nothing | sealing, diagnostics | |
| `internal/ci`, `security`, `docs` | nothing | policies over the repository's own files, used by tests | |

What makes each correct, and what is hard about it:

* **state.** Processes share one file. A save replaces only the document its
  `State` derives from; an operation that holds the lock is not interrupted by
  another writer; a save that returned nil is durable; a save that failed after
  its rename can be retried. Hard: the steps of two saves interleaving, a kill
  or a power loss between two steps, an error after the visible effect.
* **apply.** Before the first provider call the state says it is incomplete, and
  it says so until every change is recorded. Whatever fails, the marker lists
  what may disagree with the remote objects. Failure blocks exactly what
  depends on it. Hard: a crash between a remote effect and its record, a
  replace with two effects, a save failing half-way, a plan older than the
  state.
* **plan.** The plan names the state it was made from by its serial. Hard: the
  read takes no lock, and the serial is the only name.
* **config.** `Order` returns a topological order, least address first, or a
  real cycle, and always returns.
* **commands.** Load, lock, work, save, unlock in that order on every path.
* **provider, runtime.** No subprocess outlives the command and none is killed
  while it is used. Hard: a cancellation racing a handshake that another
  goroutine runs, one provider of several failing, a provider that hangs.
* **registry.** No cache entry is half written or unverified, whichever installs
  race, fail, die or lose power; an install that returned is there; every
  install ends. Hard: the registry may answer each of five requests as if it
  were the first, two installs may publish the same name, and a launch opens a
  path some time after it was looked up.
* **sensitive.** What the schema, a declaration or the state itself calls
  sensitive is in no file; it stays so when the declaration goes, when no schema
  can be had, or when a save fails half way; and what is withheld can be restored
  exactly. Hard: these are properties of several commands in a row, not of one
  call, and elements of a set may differ only where they are withheld.
* **values.** What is applied instantiates what was reviewed although unknown
  leaves are filled in, or planned a second time, later; a no-op changes nothing;
  what a cooperative provider applied plans as a no-op; an answer that breaks
  the plan is reported. Hard: sets have no order, so reviewed and current elements
  must be matched as wholes.

## 2. Modules

| Module | Models | Lines of code |
|---|---|---|
| `StateRegister` | abstract: one versioned document behind a compare-and-swap, with an owner and a set of documents a power loss may leave | what `state.go` promises |
| `StateFile` | `Load`, `Lock`, unlock, `Save`, kill and power loss, step by step; implements `StateRegister` | `state.go` 351-632, 758-794, `sync_dir_unix.go` |
| `StateFile_proofs` | theorems and TLAPS proofs about `StateFile` | |
| `DependencyGraph` | `reverseEdges`, the set `closureBlocker` visits, the result of `Order` | `apply.go` 380-415, `refs.go` |
| `DependencyGraph_proofs` | what those operators compute on every graph | |
| `Apply` | the commands as processes over a `StateRegister`, a provider's objects, the configuration and the saved plan | `apply.go` 91-767, `planner.go` 38-434, `commands.go` |
| `Apply_proofs` | each step of `Apply` as a relation between fields, type correctness, the lock, the execution order and the loop's bookkeeping | |
| `ApplyOutcome_proofs` | loaded documents and plans, markers, objects, exits and serials; extends `Apply_proofs` | |
| `ConfigOrder` | `Order` and `buildDependencyEdges`, one loop iteration per step | `refs.go` 105-225 |
| `ConfigOrder_proofs` | theorems and TLAPS proofs about `ConfigOrder` | |
| `ProviderLifecycle` | the plugin processes of one command, from `Launch` to `Close`, with the goroutine that starts them, cancellation, crashes and hangs | `client.go` 132-249, `runtime.go` 58-143, `commands.go` 731-758 |
| `ProviderLifecycle_proofs` | theorems and TLAPS proofs about `ProviderLifecycle` | |
| `RegistryCache` | `Install`, one request or system call per step, and `Discover` with the launch that follows, as processes over one directory | `registry.go` 230-672 |
| `RegistryCache_proofs` | theorems and TLAPS proofs about `RegistryCache` | |
| `Paths` | the vocabulary of `internal/sensitive`: paths, specifications, contracts; nothing recursive | `sensitive.go`, `projection.go`, `path.go` |
| `Projection` | the recursive part of `internal/sensitive`: projection, restoration, carrying forward, redaction of values; extends `Paths` | `sensitive.go`, `projection.go`, `jsonpath.go` |
| `SensitiveState` | the sensitive parts of state and backup over the sessions of several commands; the operators on single values are parameters | `state.go` 131-332, 436-513, 638-886, the resolvers in `apply.go` 104-135 and `commands.go` 673-869, `runImport` |
| `SensitiveLaws` | what `SensitiveState` expects of those parameters, as assumptions | |
| `SensitiveState_proofs` | theorems and TLAPS proofs about `SensitiveState` | |
| `PlannedValues` | the pure part of planning and applying one value; extends `Projection` | `proposednew.go`, `sensitive.go` 413-486, `planner.go` 411-450, `apply.go` 788-1062, `consistency.go` |
| `PlannedApply` | one resource's value from plan to state, with a provider that answers twice | `planner.go` 208-245, `apply.go` 482-767 |
| `MC_Apply`, `MC_RegistryCache`, `MC_SensitiveState`, `MC_SensitiveLaws`, `MC_PlannedApply` | instances for TLC: configurations, archives, schemas and values | |

`Apply` uses `StateRegister` (as `Reg`) for the state file instead of repeating
the steps of a save: `StateFile` is shown to implement it, once by TLC and once
by proof. What `Apply` keeps of a save is what the register keeps: the visible
replacement (`SaveCommit`), the durability barrier (`SaveAcknowledge`) and a
failure before or after the first (`SaveFails`).

Operators whose comment begins with "Mutation of" are deliberately wrong
versions of the definition after them. No specification uses them; each is
substituted for its original to see that the property named in `PROJECT.json`
notices.

### State file

* `pc[p]` is where process `p` is: `none` (no `State`), `loaded`, or the step of
  `Save` it is about to take: `acquire`, `check`, `backup`, `rename`, `sync`.
* `handle[p]` is the `*State`: `serial`, `base` (`baseSerial`), `body` (resources
  and marker), and the history field `origin`, the document it came from.
* `held` is the set of processes whose `State` keeps an operation lock; `flock`
  is the kernel's lock. A save by a process in `held` takes no lock of its own.
* `fileSurvivors` and `backupSurvivors` are the documents a power loss may leave:
  a rename adds one, a directory sync reduces the set to what is visible. The
  file contents are fsynced before the rename, so a survivor is always a whole
  document.
* A kill can come in every step; the kernel drops the lock with the process.

Left out: what a document says (`Bodies` is any set), the formatting and format
migration, and what sanitization changes (see `SensitiveState`). The backup is
therefore a copy of the previous document. `SaveRefused` stands for every error
before the rename. The uint64 serial is a natural number: it counts saves and
cannot wrap in use.

### Commands and provider

* `run[p]` is the memory of a process: its program counter, the plan, the
  configuration as loaded, the document it loaded, the resources and marker it
  is about to save, the remaining changes, the outcomes, and how it ends.
* `live[a]` are the objects that exist at the provider for address `a`; an object
  is an identity and a version, so a lost create is visible as a second object.
* A provider call is one step that chooses what exists afterwards and what is
  answered: an object, a null, or nothing usable, with or without errors. A
  result that breaks the plan's promises (`consistency.go`) is an answer with
  errors: the code records and fails in both cases. Objects change only
  through tchori.
* Everything that may go wrong before a provider is called (identity checks, an
  unresolved reference, a re-plan that differs) is `Preflight` or `Abandon`.
* `Kill` is a second signal or SIGKILL; a first signal cancels a context and
  surfaces as one of the failures above.
* `touched`, `stray` and `uses` are history: what the latest run changed, the
  objects it did not start from, and what an object was last written to use.

### Order

`indegree`, `ready`, `order` and `path` are the variables of `Order`; a step is
one iteration of the pop loop or of the cycle walk. The sorted slice `ready` is
a set of which the least member is popped. An address's dependency slice is a
set: the walk takes the least unordered reference, where the code takes the
first in the order `ExtractRefs` returns.

### Provider processes

* `phase` and `next` are the command's goroutine: `launch` (head of the loop),
  `select` and `kill` (in `Launch`), `setup` (`Schemas` and `Configure`), `working`,
  `prompt` and `confirmed` (destroy without `-out`, in front of and after its
  question), `closing`, `returned`; `killed` after a second signal. `mode` tells the two
  loops apart: `Build` returns at the first error, `buildSensitiveContext`
  continues and looks at its diagnostics after the loop.
* At the prompt `runDestroy` reads a line (`commands.go:366`) with its providers
  running. The first signal does not interrupt that read: `Confirm` is a step of
  the operator and no fairness is assumed of it.
* `hook[n]` is the `context.AfterFunc` that ties the process to the command's
  context: `armed`, `fired` (its function was handed to a goroutine), `ran`,
  `stopped`. `command[n]` is `commandCtx`, `process[n]` the operating system's
  process. `clients` are the entries of `Runtime.Providers`.
* `start[n]` is the goroutine in go-plugin's `Client()`: `starting` (it exists),
  `locked` (it has go-plugin's startup lock), `handshake` (there is a process, the
  lock is still held), `agreed` (the lock is free), `connected` or `failed`.
* `TakeResult` and `TakeCancellation` are the two cases of the `select` in
  `Launch`; both can be taken when both are ready. `KillFailed` is `pc.Kill()` with
  the deferred calls. go-plugin's `Kill` takes the startup lock to see what there
  is to kill (`Unlocked`): it waits for a start that has the lock, as the comment
  at `client.go:181` says, and returns at once when the start has not come to the
  lock yet, as when the context was done before `Launch` was called. Such a start
  goes on after `Launch`, and after the command's loop, have returned; its
  context is cancelled, so `exec` refuses to make a process (`Spawn`).
* `Hang` makes a provider mute. An RPC without a deadline then waits until the
  process dies or the command is cancelled (`Answers`); `StopProvider` has a
  deadline. That `Kill` reaps the process whatever it does is taken from
  `client.go:236`.
* go-plugin and os/exec are external: `Unlocked`, `Agreed`, `Reaped`, and what
  `Connected` and `NotConnected` assume.
* `HardKill` is the default action of a second signal; processes it leaves are
  excepted from `OwnedOrGone`, because no code runs after it.

### Provider cache

* `job[p]` is one `Install`: the request or the step of `extractZipFile` it is
  about to take, the descriptor, the archive and the `SHA256SUMS` it got, how much
  it copied, and whether its temporary archive exists. `scratch[p]` is its temporary
  binary, `dir[n]` what a name in the directory holds, `holds[n]` what a power loss
  may leave there (the rename is not followed by a directory sync).
* Each fetch picks any answer, so two requests of one install need not agree with
  each other. `mute` are the requests the registry never answers: then only the
  deadline ends them (`FetchFails`).
* An archive is its digest and a signature is the document it is over. `Verify` is
  one step because nothing is shared between the checks it stands for: the keys,
  the signature, the line in `SHA256SUMS`, the digest of the archive, the first
  provider entry and its name.
* `safeZipEntryName` publishes under the cleaned name, while the prefix is looked
  for in the name as it is in the archive: `Cleaned` is what `filepath.Clean` makes
  of a name, and an archive of the run has an entry it changes.
* File names are numbers in lexical order, as `filepath.Glob` returns them;
  `Globbed` are those it matches. A killed install leaves its temporary files,
  whose names it does not match.
* `Discover` and `Run` are the two moments of a launch: a path is looked up, and
  later opened.

Two consequences the properties state exactly: a returned install can vanish in a
power loss (nothing syncs the directory), which only costs another install; and
when a re-published archive names its binary differently, the lexically first
name is launched, which may be the older one. Both are whole and verified;
that the newer one is launched is not what `Discover` promises, and no property
says so.

### Sensitive values

* `Projection` works on typed values (strings, objects, maps, lists, sets) and on
  JSON in which the array of a set is a bag. A path is a sequence of attribute
  names, an instance path has the indexes and keys too. Digests are the values
  digested, the sealed contract is its contents.
* `SensitiveState` takes the operators over whole values (`ProjectUnder`, `Restore`,
  `CarryForward`, `RedactJSON`, `Literals`, `Texts`) as constants, so that what happens
  to entries over many commands can be proved. In the run they are those of
  `Projection` for the schema of `MC_SensitiveState`: the configuration gives constants their
  values, no definition is replaced.
* `disk` and `backup` are documents of entries: public attributes, contract,
  version, recorded paths (`SensitivePaths`), redacted paths. `session` is the
  command at work with its `State`, the hints of `NoteSensitive`, and the addresses
  for which it has live schemas: all that decides between `SanitizeResolved` and
  `SanitizeOrphan`.
* `Save` is `prepareBackup` on the old document, `sanitizeAll` on the new one,
  `persistedFormatVersion` and the sealing, with every refusal. `sanitizeAll` ranges
  over a map: when one entry cannot be sanitized, any subset of the others has
  been changed in memory before. `apply` goes on after a failed save, the other
  commands end.
* `Import` takes an address without an entry, `ImportRefresh` one with: it restores
  the earlier value, carries forward what the read omits (`CarryForward`), or
  fails where an omission cannot be attributed.
* `truth` (what the provider returned) and `ever` (every path the entry was given
  as sensitive) are history. `truth` becomes `Lost` where redaction without a schema
  destroys a value.

### Planned values

* `plan` is the reviewed change (`WithUnknowns` of the provider's answer), `run` its
  application with the value sent, `recorded` the entry in state. A reference has
  any of `References` as its value, chosen once when planning and again when
  applying, or is unknown when planning.
* Sets are bags, because elements with unknown parts do not coalesce.
  `PerfectBipartiteMatch` is the augmenting-path search of the code; the property
  states the bijection it looks for.
* The provider answers `PlanResource` and `ApplyResource` with what it was to keep,
  with one difference (`Variants`), with null or with unknown. A cooperative
  provider keeps what is proposed and fills in computed attributes.

## 3. Runs

| Run | Instance | Question |
|---|---|---|
| `state_file` | 2 processes, 2 bodies, 2 serials, fair | every interleaving, failure, kill and power loss of loads, locks and saves; does a started save return |
| `apply_edit` | 1 process, 2 addresses, the reference and one block removed by an edit, all provider decisions, 5 commands | do the marker, the records and the exit code tell the truth |
| `apply_chain` | 1 process, 3 addresses in a chain, 4 commands | blocking across several references, serial counts |
| `apply_pair` | 2 processes, 1 address, plan, apply, import and sanitize, 4 commands, fair | races between commands, and does one wait for another |
| `order_graphs` | every configuration of at most 4 addresses | is the order right, is the cycle real, does it return |
| `provider_lifecycle` | 3 providers, both loops, fair | is a process ever left behind or killed in use, does a cancelled command return, wherever the signal finds it |
| `registry_cache` | 2 installers, 1 launch, 5 archives, 3 `SHA256SUMS`, a silent registry, a file in the way, fair | is the cache ever wrong, is anything left behind, does an install end |
| `sensitive_state` | 2 addresses, a schema with a set and a map of sets, 2 policies, documents of an older engine, reads that omit, 3 saves | is a secret ever shown, a path forgotten, a value lost or not restorable, a document not loadable; do the laws of `SensitiveLaws` hold |
| `planned_values` | 1 resource with a map, nested list and set, 2 authors, 2 plans | does what is applied stay what was reviewed |
| `apply_finalizer`, `apply_stateonly` | smaller instances | the two disagreements of section 7 |

Properties, in short:

* `NoLostUpdate`: past its comparison, a save replaces the very document its
  `State` came from. It is stronger than what the code compares, the serial.
* `PromisedSurvives`: what a save acknowledged survives a power loss.
* `NoFalseConflict`: under the operation lock the base is the serial on disk,
  even after a failed directory sync.
* `OperationIsolated`, `BackupOnlyFromCurrent`: who may change the file and the
  backup.
* `ImplementsRegister`: `StateFile` refines `StateRegister`.
* `MarkerCoversRun`: every document a power loss may leave either agrees with
  the provider about what the latest run did to an address or lists that
  address as remaining.
* `CompletedIsDurable`: a change counted as completed is recorded in every
  document a power loss may leave.
* `ExitIsTruthful`: exit 0 means all recorded and no marker; a recorded failure
  splits the plan exactly into applied and remaining.
* `PlanIsFresh`: a run starts from the document its plan was made from. Plans
  made while the last save was not yet acknowledged are excepted. A power loss
  that undoes such a save makes the next one give its serial out again, and a
  plan computed by a reader of the lost document is then accepted: equal
  serials are all that `apply.go:97` compares. The property says that this is the
  only way.
* `MutationsAreMarked`: no provider call without the lock, a current copy and a
  durable marker that lists the address.
* `DependenciesFirst`, `SerialCountsLegs`.
* `NoneWaitsForAnother`: a command ends, or comes to where a provider or the
  operator keeps it (`Awaits`), even if another that is kept so holds the lock for
  ever. That it ends is not claimed: provider calls have no deadline.
* `IndegreeExact`, `OrderIsLeastTopological`, `CycleIsReal`, `OrderReturns`.
* `OwnedOrGone`: a process that runs, is being started, or can still be started
  belongs to the launch in progress or to a client the command will still close.
  A start may outlive its launch, but then makes no process.
* `DetachedFromCancellation`: the startup hook can no longer reach a provider
  that `Launch` returned. A bare check of the result would miss the hook that
  has fired and not yet run.
* `CancelledReturns`: a cancelled command returns although providers hang, except
  that at destroy's prompt it waits for a line, the end of the input or a second
  signal; once answered there it returns too.
  Without a cancellation it need not: RPCs have no deadline, and the model has
  those waiting states.
* `CacheIsWhole`, `LaunchIsWhole`: a name in the cache directory holds nothing, what
  was there before, or a whole verified executable, and that is what a launch
  opens, however long ago it looked the name up.
* `NothingLeftBehind`, `ReturnedIsInstalled`, `InstallReturns`: an install that
  returns has removed its temporary files; a successful one is there and is
  found, until power is lost; an install that began returns or dies, whatever the
  registry leaves unanswered.
* `SecretsWithheld`: neither state nor backup shows a value at a path that was ever
  sensitive for the entry, unless it is a literal of the configuration.
* `PathsAreRemembered`: recorded paths only grow as long as the entry lives and
  the schema has them.
* `RecordedPathsStay`: nor does the next document on disk forget what this one
  records for an address, when a resource is destroyed and created anew
  within one `apply` whose saves fail in between. Only the hints of
  `NoteSensitive` carry the paths over that gap.
* `ValuesAreRestored`: public part and contract give the provider's value back,
  also of a `State` whose save failed half way.
* `WithheldSurvives`: only apply makes a withheld value disappear; a read that
  leaves it out, as providers do with write-only attributes, does not
  (`docs/formats.md:366-370`), however the policy was edited in between.
* `SavedIsLoadable`: what a save leaves, `Load` takes.
* `ReviewHolds`: the value sent instantiates the reviewed one, set elements one to
  one, and no reviewed update is carried out as a replacement.
* `NoOpMeansEqual`: a no-op differs only where the value is withheld and not in a
  set; a changed set is noticed though its elements look alike.
* `Converges`: what a cooperative provider applied plans as a no-op.
* `PromisesAreChecked`: an answer that only fills in unknowns is not reported, and
  in one that is not reported every configured leaf is as it was sent. Lists whose
  length differs are compared wholesale and passed over when partly unknown, as
  `docs/formats.md:676-688` says; the property excepts them (`Unaligned`).

### Bounds and why they are enough

* `MaxSerial = 2`: a document and its replacement. Serial 1 is then given out
  by either process, and again after a power loss. The theorems of section 5
  hold for every bound.
* Two processes are enough for one to hold the lock or a stale copy while the
  other saves; the theorems hold for any set of them.
* `MaxCommands` bounds commands plus configuration edits. The longest scenario
  the properties tell apart is an interrupted command, its recovery, an edit
  of the configuration between a plan and an apply, and one more apply: five.
  A serial given out twice needs a save, a plan, a power loss, another save and
  an apply, after an object exists: more than the four of `apply_pair`, where
  `PlanIsFresh` holds of every plan. The exception it makes is for the theorem.
  The theorems hold for any number of them, and for any processes, addresses,
  configurations and decisions.
* Two addresses show every blocking pair; the chain of three, named against its
  lexical order, tells transitive blocking from direct blocking.
* `Decisions` are the actions a provider may choose for an existing object.
* Three providers put one before and one after the provider that fails. The
  theorems of section 5 hold for any number.
* Four addresses contain every shape the cycle walk can meet: a tail into a
  cycle, two cycles, a self-reference, a diamond. The theorems hold for
  configurations of any size.
* Two installers publish the same name or two different ones; the second's every
  step can fall between any two of the first's. Two chunks are a limit to stay
  under, to meet and to exceed. The five archives are: just at the limit, a
  re-publication with another name, an oversized entry, an archive too big, an
  unsafe name. The theorems hold for any archives, limits and processes.
* Three saves and two addresses: a session records, an edit or a missing schema
  intervenes, another session saves, a third sees what came of it; and one entry
  can fail while another was already sanitized. The set's two elements differ only
  where they are sensitive. Where a set was redacted before generation 4 nothing
  can restore it: older documents with such entries make saves stop half way.
  The laws are evaluated for every specification, path set and a mixture of sets,
  maps and nulls; the theorems hold for any number of saves and addresses.
* Two plans: one to create, and one to change or to find nothing to change.

Symmetry is not used: five runs check liveness, where it is unsound, and
elsewhere the processes are few or one. Deadlock is checked except in
`registry_cache` and `sensitive_state`:
installs and launches end, and `MaxSaves` stops the sessions. Elsewhere `Load`
and `Start` are followed by `Kill`, the end states of the bounded runs can still
lose power, a plan can be discarded, and `Order` stutters after it has returned.

### Fairness

* `StateFile`: weak fairness of a started save's own steps. Go schedules the
  goroutine and `acquireLock` has a ten-second timer, so it fails when the
  lock stays taken. Nothing is assumed of the holder.
* `Apply`: weak fairness of those steps of a running command that need nobody
  else: it is scheduled, its file operations end and `acquireLock` gives up after
  ten seconds. Where the next step is a provider's (launching, configuring,
  reading, planning, applying) or the operator's at the prompt (`Awaits`), nothing
  is assumed. Users start nothing by obligation.
* `ConfigOrder`: a sequential loop.
* `RegistryCache`: weak fairness of each install's own steps. `httpGet` puts a
  deadline on every request and on the reading of its body, and the rest are
  local system calls. Nothing is assumed of the registry.
* `SensitiveState`, `PlannedApply`: safety only, no fairness.
* `ProviderLifecycle`: weak fairness of the command's goroutine and of each
  provider's background goroutines. `StopProvider` gets five seconds and a start
  sixty, so both end. Nothing is assumed of providers and of the operator at the
  prompt, and no signal has to come.

## 4. How the components compose

`StateFile => StateRegister` by the mapping `current <- file`, `survivors <-
fileSurvivors`, `owner <- flock`, `seen[p] <- handle[p].origin`. `Apply` conjoins
the register's actions with those of its own variables. So `Apply`'s
properties rest on the register, and the register on `Save`. Both halves are
proved: `Refinement` says that the state file implements the register, and
`UsesRegister` that the commands do nothing with it that the register does not
allow.

`SensitiveState` looks at the same `Save` from the other side: it keeps what a save
does to the entries of two documents and leaves out the steps and the other
processes, which `StateFile` has; `StateFile` in turn treats a body as a value.
`PlannedApply` is the inside of one provider call of `Apply`: what `Apply` calls
`Preflight`, an answer, or a re-plan that differs. Both get their
operators from `Projection`, because plan and state withhold by the same rules.
`ProviderLifecycle` begins where `Discover` of `RegistryCache` ends: it starts the
binary whose path `LaunchIsWhole` is about.

## 5. What is proved

`StateFile_proofs` proves, for every set of processes and bodies and every
`MaxSerial`, from `StateFileAssumption` alone (the empty body is a body, the
free-lock value is no process, the bound is a natural number):

| Theorem | States |
|---|---|
| `TypeCorrect` | `Spec => []TypeOK` |
| `NoUpdateLost` | `Spec => []NoLostUpdate` |
| `PromiseKept` | `Spec => []PromisedSurvives` |
| `ConflictsAreReal` | `Spec => []NoFalseConflict` |
| `OperationsIsolated` | `Spec => OperationIsolated` |
| `BackupFollowsCompare` | `Spec => BackupOnlyFromCurrent` |
| `SerialCounts` | `Spec => SerialByOne` |
| `Refinement` | `Spec => ImplementsRegister` |

The argument is one inductive invariant, `IInv`, of five parts. None of the
properties is inductive alone:

* `LockInv`: the flock belongs to exactly the process that is past `acquire` or
  in `held`. This serializes everything after the lock.
* `HandleInv`: a live `State`'s serial, base and origin agree, its base is not
  ahead of the file, and when its base equals the file's serial its origin is
  the file. This is what makes comparing serials as good as comparing documents:
  serials repeat only across a power loss, and a power loss takes every live
  `State` with it.
* `CurrentInv`: whoever is past the comparison, or in `held`, has the file's
  serial as its base. `Lock` or the comparison establishes it, and by `LockInv`
  nobody else can disturb it.
* `DurableInv`: the visible documents are among the survivors, and no survivor
  is older than the last acknowledged document.
* `TypeOK`.

`Inductive` proves the invariant with one step per action; the theorems above
follow from it, action properties and the refinement by one more case split on
`Next` under `IInv`.

`ProviderLifecycle_proofs` proves, for every natural number of providers:

| Theorem | States |
|---|---|
| `TypeCorrect` | `Spec => []TypeOK` |
| `NoOrphans` | `Spec => []OwnedOrGone` |
| `ClientsDetached` | `Spec => []DetachedFromCancellation` |
| `AllOrError` | `Spec => []WorksWithAll` |

`NoOrphans` says that a command leaves no process and no start that could still
make one. A start it may leave: what it rests on then is that `KillFailed` has
cancelled the context under which `Spawn` would run.

Its inductive invariant adds to the properties that nothing has happened to a
provider the loop has not reached (`FreshInv`), that a client's start is over and
a launch whose hook has not fired has a live process context (`StartInv`), and
that without an error every provider behind the loop is a client (`LoopInv`).
`WorksWithAll` (all providers or an error) has no run, like `SerialByOne` of the
state file: they are proved only.

`RegistryCache_proofs` proves, for any installers, readers, archives, documents,
descriptors and limits, from `CacheAssumption` (types, and that what `Glob` matches
begins with the provider prefix) and `FileAssumption` (the two markers are no
files):

| Theorem | States |
|---|---|
| `TypeCorrect` | `Spec => []TypeOK` |
| `CacheWhole` | `Spec => []CacheIsWhole` |
| `LaunchWhole` | `Spec => []LaunchIsWhole` |
| `NothingLeft` | `Spec => []NothingLeftBehind` |
| `ReturnedInstalled` | `Spec => []ReturnedIsInstalled` |

The inductive invariant `IInv` says what each phase of an install has established
about its own temporary file (`JobInv`: from `extract` on the archive is attested,
from `chmod` on the copy is complete, from `sync` on it is executable, at
`publish` it is synced), that a name and everything it may hold after a power loss
is empty, foreign or a whole synced file (`DirInv`), that what a reader named is
still a file and what it runs was one of those (`ReaderInv`), and that the path of
an install that returned holds a file (`ReturnedInv`). `CacheIsWhole` alone is not
inductive: a rename publishes what `JobInv` knows, and a power loss what `DirInv`
knows of `holds`. The proof uses that only `Publish` changes the directory
(`OnlyPublishChanges`) and treats an install step as a change of one job
(`StepBecomes`), so that each part is disturbed in one place. `TypeOK` of the cache
has no run: for it the proof is enough.

### The order

`DependencyGraph_proofs` proves what the operators over references compute on
every finite graph. They are recursive functions over `0..N`. The library's
induction theorems cannot be used, but an induction over the SET of numbers at
which something holds needs no operator as a parameter: `Induction` is proved
from the fact that an injection of a finite set into itself is onto, and
`Recursion` from it.

| Theorem | States |
|---|---|
| `TopoOrderTopological` | with or without a cycle, the order lists declared addresses, each once, after all they reference |
| `OrderableIffAcyclic` | a configuration can be ordered if and only if no address is in its own closure |
| `CountersAreExact` | `Spec => []IndegreeExact` |
| `CyclesAreReal` | `Spec => []CycleIsReal` |
| `OrdersAreTopological` | `Spec => []OrderIsLeastTopological` |
| `AnswersAreExclusive` | after success no address is in its own closure; after a cycle report no order exists |

The last four are in `ConfigOrder_proofs`, from `AddrsAssumption` (the addresses are
finitely many numbers). `OrderInv` says that the loop has popped a prefix of the
topological order (`order = Pops(decl, refs)[Len(order)]`), that `indegree` counts
the references outside it, and that the walk goes through addresses whose count
is not zero. `IndegreeExact` is not inductive without the first: an address
already popped must not count as ready again. `LeftOver` is the comment at
`refs.go:192` as a lemma: when nothing is ready, every unordered address
references another, so the walk always has somewhere to go.

### The commands

`Apply_proofs` (the first three) and `ApplyOutcome_proofs` prove, for any finite
set of addresses and any processes, configurations, decisions and numbers of
commands:

| Theorem | States |
|---|---|
| `ExecutionOrderSound` | every planned change is executed once, none after one that must wait for it |
| `TypeCorrect` | `Spec => []TypeOK` |
| `DependenciesComeFirst` | `Spec => DependenciesFirst` |
| `UsesRegister` | `Spec => Reg!RegisterSpec` |
| `PlansAreFresh` | `Spec => []PlanIsFresh` |
| `MutationsComeMarked` | `Spec => MutationsAreMarked` |
| `CompletedStays` | `Spec => []CompletedIsDurable` |
| `ExitsAreTruthful` | `Spec => []ExitIsTruthful` |
| `MarkersCover` | `Spec => []MarkerCoversRun` |
| `SerialsCount` | `Spec => []SerialCountsLegs` |

They rest on `ApplyAssumption`: addresses are finitely many natural numbers, the
placeholders are neither processes nor objects, the bounds are natural numbers, a
configuration declares some addresses, and an address without a resource block
references nothing (references are read out of blocks). The last is needed: what
is removed from the configuration must not hold up what is left.

The argument goes in layers, each an invariant of its own that uses those
before it.

1. `Typed`: the types, and what a phase implies for the rest of a process's
   memory (`Phases`). Every action is described once by a lemma, as a relation
   between the fields before and after it; later proofs use only these.
2. `Held`: exactly the process between its Lock and its Unlock owns the lock. Its
   consequence `OthersWait` carries most of what follows: while a process is in
   the lock, a step of anybody else changes neither the state file nor the
   provider's objects nor the history.
3. `WorkInv`: the loop's bookkeeping. The list holds exactly the planned changes
   without a verdict, in an order in which they may be made, and nothing blocked
   is under way. `ExecutionOrderSound` establishes it; `DependenciesFirst` follows,
   because a prerequisite that is not completed is still in the list (and would
   come first), failed (and would block), or blocked.
4. `CopyInv` and `SeenInv`: until its first save a process works on the document it
   loaded, nobody's copy is ahead of the file, and in the lock it is the file.
5. `PlanInv`: `PlanIsFresh` compares documents, the code compares serials. The
   invariant says when that is the same: a document is settled when no survivor
   has its serial and differs, and a document once settled stays so.
6. `OutcomeInv`, in three parts. `MarkerOfRun`: the marker in memory is the one the
   phase calls for. `Disk`: from the acknowledgement of the marker to the rename
   of the final save every survivor lists the whole plan as remaining, and what
   an exit code says of the final save is so. `AtProvider`: only planned addresses
   are touched, what was not attempted is as it was, the first leg of a replace
   has left nothing behind, and of a completed change exactly the recorded object
   exists in every survivor. None of the properties is inductive without these:
   `ExitIsTruthful` speaks about the end of a run, and `AtProvider` is what the run
   has established by then, leg by leg.
7. `SerialInv`: the serial is the one loaded, plus the marker, plus the recorded
   legs of completed changes, plus one for a half-done replace and one for a
   save that is visible and not yet returned from.

`Aged` (no object is newer than the number of calls) is there because an object
made by a call must differ from all the others at its address.

### The sensitive parts of the state

`SensitiveState_proofs` proves, for any addresses, schema, policies, values, live
schemas and numbers of saves:

| Theorem | States | Rests on |
|---|---|---|
| `SavedLoads` | `StateSpec => []SavedIsLoadable` | `AddressesAssumption` |
| `PathsRemembered` | `StateSpec => []PathsAreRemembered` | `AddressesAssumption` |
| `RecordedPathsAreKept` | `StateSpec => RecordedPathsStay` | `AddressesAssumption` |
| `SecretsAreWithheld` | `StateSpec => []SecretsWithheld` | and the laws |
| `ValuesRestored` | `StateSpec => []ValuesAreRestored` | and the laws |
| `WithheldIsKept` | `StateSpec => WithheldSurvives` | and the laws |

`AddressesAssumption` says that configurations and live schemas are about addresses
of the model. The first three theorems hold whatever the operators on single
values do: generations and recorded paths are the business of `internal/state`
alone. Their invariants:

* `DocumentInv`: the entries of the file and of the `State` at work have
  generation 0 or 4, in a current document only 4, and record every schema path
  they were ever given. `PathsAreRemembered` alone is not inductive, because the
  next document comes from the session. The generations are there because a
  refused save leaves some entries sanitized and others not, in a `State` from
  whose entries the next save takes the format.
* `KnownInv`: a command that has loaded knows, from its entries or its hints,
  every path that is recorded on disk, and has hints only for what it can resolve.
  So `sanitizeAll` binds the entry of a resource created anew to what was recorded
  of the one destroyed before.

The others say what follows over many commands from what one call of
`internal/sensitive` does. That part cannot be proved here: it is induction over
the tree of a value. `SensitiveLaws` states it as assumptions about single
calls, and TLC evaluates them with the operators of `Projection` in the run
`sensitive_state`:

* `WithholdingAssumption`: a projection shows no secret at its specification's paths.
* `RoundTripAssumption`: its contract restores the value, also after `Rebind`.
* `RedactionAssumption`: redaction without a schema only takes strings away, and
  reports whenever it changed something.
* `CarryingAssumption`: a read carried forward has a value wherever a persisted
  top-level attribute had one.
* `ProjectionAssumption`, `PlacesAssumption`, `LegacyAssumption`, `UniverseAssumption`:
  what is nulled is a path, strings stand at places of the schema, what an older
  engine wrote restores to a value if at all, and the sets the laws
  speak of contain what commands record.

From these laws of one call the properties do not follow directly. They would fail
if a save projected under other paths than it records, if an entry kept a contract
made for another public part, or if a half-done save left an entry that the next
one opens under the wrong paths. `ValueInv` excludes that. Every entry of the
file, the backup and the session is a projection under its own recorded paths with
that projection's contract, perhaps rebound (`OfProjection`), an older engine's
JSON without a contract (`OfLegacy`), or JSON from which nothing is withheld
(`OfPublic`). It shows no secret at any path it was ever given, with one
exception: `sanitizeAll` records new paths before it opens the entry, and when
opening fails the `State` in memory is bound to more than it withholds. Only
`apply` goes on with such a `State`, and only for addresses it can resolve, so
that its next save opens the entry again or fails again. That exception is part of
the invariant (`SessionSound`); without it the invariant is false, and with an
address that cannot be resolved the next save would write the entry as it is. For
`WithheldSurvives` the invariant relates session and file (`SessionInv`): what
`import` and `state sanitize` are about to save has a value at every withheld
attribute that the file's entry has one at.

## 6. What is only model-checked

* Liveness (`SaveReturns`, `NoneWaitsForAnother`, `OrderReturns`, `CancelledReturns`,
  `InstallReturns`): fairness and `ENABLED` are beyond the prover.
* The laws of `SensitiveLaws`: induction over the tree of a value, by `RECURSIVE`
  operators, which the prover does not take.
* `PlannedApply` (`ReviewHolds`, `NoOpMeansEqual`, `Converges`,
  `PromisesAreChecked`): each is about what the recursive operators of
  `PlannedValues` compute for one value. There is next to no history around them:
  with the operators as parameters, the laws to assume would be the properties
  themselves.
* The two properties of section 7, which do not hold.

## 7. Where code and text disagree

1. *A failed finalizing save.* `docs/formats.md:388` says it leaves an artifact
   that admits it is non-converged. When the clearing save fails in its
   directory sync, the document without the marker is already at the path:
   apply exits 1 and the state reads as converged (`apply_finalizer`). The
   resources are all recorded, so what is lost is the admission only.
2. *A state-only delete is always safe.* The comment at `apply.go:303` (and
   `docs/formats.md:719`) argues from the configuration, which no longer has the
   reference. The object at the provider still has it when the update that
   drops it failed in the same run (`apply_stateonly`).

## 8. Not modelled, and the plan

Written in this order: the state file, apply over it, the order both use, the
provider processes, the provider cache, the sensitive parts of the state, and
planned values; then the proofs in the same order. What section 6 lists stays with
TLC.

Not modelled, and why:

* *Generated protocol code* (`internal/provider/proto`, about 20,000 of the
  repository's 34,600 lines of Go) and the test provider: no logic of tchori's.
* *HTTP and OpenPGP* in `internal/registry`, the cipher in `internal/privateblob`:
  libraries; what tchori asks of them is in `RegistryCache` and `Projection`.
  `List` only reads.
* *Encodings*: JSON, msgpack and cty conversions, schema decoding, parsing of
  `${...}` and of the configuration, sources and versions. A property of them would
  be about characters.
* *In `internal/sensitive` and the state*: tuples, recovery generations 1 to 3,
  private bytes, the binding of an entry to its provider source, literals other
  than strings. `RedactJSON` cannot tell a map key from an attribute of the same
  name (`jsonpath.go:57-64`). The instance has such a key, at which it nulls more
  than the path names; a key that leads it away from a second, longer path needs a
  deeper schema.
* *In planning*: refresh (with `CarryForwardBestEffort`) and drift, tuples,
  replacement below top-level attributes, `FindUnresolvedReferences`, persisted
  paths (in `SensitiveState`). A replace or delete the provider fails is in
  `Apply`. Set elements in the instance have no computed attributes.
* *`internal/mcpserv`*: each call loads afresh and writes nothing; its reads are the
  lock-free `Load` of `StateFile`.
* *`validate`, `version`, `providers list`, `state list`, `show` and `status`*,
  rendering and diagnostics: no state changes.
* *`internal/ci`, `security`, `docs`*: policies over the repository's own files.
