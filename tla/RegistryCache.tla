---------------------------- MODULE RegistryCache ----------------------------
(***************************************************************************)
(* The provider cache of internal/registry: one directory                  *)
(* <namespace>/<name>/<version>/<os>_<arch> that concurrent Installs fill  *)
(* and concurrent Discovers read, with process deaths and a power loss.    *)
(*                                                                         *)
(* An archive stands for its SHA-256 digest (equal digests are equal       *)
(* archives), a SHA256SUMS document for its bytes.  File names of the      *)
(* directory are numbers in their lexical order.                           *)
(***************************************************************************)
EXTENDS Naturals, Sequences, FiniteSets

CONSTANTS
    Installers,   \* processes that run `tchori providers install`
    Readers,      \* processes that look the provider up to launch it
    Archives,     \* what a registry can serve as the archive
    Zip,          \* Zip[a]: [size, entries], entries a sequence of [name, size]
    Sums,         \* what a registry can serve as SHA256SUMS
    Lines,        \* Lines[d]: its lines, a sequence of [file, hash]
    Signed,       \* the SHA256SUMS documents a signature exists for
    Descriptors,  \* download descriptors: [file, shasum, keys, signatureURL]
    Names,        \* names of files in archives and in the cache directory
    Cleaned,      \* what filepath.Clean makes of a name
    Prefixed,     \* those that start with terraform-provider-
    Flat,         \* those that are one plain path element
    Globbed,      \* those that match terraform-provider-<name>*
    MaxArchive,   \* maxProviderArchiveBytes, in chunks
    MaxEntry,     \* maxZipEntryBytes, in chunks
    Silences,     \* the requests that a registry may leave unanswered
    PluginDirs,   \* the contents a plugin directory may have
    Obstacles,    \* the names that may hold something that is no regular file
    NoFile, Other, Null

Fetching == {"versions", "descriptor", "archive", "sums", "signature"}

ASSUME CacheAssumption ==
    /\ Names \subseteq Nat
    /\ Cleaned \in [Names -> Names]
    /\ Globbed \subseteq Prefixed /\ Prefixed \subseteq Names /\ Flat \subseteq Names
    /\ PluginDirs \subseteq SUBSET Prefixed
    /\ \A m \in Silences : m \subseteq Fetching
    /\ MaxArchive \in Nat /\ MaxEntry \in Nat
    /\ Zip \in [Archives -> [size : Nat, entries : Seq([name : Names, size : Nat])]]
    /\ \A d \in Sums : Lines[d] \in Seq([file : STRING, hash : Archives \cup {Null}])
    /\ \A d \in Descriptors :
          /\ d.file \in STRING /\ d.shasum \in Archives \cup {Null}
          /\ d.keys \in Seq(BOOLEAN) /\ d.signatureURL \in BOOLEAN
    /\ Signed \subseteq Sums
    /\ Null \notin Archives /\ Null \notin Sums /\ Null \notin Descriptors
    /\ NoFile # Other

\* A file with a provider binary: the archive it came from, how many chunks of
\* its entry are there, its mode, and whether its contents have been synced.
Files == [zip : Archives, written : Nat, exec : BOOLEAN, synced : BOOLEAN]

ASSUME FileAssumption == NoFile \notin Files /\ Other \notin Files

VARIABLES
    mute,     \* the requests that the registry never answers
    plugins,  \* the names in the plugin directory, {} when there is none
    job,      \* job[p]: the Install of process p
    scratch,  \* scratch[t]: temporary file t in the cache directory
    dir,      \* dir[n]: what name n holds
    holds,    \* holds[n]: what n may turn out to hold after a power loss
    reader,   \* reader[r]: a Discover and the launch that uses its result
    lost      \* the power loss has happened

vars == <<mute, plugins, job, scratch, dir, holds, reader, lost>>

NoJob == [phase |-> "idle", desc |-> Null, zip |-> Null, sums |-> Null,
          copied |-> 0, archived |-> FALSE]
NoReader == [phase |-> "idle", plugin |-> FALSE, name |-> 0, ran |-> NoFile]

Init ==
    /\ mute \in Silences
    /\ plugins \in PluginDirs
    /\ job = [p \in Installers |-> NoJob]
    /\ scratch = [p \in Installers |-> NoFile]
    /\ \E odd \in Obstacles : dir = [n \in Names |-> IF n \in odd THEN Other ELSE NoFile]
    /\ holds = [n \in Names |-> {dir[n]}]
    /\ reader = [r \in Readers |-> NoReader]
    /\ lost = FALSE

Phase(p) == job[p].phase

----------------------------------------------------------------------------
\* How an Install ends.

\* The deferred removals have run: nothing of p's temporary files is left.
Ended(p, phase) ==
    /\ job' = [job EXCEPT ![p] = [NoJob EXCEPT !.phase = phase]]
    /\ scratch' = [scratch EXCEPT ![p] = NoFile]

\* Mutation of Oversized: returns without removing the temporary binary.
OversizedKept(p) ==
    /\ job' = [job EXCEPT ![p] = [NoJob EXCEPT !.phase = "failed"]]
    /\ UNCHANGED scratch

\* The entry is longer than the limit.
Oversized(p) == Ended(p, "failed")

Moves(p, next) == job' = [job EXCEPT ![p] = next] /\ UNCHANGED scratch

\* Any error: a bad answer, a full disk, a corrupt entry, a failed system call.
Fails(p) == Ended(p, "failed")

----------------------------------------------------------------------------
\* Fetching.  The registry may answer each request anew with anything.

Start(p) ==
    /\ Phase(p) = "idle"
    /\ Moves(p, [job[p] EXCEPT !.phase = "versions"])
    /\ UNCHANGED <<mute, plugins, dir, holds, reader, lost>>

\* Mutation of Expires: only metadata requests have a deadline.
ExpiresMetadata(p) == Phase(p) \in Fetching \ {"archive"}

\* httpGet bounds each request and the reading of its body.
Expires(p) == Phase(p) \in Fetching

\* The deadline passes, the caller's context is cancelled, or the request fails.
FetchFails(p) ==
    /\ Expires(p)
    /\ Fails(p)
    /\ UNCHANGED <<mute, plugins, dir, holds, reader, lost>>

Versions(p) ==
    /\ Phase(p) = "versions" /\ Phase(p) \notin mute
    /\ \E offered \in BOOLEAN :
          IF offered THEN Moves(p, [job[p] EXCEPT !.phase = "descriptor"])
                     ELSE Fails(p)
    /\ UNCHANGED <<mute, plugins, dir, holds, reader, lost>>

Descriptor(p) ==
    /\ Phase(p) = "descriptor" /\ Phase(p) \notin mute
    /\ \E d \in Descriptors :
          Moves(p, [job[p] EXCEPT !.phase = "archive", !.desc = d])
    /\ UNCHANGED <<mute, plugins, dir, holds, reader, lost>>

\* At most one chunk more than the limit is read, to tell a fit from an excess.
Download(p) ==
    /\ Phase(p) = "archive" /\ Phase(p) \notin mute
    /\ \E a \in Archives :
          IF Zip[a].size > MaxArchive
          THEN Fails(p)
          ELSE Moves(p, [job[p] EXCEPT !.phase = "sums", !.zip = a,
                                       !.archived = TRUE])
    /\ UNCHANGED <<mute, plugins, dir, holds, reader, lost>>

FetchSums(p) ==
    /\ Phase(p) = "sums" /\ Phase(p) \notin mute
    /\ \E d \in Sums :
          IF job[p].desc.signatureURL
          THEN Moves(p, [job[p] EXCEPT !.phase = "signature", !.sums = d])
          ELSE Fails(p)
    /\ UNCHANGED <<mute, plugins, dir, holds, reader, lost>>

----------------------------------------------------------------------------
\* Verifying.

Entries(d, file) == {i \in DOMAIN Lines[d] : Lines[d][i].file = file}

\* verifyShasumsSignature: every advertised key is usable, and the signature
\* fetched, which is over some document or over none, is over these bytes.
Authentic(d, keys, signature) ==
    /\ keys # <<>>
    /\ \A i \in DOMAIN keys : keys[i]
    /\ signature = d

\* findSHA256: exactly one line names the file, with a well-formed digest.
Listed(d, file, a) ==
    /\ a # Null
    /\ Cardinality(Entries(d, file)) = 1
    /\ \A i \in Entries(d, file) : Lines[d][i].hash = a

\* The entries Install considers, in the archive's order; it takes the first.
\* The prefix is looked for in the name as it stands, and safeZipEntryName
\* takes the cleaned name, which need not have it.
Providers(a) ==
    {i \in DOMAIN Zip[a].entries : Zip[a].entries[i].name \in Prefixed}
First(I) == CHOOSE i \in I : \A j \in I : i <= j
Binary(a) == Zip[a].entries[First(Providers(a))]
Published(a) == Cleaned[Binary(a).name]
Extractable(a) == Providers(a) # {} /\ Published(a) \in Flat

Verify(p) ==
    /\ Phase(p) = "signature" /\ Phase(p) \notin mute
    /\ \E signature \in Signed \cup {Null} :
          LET j == job[p] IN
          IF /\ Authentic(j.sums, j.desc.keys, signature)
             /\ Listed(j.sums, j.desc.file, j.desc.shasum)
             /\ j.zip = j.desc.shasum
             /\ Extractable(j.zip)
          THEN Moves(p, [j EXCEPT !.phase = "extract", !.desc = Null, !.sums = Null])
          ELSE Fails(p)
    /\ UNCHANGED <<mute, plugins, dir, holds, reader, lost>>

----------------------------------------------------------------------------
\* extractZipFile.

Dest(p) == Published(job[p].zip)

\* Lstat of the destination, then the temporary file is created.
Inspect(p) ==
    /\ Phase(p) = "extract"
    /\ IF dir[Dest(p)] = Other
       THEN Fails(p)
       ELSE /\ job' = [job EXCEPT ![p].phase = "copy"]
            /\ scratch' = [scratch EXCEPT ![p] =
                  [zip |-> job[p].zip, written |-> 0, exec |-> FALSE,
                   synced |-> FALSE]]
    /\ UNCHANGED <<mute, plugins, dir, holds, reader, lost>>

\* Mutation of Asked: io.CopyN is asked for the limit, and stops there silently.
AskedLimit == MaxEntry

\* io.CopyN is asked for one chunk more than the limit.
Asked == MaxEntry + 1

Copy(p) ==
    /\ Phase(p) = "copy"
    /\ IF job[p].copied < Binary(job[p].zip).size /\ job[p].copied < Asked
       THEN /\ job' = [job EXCEPT ![p].copied = @ + 1]
            /\ scratch' = [scratch EXCEPT ![p].written = @ + 1]
       ELSE IF job[p].copied > MaxEntry
            THEN Oversized(p)
            ELSE Moves(p, [job[p] EXCEPT !.phase = "chmod"])
    /\ UNCHANGED <<mute, plugins, dir, holds, reader, lost>>

Chmod(p) ==
    /\ Phase(p) = "chmod"
    /\ job' = [job EXCEPT ![p].phase = "sync"]
    /\ scratch' = [scratch EXCEPT ![p].exec = TRUE]
    /\ UNCHANGED <<mute, plugins, dir, holds, reader, lost>>

\* Mutation of Synced: the barrier is left out.
NotSynced(f) == f

Synced(f) == [f EXCEPT !.synced = TRUE]

Sync(p) ==
    /\ Phase(p) = "sync"
    /\ job' = [job EXCEPT ![p].phase = "publish"]
    /\ scratch' = [scratch EXCEPT ![p] = Synced(@)]
    /\ UNCHANGED <<mute, plugins, dir, holds, reader, lost>>

\* Close and rename; the directory is not synced, so a power loss may undo it.
Publish(p) ==
    /\ Phase(p) = "publish"
    /\ dir' = [dir EXCEPT ![Dest(p)] = scratch[p]]
    /\ holds' = [holds EXCEPT ![Dest(p)] = @ \cup {scratch[p]}]
    /\ job' = [job EXCEPT ![p] = [NoJob EXCEPT !.phase = "returned",
                                               !.zip = job[p].zip]]
    /\ scratch' = [scratch EXCEPT ![p] = NoFile]
    /\ UNCHANGED <<mute, plugins, reader, lost>>

Extracting == {"extract", "copy", "chmod", "sync", "publish"}

\* Mutation of Broken: a failed rename is not reported.
BrokenQuietly(p) ==
    IF Phase(p) = "publish"
    THEN /\ job' = [job EXCEPT ![p] = [NoJob EXCEPT !.phase = "returned",
                                                    !.zip = job[p].zip]]
         /\ scratch' = [scratch EXCEPT ![p] = NoFile]
    ELSE Fails(p)

\* The failed step closes and removes the temporary file, nothing else.
Broken(p) == Fails(p)

ExtractFails(p) ==
    /\ Phase(p) \in Extracting
    /\ Broken(p)
    /\ UNCHANGED <<mute, plugins, dir, holds, reader, lost>>

Step(p) ==
    \/ Start(p) \/ FetchFails(p)
    \/ Versions(p) \/ Descriptor(p) \/ Download(p) \/ FetchSums(p) \/ Verify(p)
    \/ Inspect(p) \/ Copy(p) \/ Chmod(p) \/ Sync(p) \/ Publish(p)
    \/ ExtractFails(p)

----------------------------------------------------------------------------
\* Discover, and the launch of what it found.

Candidates == {n \in Globbed : dir[n] # NoFile}

\* The plugin directory comes first; filepath.Glob returns names in order.
Discover(r) ==
    /\ reader[r].phase = "idle"
    /\ reader' = [reader EXCEPT ![r] =
          IF plugins \cap Globbed # {}
          THEN [@ EXCEPT !.phase = "found", !.plugin = TRUE,
                         !.name = First(plugins \cap Globbed)]
          ELSE IF Candidates # {}
          THEN [@ EXCEPT !.phase = "found", !.name = First(Candidates)]
          ELSE [@ EXCEPT !.phase = "missing"]]
    /\ UNCHANGED <<mute, plugins, job, scratch, dir, holds, lost>>

\* The command opens the path some time later.
Run(r) ==
    /\ reader[r].phase = "found"
    /\ reader' = [reader EXCEPT ![r].phase = "running",
          ![r].ran = IF reader[r].plugin THEN Other ELSE dir[reader[r].name]]
    /\ UNCHANGED <<mute, plugins, job, scratch, dir, holds, lost>>

----------------------------------------------------------------------------
\* Faults.

\* p is killed: its temporary files stay.
Kill(p) ==
    /\ Phase(p) \notin {"idle", "returned", "failed", "gone"}
    /\ job' = [job EXCEPT ![p] = [NoJob EXCEPT !.phase = "gone",
                                               !.archived = job[p].archived]]
    /\ UNCHANGED <<mute, plugins, scratch, dir, holds, reader, lost>>

\* What a file not yet synced may have become.
Survivors(f) ==
    IF f \in {NoFile, Other} \/ f.synced
    THEN {f}
    ELSE [zip : {f.zip}, written : 0..f.written, exec : BOOLEAN, synced : {TRUE}]

\* Every process is gone and each rename may have been undone.
PowerLoss ==
    /\ ~lost /\ lost' = TRUE
    /\ dir' \in {d \in [Names -> UNION {Survivors(f) : f \in UNION {holds[n] : n \in Names}}] :
                    \A n \in Names : \E f \in holds[n] : d[n] \in Survivors(f)}
    /\ holds' = [n \in Names |-> {dir'[n]}]
    /\ job' = [p \in Installers |->
                  IF Phase(p) = "idle" THEN job[p] ELSE [NoJob EXCEPT !.phase = "gone"]]
    /\ scratch' = [p \in Installers |-> NoFile]
    /\ reader' = [r \in Readers |-> NoReader]
    /\ UNCHANGED <<mute, plugins>>

Next ==
    \/ \E p \in Installers : Step(p) \/ Kill(p)
    \/ \E r \in Readers : Discover(r) \/ Run(r)
    \/ PowerLoss

Spec == Init /\ [][Next]_vars

FairSpec == Spec /\ \A p \in Installers : WF_vars(Step(p))
----------------------------------------------------------------------------
\* Properties.

Phases == Fetching \cup Extracting \cup {"idle", "returned", "failed", "gone"}

\* Every variable has its type.
TypeOK ==
    /\ mute \subseteq Fetching /\ lost \in BOOLEAN
    /\ plugins \subseteq Prefixed
    /\ job \in [Installers -> [phase : Phases, desc : Descriptors \cup {Null},
                                zip : Archives \cup {Null}, sums : Sums \cup {Null},
                                copied : Nat, archived : BOOLEAN]]
    /\ scratch \in [Installers -> Files \cup {NoFile}]
    /\ dir \in [Names -> Files \cup {NoFile, Other}]
    /\ holds \in [Names -> SUBSET (Files \cup {NoFile, Other})]
    /\ reader \in [Readers -> [phase : {"idle", "found", "missing", "running"},
                               plugin : BOOLEAN, name : Nat,
                               ran : Files \cup {NoFile, Other}]]

\* Some signed document lists the archive, alone, under some file name.
Attested(a) ==
    \E d \in Signed : \E i \in DOMAIN Lines[d] :
        /\ Lines[d][i].hash = a
        /\ \A j \in DOMAIN Lines[d] : Lines[d][j].file = Lines[d][i].file => j = i

\* The file is all of an attested archive's provider binary, under its name.
Whole(f, n) ==
    /\ f \in Files
    /\ Attested(f.zip)
    /\ Extractable(f.zip)
    /\ n = Published(f.zip)
    /\ f.written = Binary(f.zip).size /\ f.written <= MaxEntry
    /\ f.exec

\* Whatever installs run at once, fail, die or lose power, a name of the cache
\* directory holds nothing, what was there before, or a whole verified
\* executable: extractZipFile publishes by one rename of a private file.
CacheIsWhole ==
    \A n \in Names : dir[n] \in {NoFile, Other} \/ Whole(dir[n], n)

\* What a command launches from the cache some time after Discover named it is
\* a whole verified executable, even if installs or a power loss came between
\* the two or before; and with a plugin directory that has a match the cache is
\* not used.
LaunchIsWhole ==
    \A r \in Readers :
        reader[r].phase = "running" =>
            \/ reader[r].plugin /\ reader[r].name \in plugins
            \/ /\ plugins \cap Globbed = {}
               /\ reader[r].ran = Other \/ Whole(reader[r].ran, reader[r].name)

\* An Install that returns, with or without error, has removed its temporary
\* archive and its temporary binary, at whatever step it failed.
NothingLeftBehind ==
    \A p \in Installers :
        Phase(p) \in {"returned", "failed"} =>
            ~job[p].archived /\ scratch[p] = NoFile

\* Until power is lost, the path that a successful Install returned holds a
\* verified provider, its own or one a later install put there, and Discover
\* finds one if the file's name is one Discover looks for.
ReturnedIsInstalled ==
    \A p \in Installers :
        Phase(p) = "returned" =>
            LET n == Dest(p) IN
            /\ Whole(dir[n], n)
            /\ n \in Globbed => First(Candidates) <= n

\* Whichever request the registry leaves unanswered, an Install that was
\* begun returns or its process dies: every request has a deadline.
InstallReturns ==
    \A p \in Installers :
        Phase(p) = "versions" ~> Phase(p) \in {"returned", "failed", "gone"}
=============================================================================
