------------------------ MODULE RegistryCache_proofs ------------------------
(***************************************************************************)
(* Proofs about RegistryCache for any number of processes, any archives    *)
(* and documents that a registry may serve, and any limits.                *)
(***************************************************************************)
EXTENDS RegistryCache, FiniteSetTheorems, WellFoundedInduction, TLAPS

\* What an installing process can remember.
Jobs == [phase : Phases, desc : Descriptors \cup {Null}, zip : Archives \cup {Null},
         sums : Sums \cup {Null}, copied : Nat, archived : BOOLEAN]

\* An archive that Verify accepts.
Verified(a) == a \in Archives /\ Attested(a) /\ Extractable(a)

\* What a job knows of its own temporary file at each phase.
JobOK(j, s) ==
    /\ j.phase = "signature" => j.sums \in Sums
    /\ j.phase \in Fetching \cup {"idle", "extract"} => j.copied = 0
    /\ j.phase \in Extracting \cup {"returned"} => Verified(j.zip)
    /\ j.phase \in {"copy", "chmod", "sync", "publish"} =>
          /\ s \in Files /\ s.zip = j.zip /\ s.written = j.copied
          /\ j.copied <= Binary(j.zip).size
    /\ j.phase \in {"chmod", "sync", "publish"} =>
          j.copied = Binary(j.zip).size /\ j.copied <= MaxEntry
    /\ j.phase \in {"sync", "publish"} => s.exec
    /\ j.phase = "publish" => s.synced
    /\ j.phase \in Fetching \cup {"idle", "extract", "returned", "failed"} => s = NoFile
    /\ j.phase \in {"idle", "versions", "descriptor", "archive", "returned", "failed"} => ~j.archived

\* Every job agrees with its own temporary file.
JobInv == \A p \in Installers : JobOK(job[p], scratch[p])

\* What a name of the cache directory may hold now or after a power loss:
\* nothing else was ever renamed to it, and that had been synced before.
Kept(f, n) == f \in {NoFile, Other} \/ (Whole(f, n) /\ f.synced)

DirInv ==
    \A n \in Names : dir[n] \in holds[n] /\ \A f \in holds[n] : Kept(f, n)

\* What a reader found is still there, what it runs is whole.
ReaderOK(x, d, here) ==
    /\ x.phase = "idle" => ~x.plugin
    /\ x.phase \in {"found", "running"} =>
          IF x.plugin THEN x.name \in here
          ELSE here \cap Globbed = {} /\ x.name \in Names
    /\ x.phase = "found" /\ ~x.plugin => d[x.name] # NoFile
    /\ x.phase = "running" /\ ~x.plugin => x.ran # NoFile /\ Kept(x.ran, x.name)

\* Every reader's finding is still so.
ReaderInv == \A r \in Readers : ReaderOK(reader[r], dir, plugins)

\* The path of an Install that returned holds a file.
ReturnedInv ==
    \A p \in Installers :
        Phase(p) = "returned" => dir[Dest(p)] \in Files

\* The inductive invariant.
IInv == TypeOK /\ JobInv /\ DirInv /\ ReaderInv /\ ReturnedInv

----------------------------------------------------------------------------
\* Operators.

\* A set of numbers that is not empty has a first one.
LEMMA FirstIsLeast ==
    ASSUME NEW I \in SUBSET Nat, I # {}
    PROVE  First(I) \in I /\ \A i \in I : First(I) <= i
<1>1. PICK i \in I : \A j \in I : ~ (<<j, i>> \in OpToRel(<, Nat))
  BY NatLessThanWellFounded, WFMin
<1>2. \A j \in I : ~ (j < i)
  BY <1>1, Zenon DEF OpToRel
<1>3. \A j \in I : i <= j
  BY <1>2
<1> QED
  BY <1>3 DEF First

\* The binary of an archive is one of its entries, under a name.
LEMMA BinaryType ==
    ASSUME NEW a \in Archives, Extractable(a)
    PROVE  Published(a) \in Names /\ Binary(a).size \in Nat
<1>1. Zip[a].entries \in Seq([name : Names, size : Nat])
  BY CacheAssumption
<1>2. Providers(a) \in SUBSET Nat
  BY <1>1 DEF Providers
<1>3. First(Providers(a)) \in DOMAIN Zip[a].entries
  BY <1>2, FirstIsLeast DEF Extractable, Providers
<1>4. \A S : \A e \in Seq(S) : \A i \in DOMAIN e : e[i] \in S
  OBVIOUS
<1>5. Binary(a) \in [name : Names, size : Nat]
  BY <1>1, <1>3, <1>4 DEF Binary
<1> QED
  BY <1>5, CacheAssumption DEF Published

\* What Verify has found: the document is signed and names the archive once.
LEMMA ListedIsAttested ==
    ASSUME NEW d \in Sums, NEW keys, NEW file, NEW a,
           NEW signature \in Signed \cup {Null},
           Authentic(d, keys, signature), Listed(d, file, a)
    PROVE  Attested(a)
<1>1. d \in Signed
  BY CacheAssumption DEF Authentic
<1>2. Lines[d] \in Seq([file : STRING, hash : Archives \cup {Null}])
  BY CacheAssumption
<1>3. IsFiniteSet(Entries(d, file))
  <2>1. Len(Lines[d]) \in Nat /\ DOMAIN Lines[d] = 1..Len(Lines[d])
    BY <1>2
  <2>2. IsFiniteSet(1..Len(Lines[d]))
    BY <2>1, FS_Interval
  <2>3. Entries(d, file) \in SUBSET (1..Len(Lines[d]))
    BY <2>1 DEF Entries
  <2> QED
    BY <2>2, <2>3, FS_Subset
<1>4. PICK i : Entries(d, file) = {i}
  BY <1>3, FS_Singleton DEF Listed
<1>5. i \in DOMAIN Lines[d] /\ Lines[d][i].file = file /\ Lines[d][i].hash = a
  BY <1>4 DEF Entries, Listed
<1>6. \A k \in DOMAIN Lines[d] : Lines[d][k].file = Lines[d][i].file => k = i
  BY <1>4, <1>5 DEF Entries
<1> QED
  BY <1>1, <1>5, <1>6 DEF Attested

----------------------------------------------------------------------------
\* One process.

\* A step of one process that leaves it in order leaves all in order.
LEMMA OneJob ==
    ASSUME TypeOK, JobInv, NEW p \in Installers,
           NEW j \in Jobs, NEW s \in Files \cup {NoFile}, JobOK(j, s),
           job' = [job EXCEPT ![p] = j], scratch' = [scratch EXCEPT ![p] = s]
    PROVE  /\ job' \in [Installers -> Jobs]
           /\ scratch' \in [Installers -> Files \cup {NoFile}]
           /\ JobInv'
<1>1. job \in [Installers -> Jobs] /\ scratch \in [Installers -> Files \cup {NoFile}]
  BY DEF TypeOK, Jobs
<1>2. job' \in [Installers -> Jobs] /\ scratch' \in [Installers -> Files \cup {NoFile}]
  BY <1>1
<1>3. ASSUME NEW q \in Installers PROVE JobOK(job'[q], scratch'[q])
  <2>1. CASE q = p
    BY <2>1, <1>1
  <2>2. CASE q # p
    BY <2>2, <1>1 DEF JobInv
  <2> QED
    BY <2>1, <2>2
<1> QED
  BY <1>2, <1>3 DEF JobInv

\* What a step makes of its own process.
Becomes(p, j, s) ==
    /\ j \in Jobs /\ s \in Files \cup {NoFile} /\ JobOK(j, s)
    /\ job' = [job EXCEPT ![p] = j]
    /\ scratch' = [scratch EXCEPT ![p] = s]

\* An Install that fails has removed its files.
LEMMA FailsBecomes ==
    ASSUME NEW p \in Installers, Fails(p)
    PROVE  \E j, s : Becomes(p, j, s)
<1> DEFINE j == [NoJob EXCEPT !.phase = "failed"]
<1>1. j \in Jobs /\ j.phase = "failed" /\ ~j.archived
  BY DEF NoJob, Jobs, Phases
<1>2. JobOK(j, NoFile)
  BY <1>1 DEF JobOK, Extracting, Fetching
<1>3. job' = [job EXCEPT ![p] = j] /\ scratch' = [scratch EXCEPT ![p] = NoFile]
  BY DEF Fails, Ended
<1> QED
  BY <1>1, <1>2, <1>3 DEF Becomes

\* Every step of an Install keeps it in order.
LEMMA StepBecomes ==
    ASSUME TypeOK, JobInv, NEW p \in Installers, Step(p) \/ Kill(p)
    PROVE  \E j, s : Becomes(p, j, s)
<1> DEFINE old == job[p]
           file == scratch[p]
<1>0. /\ job \in [Installers -> Jobs] /\ scratch \in [Installers -> Files \cup {NoFile}]
      /\ old \in Jobs /\ file \in Files \cup {NoFile}
      /\ JobOK(old, file)
  BY DEF TypeOK, Jobs, JobInv
\* What stays put may be named.
<1>s. scratch = [scratch EXCEPT ![p] = file]
  BY <1>0
<1> HIDE DEF old, file
<1>1. CASE Start(p)
  <2> DEFINE j == [old EXCEPT !.phase = "versions"]
  <2>1. old.phase = "idle" /\ job' = [job EXCEPT ![p] = j] /\ scratch' = scratch
    BY <1>1 DEF Start, Moves, Phase, old
  <2>2. j \in Jobs /\ JobOK(j, file)
    BY <1>0, <2>1 DEF Jobs, JobOK, Phases, Fetching, Extracting
  <2> QED
    BY <1>0, <1>s, <2>1, <2>2 DEF Becomes
<1>2. CASE FetchFails(p)
  BY <1>2, FailsBecomes DEF FetchFails
<1>3. CASE Versions(p)
  <2> DEFINE j == [old EXCEPT !.phase = "descriptor"]
  <2>1. CASE Fails(p)
    BY <2>1, FailsBecomes
  <2>2. CASE old.phase = "versions" /\ job' = [job EXCEPT ![p] = j] /\ scratch' = scratch
    <3>1. j \in Jobs /\ JobOK(j, file)
      BY <1>0, <2>2 DEF Jobs, JobOK, Phases, Fetching, Extracting
    <3> QED
      BY <1>0, <1>s, <2>2, <3>1 DEF Becomes
  <2> QED
    BY <1>3, <2>1, <2>2 DEF Versions, Moves, Phase, old
<1>4. CASE Descriptor(p)
  <2>1. PICK d \in Descriptors :
           Moves(p, [job[p] EXCEPT !.phase = "archive", !.desc = d])
    BY <1>4 DEF Descriptor
  <2> DEFINE j == [old EXCEPT !.phase = "archive", !.desc = d]
  <2>2. old.phase = "descriptor" /\ job' = [job EXCEPT ![p] = j] /\ scratch' = scratch
    BY <1>4, <2>1 DEF Descriptor, Moves, Phase, old
  <2>3. j \in Jobs /\ JobOK(j, file)
    BY <1>0, <2>2 DEF Jobs, JobOK, Phases, Fetching, Extracting
  <2> QED
    BY <1>0, <1>s, <2>2, <2>3 DEF Becomes
<1>5. CASE Download(p)
  <2>1. PICK a \in Archives :
           Fails(p) \/ Moves(p, [job[p] EXCEPT !.phase = "sums", !.zip = a, !.archived = TRUE])
    BY <1>5 DEF Download
  <2> DEFINE j == [old EXCEPT !.phase = "sums", !.zip = a, !.archived = TRUE]
  <2>2. CASE Fails(p)
    BY <2>2, FailsBecomes
  <2>3. CASE old.phase = "archive" /\ job' = [job EXCEPT ![p] = j] /\ scratch' = scratch
    <3>1. j \in Jobs /\ JobOK(j, file)
      BY <1>0, <2>3 DEF Jobs, JobOK, Phases, Fetching, Extracting
    <3> QED
      BY <1>0, <1>s, <2>3, <3>1 DEF Becomes
  <2> QED
    BY <1>5, <2>1, <2>2, <2>3 DEF Download, Moves, Phase, old
<1>6. CASE FetchSums(p)
  <2>1. PICK d \in Sums :
           Fails(p) \/ Moves(p, [job[p] EXCEPT !.phase = "signature", !.sums = d])
    BY <1>6 DEF FetchSums
  <2> DEFINE j == [old EXCEPT !.phase = "signature", !.sums = d]
  <2>2. CASE Fails(p)
    BY <2>2, FailsBecomes
  <2>3. CASE old.phase = "sums" /\ job' = [job EXCEPT ![p] = j] /\ scratch' = scratch
    <3>1. j \in Jobs /\ JobOK(j, file)
      BY <1>0, <2>3 DEF Jobs, JobOK, Phases, Fetching, Extracting
    <3> QED
      BY <1>0, <1>s, <2>3, <3>1 DEF Becomes
  <2> QED
    BY <1>6, <2>1, <2>2, <2>3 DEF FetchSums, Moves, Phase, old
<1>7. CASE Verify(p)
  <2> DEFINE j == [old EXCEPT !.phase = "extract", !.desc = Null, !.sums = Null]
  <2>1. CASE Fails(p)
    BY <2>1, FailsBecomes
  <2>2. ASSUME NEW signature \in Signed \cup {Null},
               Authentic(old.sums, old.desc.keys, signature),
               Listed(old.sums, old.desc.file, old.desc.shasum),
               old.zip = old.desc.shasum, Extractable(old.zip),
               old.phase = "signature", job' = [job EXCEPT ![p] = j], scratch' = scratch
        PROVE  \E k, t : Becomes(p, k, t)
    <3>1. old.sums \in Sums
      BY <1>0, <2>2 DEF JobOK
    <3>2. old.zip \in Archives
      BY <1>0, <2>2 DEF Jobs, Listed
    <3>3. Verified(old.zip)
      BY <2>2, <3>1, <3>2, ListedIsAttested DEF Verified
    <3>4. j \in Jobs /\ JobOK(j, file)
      BY <1>0, <2>2, <3>3 DEF Jobs, JobOK, Phases, Fetching, Extracting
    <3> QED
      BY <1>0, <1>s, <2>2, <3>4 DEF Becomes
  <2> QED
    BY <1>7, <2>1, <2>2 DEF Verify, Moves, Phase, old
<1>8. CASE Inspect(p)
  <2> DEFINE j == [old EXCEPT !.phase = "copy"]
             s == [zip |-> old.zip, written |-> 0, exec |-> FALSE, synced |-> FALSE]
  <2>1. CASE Fails(p)
    BY <2>1, FailsBecomes
  <2>2. CASE /\ old.phase = "extract" /\ job' = [job EXCEPT ![p] = j]
             /\ scratch' = [scratch EXCEPT ![p] = s]
    <3>1. Verified(old.zip) /\ old.copied = 0
      BY <1>0, <2>2 DEF JobOK, Extracting
    <3>2. s \in Files /\ Binary(old.zip).size \in Nat
      BY <3>1, BinaryType DEF Files, Verified
    <3>3. j \in Jobs
      BY <1>0 DEF Jobs, Phases, Extracting
    <3>4. JobOK(j, s)
      BY <1>0, <2>2, <3>1, <3>2 DEF Jobs, JobOK, Fetching, Extracting
    <3> QED
      BY <2>2, <3>2, <3>3, <3>4 DEF Becomes
  <2>3. Inspect(p) => Fails(p) \/ (Phase(p) = "extract" /\ job' = [job EXCEPT ![p].phase = "copy"]
           /\ scratch' = [scratch EXCEPT ![p] =
                 [zip |-> job[p].zip, written |-> 0, exec |-> FALSE, synced |-> FALSE]])
    BY DEF Inspect
  <2> QED
    BY <1>0, <1>8, <2>1, <2>2, <2>3 DEF Phase, old
<1>9. CASE Copy(p)
  <2>0. /\ old.phase = "copy"
        /\ Verified(old.zip) /\ file \in Files /\ file.zip = old.zip
        /\ file.written = old.copied /\ old.copied <= Binary(old.zip).size
        /\ Binary(old.zip).size \in Nat /\ old.copied \in Nat
    <3>1. old.phase = "copy"
      BY <1>9 DEF Copy, Phase, old
    <3>2. Verified(old.zip) /\ old.copied \in Nat
      BY <1>0, <3>1 DEF JobOK, Extracting, Jobs
    <3>3. Binary(old.zip).size \in Nat
      BY <3>2, BinaryType DEF Verified
    <3> QED
      BY <1>0, <3>1, <3>2, <3>3 DEF JobOK
  <2>1. CASE old.copied < Binary(old.zip).size /\ old.copied < Asked
    <3> DEFINE j == [old EXCEPT !.copied = @ + 1]
               s == [file EXCEPT !.written = @ + 1]
    <3>1. job' = [job EXCEPT ![p] = j] /\ scratch' = [scratch EXCEPT ![p] = s]
      BY <1>0, <1>9, <2>1 DEF Copy, Phase, old, file
    <3>2. s \in Files /\ s.zip = file.zip /\ s.written = file.written + 1
      BY <2>0 DEF Files
    <3>3. j \in Jobs /\ j.phase = "copy" /\ j.zip = old.zip /\ j.copied = old.copied + 1
      BY <1>0, <2>0 DEF Jobs
    <3>4. JobOK(j, s)
      BY <2>0, <2>1, <3>2, <3>3 DEF JobOK, Fetching, Extracting
    <3> QED
      BY <3>1, <3>2, <3>3, <3>4 DEF Becomes
  <2>2. CASE ~(old.copied < Binary(old.zip).size /\ old.copied < Asked) /\ old.copied > MaxEntry
    <3>1. Fails(p)
      BY <1>9, <2>2 DEF Copy, Oversized, Fails, old
    <3> QED
      BY <3>1, FailsBecomes
  <2>3. CASE ~(old.copied < Binary(old.zip).size /\ old.copied < Asked) /\ ~(old.copied > MaxEntry)
    <3> DEFINE j == [old EXCEPT !.phase = "chmod"]
    <3>1. job' = [job EXCEPT ![p] = j] /\ scratch' = scratch
      BY <1>9, <2>3 DEF Copy, Moves, old
    <3>2. j \in Jobs /\ j.phase = "chmod" /\ j.zip = old.zip /\ j.copied = old.copied
      BY <1>0 DEF Jobs, Phases, Extracting
    <3>3. old.copied = Binary(old.zip).size /\ old.copied <= MaxEntry
      BY <2>0, <2>3, CacheAssumption DEF Asked
    <3>4. JobOK(j, file)
      BY <2>0, <3>2, <3>3 DEF JobOK, Fetching, Extracting
    <3> QED
      BY <1>0, <1>s, <3>1, <3>2, <3>4 DEF Becomes
  <2> QED
    BY <2>1, <2>2, <2>3
<1>10. CASE Chmod(p)
  <2> DEFINE j == [old EXCEPT !.phase = "sync"]
             s == [file EXCEPT !.exec = TRUE]
  <2>1. old.phase = "chmod"
    BY <1>10 DEF Chmod, Phase, old
  <2>2. job' = [job EXCEPT ![p] = j] /\ scratch' = [scratch EXCEPT ![p] = s]
    BY <1>0, <1>10 DEF Chmod, old, file
  <2>3. file \in Files /\ Verified(old.zip)
    BY <1>0, <2>1 DEF JobOK, Extracting
  <2>4. s \in Files /\ s.zip = file.zip /\ s.written = file.written /\ s.exec
    BY <2>3 DEF Files
  <2>5. j \in Jobs /\ j.phase = "sync" /\ j.zip = old.zip /\ j.copied = old.copied
    BY <1>0 DEF Jobs, Phases, Extracting
  <2>6. JobOK(j, s)
    BY <1>0, <2>1, <2>3, <2>4, <2>5 DEF JobOK, Fetching, Extracting
  <2> QED
    BY <2>2, <2>4, <2>5, <2>6 DEF Becomes
<1>11. CASE Sync(p)
  <2> DEFINE j == [old EXCEPT !.phase = "publish"]
             s == [file EXCEPT !.synced = TRUE]
  <2>1. old.phase = "sync"
    BY <1>11 DEF Sync, Phase, old
  <2>2. job' = [job EXCEPT ![p] = j] /\ scratch' = [scratch EXCEPT ![p] = s]
    BY <1>0, <1>11 DEF Sync, Synced, old, file
  <2>3. file \in Files /\ Verified(old.zip)
    BY <1>0, <2>1 DEF JobOK, Extracting
  <2>4. s \in Files /\ s.zip = file.zip /\ s.written = file.written /\ s.exec = file.exec /\ s.synced
    BY <2>3 DEF Files
  <2>5. j \in Jobs /\ j.phase = "publish" /\ j.zip = old.zip /\ j.copied = old.copied
    BY <1>0 DEF Jobs, Phases, Extracting
  <2>6. JobOK(j, s)
    BY <1>0, <2>1, <2>3, <2>4, <2>5 DEF JobOK, Fetching, Extracting
  <2> QED
    BY <2>2, <2>4, <2>5, <2>6 DEF Becomes
<1>12. CASE Publish(p)
  <2> DEFINE j == [NoJob EXCEPT !.phase = "returned", !.zip = old.zip]
  <2>1. old.phase = "publish"
    BY <1>12 DEF Publish, Phase, old
  <2>2. job' = [job EXCEPT ![p] = j] /\ scratch' = [scratch EXCEPT ![p] = NoFile]
    BY <1>12 DEF Publish, old
  <2>3. Verified(old.zip)
    BY <1>0, <2>1 DEF JobOK, Extracting
  <2>4. j \in Jobs /\ j.phase = "returned" /\ j.zip = old.zip /\ ~j.archived
    BY <1>0 DEF NoJob, Jobs, Phases
  <2>5. JobOK(j, NoFile)
    BY <2>3, <2>4 DEF JobOK, Fetching, Extracting
  <2> QED
    BY <2>2, <2>4, <2>5 DEF Becomes
<1>13. CASE ExtractFails(p)
  BY <1>13, FailsBecomes DEF ExtractFails, Broken
<1>14. CASE Kill(p)
  <2> DEFINE j == [NoJob EXCEPT !.phase = "gone", !.archived = old.archived]
  <2>1. job' = [job EXCEPT ![p] = j] /\ scratch' = scratch
    BY <1>14 DEF Kill, old
  <2>2. j \in Jobs /\ j.phase = "gone"
    BY <1>0 DEF NoJob, Jobs, Phases
  <2>3. JobOK(j, file)
    BY <2>2 DEF JobOK, Fetching, Extracting
  <2> QED
    BY <1>0, <1>s, <2>1, <2>2, <2>3 DEF Becomes
<1> QED
  BY <1>1, <1>2, <1>3, <1>4, <1>5, <1>6, <1>7, <1>8, <1>9, <1>10, <1>11, <1>12,
     <1>13, <1>14 DEF Step
----------------------------------------------------------------------------
\* The cache directory.

\* All that a step other than the rename changes is the process's own.
LEMMA OnlyPublishChanges ==
    ASSUME NEW p \in Installers, Step(p) \/ Kill(p), ~Publish(p)
    PROVE  UNCHANGED <<mute, plugins, dir, holds, reader, lost>>
BY DEF Step, Kill, Start, FetchFails, Versions, Descriptor, Download, FetchSums,
       Verify, Inspect, Copy, Chmod, Sync, ExtractFails

\* Only the rename makes an Install return without error.
LEMMA OnlyPublishReturns ==
    ASSUME TypeOK, NEW p \in Installers, Step(p) \/ Kill(p), ~Publish(p)
    PROVE  job'[p].phase # "returned"
<1>0. job \in [Installers -> Jobs] /\ job[p] \in Jobs
  BY DEF TypeOK, Jobs
<1>1. ASSUME Fails(p) PROVE job'[p].phase = "failed"
  BY <1>0, <1>1 DEF Fails, Ended, NoJob
<1>2. ASSUME Start(p) \/ Versions(p) \/ Descriptor(p) \/ Download(p) \/ FetchSums(p) \/ Verify(p),
             ~Fails(p)
      PROVE  job'[p].phase # "returned"
  <2>1. CASE Start(p)
    BY <1>0, <2>1 DEF Start, Moves, Jobs
  <2>2. CASE Versions(p)
    BY <1>0, <1>2, <2>2 DEF Versions, Moves, Jobs
  <2>3. CASE Descriptor(p)
    BY <1>0, <2>3 DEF Descriptor, Moves, Jobs
  <2>4. CASE Download(p)
    BY <1>0, <1>2, <2>4, ZenonT(30) DEF Download, Moves, Jobs
  <2>5. CASE FetchSums(p)
    BY <1>0, <1>2, <2>5 DEF FetchSums, Moves, Jobs
  <2>6. CASE Verify(p)
    BY <1>0, <1>2, <2>6 DEF Verify, Moves, Jobs
  <2> QED
    BY <1>2, <2>1, <2>2, <2>3, <2>4, <2>5, <2>6
<1>3. ASSUME Inspect(p) \/ Chmod(p) \/ Sync(p), ~Fails(p)
      PROVE  job'[p].phase \in {"copy", "sync", "publish"}
  BY <1>0, <1>3 DEF Inspect, Chmod, Sync, Jobs
<1>4. ASSUME Copy(p), ~Fails(p)
      PROVE  job'[p].phase \in {"copy", "chmod"}
  BY <1>0, <1>4 DEF Copy, Oversized, Fails, Moves, Phase, Jobs
<1>5. ASSUME Kill(p) PROVE job'[p].phase = "gone"
  BY <1>0, <1>5 DEF Kill, NoJob
<1> QED
  BY <1>1, <1>2, <1>3, <1>4, <1>5 DEF Step, FetchFails, ExtractFails, Broken

\* What is renamed into place is whole and has been synced.
LEMMA PublishedIsWhole ==
    ASSUME TypeOK, JobInv, NEW p \in Installers, Publish(p)
    PROVE  /\ Dest(p) \in Names
           /\ Whole(scratch[p], Dest(p)) /\ scratch[p].synced
<1>1. JobOK(job[p], scratch[p]) /\ job[p].phase = "publish"
  BY DEF JobInv, Publish, Phase
<1>2. /\ scratch[p] \in Files /\ scratch[p].zip = job[p].zip
      /\ scratch[p].written = Binary(job[p].zip).size
      /\ scratch[p].written <= MaxEntry
      /\ scratch[p].exec /\ scratch[p].synced /\ Verified(job[p].zip)
  BY <1>1 DEF JobOK, Extracting
<1> QED
  BY <1>2, BinaryType DEF Whole, Dest, Verified

\* A power loss leaves at each name something it held, all of it.
LEMMA PowerLossKeeps ==
    ASSUME TypeOK, DirInv, PowerLoss
    PROVE  /\ dir' \in [Names -> Files \cup {NoFile, Other}]
           /\ \A n \in Names : dir'[n] \in holds[n]
<1>1. \A n \in Names : dir'[n] \in holds[n]
  <2> SUFFICES ASSUME NEW n \in Names PROVE dir'[n] \in holds[n]
    OBVIOUS
  <2>1. PICK f \in holds[n] : dir'[n] \in Survivors(f)
    BY DEF PowerLoss
  <2>2. Survivors(f) = {f}
    BY <2>1 DEF DirInv, Kept, Survivors
  <2> QED
    BY <2>1, <2>2
<1>2. \A n \in Names : holds[n] \subseteq Files \cup {NoFile, Other}
  BY DEF TypeOK
<1>3. \E S : dir' \in [Names -> S]
  BY DEF PowerLoss
<1> QED
  BY <1>1, <1>2, <1>3

\* After a power loss every process is idle or gone, with no file.
LEMMA PowerLossStops ==
    ASSUME TypeOK, JobInv, PowerLoss
    PROVE  /\ job' \in [Installers -> Jobs]
           /\ scratch' \in [Installers -> Files \cup {NoFile}]
           /\ \A p \in Installers : job'[p].phase \in {"idle", "gone"}
           /\ JobInv'
<1>1. \A p \in Installers :
         /\ job'[p] = IF job[p].phase = "idle" THEN job[p] ELSE [NoJob EXCEPT !.phase = "gone"]
         /\ scratch'[p] = NoFile
  BY DEF PowerLoss, Phase
<1>2. \A p \in Installers : job'[p] \in Jobs /\ job'[p].phase \in {"idle", "gone"}
  <2>1. [NoJob EXCEPT !.phase = "gone"] \in Jobs /\ [NoJob EXCEPT !.phase = "gone"].phase = "gone"
    BY DEF NoJob, Jobs, Phases
  <2>2. \A p \in Installers : job[p] \in Jobs
    BY DEF TypeOK, Jobs
  <2> QED
    BY <1>1, <2>1, <2>2
<1>3. \A p \in Installers : JobOK(job'[p], scratch'[p])
  <2> SUFFICES ASSUME NEW p \in Installers PROVE JobOK(job'[p], NoFile)
    BY <1>1
  <2>1. CASE job[p].phase = "idle"
    BY <1>1, <2>1 DEF JobInv, JobOK, Fetching, Extracting
  <2>2. CASE job[p].phase # "idle"
    <3>1. job'[p].phase = "gone"
      BY <1>1, <2>2 DEF NoJob
    <3> QED
      BY <3>1 DEF JobOK, Fetching, Extracting
  <2> QED
    BY <2>1, <2>2
<1>4. job' \in [Installers -> Jobs] /\ scratch' \in [Installers -> Files \cup {NoFile}]
  BY <1>2 DEF PowerLoss
<1> QED
  BY <1>2, <1>3, <1>4 DEF JobInv

----------------------------------------------------------------------------
\* The invariant.

\* At first no job is under way, and what the directory holds is nobody's file.
LEMMA InitInv == Init => IInv
<1> SUFFICES ASSUME Init PROVE IInv
  OBVIOUS
<1>1. NoJob \in Jobs /\ NoReader \in [phase : {"idle", "found", "missing", "running"},
         plugin : BOOLEAN, name : Nat, ran : Files \cup {NoFile, Other}]
  BY DEF NoJob, NoReader, Jobs, Phases
<1>2. /\ dir \in [Names -> {NoFile, Other}]
      /\ holds = [n \in Names |-> {dir[n]}]
  BY DEF Init
<1>3. TypeOK
  <2>1. mute \subseteq Fetching /\ plugins \subseteq Prefixed
    BY CacheAssumption DEF Init
  <2>2. holds \in [Names -> SUBSET (Files \cup {NoFile, Other})]
    BY <1>2
  <2> QED
    BY <1>1, <1>2, <2>1, <2>2 DEF Init, TypeOK, Jobs
<1>4. JobInv
  BY DEF Init, JobInv, JobOK, NoJob, Fetching, Extracting
<1>5. DirInv
  BY <1>2 DEF DirInv, Kept
<1>6. ReaderInv /\ ReturnedInv
  BY DEF Init, ReaderInv, ReaderOK, ReturnedInv, NoReader, NoJob, Phase
<1> QED
  BY <1>3, <1>4, <1>5, <1>6 DEF IInv

\* Steps of an Install, its death included.
LEMMA InstallKeeps ==
    ASSUME IInv, NEW p \in Installers, Step(p) \/ Kill(p)
    PROVE  IInv'
<1>0. TypeOK /\ JobInv /\ DirInv /\ ReaderInv /\ ReturnedInv
  BY DEF IInv
<1>1. PICK j, s : Becomes(p, j, s)
  BY <1>0, StepBecomes
<1>2. /\ job' \in [Installers -> Jobs] /\ scratch' \in [Installers -> Files \cup {NoFile}]
      /\ JobInv'
  BY <1>0, <1>1, OneJob DEF Becomes
<1>3. \A q \in Installers : q # p => job'[q] = job[q]
  BY <1>0, <1>1 DEF Becomes, TypeOK
<1>4. CASE Publish(p)
  <2> DEFINE f == scratch[p]
             n == Dest(p)
  <2>1. n \in Names /\ Whole(f, n) /\ f.synced /\ f \in Files
    BY <1>0, <1>4, PublishedIsWhole DEF Whole
  <2>2. /\ dir' = [dir EXCEPT ![n] = f]
        /\ holds' = [holds EXCEPT ![n] = @ \cup {f}]
        /\ UNCHANGED <<mute, plugins, reader, lost>>
    BY <1>4 DEF Publish
  <2> HIDE DEF f, n
  <2>3. TypeOK'
    BY <1>0, <1>2, <2>1, <2>2 DEF TypeOK, Jobs
  <2>4. DirInv'
    BY <1>0, <2>1, <2>2 DEF DirInv, Kept, TypeOK
  <2>5. \A m \in Names : dir[m] # NoFile => dir'[m] # NoFile
    BY <1>0, <2>1, <2>2, FileAssumption DEF TypeOK
  <2>6. ReaderInv'
    BY <1>0, <2>2, <2>5 DEF ReaderInv, ReaderOK, Kept
  <2>7. ReturnedInv'
    <3> SUFFICES ASSUME NEW q \in Installers, job'[q].phase = "returned"
                 PROVE  dir'[Published(job'[q].zip)] \in Files
      BY DEF ReturnedInv, Phase, Dest
    <3>0. Published(job'[q].zip) \in Names
      BY <1>2, BinaryType DEF JobInv, JobOK, Extracting, Verified
    <3>1. CASE q = p
      <4>1. job'[p].zip = job[p].zip
        BY <1>0, <1>4 DEF Publish, TypeOK, NoJob
      <4> QED
        BY <1>0, <3>1, <4>1, <2>1, <2>2 DEF Dest, TypeOK, n
    <3>2. CASE q # p
      <4>1. dir[Published(job'[q].zip)] \in Files
        BY <1>0, <1>3, <3>2 DEF ReturnedInv, Phase, Dest
      <4> QED
        BY <1>0, <3>0, <4>1, <2>1, <2>2 DEF TypeOK
    <3> QED
      BY <3>1, <3>2
  <2> QED
    BY <1>2, <2>3, <2>4, <2>6, <2>7 DEF IInv
<1>5. CASE ~Publish(p)
  <2>1. UNCHANGED <<mute, plugins, dir, holds, reader, lost>>
    BY <1>5, OnlyPublishChanges
  <2>2. TypeOK'
    BY <1>0, <1>2, <2>1 DEF TypeOK, Jobs
  <2>3. DirInv' /\ ReaderInv'
    BY <1>0, <2>1 DEF DirInv, ReaderInv
  <2>4. ReturnedInv'
    <3>1. job'[p].phase # "returned"
      BY <1>0, <1>5, OnlyPublishReturns
    <3> QED
      BY <1>0, <1>3, <2>1, <3>1 DEF ReturnedInv, Phase, Dest
  <2> QED
    BY <1>2, <2>2, <2>3, <2>4 DEF IInv
<1> QED
  BY <1>4, <1>5
\* What Discover can choose from has a first name.
LEMMA Choices ==
    ASSUME TypeOK
    PROVE  /\ plugins \cap Globbed # {} => First(plugins \cap Globbed) \in plugins \cap Names
           /\ Candidates # {} =>
                 First(Candidates) \in Candidates /\ First(Candidates) \in Names
           /\ \A n \in Candidates : First(Candidates) <= n
<1>1. plugins \cap Globbed \in SUBSET Nat /\ Candidates \in SUBSET Nat
  BY CacheAssumption DEF Candidates
<1>2. Candidates \subseteq Names /\ Globbed \subseteq Names
  BY CacheAssumption DEF Candidates
<1>3. CASE plugins \cap Globbed # {}
  BY <1>1, <1>2, <1>3, FirstIsLeast
<1>4. CASE Candidates # {}
  BY <1>1, <1>2, <1>4, FirstIsLeast
<1> QED
  BY <1>1, <1>2, FirstIsLeast

\* A reader's steps change only its own record; what it finds was renamed there.
LEMMA ReaderKeeps ==
    ASSUME IInv, NEW r \in Readers, Discover(r) \/ Run(r)
    PROVE  IInv'
<1>0. TypeOK /\ JobInv /\ DirInv /\ ReaderInv /\ ReturnedInv
  BY DEF IInv
<1>1. UNCHANGED <<mute, plugins, job, scratch, dir, holds, lost>>
  BY DEF Discover, Run
<1> DEFINE Kinds == [phase : {"idle", "found", "missing", "running"},
                     plugin : BOOLEAN, name : Nat, ran : Files \cup {NoFile, Other}]
<1>2. reader \in [Readers -> Kinds] /\ reader[r] \in Kinds
  BY <1>0 DEF TypeOK
<1>3. \E x \in Kinds : reader' = [reader EXCEPT ![r] = x] /\ ReaderOK(x, dir, plugins)
  <2>1. CASE Discover(r)
    <3>1. CASE plugins \cap Globbed # {}
      <4> DEFINE x == [reader[r] EXCEPT !.phase = "found", !.plugin = TRUE,
                                        !.name = First(plugins \cap Globbed)]
      <4>1. reader' = [reader EXCEPT ![r] = x]
        BY <2>1, <3>1, <1>2 DEF Discover
      <4>2. First(plugins \cap Globbed) \in plugins /\ First(plugins \cap Globbed) \in Nat
        BY <1>0, <3>1, Choices, CacheAssumption
      <4>3. x \in Kinds /\ ReaderOK(x, dir, plugins)
        BY <1>2, <4>2 DEF ReaderOK
      <4> QED
        BY <4>1, <4>3
    <3>2. CASE plugins \cap Globbed = {} /\ Candidates # {}
      <4> DEFINE x == [reader[r] EXCEPT !.phase = "found", !.name = First(Candidates)]
      <4>1. reader' = [reader EXCEPT ![r] = x] /\ reader[r].phase = "idle"
        BY <2>1, <3>2, <1>2 DEF Discover
      <4>2. /\ First(Candidates) \in Names /\ First(Candidates) \in Nat
            /\ dir[First(Candidates)] # NoFile
        BY <1>0, <3>2, Choices, CacheAssumption DEF Candidates
      <4>3. ~reader[r].plugin
        BY <1>0, <4>1 DEF ReaderInv, ReaderOK
      <4>4. x \in Kinds /\ x.phase = "found" /\ ~x.plugin /\ x.name = First(Candidates)
        BY <1>2, <4>2, <4>3
      <4>5. ReaderOK(x, dir, plugins)
        BY <3>2, <4>2, <4>4 DEF ReaderOK
      <4> QED
        BY <4>1, <4>4, <4>5
    <3>3. CASE plugins \cap Globbed = {} /\ Candidates = {}
      <4> DEFINE x == [reader[r] EXCEPT !.phase = "missing"]
      <4>1. reader' = [reader EXCEPT ![r] = x]
        BY <2>1, <3>3, <1>2 DEF Discover
      <4>2. x \in Kinds /\ ReaderOK(x, dir, plugins)
        BY <1>2 DEF ReaderOK
      <4> QED
        BY <4>1, <4>2
    <3> QED
      BY <3>1, <3>2, <3>3
  <2>2. CASE Run(r)
    <3> DEFINE y == IF reader[r].plugin THEN Other ELSE dir[reader[r].name]
               x == [reader[r] EXCEPT !.phase = "running", !.ran = y]
    <3>1. reader' = [reader EXCEPT ![r] = x] /\ reader[r].phase = "found"
      BY <2>2, <1>2 DEF Run
    <3>2. ReaderOK(reader[r], dir, plugins)
      BY <1>0 DEF ReaderInv
    <3>3. ~reader[r].plugin =>
             /\ reader[r].name \in Names /\ dir[reader[r].name] # NoFile
             /\ Kept(dir[reader[r].name], reader[r].name)
      BY <1>0, <3>1, <3>2 DEF ReaderOK, DirInv
    <3>4. y \in Files \cup {NoFile, Other}
      BY <1>0, <3>3 DEF TypeOK
    <3> HIDE DEF y
    <3>5. x \in Kinds
      BY <1>2, <3>4
    <3>6. ~reader[r].plugin => y = dir[reader[r].name]
      BY DEF y
    <3>7. ReaderOK(x, dir, plugins)
      BY <1>2, <3>1, <3>2, <3>3, <3>6 DEF ReaderOK
    <3> QED
      BY <3>1, <3>5, <3>7
  <2> QED
    BY <2>1, <2>2
<1>4. TypeOK'
  BY <1>0, <1>1, <1>2, <1>3 DEF TypeOK
<1>5. ReaderInv'
  BY <1>0, <1>1, <1>2, <1>3 DEF ReaderInv
<1>6. JobInv' /\ DirInv' /\ ReturnedInv'
  BY <1>0, <1>1 DEF JobInv, DirInv, ReturnedInv, Phase, Dest
<1> QED
  BY <1>4, <1>5, <1>6 DEF IInv

\* A power loss ends every process and keeps of each name a file it may hold.
LEMMA PowerLossInv == ASSUME IInv, PowerLoss PROVE IInv'
<1>0. TypeOK /\ JobInv /\ DirInv /\ ReaderInv /\ ReturnedInv
  BY DEF IInv
<1>1. /\ job' \in [Installers -> Jobs]
      /\ scratch' \in [Installers -> Files \cup {NoFile}]
      /\ \A p \in Installers : job'[p].phase \in {"idle", "gone"}
      /\ JobInv'
  BY <1>0, PowerLossStops
<1>2. /\ dir' \in [Names -> Files \cup {NoFile, Other}]
      /\ \A n \in Names : dir'[n] \in holds[n]
      /\ holds' = [n \in Names |-> {dir'[n]}]
  BY <1>0, PowerLossKeeps DEF PowerLoss
<1>3. /\ reader' = [r \in Readers |-> NoReader]
      /\ UNCHANGED <<mute, plugins>> /\ lost' = TRUE
  BY DEF PowerLoss
<1>4. TypeOK'
  <2>1. reader' \in [Readers -> [phase : {"idle", "found", "missing", "running"},
                      plugin : BOOLEAN, name : Nat, ran : Files \cup {NoFile, Other}]]
    BY <1>3 DEF NoReader
  <2>2. holds' \in [Names -> SUBSET (Files \cup {NoFile, Other})]
    BY <1>2
  <2> QED
    BY <1>0, <1>1, <1>2, <1>3, <2>1, <2>2 DEF TypeOK, Jobs
<1>5. DirInv'
  BY <1>0, <1>2 DEF DirInv
<1>6. ReaderInv'
  BY <1>3 DEF ReaderInv, ReaderOK, NoReader
<1>7. ReturnedInv'
  BY <1>1 DEF ReturnedInv, Phase
<1> QED
  BY <1>1, <1>4, <1>5, <1>6, <1>7 DEF IInv

\* The invariant holds in every reachable state.
THEOREM Invariance == Spec => []IInv
<1>1. IInv /\ [Next]_vars => IInv'
  <2> SUFFICES ASSUME IInv, [Next]_vars PROVE IInv'
    OBVIOUS
  <2>1. CASE \E p \in Installers : Step(p) \/ Kill(p)
    BY <2>1, InstallKeeps
  <2>2. CASE \E r \in Readers : Discover(r) \/ Run(r)
    BY <2>2, ReaderKeeps
  <2>3. CASE PowerLoss
    BY <2>3, PowerLossInv
  <2>4. CASE UNCHANGED vars
    BY <2>4 DEF vars, IInv, TypeOK, JobInv, DirInv, ReaderInv, ReturnedInv, Phase, Dest
  <2> QED
    BY <2>1, <2>2, <2>3, <2>4 DEF Next
<1> QED
  BY <1>1, InitInv, PTL DEF Spec

----------------------------------------------------------------------------
\* The properties.

\* Every variable keeps its type.
THEOREM TypeCorrect == Spec => []TypeOK
BY Invariance, PTL DEF IInv

\* extractZipFile: however many installs run, fail, die or lose power, no name
\* of the cache directory ever holds less than a whole verified executable.
THEOREM CacheWhole == Spec => []CacheIsWhole
<1>1. IInv => CacheIsWhole
  BY DEF IInv, DirInv, Kept, CacheIsWhole
<1> QED
  BY <1>1, Invariance, PTL

\* Discover and the launch: what a command runs from the cache is whole, even
\* when installs came between the look-up and the start.
THEOREM LaunchWhole == Spec => []LaunchIsWhole
<1>1. IInv => LaunchIsWhole
  BY DEF IInv, ReaderInv, ReaderOK, Kept, LaunchIsWhole
<1> QED
  BY <1>1, Invariance, PTL

\* Install's deferred removals: nothing is left behind when it returns.
THEOREM NothingLeft == Spec => []NothingLeftBehind
<1>1. IInv => NothingLeftBehind
  BY DEF IInv, JobInv, JobOK, Phase, NothingLeftBehind
<1> QED
  BY <1>1, Invariance, PTL

\* The path a successful Install returns holds a whole provider, and Discover
\* chooses it or an earlier name.
THEOREM ReturnedInstalled == Spec => []ReturnedIsInstalled
<1>1. IInv => ReturnedIsInstalled
  <2> SUFFICES ASSUME IInv, NEW p \in Installers, Phase(p) = "returned"
               PROVE  /\ Whole(dir[Dest(p)], Dest(p))
                      /\ Dest(p) \in Globbed => First(Candidates) <= Dest(p)
    BY DEF ReturnedIsInstalled
  <2>1. dir[Dest(p)] \in Files /\ Verified(job[p].zip)
    BY DEF IInv, ReturnedInv, JobInv, JobOK, Phase, Extracting
  <2>2. Dest(p) \in Names
    BY <2>1, BinaryType DEF Dest, Verified
  <2>3. Whole(dir[Dest(p)], Dest(p))
    BY <2>1, <2>2, FileAssumption DEF IInv, DirInv, Kept
  <2>4. Dest(p) \in Globbed => Dest(p) \in Candidates
    BY <2>1, FileAssumption DEF Candidates
  <2> QED
    BY <2>3, <2>4, Choices DEF IInv
<1> QED
  BY <1>1, Invariance, PTL
=============================================================================
