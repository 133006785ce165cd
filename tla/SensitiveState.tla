--------------------------- MODULE SensitiveState ---------------------------
(***************************************************************************)
(* What internal/state does to the sensitive parts of a state document     *)
(* over the sessions of several commands: Load, the changes a command      *)
(* makes, and Save with its sanitization of state and backup, while the    *)
(* configuration changes and live schemas come and go.                     *)
(***************************************************************************)
EXTENDS Paths

CONSTANTS
    Addrs,         \* resource addresses
    Schema,        \* [type, sensitive, sets, paths]: the one resource type's schema
    Values,        \* the values a provider may return when it writes
    Reads,         \* those it may return when it reads
    Secrets,       \* the strings that no configuration spells out
    Declarations,  \* the values of sensitive_attributes
    Raws,          \* the resource's bodies in the configuration
    Presences,     \* which addresses a configuration may declare
    Reachable,     \* the addresses for which a session may have live schemas
    LegacyPaths,   \* the sensitive paths an older engine may have recorded
    MaxSaves,      \* bound on the saves of a behaviour
    Lost

\* internal/sensitive for this schema, as Projection has it.
CONSTANTS
    Literals(_, _),            \* raw configuration, paths: what it spells out there
    ProjectUnder(_, _),        \* specification, value: what is shown and withheld
    Restore(_, _, _, _),       \* public, contract, paths, version: the value again
    CarryForward(_, _, _, _),  \* literals, prior, read, paths: the read completed
    RedactJSON(_, _),          \* JSON, paths: what is left, and what was nulled
    Texts(_)                   \* JSON: its strings and their places

ASSUME AddressesAssumption == Presences \cup Reachable \subseteq SUBSET Addrs

VARIABLES
    config,   \* [declared, raw, present]
    disk,     \* the state document
    backup,   \* its backup
    session,  \* the command at work
    saves     \* how many saves were tried

vars == <<config, disk, backup, session, saves>>

----------------------------------------------------------------------------
\* internal/sensitive, the part that is not recursive.

\* Resolve: the schema's paths, the declared ones, and what is spelled out.
Resolve(declared, raw) ==
    LET paths == Schema.sensitive \cup declared
    IN Spec(paths, Literals(raw, paths), Schema.sets)

\* Persisted paths that the live schema no longer has are dropped.
ResolveWithPersisted(declared, persisted, raw) ==
    Resolve(declared \cup (persisted \cap Schema.paths), raw)

\* Project: public JSON, withheld instances and contract.
Project(spec, v) == Contracted(spec, ProjectUnder(spec, v))

----------------------------------------------------------------------------
\* Documents and sessions.

\* truth and ever are history: what the provider last returned, unless it is
\* lost, and the sensitive paths the entry has ever been given.
Entry(attrs, contract, version, paths, redacted, truth, ever) ==
    [attrs |-> attrs, contract |-> contract, version |-> version, paths |-> paths,
     redacted |-> redacted, truth |-> truth, ever |-> ever]

NoEntry == [none |-> TRUE]

Opened(e) == Restore(e.attrs, e.contract, e.paths, e.version)

Document(format, entries) == [format |-> format, entries |-> entries]
Listed(entries) == {a \in Addrs : entries[a] # NoEntry}

\* An entry of generation zero, written under the paths by an older engine.
Legacy(v, paths) ==
    LET p == ProjectUnder(Spec(paths, {}, Schema.sets), v)
        kept == Restore(p.json, NoContract, paths, 0) = [ok |-> TRUE, value |-> v]
    IN Entry(p.json, NoContract, 0, paths, p.redacted, IF kept THEN v ELSE Lost, paths)

Empty == Document("current", [a \in Addrs |-> NoEntry])
Session(kind, live, doc, hints, unsaved) ==
    [kind |-> kind, live |-> live, doc |-> doc, hints |-> hints, unsaved |-> unsaved]
Closed == Session("none", {}, Empty, [a \in Addrs |-> {}], FALSE)

Init ==
    /\ config \in [declared : Declarations, raw : Raws, present : Presences]
    /\ \/ disk = Empty
       \/ \E v \in Values, p \in LegacyPaths :
             disk = Document("legacy", [a \in Addrs |-> Legacy(v, p)])
    /\ backup = Empty
    /\ session = Closed
    /\ saves = 0

----------------------------------------------------------------------------
\* A command.  "apply" resolves every address whose provider runs, "import"
\* and "sanitize" only those of the configuration.

Load ==
    /\ session.kind = "none" /\ saves < MaxSaves
    /\ \E kind \in {"apply", "import", "sanitize"}, r \in Reachable :
          session' = Session(kind, r, disk, [a \in Addrs |-> {}], FALSE)
    /\ UNCHANGED <<config, disk, backup, saves>>

\* The command ends, with or without having saved.
Exit ==
    /\ session.kind # "none"
    /\ session' = Closed
    /\ UNCHANGED <<config, disk, backup, saves>>

Edit ==
    /\ session.kind = "none" /\ saves < MaxSaves
    /\ config' \in [declared : Declarations, raw : Raws, present : Presences]
    /\ UNCHANGED <<disk, backup, session, saves>>

Declared(a) == IF a \in config.present THEN config.declared ELSE {}
Raw(a) == IF a \in config.present THEN config.raw ELSE Null

\* Mutation of Resolved: the configuration is taken for the whole truth.
ResolvedAfresh(a, paths) == Resolve(Declared(a), Raw(a))

\* The specification for an entry that records these paths.
Resolved(a, paths) == ResolveWithPersisted(Declared(a), paths, Raw(a))

Resolvable(a) ==
    /\ a \in session.live
    /\ session.kind = "apply" \/ a \in config.present

\* The resolver the command registered: effective paths and specification.
Resolution(a, e) ==
    IF session.kind = "sanitize"
    THEN LET s == Resolve(Declared(a), Raw(a))
             loaded == session.doc.entries[a]
         IN [spec |-> s, paths |-> s.paths \cup loaded.paths \cup loaded.redacted]
    ELSE LET s == Resolved(a, e.paths) IN [spec |-> s, paths |-> s.paths]

\* buildSensitiveContext gives up before any save.
ContextFails ==
    /\ session.kind = "sanitize"
    /\ \E a \in Listed(session.doc.entries) :
          LET e == session.doc.entries[a] IN
          IF a \in config.present THEN a \notin session.live
                                  ELSE e.paths \cup e.redacted = {}

\* Mutation of Changed: the paths are not noted.
ChangedUnnoted(a, entry, paths) ==
    session' = Session(session.kind, session.live,
                  Document(session.doc.format, [session.doc.entries EXCEPT ![a] = entry]),
                  session.hints, TRUE)

\* The session's entry of a and its hints have changed; a save follows.
Changed(a, entry, paths) ==
    session' = Session(session.kind, session.live,
                  Document(session.doc.format, [session.doc.entries EXCEPT ![a] = entry]),
                  [session.hints EXCEPT ![a] = @ \cup paths], TRUE)

\* The entry of a becomes v, projected.
Record(a, spec, v) ==
    LET old == session.doc.entries[a]
        p == Project(spec, v)
        ever == spec.paths \cup IF old = NoEntry THEN {} ELSE old.ever
    IN Changed(a, Entry(p.json, p.contract, 4, spec.paths, p.redacted, v, ever), spec.paths)

\* apply records what the provider returned.
Write ==
    /\ session.kind = "apply" /\ ~session.unsaved /\ saves < MaxSaves
    /\ \E a \in config.present \cap session.live, v \in Values :
          LET old == session.doc.entries[a]
          IN Record(a, Resolved(a, IF old = NoEntry THEN {} ELSE old.paths), v)
    /\ UNCHANGED <<config, disk, backup, saves>>

\* import of an address that has no entry.
Import ==
    /\ session.kind = "import" /\ ~session.unsaved /\ saves < MaxSaves
    /\ \E a \in config.present \cap session.live, v \in Reads :
          /\ session.doc.entries[a] = NoEntry
          /\ Record(a, Resolved(a, {}), v)
    /\ UNCHANGED <<config, disk, backup, saves>>

\* Mutation of ImportRefresh: the read is recorded as it is.
RefreshAsRead ==
    /\ session.kind = "import" /\ ~session.unsaved /\ saves < MaxSaves
    /\ \E a \in config.present \cap session.live, v \in Reads :
          LET old == session.doc.entries[a]
          IN old # NoEntry /\ Record(a, Resolved(a, old.paths), v)
    /\ UNCHANGED <<config, disk, backup, saves>>

\* import --refresh: the earlier value is restored, and what the provider's
\* read leaves out of it is carried forward, or the command fails.
ImportRefresh ==
    /\ session.kind = "import" /\ ~session.unsaved /\ saves < MaxSaves
    /\ \E a \in config.present \cap session.live, v \in Reads :
          LET old == session.doc.entries[a]
              spec == Resolved(a, old.paths)
              prior == Opened(old)
              carried == CarryForward(spec.exempt, prior.value, v, old.paths)
          IN old # NoEntry /\ prior.ok /\ carried.ok /\ Record(a, spec, carried.value)
    /\ UNCHANGED <<config, disk, backup, saves>>

\* apply has destroyed the resource.
Delete ==
    /\ session.kind = "apply" /\ ~session.unsaved /\ saves < MaxSaves
    /\ \E a \in Listed(session.doc.entries) \cap session.live :
          Changed(a, NoEntry, Resolved(a, session.doc.entries[a].paths).paths)
    /\ UNCHANGED <<config, disk, backup, saves>>

----------------------------------------------------------------------------
\* sanitizeAll, one entry.

Sanitized(ok, e) == [ok |-> ok, entry |-> e]

\* Provider-free redaction destroys what it nulls.
Redacted(e, paths) ==
    LET r == RedactJSON(e.attrs, paths) IN
    Entry(r.json, e.contract, e.version, e.paths, e.redacted \cup r.changed,
          IF r.changed = {} THEN e.truth ELSE Lost, e.ever)

\* "Removing a config declaration must not declassify a stored secret."
Recalled(e, hints, live) == e.paths \cup e.redacted \cup hints \cup live

\* The entry bound to these paths.
Bound(e, paths, redacted) ==
    Entry(e.attrs, e.contract, e.version, paths, redacted, e.truth, e.ever \cup paths)

\* Mutation of Reproject: only the paths that are resolved now are withheld.
ReprojectResolved(bound, spec, value) ==
    LET p == Project(spec, value)
        redacted == bound.redacted \cup p.redacted
    IN Entry(p.json, Rebind(p.contract, bound.paths, redacted), 4, bound.paths, redacted,
             bound.truth, bound.ever)

\* SanitizeJSON: what was opened is projected under the paths.
Reproject(bound, spec, value) ==
    LET p == Project(Spec(bound.paths, spec.exempt, spec.all), value)
        redacted == bound.redacted \cup p.redacted
    IN Entry(p.json, Rebind(p.contract, bound.paths, redacted), 4, bound.paths, redacted,
             bound.truth, bound.ever)

\* The entry e is opened under its paths and projected as bound.
Renewed(e, bound, spec) ==
    LET opened == Opened(e) IN
    IF opened.ok THEN Sanitized(TRUE, Reproject(bound, spec, opened.value))
                 ELSE Sanitized(FALSE, bound)

Public(e) ==
    Sanitized(TRUE, Entry(e.attrs, NewContract(e.attrs, {}, {}), 4, {}, {}, e.truth, e.ever))

SanitizeResolved(e, hints, r) ==
    LET paths == Recalled(e, hints, r.paths) IN
    IF paths = {} THEN Public(e)
                  ELSE Renewed(e, Bound(e, paths, e.redacted \cap paths), r.spec)

\* Mutation of SanitizeOrphan: what has a contract is redacted like the rest.
SanitizeOrphanAnew(e, hints, current) ==
    LET paths == Recalled(e, hints, {})
        r == Redacted(e, paths)
    IN IF paths = {} THEN (IF current THEN Public(e) ELSE Sanitized(TRUE, e))
       ELSE IF ~current THEN Sanitized(TRUE, r)
       ELSE Sanitized(TRUE, Entry(r.attrs, NewContract(r.attrs, paths, r.redacted), 4, paths,
                                  r.redacted, r.truth, r.ever \cup paths))

\* Without a schema nothing is declassified, and what has a contract must not
\* be redacted further.  A current document notes the paths.
SanitizeOrphan(e, hints, current) ==
    LET paths == Recalled(e, hints, {})
        r == Redacted(e, paths)
    IN IF paths = {} THEN (IF current THEN Public(e) ELSE Sanitized(TRUE, e))
       ELSE IF e.version = 4 /\ e.contract # NoContract /\ hints = {} THEN Sanitized(TRUE, e)
       ELSE IF e.contract # NoContract THEN Sanitized(FALSE, e)
       ELSE IF ~current THEN Sanitized(TRUE, r)
       ELSE Sanitized(TRUE, Entry(r.attrs, NewContract(r.attrs, paths, r.redacted), 4, paths,
                                  r.redacted, r.truth, r.ever \cup paths))

SanitizeEntry(a) ==
    LET e == session.doc.entries[a]
        hints == session.hints[a]
    IN IF Resolvable(a) THEN SanitizeResolved(e, hints, Resolution(a, e))
                        ELSE SanitizeOrphan(e, hints, session.doc.format = "current")

\* The entries of which those in done were sanitized.
Partly(entries, S, done) == [a \in Addrs |-> IF a \in done THEN S[a].entry ELSE entries[a]]

\* The entries after sanitizeAll.  The map's order is random: it stops at one
\* that cannot be sanitized, and any of the others may have been before it.
Outcomes(entries, S) ==
    LET bad == {a \in DOMAIN S : ~S[a].ok} IN
    IF bad = {}
    THEN {Sanitized(TRUE, Partly(entries, S, DOMAIN S))}
    ELSE {Sanitized(FALSE, Partly(entries, S, done)) :
             done \in {d \in SUBSET DOMAIN S : \E b \in bad : d \cap bad = {b}}}

SanitizeAll ==
    Outcomes(session.doc.entries,
             [a \in Listed(session.doc.entries) |-> SanitizeEntry(a)])

----------------------------------------------------------------------------
\* prepareBackup, one entry of the document on disk.

BackupEntry(a) ==
    LET e == disk.entries[a]
        current == session.doc.entries[a]
        known == e.paths \cup e.redacted \cup session.hints[a]
                    \cup IF current = NoEntry THEN {} ELSE current.paths
        paths == IF Resolvable(a) THEN known \cup Resolution(a, e).paths ELSE known
    IN IF Resolvable(a)
       THEN IF paths = {}
            THEN Public(e)
            ELSE Renewed(e, Bound(e, paths, e.redacted), WithoutLiterals(Resolution(a, e).spec))
       ELSE Sanitized(TRUE, IF paths = {} \/ e.contract # NoContract THEN e
                            ELSE Redacted(e, paths))

\* Mutation of Format: one current entry makes the document current.
FormatAny(entries) ==
    IF \A a \in Listed(entries) : entries[a].version = 0
    THEN IF Listed(entries) = {} THEN "current" ELSE "legacy"
    ELSE "current"

\* persistedFormatVersion: generations do not mix.
Format(entries) ==
    LET versions == {entries[a].version : a \in Listed(entries)} IN
    IF versions = {0, 4} THEN "none" ELSE IF versions = {0} THEN "legacy" ELSE "current"

\* sealSensitiveSetRecovery
Sealable(entries) ==
    \A a \in Listed(entries) :
        LET e == entries[a] IN
        e.version = 4 => /\ Valid(e.attrs, e.contract)
                         /\ e.contract.paths = e.paths
                         /\ e.contract.redacted = e.redacted

Marshalable(entries) == Format(entries) # "none" /\ Sealable(entries)

\* What becomes of the document on disk as a backup: one in which nothing
\* changes is copied as it is, any other is encoded again.
Rewritten(ok, entries) ==
    Sanitized(ok /\ (disk = Document("current", entries) \/ Marshalable(entries)),
              Document(Format(entries), entries))

Prepared(B) ==
    Rewritten(\A a \in DOMAIN B : B[a].ok,
              [a \in Addrs |-> IF a \in DOMAIN B THEN B[a].entry ELSE NoEntry])

Backup == Prepared([a \in Listed(disk.entries) |-> BackupEntry(a)])

----------------------------------------------------------------------------
\* Save.  apply's marker says that it is incomplete until its last save.

\* What the session goes on with: only apply lives on after a save.
Continues(entries) ==
    session' = IF session.kind = "apply"
               THEN Session("apply", session.live, Document(session.doc.format, entries),
                            session.hints, FALSE)
               ELSE Closed

BackupRefused(b) ==
    /\ ~b.ok
    /\ Continues(session.doc.entries)
    /\ UNCHANGED <<disk, backup>>

\* The session's entries may be sanitized in part.
SanitizeRefused(s) ==
    /\ ~s.ok
    /\ Continues(s.entry)
    /\ UNCHANGED <<disk, backup>>

\* The document has no format, must not be mutated by an apply, or cannot be
\* sealed.
MarshalRefused(s, incomplete) ==
    /\ ~Marshalable(s.entry) \/ (Format(s.entry) = "legacy" /\ incomplete)
    /\ Continues(s.entry)
    /\ UNCHANGED <<disk, backup>>

\* An error stops the save, on either side of the backup's rename.
Interrupted(s, b) ==
    /\ Marshalable(s.entry)
    /\ backup' \in {backup, b.entry}
    /\ Continues(s.entry)
    /\ UNCHANGED disk

Committed(s, b, incomplete) ==
    /\ Marshalable(s.entry) /\ ~(Format(s.entry) = "legacy" /\ incomplete)
    /\ backup' = b.entry
    /\ disk' = Document(Format(s.entry), s.entry)
    /\ session' = IF session.kind = "apply"
                  THEN Session("apply", session.live, disk', session.hints, FALSE)
                  ELSE Closed

Save ==
    /\ session.kind # "none" /\ ~ContextFails
    /\ saves < MaxSaves /\ saves' = saves + 1
    /\ UNCHANGED config
    /\ \E b \in {Backup}, s \in SanitizeAll :
          \/ BackupRefused(b)
          \/ b.ok /\ SanitizeRefused(s)
          \/ b.ok /\ s.ok /\ Interrupted(s, b)
          \/ /\ b.ok /\ s.ok
             /\ \E incomplete \in {FALSE, session.kind = "apply"} :
                   MarshalRefused(s, incomplete) \/ Committed(s, b, incomplete)

Next ==
    \/ Load \/ Exit \/ Edit
    \/ Write \/ Delete \/ Import \/ ImportRefresh
    \/ Save

StateSpec == Init /\ [][Next]_vars
----------------------------------------------------------------------------
\* Properties.

Entries(doc) == {doc.entries[a] : a \in Listed(doc.entries)}

\* No document on disk, state or backup, shows a value at a path that the entry
\* was ever given as sensitive, unless it is a literal of the configuration:
\* whatever was edited, resolved or not, refused or half done in between.
SecretsWithheld ==
    \A e \in Entries(disk) \cup Entries(backup) :
        \A x \in Texts(e.attrs) : Covered(x[1], e.ever) => x[2] \notin Secrets

\* As long as an entry lives, the sensitive paths it records only grow, also
\* when declarations are removed, schemas are missing or saves fail half way.
PathsAreRemembered ==
    \A e \in Entries(disk) : e.ever \cap Schema.paths \subseteq e.paths

\* What a document on disk records as sensitive for an address, the next one
\* does too, as long as it lists the address: whatever the command that wrote it
\* knew of configuration and schemas, and also if it destroyed and created the
\* resource anew in between.
RecordedPathsStay ==
    [][\A a \in Listed(disk.entries) \cap Listed(disk'.entries) :
          disk.entries[a].paths \cap Schema.paths \subseteq disk'.entries[a].paths]_vars

\* Withholding loses nothing: from the public part and the contract of an entry
\* in state, backup or a session, even one whose save failed half way, the value
\* the provider returned is restored, under any change of policy since.
ValuesAreRestored ==
    \A e \in Entries(disk) \cup Entries(backup)
              \cup (IF session.kind = "none" THEN {} ELSE Entries(session.doc)) :
        e.truth # Lost => Opened(e) = [ok |-> TRUE, value |-> e.truth]

\* Only apply makes a withheld value disappear: a read that leaves it out, as
\* providers do with write-only attributes, a sanitization under another
\* policy, and the saves of both keep a value where there was one.
WithheldSurvives ==
    [][session.kind \in {"import", "sanitize"} =>
         \A a \in Listed(disk.entries) \cap Listed(disk'.entries) :
            LET old == disk.entries[a]
                new == disk'.entries[a]
            IN old.truth # Lost /\ new.truth # Lost =>
                  \A n \in DOMAIN Schema.type.f :
                     Covered(Attr(<<>>, n), old.paths) /\ old.truth.f[n] # Null =>
                        new.truth.f[n] # Null]_vars

\* UnmarshalJSON takes the document.
Loadable(doc) ==
    doc.format = "current" =>
        \A e \in Entries(doc) :
            /\ e.version = 4 /\ Valid(e.attrs, e.contract)
            /\ e.contract.paths = e.paths /\ e.contract.redacted = e.redacted

\* Every document a save leaves, as state or as backup, is one that Load takes.
SavedIsLoadable == Loadable(disk) /\ Loadable(backup)
=============================================================================
