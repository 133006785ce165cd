------------------------ MODULE SensitiveState_proofs ------------------------
(***************************************************************************)
(* Two invariants of SensitiveState.  DocumentInv is about generations and *)
(* recorded paths and rests on nothing but the code of internal/state.     *)
(* ValueInv is about what entries show and what can be restored from them, *)
(* and rests on the laws of internal/sensitive for single values.          *)
(***************************************************************************)
EXTENDS SensitiveLaws, TLAPS

----------------------------------------------------------------------------
\* Generations and recorded paths.

Remembers(e) == e.ever \cap Schema.paths \subseteq e.paths

\* Every entry has a known generation, the current one in a current document,
\* and has forgotten no path.
EntryKept(e, current) ==
    e.version \in {0, 4} /\ (current => e.version = 4) /\ Remembers(e)

Addressed(entries) == entries = [a \in Addrs |-> entries[a]]

EntriesKept(entries, current) ==
    /\ Addressed(entries)
    /\ \A a \in Listed(entries) : EntryKept(entries[a], current)

DocumentKept(doc) == EntriesKept(doc.entries, doc.format = "current")

DocumentInv ==
    /\ config.present \subseteq Addrs
    /\ DocumentKept(disk) /\ DocumentKept(session.doc)
    /\ SavedIsLoadable

\* An entry is what it was made of.
LEMMA EntryFields ==
    ASSUME NEW attrs, NEW contract, NEW version, NEW paths, NEW redacted, NEW truth, NEW ever
    PROVE  LET e == Entry(attrs, contract, version, paths, redacted, truth, ever) IN
           /\ e.attrs = attrs /\ e.contract = contract /\ e.version = version
           /\ e.paths = paths /\ e.redacted = redacted /\ e.truth = truth /\ e.ever = ever
  BY DEF Entry

\* So is a document.
LEMMA DocumentFields ==
    ASSUME NEW format, NEW entries
    PROVE  /\ Document(format, entries).format = format
           /\ Document(format, entries).entries = entries
  BY DEF Document

\* So is a session.
LEMMA SessionFields ==
    ASSUME NEW kind, NEW lives, NEW doc, NEW hints, NEW unsaved
    PROVE  /\ Session(kind, lives, doc, hints, unsaved).kind = kind
           /\ Session(kind, lives, doc, hints, unsaved).live = lives
           /\ Session(kind, lives, doc, hints, unsaved).doc = doc
           /\ Session(kind, lives, doc, hints, unsaved).hints = hints
           /\ Session(kind, lives, doc, hints, unsaved).unsaved = unsaved
  BY DEF Session

\* Opening an entry under its paths and projecting it under more keeps it, and
\* so does the refusal, which has already bound it to them (sanitizeAll).
LEMMA RenewedKept ==
    ASSUME NEW e, NEW current, EntryKept(e, current),
           NEW paths, NEW redacted, NEW spec, e.paths \subseteq paths
    PROVE  EntryKept(Renewed(e, Bound(e, paths, redacted), spec).entry, current)
  <1> DEFINE bound == Bound(e, paths, redacted)
  <1>1. /\ bound.version = e.version /\ bound.paths = paths
        /\ bound.ever = e.ever \cup paths
    BY EntryFields DEF Bound
  <1>2. EntryKept(bound, current)
    BY <1>1 DEF EntryKept, Remembers
  <1>3. ASSUME NEW value
        PROVE  LET p == Reproject(bound, spec, value) IN
               p.version = 4 /\ p.paths = bound.paths /\ p.ever = bound.ever
    BY EntryFields DEF Reproject
  <1>4. EntryKept(Reproject(bound, spec, Opened(e).value), current)
    BY <1>2, <1>3 DEF EntryKept, Remembers
  <1>5. QED
    BY <1>2, <1>4 DEF Renewed, Sanitized

\* An entry without paths becomes public; it had none to forget.
LEMMA PublicKept ==
    ASSUME NEW e, NEW current, EntryKept(e, current), e.paths = {}
    PROVE  EntryKept(Public(e).entry, current)
  BY EntryFields DEF Public, Sanitized, EntryKept, Remembers

\* Redaction without a schema leaves generation and paths alone.
LEMMA RedactedKept ==
    ASSUME NEW e, NEW current, EntryKept(e, current), NEW paths
    PROVE  EntryKept(Redacted(e, paths), current)
  BY EntryFields DEF Redacted, EntryKept, Remembers

\* A resolved entry is bound to all its paths, old and new, or has none.
LEMMA SanitizeResolvedKept ==
    ASSUME NEW e, NEW current, EntryKept(e, current), NEW hints, NEW r
    PROVE  EntryKept(SanitizeResolved(e, hints, r).entry, current)
  <1> DEFINE paths == Recalled(e, hints, r.paths)
  <1>1. e.paths \subseteq paths
    BY DEF Recalled
  <1>2. CASE paths = {}
    <2>1. e.paths = {}
      BY <1>1, <1>2
    <2>2. QED
      BY <1>2, <2>1, PublicKept DEF SanitizeResolved
  <1>3. CASE paths # {}
    <2>1. EntryKept(Renewed(e, Bound(e, paths, e.redacted \cap paths), r.spec).entry, current)
      BY <1>1, RenewedKept
    <2>2. QED
      BY <1>3, <2>1 DEF SanitizeResolved
  <1>4. QED
    BY <1>2, <1>3

\* An entry without a schema is left alone, refused, redacted, or given the
\* paths that are known of it.
LEMMA SanitizeOrphanKept ==
    ASSUME NEW e, NEW current \in BOOLEAN, EntryKept(e, current), NEW hints
    PROVE  EntryKept(SanitizeOrphan(e, hints, current).entry, current)
  <1> DEFINE paths == Recalled(e, hints, {})
             r == Redacted(e, paths)
             noted == Entry(r.attrs, NewContract(r.attrs, paths, r.redacted), 4, paths,
                            r.redacted, r.truth, r.ever \cup paths)
             out == SanitizeOrphan(e, hints, current).entry
  <1>1. e.paths \subseteq paths
    BY DEF Recalled
  <1>2. EntryKept(r, current)
    BY RedactedKept
  <1>3. EntryKept(noted, current)
    <2>1. r.ever = e.ever
      BY EntryFields DEF Redacted
    <2>2. noted.version = 4 /\ noted.paths = paths /\ noted.ever = r.ever \cup paths
      BY EntryFields
    <2>3. QED
      BY <1>1, <2>1, <2>2 DEF EntryKept, Remembers
  <1>4. paths = {} => EntryKept(Public(e).entry, current)
    BY <1>1, PublicKept
  <1>5. \/ paths = {} /\ out \in {Public(e).entry, e}
        \/ out \in {e, r, noted}
    BY DEF SanitizeOrphan, Sanitized
  <1>6. QED
    BY <1>2, <1>3, <1>4, <1>5

\* sanitizeAll keeps generations and paths, entry by entry.
LEMMA SanitizeEntryKept ==
    ASSUME DocumentInv, NEW a \in Listed(session.doc.entries)
    PROVE  EntryKept(SanitizeEntry(a).entry, session.doc.format = "current")
  <1>1. EntryKept(session.doc.entries[a], session.doc.format = "current")
    BY DEF DocumentInv, DocumentKept, EntriesKept
  <1>2. QED
    BY <1>1, SanitizeResolvedKept, SanitizeOrphanKept DEF SanitizeEntry

\* The entries after a sanitization are those it has done and the old ones; when
\* it succeeds it has done all.
LEMMA OutcomesAre ==
    ASSUME NEW entries, NEW S, NEW s \in Outcomes(entries, S)
    PROVE  \E done \in SUBSET DOMAIN S :
              /\ s.entry = Partly(entries, S, done)
              /\ s.ok => done = DOMAIN S /\ \A a \in DOMAIN S : S[a].ok
  <1> DEFINE bad == {a \in DOMAIN S : ~S[a].ok}
  <1>1. CASE bad = {}
    <2>1. s = Sanitized(TRUE, Partly(entries, S, DOMAIN S))
      BY <1>1 DEF Outcomes
    <2>2. QED
      BY <1>1, <2>1 DEF Sanitized
  <1>2. CASE bad # {}
    <2>1. PICK done \in SUBSET DOMAIN S : s = Sanitized(FALSE, Partly(entries, S, done))
      BY <1>2 DEF Outcomes
    <2>2. s.entry = Partly(entries, S, done) /\ ~s.ok
      BY <2>1 DEF Sanitized
    <2>3. QED
      BY <2>2
  <1>3. QED
    BY <1>1, <1>2

\* sanitizeAll has done some of the session's entries, or all of them.
LEMMA SanitizeAllIs ==
    ASSUME NEW s \in SanitizeAll
    PROVE  \E done \in SUBSET Listed(session.doc.entries) :
              /\ s.entry = [a \in Addrs |-> IF a \in done THEN SanitizeEntry(a).entry
                                                        ELSE session.doc.entries[a]]
              /\ s.ok => /\ done = Listed(session.doc.entries)
                         /\ \A a \in done : SanitizeEntry(a).ok
  <1> DEFINE entries == session.doc.entries
             S == [a \in Listed(entries) |-> SanitizeEntry(a)]
  <1>1. s \in Outcomes(entries, S) /\ DOMAIN S = Listed(entries)
    BY DEF SanitizeAll
  <1>2. \A a \in Listed(entries) : S[a] = SanitizeEntry(a)
    OBVIOUS
  <1> HIDE DEF S
  <1>3. PICK done \in SUBSET Listed(entries) :
           /\ s.entry = Partly(entries, S, done)
           /\ s.ok => done = Listed(entries) /\ \A a \in done : S[a].ok
    BY <1>1, OutcomesAre
  <1>4. s.entry = [a \in Addrs |-> IF a \in done THEN SanitizeEntry(a).entry ELSE entries[a]]
    BY <1>2, <1>3 DEF Partly
  <1>5. s.ok => done = Listed(entries) /\ \A a \in done : SanitizeEntry(a).ok
    BY <1>2, <1>3
  <1>6. QED
    BY <1>4, <1>5

\* So does what it leaves when it is refused, whatever it had done before.
LEMMA SanitizeAllKept ==
    ASSUME DocumentInv, NEW s \in SanitizeAll
    PROVE  EntriesKept(s.entry, session.doc.format = "current")
  <1> DEFINE entries == session.doc.entries
  <1>1. PICK done \in SUBSET Listed(entries) :
           s.entry = [a \in Addrs |-> IF a \in done THEN SanitizeEntry(a).entry ELSE entries[a]]
    BY SanitizeAllIs
  <1>2. Addressed(s.entry)
    BY <1>1 DEF Addressed
  <1>3. ASSUME NEW a \in Listed(s.entry)
        PROVE  EntryKept(s.entry[a], session.doc.format = "current")
    <2>1. a \in Addrs
      BY DEF Listed
    <2>2. CASE a \in done
      BY <1>1, <2>1, <2>2, SanitizeEntryKept
    <2>3. CASE a \notin done
      <3>1. s.entry[a] = entries[a]
        BY <1>1, <2>1, <2>3
      <3>2. a \in Listed(entries)
        BY <1>3, <3>1 DEF Listed
      <3>3. QED
        BY <3>1, <3>2 DEF DocumentInv, DocumentKept, EntriesKept
    <2>4. QED
      BY <2>2, <2>3
  <1>4. QED
    BY <1>2, <1>3 DEF EntriesKept

\* The backup's entries keep the generations of the document they come from.
LEMMA BackupEntryKept ==
    ASSUME DocumentInv, NEW a \in Listed(disk.entries)
    PROVE  EntryKept(BackupEntry(a).entry, FALSE)
  <1> DEFINE e == disk.entries[a]
             current == session.doc.entries[a]
             known == e.paths \cup e.redacted \cup session.hints[a]
                         \cup IF current = NoEntry THEN {} ELSE current.paths
             paths == IF Resolvable(a) THEN known \cup Resolution(a, e).paths ELSE known
  <1>1. EntryKept(e, FALSE)
    BY DEF DocumentInv, DocumentKept, EntriesKept, EntryKept
  <1>2. e.paths \subseteq paths
    OBVIOUS
  <1>3. paths = {} => EntryKept(Public(e).entry, FALSE)
    BY <1>1, <1>2, PublicKept
  <1>4. EntryKept(Renewed(e, Bound(e, paths, e.redacted),
                          WithoutLiterals(Resolution(a, e).spec)).entry, FALSE)
    BY <1>1, <1>2, RenewedKept
  <1>5. EntryKept(Redacted(e, paths), FALSE)
    BY <1>1, RedactedKept
  <1>6. \/ paths = {} /\ BackupEntry(a).entry = Public(e).entry
        \/ BackupEntry(a).entry = Renewed(e, Bound(e, paths, e.redacted),
                                          WithoutLiterals(Resolution(a, e).spec)).entry
        \/ BackupEntry(a).entry \in {e, Redacted(e, paths)}
    BY DEF BackupEntry, Sanitized
  <1>7. QED
    BY <1>1, <1>3, <1>4, <1>5, <1>6

\* Entries whose generation is known make a document that can be loaded when
\* they have a format and can be sealed (MarshalJSON, UnmarshalJSON).
LEMMA MarshalableLoads ==
    ASSUME NEW entries, EntriesKept(entries, FALSE), Marshalable(entries)
    PROVE  /\ Loadable(Document(Format(entries), entries))
           /\ EntriesKept(entries, Format(entries) = "current")
  <1> DEFINE versions == {entries[a].version : a \in Listed(entries)}
  <1>1. versions \subseteq {0, 4}
    BY DEF EntriesKept, EntryKept
  <1>2. ASSUME Format(entries) = "current"
        PROVE  \A a \in Listed(entries) : entries[a].version = 4
    <2>1. versions # {0, 4} /\ versions # {0}
      BY <1>2 DEF Format
    <2>2. 0 \notin versions
      BY <1>1, <2>1
    <2>3. QED
      BY <1>1, <2>2
  <1>3. EntriesKept(entries, Format(entries) = "current")
    BY <1>2 DEF EntriesKept, EntryKept
  <1>4. Loadable(Document(Format(entries), entries))
    <2> SUFFICES ASSUME Format(entries) = "current", NEW a \in Listed(entries)
        PROVE  LET e == entries[a] IN
               /\ e.version = 4 /\ Valid(e.attrs, e.contract)
               /\ e.contract.paths = e.paths /\ e.contract.redacted = e.redacted
      BY DocumentFields DEF Loadable, Entries
    <2> QED
      BY <1>2 DEF Marshalable, Sealable
  <1>5. QED
    BY <1>3, <1>4

\* A document that is copied can be loaded because the one on disk can; one that
\* is encoded again, because it was marshaled (prepareBackup).
LEMMA RewrittenLoads ==
    ASSUME Loadable(disk), NEW ok, NEW entries, EntriesKept(entries, FALSE),
           Rewritten(ok, entries).ok
    PROVE  Loadable(Rewritten(ok, entries).entry)
  <1>1. /\ Rewritten(ok, entries).entry = Document(Format(entries), entries)
        /\ disk = Document("current", entries) \/ Marshalable(entries)
    BY DEF Rewritten, Sanitized
  <1>2. CASE disk = Document("current", entries)
    <2>1. disk.format = "current" /\ disk.entries = entries
      BY <1>2, DocumentFields
    <2>2. Entries(Document(Format(entries), entries)) = Entries(disk)
      BY <2>1, DocumentFields DEF Entries
    <2>3. QED
      BY <1>1, <2>1, <2>2 DEF Loadable
  <1>3. CASE Marshalable(entries)
    BY <1>1, <1>3, MarshalableLoads
  <1>4. QED
    BY <1>1, <1>2, <1>3

\* What is renamed over the backup can be loaded.
LEMMA BackupLoads ==
    ASSUME DocumentInv, Backup.ok
    PROVE  Loadable(Backup.entry)
  <1> DEFINE B == [a \in Listed(disk.entries) |-> BackupEntry(a)]
             entries == [a \in Addrs |-> IF a \in DOMAIN B THEN B[a].entry ELSE NoEntry]
             ok == \A a \in DOMAIN B : B[a].ok
  <1>1. Backup = Rewritten(ok, entries)
    BY DEF Backup, Prepared
  <1>2. Addressed(entries)
    BY DEF Addressed
  <1>3. ASSUME NEW a \in Listed(entries)
        PROVE  EntryKept(entries[a], FALSE)
    <2>1. a \in Listed(disk.entries)
      BY <1>3 DEF Listed
    <2>2. entries[a] = BackupEntry(a).entry
      BY <2>1 DEF Listed
    <2>3. QED
      BY <2>1, <2>2, BackupEntryKept
  <1>4. EntriesKept(entries, FALSE)
    BY <1>2, <1>3 DEF EntriesKept
  <1> HIDE DEF entries, ok
  <1>5. QED
    BY <1>1, <1>4, RewrittenLoads DEF DocumentInv, SavedIsLoadable

\* The empty document forgets nothing, and so does a session that has ended.
LEMMA EmptyKept ==
    /\ DocumentKept(Empty) /\ Loadable(Empty)
    /\ DocumentKept(Closed.doc)
  <1>1. Empty.entries = [a \in Addrs |-> NoEntry] /\ Closed.doc = Empty
    BY DEF Empty, Closed, Session, Document
  <1>2. Listed(Empty.entries) = {}
    BY <1>1 DEF Listed
  <1>3. Addressed(Empty.entries)
    BY <1>1 DEF Addressed
  <1>4. QED
    BY <1>1, <1>2, <1>3 DEF DocumentKept, EntriesKept, Loadable, Entries

\* What a session goes on with after a save.
LEMMA ContinuesKept ==
    ASSUME NEW entries, EntriesKept(entries, session.doc.format = "current"),
           Continues(entries)
    PROVE  DocumentKept(session'.doc)
  <1>1. CASE session.kind = "apply"
    <2>1. session'.doc = Document(session.doc.format, entries)
      BY <1>1 DEF Continues, Session
    <2>2. QED
      BY <2>1, DocumentFields DEF DocumentKept
  <1>2. CASE session.kind # "apply"
    BY <1>2, EmptyKept DEF Continues
  <1>3. QED
    BY <1>1, <1>2

\* A resolution drops only persisted paths that the schema does not have.
LEMMA ResolvedRecalls ==
    ASSUME NEW a, NEW paths
    PROVE  paths \cap Schema.paths \subseteq Resolved(a, paths).paths
  BY DEF Resolved, ResolveWithPersisted, Resolve, Spec

\* A session's change of one entry, to one of the current generation or to none.
LEMMA ChangedKept ==
    ASSUME DocumentKept(session.doc), NEW a \in Addrs, NEW entry, NEW paths,
           entry = NoEntry \/ EntryKept(entry, TRUE),
           Changed(a, entry, paths)
    PROVE  DocumentKept(session'.doc)
  <1> DEFINE old == session.doc.entries
             new == [old EXCEPT ![a] = entry]
  <1>1. session'.doc = Document(session.doc.format, new)
    BY DEF Changed, Session
  <1>2. session'.doc.entries = new /\ session'.doc.format = session.doc.format
    BY <1>1, DocumentFields
  <1>3. Addressed(new) /\ \A b \in Addrs : new[b] = IF b = a THEN entry ELSE old[b]
    BY DEF DocumentKept, EntriesKept, Addressed
  <1>4. ASSUME NEW b \in Listed(new)
        PROVE  EntryKept(new[b], session.doc.format = "current")
    <2>1. CASE b = a
      BY <1>3, <1>4, <2>1 DEF Listed, EntryKept
    <2>2. CASE b # a
      BY <1>3, <1>4, <2>2 DEF Listed, DocumentKept, EntriesKept
    <2>3. QED
      BY <2>1, <2>2
  <1>5. QED
    BY <1>2, <1>3, <1>4 DEF DocumentKept, EntriesKept

\* Recording a value under what was resolved from the entry's own paths forgets
\* none of them (createOrUpdate, runImport).
LEMMA RecordKept ==
    ASSUME DocumentKept(session.doc), NEW a \in Addrs, NEW v,
           LET old == session.doc.entries[a]
           IN Record(a, Resolved(a, IF old = NoEntry THEN {} ELSE old.paths), v)
    PROVE  DocumentKept(session'.doc)
  <1> DEFINE old == session.doc.entries[a]
             spec == Resolved(a, IF old = NoEntry THEN {} ELSE old.paths)
             p == Project(spec, v)
             ever == spec.paths \cup IF old = NoEntry THEN {} ELSE old.ever
             entry == Entry(p.json, p.contract, 4, spec.paths, p.redacted, v, ever)
  <1>1. entry.version = 4 /\ entry.paths = spec.paths /\ entry.ever = ever
    BY DEF Entry
  <1>2. ever \cap Schema.paths \subseteq spec.paths
    <2>1. CASE old = NoEntry
      BY <2>1
    <2>2. CASE old # NoEntry
      <3>1. old.ever \cap Schema.paths \subseteq old.paths
        BY <2>2 DEF DocumentKept, EntriesKept, Listed, EntryKept, Remembers
      <3>2. old.paths \cap Schema.paths \subseteq spec.paths
        BY <2>2, ResolvedRecalls
      <3>3. QED
        BY <2>2, <3>1, <3>2
    <2>3. QED
      BY <2>1, <2>2
  <1>3. EntryKept(entry, TRUE)
    BY <1>1, <1>2 DEF EntryKept, Remembers
  <1>4. Changed(a, entry, spec.paths)
    BY DEF Record
  <1>5. QED
    BY <1>3, <1>4, ChangedKept

\* Initially there is no document, or one of an older engine.
LEMMA InitKept == Init => DocumentInv
  <1> SUFFICES ASSUME Init
      PROVE  DocumentInv
    OBVIOUS
  <1>1. DocumentKept(session.doc) /\ Loadable(backup)
    BY EmptyKept DEF Init
  <1>2. config.present \subseteq Addrs
    BY AddressesAssumption DEF Init
  <1>3. ASSUME NEW v \in Values, NEW p \in LegacyPaths,
               disk = Document("legacy", [a \in Addrs |-> Legacy(v, p)])
        PROVE  DocumentKept(disk) /\ Loadable(disk)
    <2>1. disk.format = "legacy" /\ disk.entries = [a \in Addrs |-> Legacy(v, p)]
      BY <1>3 DEF Document
    <2>2. LET e == Legacy(v, p) IN e.version = 0 /\ e.paths = p /\ e.ever = p
      BY DEF Legacy, Entry
    <2>3. EntryKept(Legacy(v, p), FALSE)
      BY <2>2 DEF EntryKept, Remembers
    <2>4. EntriesKept(disk.entries, FALSE)
      BY <2>1, <2>3 DEF EntriesKept, Addressed, Listed
    <2>5. QED
      BY <2>1, <2>4 DEF DocumentKept, Loadable
  <1>4. DocumentKept(disk) /\ Loadable(disk)
    BY <1>3, EmptyKept DEF Init
  <1>5. QED
    BY <1>1, <1>2, <1>4 DEF DocumentInv, SavedIsLoadable

\* Save keeps generations and paths in the session, on disk and in the backup,
\* wherever it is refused or interrupted.
LEMMA SaveKept ==
    ASSUME DocumentInv, Save
    PROVE  DocumentInv'
  <1>0. UNCHANGED config
    BY DEF Save
  <1>1. PICK s \in SanitizeAll :
           \/ BackupRefused(Backup)
           \/ Backup.ok /\ SanitizeRefused(s)
           \/ Backup.ok /\ s.ok /\ Interrupted(s, Backup)
           \/ /\ Backup.ok /\ s.ok
              /\ \E incomplete \in {FALSE, session.kind = "apply"} :
                    MarshalRefused(s, incomplete) \/ Committed(s, Backup, incomplete)
    BY DEF Save
  <1> DEFINE current == session.doc.format = "current"
  <1>2. EntriesKept(s.entry, current)
    BY SanitizeAllKept
  <1>3. Backup.ok => Loadable(Backup.entry)
    BY BackupLoads
  <1>4. CASE BackupRefused(Backup)
    <2>1. DocumentKept(session'.doc)
      BY <1>4, ContinuesKept DEF BackupRefused, DocumentInv, DocumentKept
    <2>2. QED
      BY <1>0, <1>4, <2>1 DEF BackupRefused, DocumentInv, SavedIsLoadable, DocumentKept, Loadable
  <1>5. CASE SanitizeRefused(s)
    <2>1. DocumentKept(session'.doc)
      BY <1>2, <1>5, ContinuesKept DEF SanitizeRefused
    <2>2. QED
      BY <1>0, <1>5, <2>1 DEF SanitizeRefused, DocumentInv, SavedIsLoadable, DocumentKept, Loadable
  <1>6. CASE Backup.ok /\ s.ok /\ Interrupted(s, Backup)
    <2>1. DocumentKept(session'.doc)
      BY <1>2, <1>6, ContinuesKept DEF Interrupted
    <2>2. Loadable(backup')
      BY <1>3, <1>6 DEF Interrupted, DocumentInv, SavedIsLoadable
    <2>3. QED
      BY <1>0, <1>6, <2>1, <2>2 DEF Interrupted, DocumentInv, SavedIsLoadable, DocumentKept, Loadable
  <1>7. ASSUME NEW incomplete, MarshalRefused(s, incomplete)
        PROVE  DocumentInv'
    <2>1. DocumentKept(session'.doc)
      BY <1>2, <1>7, ContinuesKept DEF MarshalRefused
    <2>2. QED
      BY <1>0, <1>7, <2>1 DEF MarshalRefused, DocumentInv, SavedIsLoadable, DocumentKept, Loadable
  <1>8. ASSUME Backup.ok, NEW incomplete, Committed(s, Backup, incomplete)
        PROVE  DocumentInv'
    <2>1. disk' = Document(Format(s.entry), s.entry) /\ Marshalable(s.entry)
      BY <1>8 DEF Committed
    <2>2. EntriesKept(s.entry, FALSE)
      BY <1>2 DEF EntriesKept, EntryKept
    <2>3. Loadable(disk') /\ EntriesKept(s.entry, Format(s.entry) = "current")
      BY <2>1, <2>2, MarshalableLoads
    <2>4. DocumentKept(disk')
      BY <2>1, <2>3, DocumentFields DEF DocumentKept
    <2>5. session'.doc \in {disk', Closed.doc}
      BY <1>8 DEF Committed, Session
    <2>6. DocumentKept(session'.doc)
      BY <2>4, <2>5, EmptyKept
    <2>7. Loadable(backup')
      BY <1>3, <1>8 DEF Committed
    <2>8. QED
      BY <1>0, <2>3, <2>4, <2>6, <2>7 DEF DocumentInv, SavedIsLoadable
  <1>9. QED
    BY <1>1, <1>4, <1>5, <1>6, <1>7, <1>8

\* Every step keeps generations and paths.
LEMMA StepKept ==
    ASSUME DocumentInv, [Next]_vars
    PROVE  DocumentInv'
  <1>0. config'.present \subseteq Addrs
    <2>1. UNCHANGED config \/ config'.present \in Presences
      BY DEF Next, vars, Load, Exit, Edit, Write, Import, ImportRefresh, Delete, Save
    <2>2. QED
      BY <2>1, AddressesAssumption DEF DocumentInv
  <1>1. ASSUME UNCHANGED <<disk, backup>>, DocumentKept(session'.doc)
        PROVE  DocumentInv'
    BY <1>0, <1>1 DEF DocumentInv, SavedIsLoadable, DocumentKept, Loadable
  <1>2. CASE UNCHANGED vars
    BY <1>1, <1>2 DEF vars, DocumentInv
  <1>3. CASE Load
    <2>1. session'.doc = disk
      BY <1>3 DEF Load, Session
    <2>2. QED
      BY <1>1, <1>3, <2>1 DEF Load, DocumentInv
  <1>4. CASE Exit
    BY <1>1, <1>4, EmptyKept DEF Exit
  <1>5. CASE Edit
    BY <1>1, <1>5 DEF Edit, DocumentInv
  <1>6. CASE Write
    <2>1. PICK a \in config.present, v \in Values :
             LET old == session.doc.entries[a]
             IN Record(a, Resolved(a, IF old = NoEntry THEN {} ELSE old.paths), v)
      BY <1>6 DEF Write
    <2>2. DocumentKept(session'.doc)
      BY <2>1, RecordKept DEF DocumentInv
    <2>3. QED
      BY <1>1, <1>6, <2>2 DEF Write
  <1>7. CASE Import
    <2>1. PICK a \in config.present, v \in Reads :
             session.doc.entries[a] = NoEntry /\ Record(a, Resolved(a, {}), v)
      BY <1>7 DEF Import
    <2>2. DocumentKept(session'.doc)
      BY <2>1, RecordKept DEF DocumentInv
    <2>3. QED
      BY <1>1, <1>7, <2>2 DEF Import
  <1>8. CASE ImportRefresh
    <2>1. PICK a \in config.present :
             LET old == session.doc.entries[a]
             IN old # NoEntry /\ \E v : Record(a, Resolved(a, old.paths), v)
      BY <1>8 DEF ImportRefresh
    <2>2. PICK v : Record(a, Resolved(a, session.doc.entries[a].paths), v)
      BY <2>1
    <2>3. DocumentKept(session'.doc)
      BY <2>1, <2>2, RecordKept DEF DocumentInv
    <2>4. QED
      BY <1>1, <1>8, <2>3 DEF ImportRefresh
  <1>9. CASE Delete
    <2>1. PICK a \in Listed(session.doc.entries) \cap session.live :
             Changed(a, NoEntry, Resolved(a, session.doc.entries[a].paths).paths)
      BY <1>9 DEF Delete
    <2>2. DocumentKept(session'.doc)
      BY <2>1, ChangedKept DEF Listed, DocumentInv
    <2>3. QED
      BY <1>1, <1>9, <2>2 DEF Delete
  <1>10. CASE Save
    BY <1>10, SaveKept
  <1>11. QED
    BY <1>2, <1>3, <1>4, <1>5, <1>6, <1>7, <1>8, <1>9, <1>10 DEF Next

\* Generations and paths are kept in every reachable state.
LEMMA DocumentsKept == StateSpec => []DocumentInv
  <1>1. Init => DocumentInv
    BY InitKept
  <1>2. DocumentInv /\ [Next]_vars => DocumentInv'
    BY StepKept
  <1>3. QED
    BY <1>1, <1>2, PTL DEF StateSpec

\* For any schema, values, policies and addresses, and whatever internal/sensitive
\* makes of a value: every document a save leaves is one that Load takes.
THEOREM SavedLoads == StateSpec => []SavedIsLoadable
  <1>1. DocumentInv => SavedIsLoadable
    BY DEF DocumentInv
  <1>2. QED
    BY <1>1, DocumentsKept, PTL

\* And no sensitive path of the schema that an entry was ever given is forgotten,
\* whatever is edited, missing, refused or half done in between.
THEOREM PathsRemembered == StateSpec => []PathsAreRemembered
  <1>1. DocumentInv => PathsAreRemembered
    BY DEF DocumentInv, DocumentKept, EntriesKept, EntryKept, Remembers, PathsAreRemembered,
           Entries
  <1>2. QED
    BY <1>1, DocumentsKept, PTL

----------------------------------------------------------------------------
\* What is recorded on disk, from one document to the next.

\* The paths a session knows for an address.
Known(a) ==
    (IF session.doc.entries[a] = NoEntry THEN {} ELSE session.doc.entries[a].paths)
        \cup session.hints[a]

\* Hints are only there for what the session can resolve, and a session knows
\* the paths of what is on disk, also of what it has destroyed.
KnownInv ==
    /\ Addressed(session.hints)
    /\ \A a \in Addrs : session.hints[a] # {} => session.kind # "none" /\ Resolvable(a)
    /\ session.kind # "none" =>
          \A a \in Listed(disk.entries) : disk.entries[a].paths \cap Schema.paths \subseteq Known(a)

\* No entry looks like the absence of one.
LEMMA EntryIsNone ==
    ASSUME NEW attrs, NEW contract, NEW version, NEW paths, NEW redacted, NEW truth, NEW ever
    PROVE  Entry(attrs, contract, version, paths, redacted, truth, ever) # NoEntry
  <1> DEFINE e == Entry(attrs, contract, version, paths, redacted, truth, ever)
  <1>1. "attrs" \in DOMAIN e
    BY DEF Entry
  <1>2. "attrs" \notin DOMAIN NoEntry
    BY DEF NoEntry
  <1>3. QED
    BY <1>1, <1>2

\* SanitizeJSON keeps an entry's paths.
LEMMA ReprojectIs ==
    ASSUME NEW bound, NEW spec, NEW value
    PROVE  LET p == Reproject(bound, spec, value) IN p # NoEntry /\ p.paths = bound.paths
  BY EntryIsNone, EntryFields DEF Reproject

\* So does redaction without a schema.
LEMMA RedactedIs ==
    ASSUME NEW e, NEW paths
    PROVE  Redacted(e, paths) # NoEntry /\ Redacted(e, paths).paths = e.paths
  BY EntryIsNone, EntryFields DEF Redacted

\* sanitizeAll leaves an entry all the paths the session knows for it.
LEMMA SanitizeEntryKnows ==
    ASSUME KnownInv, NEW a \in Listed(session.doc.entries)
    PROVE  SanitizeEntry(a).entry # NoEntry /\ Known(a) \subseteq SanitizeEntry(a).entry.paths
  <1> DEFINE e == session.doc.entries[a]
             hints == session.hints[a]
             out == SanitizeEntry(a).entry
  <1>1. e # NoEntry /\ a \in Addrs
    BY DEF Listed
  <1>2. Known(a) = e.paths \cup hints
    BY <1>1 DEF Known
  <1>3. Public(e).entry # NoEntry
    BY EntryIsNone DEF Public, Sanitized
  <1>4. CASE Resolvable(a)
    <2> DEFINE paths == Recalled(e, hints, Resolution(a, e).paths)
               bound == Bound(e, paths, e.redacted \cap paths)
    <2>1. Known(a) \subseteq paths
      BY <1>2 DEF Recalled
    <2>2. bound # NoEntry /\ bound.paths = paths
      BY EntryIsNone, EntryFields DEF Bound
    <2>3. LET p == Reproject(bound, Resolution(a, e).spec, Opened(e).value)
          IN  p # NoEntry /\ p.paths = paths
      BY <2>2, ReprojectIs
    <2>4. \/ paths = {} /\ out = Public(e).entry
          \/ out = bound
          \/ out = Reproject(bound, Resolution(a, e).spec, Opened(e).value)
      BY <1>4 DEF SanitizeEntry, SanitizeResolved, Renewed, Sanitized
    <2> HIDE DEF paths, bound, out
    <2>5. CASE paths = {} /\ out = Public(e).entry
      BY <1>3, <2>1, <2>5 DEF out
    <2>6. CASE out = bound
      BY <2>1, <2>2, <2>6 DEF out
    <2>7. CASE out = Reproject(bound, Resolution(a, e).spec, Opened(e).value)
      BY <2>1, <2>3, <2>7 DEF out
    <2>8. QED
      BY <2>4, <2>5, <2>6, <2>7
  <1>5. CASE ~Resolvable(a)
    <2> DEFINE paths == Recalled(e, hints, {})
               r == Redacted(e, paths)
               noted == Entry(r.attrs, NewContract(r.attrs, paths, r.redacted), 4, paths,
                              r.redacted, r.truth, r.ever \cup paths)
    <2>1. hints = {}
      BY <1>1, <1>5 DEF KnownInv
    <2>2. Known(a) = e.paths /\ Known(a) \subseteq paths
      BY <1>2, <2>1 DEF Recalled
    <2>3. r # NoEntry /\ r.paths = e.paths
      BY RedactedIs
    <2>4. noted # NoEntry /\ noted.paths = paths
      <3> HIDE DEF paths, r
      <3>1. QED
        BY EntryIsNone, EntryFields
    <2>5. \/ paths = {} /\ out = Public(e).entry
          \/ out \in {e, r, noted}
      BY <1>5 DEF SanitizeEntry, SanitizeOrphan, Sanitized
    <2> HIDE DEF paths, r, noted, out
    <2>6. QED
      BY <1>1, <1>3, <2>2, <2>3, <2>4, <2>5 DEF out
  <1>6. QED
    BY <1>4, <1>5

\* So does sanitizeAll as a whole, as far as it comes.
LEMMA SanitizeAllKnows ==
    ASSUME DocumentInv, KnownInv, NEW s \in SanitizeAll, NEW a \in Addrs
    PROVE  /\ s.entry[a] = NoEntry <=> session.doc.entries[a] = NoEntry
           /\ s.entry[a] # NoEntry /\ s.ok => Known(a) \subseteq s.entry[a].paths
           /\ s.entry[a] # NoEntry => session.doc.entries[a].paths \subseteq s.entry[a].paths
  <1> DEFINE entries == session.doc.entries
  <1>1. PICK done \in SUBSET Listed(entries) :
           /\ s.entry = [b \in Addrs |-> IF b \in done THEN SanitizeEntry(b).entry ELSE entries[b]]
           /\ s.ok => done = Listed(entries) /\ \A b \in done : SanitizeEntry(b).ok
    BY SanitizeAllIs
  <1>2. CASE a \in done
    <2>1. s.entry[a] = SanitizeEntry(a).entry /\ entries[a] # NoEntry
      BY <1>1, <1>2 DEF Listed
    <2>2. SanitizeEntry(a).entry # NoEntry /\ Known(a) \subseteq SanitizeEntry(a).entry.paths
      BY <1>2, SanitizeEntryKnows
    <2>3. entries[a].paths \subseteq Known(a)
      BY <2>1 DEF Known
    <2>4. QED
      BY <2>1, <2>2, <2>3
  <1>3. CASE a \notin done
    <2>1. s.entry[a] = entries[a]
      BY <1>1, <1>3
    <2>2. s.ok => entries[a] = NoEntry
      BY <1>1, <1>3 DEF Listed
    <2>3. QED
      BY <2>1, <2>2
  <1>4. QED
    BY <1>2, <1>3

\* A session that has ended knows nothing and needs to know nothing.
LEMMA ClosedKnows ==
    /\ session = Closed => KnownInv
    /\ session' = Closed => KnownInv'
  <1>1. Closed.kind = "none" /\ Closed.hints = [a \in Addrs |-> {}]
    BY DEF Closed, Session
  <1>2. Addressed(Closed.hints)
    BY <1>1 DEF Addressed
  <1>3. QED
    BY <1>1, <1>2 DEF KnownInv, Addressed

\* A session that goes on still knows what is on disk.
LEMMA ContinuesKnows ==
    ASSUME KnownInv, UNCHANGED <<config, disk>>, NEW entries, Continues(entries),
           \A a \in Addrs :
              /\ entries[a] = NoEntry <=> session.doc.entries[a] = NoEntry
              /\ entries[a] # NoEntry => session.doc.entries[a].paths \subseteq entries[a].paths
    PROVE  KnownInv'
  <1>1. CASE session.kind = "apply"
    <2>1. /\ session'.kind = "apply" /\ session'.live = session.live
          /\ session'.hints = session.hints /\ session'.doc.entries = entries
      BY <1>1 DEF Continues, Session, Document
    <2>2. \A a : Resolvable(a)' <=> Resolvable(a)
      BY <1>1, <2>1 DEF Resolvable
    <2>3. \A a \in Addrs : Known(a) \subseteq Known(a)'
      BY <2>1 DEF Known
    <2>4. ASSUME NEW a \in Listed(disk.entries)
          PROVE  disk.entries[a].paths \cap Schema.paths \subseteq Known(a)'
      <3>1. a \in Addrs /\ disk.entries[a].paths \cap Schema.paths \subseteq Known(a)
        BY <1>1 DEF KnownInv, Listed
      <3>2. QED
        BY <2>3, <3>1
    <2>5. /\ Addressed(session.hints)
          /\ \A a \in Addrs : session.hints[a] # {} => Resolvable(a)
      BY DEF KnownInv
    <2>6. disk' = disk
      OBVIOUS
    <2>7. QED
      BY <2>1, <2>2, <2>4, <2>5, <2>6 DEF KnownInv, Addressed
  <1>2. CASE session.kind # "apply"
    BY <1>2, ClosedKnows DEF Continues
  <1>3. QED
    BY <1>1, <1>2

\* A change of one entry that is resolved adds its paths to the hints.
LEMMA ChangedKnows ==
    ASSUME DocumentInv, KnownInv, UNCHANGED <<config, disk>>, session.kind # "none",
           NEW a \in Addrs, Resolvable(a), NEW entry, NEW paths, Changed(a, entry, paths),
           session.doc.entries[a] # NoEntry =>
              session.doc.entries[a].paths \cap Schema.paths \subseteq paths
    PROVE  KnownInv'
  <1> DEFINE old == session.doc.entries
             new == [old EXCEPT ![a] = entry]
             hints == [session.hints EXCEPT ![a] = @ \cup paths]
  <1>1. /\ session'.kind = session.kind /\ session'.live = session.live
        /\ session'.doc.entries = new /\ session'.hints = hints
    BY DEF Changed, Session, Document
  <1>2. Addressed(session.hints) /\ Addressed(old)
    BY DEF KnownInv, DocumentInv, DocumentKept, EntriesKept
  <1>3. Addressed(hints)
    BY <1>2 DEF Addressed
  <1>4. hints[a] = session.hints[a] \cup paths
    BY <1>2 DEF Addressed
  <1>5. \A b \in Addrs \ {a} : hints[b] = session.hints[b] /\ new[b] = old[b]
    BY <1>2 DEF Addressed
  <1> HIDE DEF new, hints
  <1>6. \A b : Resolvable(b)' <=> Resolvable(b)
    BY <1>1 DEF Resolvable
  <1>7. ASSUME NEW b \in Addrs, hints[b] # {}
        PROVE  Resolvable(b)
    <2>1. CASE b = a
      BY <2>1
    <2>2. CASE b # a
      BY <1>5, <1>7, <2>2 DEF KnownInv
    <2>3. QED
      BY <2>1, <2>2
  <1>8. ASSUME NEW b \in Listed(disk.entries)
        PROVE  disk.entries[b].paths \cap Schema.paths \subseteq Known(b)'
    <2>1. b \in Addrs /\ disk.entries[b].paths \cap Schema.paths \subseteq Known(b)
      BY DEF KnownInv, Listed
    <2>2. CASE b = a
      <3>1. hints[a] \subseteq Known(a)'
        BY <1>1 DEF Known
      <3>2. Known(a) \cap Schema.paths \subseteq hints[a]
        BY <1>4 DEF Known
      <3>3. QED
        BY <2>1, <2>2, <3>1, <3>2
    <2>3. CASE b # a
      <3>1. Known(b)' = Known(b)
        BY <1>1, <1>5, <2>1, <2>3 DEF Known
      <3>2. QED
        BY <2>1, <3>1
    <2>4. QED
      BY <2>2, <2>3
  <1>9. disk' = disk
    OBVIOUS
  <1>10. QED
    BY <1>1, <1>3, <1>6, <1>7, <1>8, <1>9 DEF KnownInv, Addressed

\* So does recording a value under what was resolved from the entry's own paths.
LEMMA RecordKnows ==
    ASSUME DocumentInv, KnownInv, UNCHANGED <<config, disk>>, session.kind # "none",
           NEW a \in Addrs, Resolvable(a), NEW v,
           LET old == session.doc.entries[a]
           IN Record(a, Resolved(a, IF old = NoEntry THEN {} ELSE old.paths), v)
    PROVE  KnownInv'
  <1> DEFINE old == session.doc.entries[a]
             spec == Resolved(a, IF old = NoEntry THEN {} ELSE old.paths)
  <1>1. old # NoEntry => old.paths \cap Schema.paths \subseteq spec.paths
    BY ResolvedRecalls
  <1>2. \E entry : Changed(a, entry, spec.paths)
    BY DEF Record
  <1>3. QED
    BY <1>1, <1>2, ChangedKnows

\* A save loses none of what the session knows, and records it when it succeeds.
LEMMA SaveKnows ==
    ASSUME DocumentInv, KnownInv, Save
    PROVE  /\ KnownInv'
           /\ \A a \in Listed(disk.entries) \cap Listed(disk'.entries) :
                 disk.entries[a].paths \cap Schema.paths \subseteq disk'.entries[a].paths
  <1>1. PICK s \in SanitizeAll :
           \/ BackupRefused(Backup)
           \/ Backup.ok /\ SanitizeRefused(s)
           \/ Backup.ok /\ s.ok /\ Interrupted(s, Backup)
           \/ /\ Backup.ok /\ s.ok
              /\ \E incomplete \in {FALSE, session.kind = "apply"} :
                    MarshalRefused(s, incomplete) \/ Committed(s, Backup, incomplete)
    BY DEF Save
  <1>2. UNCHANGED config /\ session.kind # "none"
    BY DEF Save
  <1>3. ASSUME Continues(s.entry), UNCHANGED disk
        PROVE  KnownInv'
    BY <1>2, <1>3, SanitizeAllKnows, ContinuesKnows
  <1>4. ASSUME Continues(session.doc.entries), UNCHANGED disk
        PROVE  KnownInv'
    BY <1>2, <1>4, ContinuesKnows
  <1>5. CASE BackupRefused(Backup)
    BY <1>4, <1>5 DEF BackupRefused
  <1>6. CASE SanitizeRefused(s)
    BY <1>3, <1>6 DEF SanitizeRefused
  <1>7. CASE Interrupted(s, Backup)
    BY <1>3, <1>7 DEF Interrupted
  <1>8. ASSUME NEW incomplete, MarshalRefused(s, incomplete)
        PROVE  KnownInv' /\ UNCHANGED disk
    BY <1>3, <1>8 DEF MarshalRefused
  <1>9. ASSUME s.ok, NEW incomplete, Committed(s, Backup, incomplete)
        PROVE  /\ KnownInv'
               /\ \A a \in Listed(disk.entries) \cap Listed(disk'.entries) :
                     disk.entries[a].paths \cap Schema.paths \subseteq disk'.entries[a].paths
    <2>1. disk'.entries = s.entry
      BY <1>9 DEF Committed, Document
    <2>2. KnownInv'
      <3>1. CASE session.kind = "apply"
        <4>1. /\ session'.kind = "apply" /\ session'.live = session.live
              /\ session'.hints = session.hints /\ session'.doc = disk'
          BY <1>9, <3>1 DEF Committed, Session
        <4>2. \A a : Resolvable(a)' <=> Resolvable(a)
          BY <1>2, <3>1, <4>1 DEF Resolvable
        <4>3. \A a \in Listed(disk'.entries) : disk'.entries[a].paths \subseteq Known(a)'
          BY <4>1 DEF Known, Listed
        <4>4. /\ Addressed(session.hints)
              /\ \A a \in Addrs : session.hints[a] # {} => Resolvable(a)
          BY DEF KnownInv
        <4>5. QED
          BY <4>1, <4>2, <4>3, <4>4 DEF KnownInv, Addressed, Listed
      <3>2. CASE session.kind # "apply"
        BY <1>9, <3>2, ClosedKnows DEF Committed
      <3>3. QED
        BY <3>1, <3>2
    <2>3. ASSUME NEW a \in Listed(disk.entries) \cap Listed(s.entry)
          PROVE  disk.entries[a].paths \cap Schema.paths \subseteq s.entry[a].paths
      <3>1. a \in Addrs /\ s.entry[a] # NoEntry
        BY <2>3 DEF Listed
      <3>2. disk.entries[a].paths \cap Schema.paths \subseteq Known(a)
        BY <1>2, <2>3 DEF KnownInv
      <3>3. Known(a) \subseteq s.entry[a].paths
        BY <1>9, <3>1, SanitizeAllKnows
      <3>4. QED
        BY <3>2, <3>3
    <2>4. QED
      BY <2>1, <2>2, <2>3
  <1>10. disk' = disk => \A a : disk.entries[a].paths \cap Schema.paths \subseteq disk'.entries[a].paths
    OBVIOUS
  <1>11. QED
    BY <1>1, <1>5, <1>6, <1>7, <1>8, <1>9, <1>10 DEF BackupRefused, SanitizeRefused, Interrupted

\* Every step leaves the session with what it has to know.
LEMMA StepKnows ==
    ASSUME DocumentInv, KnownInv, [Next]_vars
    PROVE  KnownInv'
  <1>1. CASE UNCHANGED vars
    BY <1>1 DEF vars, KnownInv, Addressed, Resolvable, Known
  <1>2. CASE Load
    <2>1. PICK kind \in {"apply", "import", "sanitize"}, r \in Reachable :
             session' = Session(kind, r, disk, [a \in Addrs |-> {}], FALSE)
      BY <1>2 DEF Load
    <2>2. session'.doc = disk /\ session'.hints = [a \in Addrs |-> {}]
      BY <2>1 DEF Session
    <2>3. Addressed(session'.hints) /\ disk' = disk
      BY <1>2, <2>2 DEF Addressed, Load
    <2>4. \A a \in Listed(disk.entries) : disk.entries[a].paths \subseteq Known(a)'
      BY <2>2 DEF Known, Listed
    <2>5. QED
      BY <2>2, <2>3, <2>4 DEF KnownInv, Addressed, Listed
  <1>3. CASE Exit
    BY <1>3, ClosedKnows DEF Exit
  <1>4. CASE Edit
    <2>1. session' = session /\ disk' = disk /\ session.kind = "none"
      BY <1>4 DEF Edit
    <2>2. \A a \in Addrs : session.hints[a] = {}
      BY <2>1 DEF KnownInv
    <2>3. QED
      BY <2>1, <2>2 DEF KnownInv, Addressed
  <1>5. CASE Write
    <2>1. PICK a \in config.present \cap session.live, v \in Values :
             LET old == session.doc.entries[a]
             IN Record(a, Resolved(a, IF old = NoEntry THEN {} ELSE old.paths), v)
      BY <1>5 DEF Write
    <2>2. a \in Addrs /\ Resolvable(a) /\ session.kind # "none"
      BY <1>5, <2>1 DEF Write, DocumentInv, Resolvable
    <2>3. QED
      BY <1>5, <2>1, <2>2, RecordKnows DEF Write
  <1>6. CASE Import
    <2>1. PICK a \in config.present \cap session.live, v \in Reads :
             session.doc.entries[a] = NoEntry /\ Record(a, Resolved(a, {}), v)
      BY <1>6 DEF Import
    <2>2. a \in Addrs /\ Resolvable(a) /\ session.kind # "none"
      BY <1>6, <2>1 DEF Import, DocumentInv, Resolvable
    <2>3. QED
      BY <1>6, <2>1, <2>2, RecordKnows DEF Import
  <1>7. CASE ImportRefresh
    <2>1. PICK a \in config.present \cap session.live :
             LET old == session.doc.entries[a]
             IN old # NoEntry /\ \E v : Record(a, Resolved(a, old.paths), v)
      BY <1>7 DEF ImportRefresh
    <2>2. PICK v : Record(a, Resolved(a, session.doc.entries[a].paths), v)
      BY <2>1
    <2>3. a \in Addrs /\ Resolvable(a) /\ session.kind # "none"
      BY <1>7, <2>1 DEF ImportRefresh, DocumentInv, Resolvable
    <2>4. QED
      BY <1>7, <2>1, <2>2, <2>3, RecordKnows DEF ImportRefresh
  <1>8. CASE Delete
    <2>1. PICK a \in Listed(session.doc.entries) \cap session.live :
             Changed(a, NoEntry, Resolved(a, session.doc.entries[a].paths).paths)
      BY <1>8 DEF Delete
    <2>2. a \in Addrs /\ Resolvable(a) /\ session.kind # "none"
      BY <1>8, <2>1 DEF Delete, Listed, Resolvable
    <2>3. session.doc.entries[a].paths \cap Schema.paths
             \subseteq Resolved(a, session.doc.entries[a].paths).paths
      BY ResolvedRecalls
    <2>4. QED
      BY <1>8, <2>1, <2>2, <2>3, ChangedKnows DEF Delete
  <1>9. CASE Save
    BY <1>9, SaveKnows
  <1>10. QED
    BY <1>1, <1>2, <1>3, <1>4, <1>5, <1>6, <1>7, <1>8, <1>9 DEF Next

\* From one document on disk to the next nothing that was recorded as sensitive
\* of an address is forgotten.
THEOREM RecordedPathsAreKept == StateSpec => RecordedPathsStay
  <1> DEFINE Stay ==
        \A a \in Listed(disk.entries) \cap Listed(disk'.entries) :
           disk.entries[a].paths \cap Schema.paths \subseteq disk'.entries[a].paths
  <1>1. Init => KnownInv
    BY ClosedKnows DEF Init
  <1>2. DocumentInv /\ KnownInv /\ [Next]_vars => KnownInv'
    BY StepKnows
  <1>3. DocumentInv /\ KnownInv /\ [Next]_vars => [Stay]_vars
    <2> SUFFICES ASSUME DocumentInv, KnownInv, Next
        PROVE  Stay
      OBVIOUS
    <2>1. CASE Save
      BY <2>1, SaveKnows
    <2>2. CASE ~Save
      <3>1. disk' = disk
        BY <2>2 DEF Next, Load, Exit, Edit, Write, Delete, Import, ImportRefresh
      <3>2. QED
        BY <3>1
    <2>3. QED
      BY <2>1, <2>2
  <1>4. QED
    BY <1>1, <1>2, <1>3, DocumentsKept, PTL DEF StateSpec, RecordedPathsStay

----------------------------------------------------------------------------
\* What entries are made of.

\* An entry has the projection of a value under its own paths (OfProjection), is
\* what an older engine left (OfLegacy), or was found to hold nothing sensitive
\* (OfPublic).
OfProjection(e) ==
    \E s \in Specs, v \in Universe :
        /\ e.paths = s.paths /\ e.version = 4 /\ e.truth \in {v, Lost}
        /\ e.attrs = Project(s, v).json
        /\ e.contract = Rebind(Project(s, v).contract, s.paths, e.redacted)

OfLegacy(e) ==
    /\ e.attrs \in Legacies
    /\ e.version = 0 /\ e.contract = NoContract
    /\ e.truth # Lost => Plain(e.attrs, e.paths) = [ok |-> TRUE, value |-> e.truth]

OfPublic(e) ==
    /\ e.attrs \in Legacies
    /\ e.version = 4 /\ e.paths = {} /\ e.redacted = {}
    /\ e.contract = NewContract(e.attrs, {}, {})
    /\ e.truth # Lost => Plain(e.attrs, {}) = [ok |-> TRUE, value |-> e.truth]

Sound(e) ==
    /\ e.paths \in PathSets /\ e.redacted \in PathSets /\ e.ever \in PathSets
    /\ OfProjection(e) \/ OfLegacy(e) \/ OfPublic(e)

Hidden(e) == \A x \in Texts(e.attrs) : Covered(x[1], e.ever) => x[2] \notin Secrets

DocumentSound(doc) ==
    \A a \in Listed(doc.entries) : Sound(doc.entries[a]) /\ Hidden(doc.entries[a])

\* Only a running apply may hold an entry that a refused save has bound to more
\* paths than it was projected under; it resolves it again when it saves.
SessionSound ==
    /\ session.live \subseteq Addrs
    /\ Addressed(session.hints) /\ \A a \in Addrs : session.hints[a] \in PathSets
    /\ \A a \in Listed(session.doc.entries) :
          /\ Sound(session.doc.entries[a])
          /\ Hidden(session.doc.entries[a]) \/ (session.kind = "apply" /\ a \in session.live)

ConfigInv == config.declared \in PathSets /\ config.raw \in Raws

\* No attribute that was withheld in old has lost its value in new.
Preserves(old, new) ==
    old.truth # Lost /\ new.truth # Lost =>
        \A n \in DOMAIN Schema.type.f :
            Covered(Attr(<<>>, n), old.paths) /\ old.truth.f[n] # Null => new.truth.f[n] # Null

\* What a session of import or sanitize holds comes from the document on disk.
SessionInv ==
    /\ session.kind = "sanitize" => session.doc = disk
    /\ session.kind = "import" /\ ~session.unsaved => session.doc = disk
    /\ session.kind \in {"import", "sanitize"} =>
          \A a \in Listed(disk.entries) \cap Listed(session.doc.entries) :
              Preserves(disk.entries[a], session.doc.entries[a])

ValueInv ==
    /\ ConfigInv
    /\ DocumentSound(disk) /\ DocumentSound(backup)
    /\ SessionSound /\ SessionInv

\* A contract is never what stands for the absence of one.
LEMMA ContractIsNone ==
    ASSUME NEW public, NEW paths, NEW redacted, NEW direct, NEW values
    PROVE  Contract(public, paths, redacted, direct, values) # NoContract
  <1>1. "public" \in DOMAIN Contract(public, paths, redacted, direct, values)
    BY DEF Contract
  <1>2. "public" \notin DOMAIN NoContract
    BY DEF NoContract
  <1>3. QED
    BY <1>1, <1>2

\* A specification of this schema has paths and all sets; with other paths, with
\* or without its literals, it is one too.
LEMMA SpecsAre ==
    ASSUME NEW s \in Specs, NEW P \in PathSets
    PROVE  /\ s.paths \in PathSets
           /\ Spec(P, s.exempt, s.all) \in Specs /\ Spec(P, s.exempt, s.all).paths = P
           /\ WithoutLiterals(s) \in Specs
           /\ s.exempt \in Exemptions
  <1>1. PICK Q \in PathSets, x \in Exemptions : s = Spec(Q, x, Schema.sets)
    BY DEF Specs
  <1>2. s.paths = Q /\ s.exempt = x /\ s.all = Schema.sets
    BY <1>1 DEF Spec
  <1>3. WithoutLiterals(s) = Spec(Q, {}, Schema.sets) /\ {} \in Exemptions
    BY <1>1 DEF WithoutLiterals, Spec, Exemptions
  <1>4. \A R \in PathSets, y \in Exemptions : Spec(R, y, Schema.sets) \in Specs
    BY DEF Specs
  <1>5. QED
    BY <1>2, <1>3, <1>4 DEF Spec

\* What a command resolves is a specification of this schema.
LEMMA ResolvedIs ==
    ASSUME ConfigInv, NEW a, NEW paths \in PathSets
    PROVE  Resolved(a, paths) \in Specs /\ Resolve(Declared(a), Raw(a)) \in Specs
  <1>1. Declared(a) \in PathSets /\ Raw(a) \in Raws \cup {Null}
    BY DEF ConfigInv, Declared, Raw, PathSets
  <1>2. ASSUME NEW d \in PathSets
        PROVE  Resolve(d, Raw(a)) \in Specs
    <2>1. Schema.sensitive \cup d \in PathSets
      BY UniverseAssumption DEF PathSets
    <2>2. QED
      BY <1>1, <2>1 DEF Resolve, Specs, Exemptions
  <1>3. Declared(a) \cup (paths \cap Schema.paths) \in PathSets
    BY <1>1 DEF PathSets
  <1>4. QED
    BY <1>1, <1>2, <1>3 DEF Resolved, ResolveWithPersisted

\* A projection and its contract say the same.
LEMMA ProjectIs ==
    ASSUME NEW s, NEW v
    PROVE  LET p == ProjectUnder(s, v)
               q == Project(s, v)
           IN /\ q.json = p.json /\ q.redacted = p.redacted
              /\ q.contract.public = p.json /\ q.contract.values = p.values
              /\ p.values = {} => q.contract.direct = {}
  BY DEF Project, Contracted, Contract

\* More paths cover more.
LEMMA CoveredMore ==
    ASSUME NEW l, NEW P, NEW Q, P \subseteq Q, Covered(l, P)
    PROVE  Covered(l, Q)
  BY DEF Covered

\* Where a string stands that a path covers, the schema has the path.
LEMMA CoveredInPlace ==
    ASSUME NEW json, InPlace(json), NEW x \in Texts(json),
           NEW P \in PathSets, Covered(x[1], P)
    PROVE  Covered(x[1], P \cap Schema.paths)
  BY DEF InPlace, Covered, PathSets

\* A sound entry can be opened, and gives back the value that is not lost.
LEMMA OpenedIs ==
    ASSUME NEW e, Sound(e)
    PROVE  /\ Opened(e).ok \in BOOLEAN
           /\ Opened(e).ok => Opened(e).value \in Universe
           /\ ~Opened(e).ok => OfLegacy(e)
           /\ e.truth # Lost => Opened(e) = [ok |-> TRUE, value |-> e.truth]
  <1>1. CASE OfProjection(e)
    <2>1. PICK s \in Specs, v \in Universe :
             /\ e.paths = s.paths /\ e.version = 4 /\ e.truth \in {v, Lost}
             /\ e.attrs = Project(s, v).json
             /\ e.contract = Rebind(Project(s, v).contract, s.paths, e.redacted)
      BY <1>1 DEF OfProjection
    <2>2. e.attrs = Project(s, v).contract.public
      BY <2>1, ProjectIs
    <2>3. Opened(e) = [ok |-> TRUE, value |-> v]
      BY <2>1, <2>2, RoundTripAssumption DEF Opened, Sound
    <2>4. Opened(e).ok /\ Opened(e).ok \in BOOLEAN /\ Opened(e).value = v
      BY <2>3
    <2>5. e.truth # Lost => e.truth = v
      BY <2>1
    <2>6. QED
      BY <2>3, <2>4, <2>5
  <1>2. CASE OfLegacy(e)
    <2>1. Opened(e) = Plain(e.attrs, e.paths)
      BY <1>2 DEF OfLegacy, Opened, Plain
    <2>2. QED
      BY <1>2, <2>1, LegacyAssumption DEF OfLegacy, Sound
  <1>3. CASE OfPublic(e)
    <2>1. Opened(e) = Plain(e.attrs, {}) /\ Plain(e.attrs, {}).ok
      BY <1>3, LegacyAssumption DEF OfPublic, Opened
    <2>2. QED
      BY <1>3, <2>1, LegacyAssumption DEF OfPublic, PathSets
  <1>4. QED
    BY <1>1, <1>2, <1>3 DEF Sound

\* What a projection under the recorded paths shows hides everything the entry
\* was ever given as sensitive.
LEMMA ProjectionHides ==
    ASSUME NEW s \in Specs, NEW v \in Universe, NEW e,
           e.attrs = ProjectUnder(s, v).json, e.paths = s.paths, e.ever \in PathSets,
           Remembers(e)
    PROVE  Hidden(e)
  <1> SUFFICES ASSUME NEW x \in Texts(e.attrs), Covered(x[1], e.ever)
      PROVE  x[2] \notin Secrets
    BY DEF Hidden
  <1>1. Covered(x[1], e.ever \cap Schema.paths)
    BY PlacesAssumption, CoveredInPlace
  <1>2. Covered(x[1], s.paths)
    BY <1>1, CoveredMore DEF Remembers
  <1>3. QED
    BY <1>2, WithholdingAssumption

\* SanitizeJSON yields a sound entry that hides what it must, if no path was
\* forgotten.
LEMMA ReprojectSound ==
    ASSUME NEW s \in Specs, NEW v \in Universe, NEW bound,
           bound.paths \in PathSets, bound.redacted \in PathSets, bound.ever \in PathSets,
           bound.truth \in {v, Lost}, Remembers(bound)
    PROVE  LET e == Reproject(bound, s, v) IN
           Sound(e) /\ Hidden(e) /\ e.truth = bound.truth
  <1> DEFINE spec == Spec(bound.paths, s.exempt, s.all)
             p == Project(spec, v)
             redacted == bound.redacted \cup p.redacted
             e == Reproject(bound, s, v)
  <1>1. spec \in Specs /\ spec.paths = bound.paths
    BY SpecsAre
  <1>2. p.json = ProjectUnder(spec, v).json /\ p.redacted = ProjectUnder(spec, v).redacted
    BY ProjectIs
  <1>3. redacted \in PathSets
    BY <1>1, <1>2, ProjectionAssumption DEF PathSets
  <1>4. /\ e.attrs = p.json /\ e.contract = Rebind(p.contract, bound.paths, redacted)
        /\ e.version = 4 /\ e.paths = bound.paths /\ e.redacted = redacted
        /\ e.truth = bound.truth /\ e.ever = bound.ever
    BY DEF Reproject, Entry
  <1> HIDE DEF spec, p, redacted, e
  <1>5. OfProjection(e)
    BY <1>1, <1>4 DEF OfProjection, p
  <1>6. Sound(e)
    BY <1>3, <1>4, <1>5 DEF Sound
  <1>7. Hidden(e)
    BY <1>1, <1>2, <1>4, ProjectionHides DEF Remembers
  <1>8. QED
    BY <1>4, <1>6, <1>7 DEF e

\* What sanitizing an entry makes of it.
Sanitizes(e, out) ==
    /\ Sound(out.entry) /\ out.entry.truth \in {e.truth, Lost}
    /\ out.ok => Hidden(out.entry)

\* An entry that is opened and projected again is sound and hides; one that
\* cannot be opened has lost its value already and stays what it was, bound to
\* more paths.
LEMMA RenewedSound ==
    ASSUME NEW e, Sound(e), Remembers(e), NEW s \in Specs,
           NEW paths \in PathSets, e.paths \subseteq paths, NEW redacted \in PathSets
    PROVE  Sanitizes(e, Renewed(e, Bound(e, paths, redacted), s))
  <1> DEFINE bound == Bound(e, paths, redacted)
             out == Renewed(e, bound, s)
  <1>1. /\ bound.attrs = e.attrs /\ bound.contract = e.contract /\ bound.version = e.version
        /\ bound.paths = paths /\ bound.redacted = redacted /\ bound.truth = e.truth
        /\ bound.ever = e.ever \cup paths
    BY DEF Bound, Entry
  <1>2. bound.ever \in PathSets /\ Remembers(bound)
    BY <1>1 DEF Sound, PathSets, Remembers
  <1> HIDE DEF bound
  <1>3. CASE Opened(e).ok
    <2> DEFINE v == Opened(e).value
    <2>1. v \in Universe /\ e.truth \in {v, Lost}
      BY <1>3, OpenedIs
    <2>2. LET p == Reproject(bound, s, v) IN Sound(p) /\ Hidden(p) /\ p.truth = bound.truth
      BY <1>1, <1>2, <2>1, ReprojectSound
    <2>3. out.entry = Reproject(bound, s, v)
      BY <1>3 DEF Renewed, Sanitized
    <2>4. QED
      BY <1>1, <2>2, <2>3 DEF Sanitizes, bound
  <1>4. CASE ~Opened(e).ok
    <2>1. OfLegacy(e) /\ e.truth = Lost
      BY <1>4, OpenedIs
    <2>2. OfLegacy(bound)
      BY <1>1, <2>1 DEF OfLegacy
    <2>3. Sound(bound)
      BY <1>1, <1>2, <2>2 DEF Sound
    <2>4. out.entry = bound /\ out.ok = FALSE
      BY <1>4 DEF Renewed, Sanitized
    <2>5. QED
      BY <1>1, <2>3, <2>4 DEF Sanitizes, bound
  <1>5. QED
    BY <1>3, <1>4, OpenedIs DEF bound

\* An entry that records no path, and of which none is known, becomes public;
\* what is public hides all it must, because there is nothing.
LEMMA PublicSound ==
    ASSUME NEW e, Sound(e), Remembers(e), e.paths = {}, e.redacted = {}
    PROVE  Sanitizes(e, Public(e))
  <1> DEFINE p == Entry(e.attrs, NewContract(e.attrs, {}, {}), 4, {}, {}, e.truth, e.ever)
  <1>1. /\ p.attrs = e.attrs /\ p.contract = NewContract(e.attrs, {}, {}) /\ p.version = 4
        /\ p.paths = {} /\ p.redacted = {} /\ p.truth = e.truth /\ p.ever = e.ever
    BY DEF Entry
  <1>2. Public(e).entry = p
    BY DEF Public, Sanitized
  <1> HIDE DEF p
  <1>3. InPlace(e.attrs) /\ (OfProjection(p) \/ OfPublic(p))
    <2>1. CASE OfProjection(e)
      <3>1. PICK s \in Specs, v \in Universe :
               /\ e.paths = s.paths /\ e.truth \in {v, Lost}
               /\ e.attrs = Project(s, v).json
        BY <2>1 DEF OfProjection
      <3>2. ProjectUnder(s, v).values = {}
        BY <3>1, ProjectionAssumption
      <3>3. LET c == Project(s, v).contract IN
            c.public = e.attrs /\ c.values = {} /\ c.direct = {}
        BY <3>1, <3>2, ProjectIs
      <3>4. Rebind(Project(s, v).contract, s.paths, p.redacted) = NewContract(e.attrs, {}, {})
        BY <1>1, <3>1, <3>3 DEF Rebind, NewContract
      <3>5. OfProjection(p)
        BY <1>1, <3>1, <3>4 DEF OfProjection
      <3>6. InPlace(e.attrs)
        BY <3>1, ProjectIs, PlacesAssumption
      <3>7. QED
        BY <3>5, <3>6
    <2>2. CASE OfLegacy(e)
      BY <1>1, <2>2, PlacesAssumption DEF OfLegacy, OfPublic
    <2>3. CASE OfPublic(e)
      BY <1>1, <2>3, PlacesAssumption DEF OfPublic
    <2>4. QED
      BY <2>1, <2>2, <2>3 DEF Sound
  <1>4. Sound(p)
    BY <1>1, <1>3 DEF Sound
  <1>5. Hidden(p)
    <2>1. SUFFICES ASSUME NEW x \in Texts(p.attrs), Covered(x[1], p.ever)
          PROVE  FALSE
      BY DEF Hidden
    <2>2. p.ever \in PathSets /\ p.ever \cap Schema.paths = {}
      BY <1>1 DEF Sound, Remembers
    <2>3. Covered(x[1], p.ever \cap Schema.paths)
      BY <1>1, <1>3, <2>1, <2>2, CoveredInPlace
    <2>4. QED
      BY <2>2, <2>3 DEF Covered
  <1>6. QED
    BY <1>1, <1>2, <1>4, <1>5 DEF Sanitizes

\* Redaction without a schema only takes away from what an older engine left; a
\* value is lost only where something was nulled.
LEMMA RedactedSound ==
    ASSUME NEW e, Sound(e), OfLegacy(e), NEW paths \in PathSets
    PROVE  LET r == Redacted(e, paths) IN
           /\ Sound(r) /\ r.truth \in {e.truth, Lost}
           /\ Hidden(e) => Hidden(r)
  <1> DEFINE j == RedactJSON(e.attrs, paths)
             r == Redacted(e, paths)
  <1>1. /\ j.json \in Legacies /\ j.changed \in PathSets
        /\ Texts(j.json) \subseteq Texts(e.attrs) /\ (j.changed = {} => j.json = e.attrs)
    BY RedactionAssumption DEF OfLegacy
  <1>2. /\ r.attrs = j.json /\ r.contract = e.contract /\ r.version = e.version
        /\ r.paths = e.paths /\ r.redacted = e.redacted \cup j.changed /\ r.ever = e.ever
        /\ r.truth = IF j.changed = {} THEN e.truth ELSE Lost
    BY DEF Redacted, Entry
  <1> HIDE DEF j, r
  <1>3. OfLegacy(r)
    BY <1>1, <1>2 DEF OfLegacy
  <1>4. Sound(r)
    BY <1>1, <1>2, <1>3 DEF Sound, PathSets
  <1>5. Hidden(e) => Hidden(r)
    BY <1>1, <1>2 DEF Hidden
  <1>6. QED
    BY <1>2, <1>4, <1>5 DEF r

\* sanitizeAll on an entry that the resolver knows.
LEMMA SanitizeResolvedSound ==
    ASSUME NEW e, Sound(e), Remembers(e), NEW hints \in PathSets,
           NEW r, r.spec \in Specs, r.paths \in PathSets
    PROVE  Sanitizes(e, SanitizeResolved(e, hints, r))
  <1> DEFINE paths == Recalled(e, hints, r.paths)
  <1>1. paths \in PathSets /\ e.paths \subseteq paths /\ e.redacted \subseteq paths
    BY DEF Recalled, Sound, PathSets
  <1>2. e.redacted \cap paths \in PathSets
    BY DEF Sound, PathSets
  <1>3. CASE paths = {}
    <2>1. e.paths = {} /\ e.redacted = {}
      BY <1>1, <1>3
    <2>2. QED
      BY <1>3, <2>1, PublicSound DEF SanitizeResolved
  <1>4. CASE paths # {}
    <2>1. Sanitizes(e, Renewed(e, Bound(e, paths, e.redacted \cap paths), r.spec))
      BY <1>1, <1>2, RenewedSound
    <2>2. QED
      BY <1>4, <2>1 DEF SanitizeResolved
  <1>5. QED
    BY <1>3, <1>4

\* sanitizeAll on an entry it has no schema for.
LEMMA SanitizeOrphanSound ==
    ASSUME NEW e, Sound(e), Hidden(e), NEW current \in BOOLEAN, EntryKept(e, current),
           NEW hints \in PathSets
    PROVE  LET out == SanitizeOrphan(e, hints, current) IN
           Sanitizes(e, out) /\ Hidden(out.entry)
  <1> DEFINE paths == Recalled(e, hints, {})
             out == SanitizeOrphan(e, hints, current)
  <1>1. paths \in PathSets /\ e.paths \subseteq paths /\ e.redacted \subseteq paths
    BY DEF Recalled, Sound, PathSets
  <1>2. CASE out.entry = e
    BY <1>2 DEF Sanitizes
  <1>3. CASE paths = {} /\ out = Public(e)
    <2>1. Sanitizes(e, Public(e))
      BY <1>1, <1>3, PublicSound DEF EntryKept
    <2>2. Public(e).ok
      BY DEF Public, Sanitized
    <2>3. QED
      BY <1>3, <2>1, <2>2 DEF Sanitizes
  <1>4. CASE paths # {} /\ e.contract = NoContract
    <2>1. OfLegacy(e)
      <3>1. \A c, P, R : Rebind(c, P, R) # NoContract /\ NewContract(c, P, R) # NoContract
        BY ContractIsNone DEF Rebind, NewContract
      <3>2. QED
        BY <1>4, <3>1 DEF Sound, OfProjection, OfPublic
    <2>2. ~current
      BY <2>1 DEF OfLegacy, EntryKept
    <2>3. out.entry = Redacted(e, paths)
      BY <1>4, <2>2 DEF SanitizeOrphan, Sanitized
    <2>4. QED
      BY <1>1, <2>1, <2>3, RedactedSound DEF Sanitizes
  <1>5. CASE paths # {} /\ e.contract # NoContract
    <2>1. out.entry = e
      BY <1>5 DEF SanitizeOrphan, Sanitized
    <2>2. QED
      BY <1>2, <2>1
  <1>6. CASE paths = {}
    <2>1. out = Public(e) \/ out.entry = e
      BY <1>6 DEF SanitizeOrphan, Sanitized
    <2>2. QED
      BY <1>2, <1>3, <1>6, <2>1
  <1>7. QED
    BY <1>4, <1>5, <1>6

----------------------------------------------------------------------------
\* What a save does to the entries.

\* The resolver answers with a specification of this schema and with paths.
LEMMA ResolutionIs ==
    ASSUME ConfigInv, NEW a, NEW e, Sound(e),
           session.kind = "sanitize" => Sound(session.doc.entries[a])
    PROVE  Resolution(a, e).spec \in Specs /\ Resolution(a, e).paths \in PathSets
  <1>1. e.paths \in PathSets
    BY DEF Sound
  <1>2. CASE session.kind = "sanitize"
    <2> DEFINE s == Resolve(Declared(a), Raw(a))
               loaded == session.doc.entries[a]
    <2>1. s \in Specs
      BY <1>1, ResolvedIs
    <2>2. s.paths \in PathSets
      BY <1>1, <2>1, SpecsAre
    <2>3. loaded.paths \in PathSets /\ loaded.redacted \in PathSets
      BY <1>2 DEF Sound
    <2>4. /\ Resolution(a, e).spec = s
          /\ Resolution(a, e).paths = s.paths \cup loaded.paths \cup loaded.redacted
      BY <1>2 DEF Resolution
    <2>5. QED
      BY <2>1, <2>2, <2>3, <2>4 DEF PathSets
  <1>3. CASE session.kind # "sanitize"
    <2>1. /\ Resolution(a, e).spec = Resolved(a, e.paths)
          /\ Resolution(a, e).paths = Resolved(a, e.paths).paths
      BY <1>3 DEF Resolution
    <2>2. Resolved(a, e.paths) \in Specs
      BY <1>1, ResolvedIs
    <2>3. QED
      BY <1>1, <2>1, <2>2, SpecsAre
  <1>4. QED
    BY <1>2, <1>3

\* sanitizeAll, one entry: only one that an apply resolves, and will resolve again,
\* may be left without hiding what it was just given as sensitive.
LEMMA SanitizeEntrySound ==
    ASSUME DocumentInv, ValueInv, NEW a \in Listed(session.doc.entries)
    PROVE  /\ Sanitizes(session.doc.entries[a], SanitizeEntry(a))
           /\ session.kind = "apply" /\ a \notin session.live => Hidden(SanitizeEntry(a).entry)
  <1> DEFINE e == session.doc.entries[a]
             hints == session.hints[a]
             current == session.doc.format = "current"
  <1>1. /\ a \in Addrs /\ Sound(e) /\ hints \in PathSets
        /\ Hidden(e) \/ (session.kind = "apply" /\ a \in session.live)
    BY DEF ValueInv, SessionSound, Listed
  <1>2. EntryKept(e, current)
    BY DEF DocumentInv, DocumentKept, EntriesKept
  <1>3. CASE Resolvable(a)
    <2>1. Resolution(a, e).spec \in Specs /\ Resolution(a, e).paths \in PathSets
      BY <1>1, ResolutionIs DEF ValueInv
    <2>2. Sanitizes(e, SanitizeResolved(e, hints, Resolution(a, e)))
      BY <1>1, <1>2, <2>1, SanitizeResolvedSound DEF EntryKept
    <2>3. QED
      BY <1>3, <2>2 DEF SanitizeEntry, Resolvable
  <1>4. CASE ~Resolvable(a)
    <2>1. Hidden(e)
      BY <1>1, <1>4 DEF Resolvable
    <2>2. LET out == SanitizeOrphan(e, hints, current) IN
          Sanitizes(e, out) /\ Hidden(out.entry)
      BY <1>1, <1>2, <2>1, SanitizeOrphanSound
    <2>3. QED
      BY <1>4, <2>2 DEF SanitizeEntry
  <1>5. QED
    BY <1>3, <1>4

\* What sanitizeAll leaves of the session's entries, whether it succeeds or not.
EntriesSanitized(new, ok) ==
    \A a \in Listed(new) :
        LET old == session.doc.entries[a] IN
        /\ a \in Listed(session.doc.entries)
        /\ Sound(new[a]) /\ new[a].truth \in {old.truth, Lost}
        /\ ok => Hidden(new[a])
        /\ session.kind = "apply" => Hidden(new[a]) \/ a \in session.live

\* sanitizeAll keeps entries sound, and hides what it must when it succeeds.
LEMMA SanitizeAllSound ==
    ASSUME DocumentInv, ValueInv, NEW s \in SanitizeAll
    PROVE  EntriesSanitized(s.entry, s.ok)
  <1> DEFINE entries == session.doc.entries
  <1>1. PICK done \in SUBSET Listed(entries) :
           /\ s.entry = [a \in Addrs |-> IF a \in done THEN SanitizeEntry(a).entry ELSE entries[a]]
           /\ s.ok => done = Listed(entries) /\ \A a \in done : SanitizeEntry(a).ok
    BY SanitizeAllIs
  <1> SUFFICES ASSUME NEW a \in Listed(s.entry)
      PROVE  /\ a \in Listed(entries)
             /\ Sound(s.entry[a]) /\ s.entry[a].truth \in {entries[a].truth, Lost}
             /\ s.ok => Hidden(s.entry[a])
             /\ session.kind = "apply" => Hidden(s.entry[a]) \/ a \in session.live
    BY DEF EntriesSanitized
  <1>2. a \in Addrs /\ s.entry[a] # NoEntry
    BY DEF Listed
  <1>3. CASE a \in done
    <2>1. s.entry[a] = SanitizeEntry(a).entry
      BY <1>1, <1>2, <1>3
    <2>2. /\ Sanitizes(entries[a], SanitizeEntry(a))
          /\ session.kind = "apply" /\ a \notin session.live => Hidden(SanitizeEntry(a).entry)
      BY <1>3, SanitizeEntrySound
    <2>3. QED
      BY <1>1, <1>3, <2>1, <2>2 DEF Sanitizes
  <1>4. CASE a \notin done
    <2>1. s.entry[a] = entries[a]
      BY <1>1, <1>2, <1>4
    <2>2. a \in Listed(entries)
      BY <1>2, <2>1 DEF Listed
    <2>3. QED
      BY <1>1, <1>4, <2>1, <2>2 DEF ValueInv, SessionSound
  <1>5. QED
    BY <1>3, <1>4

\* prepareBackup, one entry of the document on disk.
LEMMA BackupEntrySound ==
    ASSUME DocumentInv, ValueInv, NEW a \in Listed(disk.entries), BackupEntry(a).ok
    PROVE  Sound(BackupEntry(a).entry) /\ Hidden(BackupEntry(a).entry)
  <1> DEFINE e == disk.entries[a]
             current == session.doc.entries[a]
             more == IF current = NoEntry THEN {} ELSE current.paths
             known == e.paths \cup e.redacted \cup session.hints[a] \cup more
             res == Resolution(a, e)
             paths == IF Resolvable(a) THEN known \cup res.paths ELSE known
             spec == WithoutLiterals(res.spec)
             out == BackupEntry(a)
  <1>1. a \in Addrs /\ Sound(e) /\ Hidden(e) /\ Remembers(e)
    BY DEF Listed, ValueInv, DocumentSound, DocumentInv, DocumentKept, EntriesKept, EntryKept
  <1>2. session.kind = "sanitize" => Sound(session.doc.entries[a])
    BY <1>1 DEF ValueInv, SessionInv
  <1>3. res.spec \in Specs /\ res.paths \in PathSets
    BY <1>1, <1>2, ResolutionIs DEF ValueInv
  <1>4. spec \in Specs
    BY <1>3, SpecsAre
  <1>5. more \in PathSets
    <2>1. current # NoEntry => current.paths \in PathSets
      BY <1>1 DEF ValueInv, SessionSound, Listed, Sound
    <2>2. QED
      BY <2>1 DEF PathSets
  <1>6. known \in PathSets
    BY <1>1, <1>5 DEF ValueInv, SessionSound, Sound, PathSets
  <1>7. paths \in PathSets /\ e.paths \subseteq paths /\ e.redacted \subseteq paths
    BY <1>3, <1>6 DEF PathSets
  <1>8. \/ Resolvable(a) /\ paths = {} /\ out = Public(e)
        \/ Resolvable(a) /\ out = Renewed(e, Bound(e, paths, e.redacted), spec)
        \/ ~Resolvable(a) /\ out.entry = e
        \/ ~Resolvable(a) /\ e.contract = NoContract /\ out.entry = Redacted(e, paths)
    BY DEF BackupEntry, Sanitized
  <1> HIDE DEF paths, spec, out
  <1>9. CASE paths = {} /\ out = Public(e)
    BY <1>1, <1>7, <1>9, PublicSound DEF Sanitizes, out
  <1>10. CASE out = Renewed(e, Bound(e, paths, e.redacted), spec)
    <2>1. e.redacted \in PathSets
      BY <1>1 DEF Sound
    <2>2. Sanitizes(e, out)
      BY <1>1, <1>4, <1>7, <1>10, <2>1, RenewedSound
    <2>3. QED
      BY <2>2 DEF Sanitizes, out
  <1>11. CASE e.contract = NoContract /\ out.entry = Redacted(e, paths)
    <2>1. \A c, P, R : Rebind(c, P, R) # NoContract /\ NewContract(c, P, R) # NoContract
      BY ContractIsNone DEF Rebind, NewContract
    <2>2. OfLegacy(e)
      BY <1>1, <1>11, <2>1 DEF Sound, OfProjection, OfPublic
    <2>3. QED
      BY <1>1, <1>7, <1>11, <2>2, RedactedSound DEF out
  <1>12. CASE out.entry = e
    BY <1>1, <1>12 DEF out
  <1>13. QED
    BY <1>8, <1>9, <1>10, <1>11, <1>12

\* What is renamed over the backup is sound and hides.
LEMMA BackupSound ==
    ASSUME DocumentInv, ValueInv, Backup.ok
    PROVE  DocumentSound(Backup.entry)
  <1> DEFINE B == [a \in Listed(disk.entries) |-> BackupEntry(a)]
             entries == [a \in Addrs |-> IF a \in DOMAIN B THEN B[a].entry ELSE NoEntry]
             ok == \A a \in DOMAIN B : B[a].ok
  <1>1. Backup = Rewritten(ok, entries)
    BY DEF Backup, Prepared
  <1>2. ASSUME NEW a \in Listed(entries)
        PROVE  a \in Listed(disk.entries) /\ entries[a] = BackupEntry(a).entry
    <2>1. a \in Listed(disk.entries)
      BY <1>2 DEF Listed
    <2>2. QED
      BY <2>1 DEF Listed
  <1>3. ok => \A a \in Listed(disk.entries) : BackupEntry(a).ok
    OBVIOUS
  <1> HIDE DEF entries, ok
  <1>4. ok /\ Backup.entry.entries = entries
    BY <1>1 DEF Rewritten, Sanitized, Document
  <1>5. QED
    BY <1>2, <1>3, <1>4, BackupEntrySound DEF DocumentSound

\* A session that has ended holds nothing.
LEMMA ClosedSound ==
    /\ session = Closed => SessionSound /\ session.kind = "none"
    /\ session' = Closed => SessionSound' /\ session'.kind = "none"
  <1>1. /\ Closed.kind = "none" /\ Closed.live = {} /\ Closed.doc = Empty
        /\ Closed.hints = [a \in Addrs |-> {}]
    BY DEF Closed, Session
  <1>2. Listed(Empty.entries) = {}
    BY DEF Empty, Document, Listed
  <1>3. Addressed(Closed.hints) /\ \A a \in Addrs : Closed.hints[a] \in PathSets
    BY <1>1 DEF Addressed, PathSets
  <1>4. QED
    BY <1>1, <1>2, <1>3 DEF SessionSound, Addressed

\* What a session goes on with after a save is sound.
LEMMA ContinuesSound ==
    ASSUME ValueInv, NEW entries, NEW ok, EntriesSanitized(entries, ok), Continues(entries)
    PROVE  SessionSound' /\ session'.kind \in {"apply", "none"}
  <1>1. CASE session.kind = "apply"
    <2>1. /\ session'.kind = "apply" /\ session'.live = session.live
          /\ session'.hints = session.hints /\ session'.doc.entries = entries
      BY <1>1 DEF Continues, Session, Document
    <2>2. QED
      BY <1>1, <2>1 DEF ValueInv, SessionSound, EntriesSanitized, Addressed
  <1>2. CASE session.kind # "apply"
    <2>1. session' = Closed
      BY <1>2 DEF Continues
    <2>2. QED
      BY <2>1, ClosedSound
  <1>3. QED
    BY <1>1, <1>2

\* Save keeps everything sound and hidden, wherever it is refused or interrupted,
\* and what it writes preserves what was withheld.
LEMMA SaveSound ==
    ASSUME DocumentInv, ValueInv, Save
    PROVE  /\ ValueInv'
           /\ session.kind \in {"import", "sanitize"} =>
                 \A a \in Listed(disk.entries) \cap Listed(disk'.entries) :
                     Preserves(disk.entries[a], disk'.entries[a])
  <1>1. PICK s \in SanitizeAll :
           \/ BackupRefused(Backup)
           \/ Backup.ok /\ SanitizeRefused(s)
           \/ Backup.ok /\ s.ok /\ Interrupted(s, Backup)
           \/ /\ Backup.ok /\ s.ok
              /\ \E incomplete \in {FALSE, session.kind = "apply"} :
                    MarshalRefused(s, incomplete) \/ Committed(s, Backup, incomplete)
    BY DEF Save
  <1>2. ConfigInv'
    BY DEF Save, ValueInv, ConfigInv
  <1>3. EntriesSanitized(s.entry, s.ok)
    BY SanitizeAllSound
  <1>4. EntriesSanitized(session.doc.entries, FALSE)
    BY DEF EntriesSanitized, ValueInv, SessionSound
  <1>5. Backup.ok => DocumentSound(Backup.entry)
    BY BackupSound
  <1>6. ASSUME NEW entries, NEW ok, EntriesSanitized(entries, ok), Continues(entries),
               disk' = disk, DocumentSound(backup')
        PROVE  ValueInv'
    <2>1. SessionSound' /\ session'.kind \in {"apply", "none"}
      BY <1>6, ContinuesSound
    <2>2. SessionInv'
      BY <2>1 DEF SessionInv
    <2>3. QED
      BY <1>2, <1>6, <2>1, <2>2 DEF ValueInv, DocumentSound
  <1>7. disk' = disk => \A a \in Listed(disk.entries) : Preserves(disk.entries[a], disk'.entries[a])
    BY DEF Preserves
  <1>8. CASE BackupRefused(Backup)
    BY <1>4, <1>6, <1>7, <1>8 DEF BackupRefused, ValueInv, DocumentSound
  <1>9. CASE SanitizeRefused(s)
    BY <1>3, <1>6, <1>7, <1>9 DEF SanitizeRefused, ValueInv, DocumentSound
  <1>10. CASE Backup.ok /\ Interrupted(s, Backup)
    <2>1. DocumentSound(backup')
      BY <1>5, <1>10 DEF Interrupted, ValueInv, DocumentSound
    <2>2. QED
      BY <1>3, <1>6, <1>7, <1>10, <2>1 DEF Interrupted
  <1>11. ASSUME NEW incomplete, MarshalRefused(s, incomplete)
         PROVE  ValueInv' /\ disk' = disk
    BY <1>3, <1>6, <1>11 DEF MarshalRefused, ValueInv, DocumentSound
  <1>12. ASSUME Backup.ok, s.ok, NEW incomplete, Committed(s, Backup, incomplete)
         PROVE  /\ ValueInv'
                /\ session.kind \in {"import", "sanitize"} =>
                      \A a \in Listed(disk.entries) \cap Listed(disk'.entries) :
                          Preserves(disk.entries[a], disk'.entries[a])
    <2>1. disk'.entries = s.entry /\ backup' = Backup.entry
      BY <1>12 DEF Committed, Document
    <2>2. DocumentSound(disk')
      BY <1>3, <1>12, <2>1 DEF EntriesSanitized, DocumentSound
    <2>3. DocumentSound(backup')
      BY <1>5, <1>12, <2>1 DEF DocumentSound
    <2>4. SessionSound' /\ session'.kind \in {"apply", "none"}
      <3>1. CASE session.kind = "apply"
        <4>1. /\ session'.kind = "apply" /\ session'.live = session.live
              /\ session'.hints = session.hints /\ session'.doc = disk'
          BY <1>12, <3>1 DEF Committed, Session
        <4>2. QED
          BY <2>2, <4>1 DEF ValueInv, SessionSound, DocumentSound, Addressed
      <3>2. CASE session.kind # "apply"
        BY <1>12, <3>2, ClosedSound DEF Committed
      <3>3. QED
        BY <3>1, <3>2
    <2>5. SessionInv'
      BY <2>4 DEF SessionInv
    <2>6. ASSUME session.kind \in {"import", "sanitize"},
                 NEW a \in Listed(disk.entries) \cap Listed(s.entry)
          PROVE  Preserves(disk.entries[a], s.entry[a])
      <3>1. /\ a \in Listed(session.doc.entries)
            /\ s.entry[a].truth \in {session.doc.entries[a].truth, Lost}
        BY <1>3, <2>6 DEF EntriesSanitized
      <3>2. Preserves(disk.entries[a], session.doc.entries[a])
        BY <2>6, <3>1 DEF ValueInv, SessionInv
      <3>3. QED
        BY <3>1, <3>2 DEF Preserves
    <2>7. QED
      BY <1>2, <2>1, <2>2, <2>3, <2>4, <2>5, <2>6 DEF ValueInv
  <1>13. QED
    BY <1>1, <1>7, <1>8, <1>9, <1>10, <1>11, <1>12

----------------------------------------------------------------------------
\* What a session does to its entries.

\* A recorded value's entry is its projection, and nothing else has changed.
LEMMA RecordSound ==
    ASSUME DocumentInv, ValueInv, NEW a \in Addrs, NEW v \in Universe,
           LET old == session.doc.entries[a]
           IN Record(a, Resolved(a, IF old = NoEntry THEN {} ELSE old.paths), v)
    PROVE  /\ SessionSound'
           /\ session'.kind = session.kind /\ session'.unsaved
           /\ \A b \in Addrs \ {a} : session'.doc.entries[b] = session.doc.entries[b]
           /\ session'.doc.entries[a].truth = v
  <1> DEFINE old == session.doc.entries[a]
             was == IF old = NoEntry THEN {} ELSE old.paths
             spec == Resolved(a, was)
             p == Project(spec, v)
             ever == spec.paths \cup IF old = NoEntry THEN {} ELSE old.ever
             entry == Entry(p.json, p.contract, 4, spec.paths, p.redacted, v, ever)
             new == [session.doc.entries EXCEPT ![a] = entry]
             hints == [session.hints EXCEPT ![a] = @ \cup spec.paths]
  <1>1. was \in PathSets /\ (old # NoEntry => old.ever \in PathSets)
    BY DEF ValueInv, SessionSound, Listed, Sound, PathSets
  <1>2. spec \in Specs /\ spec.paths \in PathSets
    BY <1>1, ResolvedIs, SpecsAre DEF ValueInv
  <1>3. ever \in PathSets
    BY <1>1, <1>2 DEF PathSets
  <1>4. /\ session'.kind = session.kind /\ session'.live = session.live /\ session'.unsaved
        /\ session'.doc.entries = new /\ session'.hints = hints
    BY DEF Record, Changed, Session, Document
  <1>5. new[a] = entry /\ \A b \in Addrs \ {a} : new[b] = session.doc.entries[b]
    BY DEF DocumentInv, DocumentKept, EntriesKept, Addressed
  <1>6. /\ entry.attrs = p.json /\ entry.contract = p.contract /\ entry.version = 4
        /\ entry.paths = spec.paths /\ entry.redacted = p.redacted /\ entry.truth = v
        /\ entry.ever = ever
    BY DEF Entry
  <1>7. p.contract = Rebind(p.contract, spec.paths, p.redacted)
    BY DEF Project, Contracted, Contract, Rebind
  <1>8. p.redacted \in PathSets
    BY <1>2, ProjectIs, ProjectionAssumption
  <1>9. OfProjection(entry)
    BY <1>2, <1>6, <1>7 DEF OfProjection
  <1>10. Sound(entry)
    BY <1>2, <1>3, <1>6, <1>8, <1>9 DEF Sound
  <1>11. a \in Listed(new) => Hidden(entry)
    <2>1. DocumentKept(session'.doc)
      BY RecordKept DEF DocumentInv
    <2>2. a \in Listed(new) => Remembers(entry)
      <3> HIDE DEF new, entry
      <3>1. \A b \in Listed(new) : Remembers(new[b])
        BY <1>4, <2>1 DEF DocumentKept, EntriesKept, EntryKept
      <3>2. QED
        BY <1>5, <3>1
    <2>3. entry.attrs = ProjectUnder(spec, v).json
      <3>1. p.json = ProjectUnder(spec, v).json
        BY ProjectIs
      <3> HIDE DEF entry, p, spec
      <3>2. QED
        BY <1>6, <3>1
    <2>4. entry.paths = spec.paths /\ entry.ever \in PathSets
      BY <1>3, <1>6
    <2> HIDE DEF new, entry, spec
    <2>5. ASSUME Remembers(entry)
          PROVE  Hidden(entry)
      BY <1>2, <2>3, <2>4, <2>5, ProjectionHides
    <2>6. QED
      BY <2>2, <2>5
  <1>12. Addressed(hints) /\ \A b \in Addrs : hints[b] \in PathSets
    BY <1>2 DEF ValueInv, SessionSound, Addressed, PathSets
  <1> HIDE DEF entry, new, hints
  <1>13. ASSUME NEW b \in Listed(new)
         PROVE  /\ Sound(new[b])
                /\ Hidden(new[b]) \/ (session.kind = "apply" /\ b \in session.live)
    <2>1. b \in Addrs
      BY DEF Listed
    <2>2. CASE b = a
      BY <1>5, <1>10, <1>11, <1>13, <2>2
    <2>3. CASE b # a
      <3>1. new[b] = session.doc.entries[b] /\ b \in Listed(session.doc.entries)
        BY <1>5, <1>13, <2>1, <2>3 DEF Listed
      <3>2. QED
        BY <3>1 DEF ValueInv, SessionSound
    <2>4. QED
      BY <2>2, <2>3
  <1>14. SessionSound'
    BY <1>4, <1>12, <1>13 DEF ValueInv, SessionSound, Addressed
  <1>15. QED
    BY <1>4, <1>5, <1>6, <1>14

\* An entry an older engine left is sound, and hides what it was given.
LEMMA LegacySound ==
    ASSUME NEW v \in Values, NEW P \in LegacyPaths
    PROVE  Sound(Legacy(v, P)) /\ Hidden(Legacy(v, P))
  <1> DEFINE spec == Spec(P, {}, Schema.sets)
             p == ProjectUnder(spec, v)
             kept == Restore(p.json, NoContract, P, 0) = [ok |-> TRUE, value |-> v]
             e == Legacy(v, P)
  <1>1. P \in PathSets /\ v \in Universe /\ v # Lost
    BY UniverseAssumption
  <1>2. spec \in Specs /\ spec.paths = P
    BY <1>1 DEF Specs, Exemptions, Spec
  <1>3. p.redacted \in PathSets /\ p.json \in Legacies
    BY <1>1, <1>2, ProjectionAssumption, LegacyAssumption
  <1>4. /\ e.attrs = p.json /\ e.contract = NoContract /\ e.version = 0 /\ e.paths = P
        /\ e.redacted = p.redacted /\ e.truth = (IF kept THEN v ELSE Lost) /\ e.ever = P
    BY DEF Legacy, Entry
  <1>5. e.truth # Lost => Plain(e.attrs, e.paths) = [ok |-> TRUE, value |-> e.truth]
    BY <1>4 DEF Plain
  <1> HIDE DEF spec, p, kept, e
  <1>6. OfLegacy(e)
    BY <1>3, <1>4, <1>5 DEF OfLegacy
  <1>7. Sound(e)
    BY <1>1, <1>3, <1>4, <1>6 DEF Sound
  <1>8. Hidden(e)
    BY <1>1, <1>2, <1>4, ProjectionHides DEF p, Remembers
  <1>9. QED
    BY <1>7, <1>8 DEF e

\* Initially everything is sound and hidden.
LEMMA InitSound == Init => ValueInv
  <1> SUFFICES ASSUME Init
      PROVE  ValueInv
    OBVIOUS
  <1>1. ConfigInv
    BY UniverseAssumption DEF Init, ConfigInv
  <1>2. DocumentSound(Empty)
    BY DEF Empty, Document, Listed, DocumentSound
  <1>3. ASSUME NEW v \in Values, NEW P \in LegacyPaths,
               disk = Document("legacy", [a \in Addrs |-> Legacy(v, P)])
        PROVE  DocumentSound(disk)
    <2>1. disk.entries = [a \in Addrs |-> Legacy(v, P)]
      BY <1>3 DEF Document
    <2>2. QED
      BY <2>1, LegacySound DEF DocumentSound, Listed
  <1>4. DocumentSound(disk) /\ DocumentSound(backup)
    BY <1>2, <1>3 DEF Init
  <1>5. SessionSound /\ session.kind = "none"
    BY ClosedSound DEF Init
  <1>6. SessionInv
    BY <1>5 DEF SessionInv
  <1>7. QED
    BY <1>1, <1>4, <1>5, <1>6 DEF ValueInv

\* Loading takes the document as it is on disk.
LEMMA LoadSound ==
    ASSUME ValueInv, Load
    PROVE  SessionSound' /\ SessionInv'
  <1>1. PICK kind \in {"apply", "import", "sanitize"}, r \in Reachable :
           session' = Session(kind, r, disk, [a \in Addrs |-> {}], FALSE)
    BY DEF Load
  <1>2. /\ session'.kind = kind /\ session'.live = r /\ session'.doc = disk
        /\ session'.hints = [a \in Addrs |-> {}]
    BY <1>1 DEF Session
  <1>3. r \subseteq Addrs
    BY AddressesAssumption
  <1>4. Addressed(session'.hints) /\ \A a \in Addrs : session'.hints[a] \in PathSets
    BY <1>2 DEF Addressed, PathSets
  <1>5. SessionSound'
    BY <1>2, <1>3, <1>4 DEF ValueInv, DocumentSound, SessionSound, Addressed
  <1>6. disk' = disk
    BY DEF Load
  <1>7. SessionInv'
    BY <1>2, <1>6 DEF SessionInv, Preserves
  <1>8. QED
    BY <1>5, <1>7

\* What import adds was not on disk, so that nothing on disk is touched.
LEMMA ImportSound ==
    ASSUME DocumentInv, ValueInv, Import
    PROVE  SessionSound' /\ SessionInv'
  <1>1. PICK a \in config.present, v \in Reads :
           session.doc.entries[a] = NoEntry /\ Record(a, Resolved(a, {}), v)
    BY DEF Import
  <1>2. a \in Addrs /\ v \in Universe
    BY UniverseAssumption DEF DocumentInv
  <1>3. /\ SessionSound' /\ session'.kind = session.kind /\ session'.unsaved
        /\ \A b \in Addrs \ {a} : session'.doc.entries[b] = session.doc.entries[b]
    BY <1>1, <1>2, RecordSound
  <1>4. disk' = disk /\ session.kind = "import" /\ session.doc = disk
    BY DEF Import, ValueInv, SessionInv
  <1>5. ASSUME NEW b \in Listed(disk.entries)
        PROVE  session'.doc.entries[b] = disk.entries[b]
    BY <1>1, <1>3, <1>4 DEF Listed
  <1>6. SessionInv'
    BY <1>3, <1>4, <1>5 DEF SessionInv, Preserves
  <1>7. QED
    BY <1>3, <1>6

\* What import --refresh records has a value wherever a withheld one was on disk.
LEMMA ImportRefreshSound ==
    ASSUME DocumentInv, ValueInv, ImportRefresh
    PROVE  SessionSound' /\ SessionInv'
  <1> DEFINE old(a) == session.doc.entries[a]
             spec(a) == Resolved(a, old(a).paths)
             carried(a, v) == CarryForward(spec(a).exempt, Opened(old(a)).value, v, old(a).paths)
  <1>1. PICK a \in config.present, v \in Reads :
           /\ old(a) # NoEntry /\ Opened(old(a)).ok /\ carried(a, v).ok
           /\ Record(a, spec(a), carried(a, v).value)
    BY DEF ImportRefresh
  <1> DEFINE prior == Opened(old(a)).value
             value == carried(a, v).value
  <1>2. a \in Listed(session.doc.entries) /\ a \in Addrs
    BY <1>1 DEF DocumentInv, Listed
  <1>3. Sound(old(a))
    BY <1>2 DEF ValueInv, SessionSound
  <1>4. prior \in Universe /\ (old(a).truth # Lost => old(a).truth = prior)
    <2> HIDE DEF old
    <2>1. /\ Opened(old(a)).ok => Opened(old(a)).value \in Universe
          /\ old(a).truth # Lost => Opened(old(a)) = [ok |-> TRUE, value |-> old(a).truth]
      BY <1>3, OpenedIs
    <2>2. QED
      BY <1>1, <2>1
  <1>5. old(a).paths \in PathSets
    BY <1>3 DEF Sound
  <1>6. spec(a).exempt \in Exemptions
    BY <1>5, ResolvedIs, SpecsAre DEF ValueInv
  <1>7. /\ value \in Universe
        /\ \A n \in DOMAIN Schema.type.f :
              Covered(Attr(<<>>, n), old(a).paths) /\ prior.f[n] # Null => value.f[n] # Null
    BY <1>1, <1>4, <1>5, <1>6, CarryingAssumption
  <1>8. Record(a, Resolved(a, IF old(a) = NoEntry THEN {} ELSE old(a).paths), value)
    BY <1>1
  <1>9. /\ SessionSound' /\ session'.kind = session.kind /\ session'.unsaved
        /\ \A b \in Addrs \ {a} : session'.doc.entries[b] = session.doc.entries[b]
        /\ session'.doc.entries[a].truth = value
    BY <1>2, <1>7, <1>8, RecordSound
  <1>10. disk' = disk /\ session.kind = "import" /\ session.doc = disk
    BY DEF ImportRefresh, ValueInv, SessionInv
  <1> HIDE DEF prior, value
  <1>11. Preserves(disk.entries[a], session'.doc.entries[a])
    BY <1>4, <1>7, <1>9, <1>10 DEF Preserves
  <1>12. ASSUME NEW b \in Listed(disk.entries)
         PROVE  Preserves(disk.entries[b], session'.doc.entries[b])
    <2>1. CASE b = a
      BY <1>11, <2>1
    <2>2. CASE b # a
      BY <1>9, <1>10, <1>12, <2>2 DEF Listed, Preserves
    <2>3. QED
      BY <2>1, <2>2
  <1>13. SessionInv'
    BY <1>9, <1>10, <1>12 DEF SessionInv
  <1>14. QED
    BY <1>9, <1>13

\* A destroyed resource's entry goes, and its paths stay in the hints.
LEMMA DeleteSound ==
    ASSUME DocumentInv, ValueInv, Delete
    PROVE  SessionSound' /\ SessionInv'
  <1>1. PICK a \in Listed(session.doc.entries) :
           Changed(a, NoEntry, Resolved(a, session.doc.entries[a].paths).paths)
    BY DEF Delete
  <1> DEFINE entries == session.doc.entries
             paths == Resolved(a, entries[a].paths).paths
             new == [entries EXCEPT ![a] = NoEntry]
             hints == [session.hints EXCEPT ![a] = @ \cup paths]
  <1>2. /\ session'.kind = session.kind /\ session'.live = session.live
        /\ session'.doc.entries = new /\ session'.hints = hints
    BY <1>1 DEF Changed, Session, Document
  <1>3. a \in Addrs /\ entries[a].paths \in PathSets
    BY DEF Listed, ValueInv, SessionSound, Sound
  <1>4. paths \in PathSets
    BY <1>3, ResolvedIs, SpecsAre DEF ValueInv
  <1>5. Addressed(hints) /\ \A b \in Addrs : hints[b] \in PathSets
    BY <1>4 DEF ValueInv, SessionSound, Addressed, PathSets
  <1>6. ASSUME NEW b \in Listed(new)
        PROVE  b \in Listed(entries) /\ new[b] = entries[b]
    <2>1. b \in Addrs /\ new[b] # NoEntry
      BY <1>6 DEF Listed
    <2>2. entries = [c \in Addrs |-> entries[c]]
      BY DEF DocumentInv, DocumentKept, EntriesKept, Addressed
    <2>3. new[b] = entries[b]
      BY <2>1, <2>2
    <2>4. QED
      BY <2>1, <2>3 DEF Listed
  <1> HIDE DEF new, hints
  <1>7. SessionSound'
    BY <1>2, <1>5, <1>6 DEF ValueInv, SessionSound, Addressed
  <1>8. session.kind = "apply"
    BY DEF Delete
  <1>9. SessionInv'
    BY <1>2, <1>8 DEF SessionInv
  <1>10. QED
    BY <1>7, <1>9

\* Every step keeps everything sound and hidden.
LEMMA StepSound ==
    ASSUME DocumentInv, ValueInv, [Next]_vars
    PROVE  ValueInv'
  <1>1. ASSUME UNCHANGED <<disk, backup>>, ConfigInv', SessionSound', SessionInv'
        PROVE  ValueInv'
    BY <1>1 DEF ValueInv, DocumentSound
  <1>2. UNCHANGED config => ConfigInv'
    BY DEF ValueInv, ConfigInv
  <1>3. CASE UNCHANGED vars
    BY <1>3 DEF vars, ValueInv, ConfigInv, DocumentSound, SessionSound, SessionInv, Addressed
  <1>4. CASE Load
    BY <1>1, <1>2, <1>4, LoadSound DEF Load
  <1>5. CASE Exit
    <2>1. SessionSound' /\ session'.kind = "none"
      BY <1>5, ClosedSound DEF Exit
    <2>2. SessionInv'
      BY <2>1 DEF SessionInv
    <2>3. QED
      BY <1>1, <1>2, <1>5, <2>1, <2>2 DEF Exit
  <1>6. CASE Edit
    <2>1. ConfigInv'
      BY <1>6, UniverseAssumption DEF Edit, ConfigInv
    <2>2. SessionSound' /\ SessionInv'
      BY <1>6 DEF Edit, ValueInv, SessionSound, SessionInv, Addressed
    <2>3. QED
      BY <1>1, <1>6, <2>1, <2>2 DEF Edit
  <1>7. CASE Write
    <2>1. PICK a \in config.present, v \in Values :
             LET old == session.doc.entries[a]
             IN Record(a, Resolved(a, IF old = NoEntry THEN {} ELSE old.paths), v)
      BY <1>7 DEF Write
    <2>2. a \in Addrs /\ v \in Universe
      BY UniverseAssumption DEF DocumentInv
    <2>3. SessionSound' /\ session'.kind = "apply"
      BY <1>7, <2>1, <2>2, RecordSound DEF Write
    <2>4. SessionInv'
      BY <2>3 DEF SessionInv
    <2>5. QED
      BY <1>1, <1>2, <1>7, <2>3, <2>4 DEF Write
  <1>8. CASE Import
    BY <1>1, <1>2, <1>8, ImportSound DEF Import
  <1>9. CASE ImportRefresh
    BY <1>1, <1>2, <1>9, ImportRefreshSound DEF ImportRefresh
  <1>10. CASE Delete
    BY <1>1, <1>2, <1>10, DeleteSound DEF Delete
  <1>11. CASE Save
    BY <1>11, SaveSound
  <1>12. QED
    BY <1>3, <1>4, <1>5, <1>6, <1>7, <1>8, <1>9, <1>10, <1>11 DEF Next

\* Both invariants hold in every reachable state.
LEMMA ValuesKept == StateSpec => [](DocumentInv /\ ValueInv)
  <1>1. Init => DocumentInv /\ ValueInv
    BY InitKept, InitSound
  <1>2. DocumentInv /\ ValueInv /\ [Next]_vars => (DocumentInv /\ ValueInv)'
    BY StepKept, StepSound
  <1>3. QED
    BY <1>1, <1>2, PTL DEF StateSpec

\* No document on disk shows a secret at a path that the entry was ever given as
\* sensitive, after any number of commands, edits, refusals and interruptions.
THEOREM SecretsAreWithheld == StateSpec => []SecretsWithheld
  <1>1. ValueInv => SecretsWithheld
    BY DEF ValueInv, DocumentSound, Hidden, SecretsWithheld, Entries
  <1>2. QED
    BY <1>1, ValuesKept, PTL

\* And from every entry, in state, backup or session, the value the provider
\* returned is restored, unless a provider-free redaction has destroyed it.
THEOREM ValuesRestored == StateSpec => []ValuesAreRestored
  <1>1. ValueInv => ValuesAreRestored
    <2> SUFFICES ASSUME ValueInv, NEW e, Sound(e), e.truth # Lost
        PROVE  Opened(e) = [ok |-> TRUE, value |-> e.truth]
      BY DEF ValueInv, DocumentSound, SessionSound, ValuesAreRestored, Entries
    <2> QED
      BY OpenedIs
  <1>2. QED
    BY <1>1, ValuesKept, PTL

\* No import and no sanitization makes a withheld value disappear from disk.
THEOREM WithheldIsKept == StateSpec => WithheldSurvives
  <1> DEFINE Survives ==
        session.kind \in {"import", "sanitize"} =>
           \A a \in Listed(disk.entries) \cap Listed(disk'.entries) :
              Preserves(disk.entries[a], disk'.entries[a])
  <1>1. DocumentInv /\ ValueInv /\ [Next]_vars => [Survives]_vars
    <2> SUFFICES ASSUME DocumentInv, ValueInv, Next
        PROVE  Survives
      OBVIOUS
    <2>1. CASE Save
      BY <2>1, SaveSound
    <2>2. CASE ~Save
      <3>1. disk' = disk
        BY <2>2 DEF Next, Load, Exit, Edit, Write, Delete, Import, ImportRefresh
      <3>2. QED
        BY <3>1 DEF Preserves
    <2>3. QED
      BY <2>1, <2>2
  <1>2. [Survives]_vars => [session.kind \in {"import", "sanitize"} =>
          \A a \in Listed(disk.entries) \cap Listed(disk'.entries) :
            LET old == disk.entries[a]
                new == disk'.entries[a]
            IN old.truth # Lost /\ new.truth # Lost =>
                  \A n \in DOMAIN Schema.type.f :
                     Covered(Attr(<<>>, n), old.paths) /\ old.truth.f[n] # Null =>
                        new.truth.f[n] # Null]_vars
    BY DEF Preserves
  <1>3. QED
    BY <1>1, <1>2, ValuesKept, PTL DEF StateSpec, WithheldSurvives
=============================================================================
