---------------------------- MODULE SensitiveLaws ----------------------------
(***************************************************************************)
(* What SensitiveState expects of internal/sensitive: laws of projecting,  *)
(* restoring, carrying forward and redacting single values, from which the *)
(* theorems follow about what happens to them over many commands.          *)
(***************************************************************************)
EXTENDS SensitiveState

CONSTANTS
    AllPaths,  \* the paths that may be recorded, those of instances included
    Universe,  \* the values that may be recorded or restored
    Legacies   \* the JSON an entry without a contract may have

PathSets == SUBSET AllPaths

\* What configurations may spell out, and every specification a command may
\* come to resolve for an entry.
Exemptions == {{}} \cup {Literals(raw, Q) : raw \in Raws \cup {Null}, Q \in PathSets}
Specs == {Spec(P, x, Schema.sets) : P \in PathSets, x \in Exemptions}

Plain(json, paths) == Restore(json, NoContract, paths, 0)

ASSUME UniverseAssumption ==
    /\ Schema.sensitive \in PathSets
    /\ Declarations \subseteq PathSets /\ LegacyPaths \subseteq PathSets
    /\ Values \subseteq Universe /\ Reads \subseteq Universe /\ Lost \notin Universe

\* What a projection nulls are paths; where nothing is sensitive there are none,
\* and nothing is withheld.
ASSUME ProjectionAssumption ==
    \A s \in Specs, v \in Universe :
        LET p == ProjectUnder(s, v) IN
        /\ p.redacted \in PathSets
        /\ s.paths = {} => p.redacted = {} /\ p.values = {}

\* A projection shows no secret at the specification's paths.
ASSUME WithholdingAssumption ==
    \A s \in Specs, v \in Universe :
        \A x \in Texts(ProjectUnder(s, v).json) :
            Covered(x[1], s.paths) => x[2] \notin Secrets

\* The contract of a projection restores its value, whatever was noted since.
ASSUME RoundTripAssumption ==
    \A s \in Specs, v \in Universe :
        LET c == Project(s, v).contract IN
        \A redacted \in PathSets :
            Restore(c.public, Rebind(c, s.paths, redacted), s.paths, 4) =
                [ok |-> TRUE, value |-> v]

\* A string stands where the schema says, also in what an older engine wrote.
InPlace(json) ==
    \A x \in Texts(json), p \in AllPaths : IsPrefix(p, x[1]) => p \in Schema.paths

ASSUME PlacesAssumption ==
    /\ \A s \in Specs, v \in Universe : InPlace(ProjectUnder(s, v).json)
    /\ \A j \in Legacies : InPlace(j)

\* JSON of an older engine: a value where it can be restored, and the same one
\* under the contract of a part from which nothing is withheld.
ASSUME LegacyAssumption ==
    /\ \A v \in Values, P \in LegacyPaths :
          LET p == ProjectUnder(Spec(P, {}, Schema.sets), v)
          IN p.json \in Legacies
    /\ \A j \in Legacies, P \in PathSets :
          Plain(j, P).ok \in BOOLEAN /\ (Plain(j, P).ok => Plain(j, P).value \in Universe)
    /\ \A j \in Legacies :
          Plain(j, {}).ok /\ Restore(j, NewContract(j, {}, {}), {}, 4) = Plain(j, {})

\* Redaction without a schema only takes away, and says so.
ASSUME RedactionAssumption ==
    \A j \in Legacies, P \in PathSets :
        LET r == RedactJSON(j, P) IN
        /\ r.json \in Legacies /\ r.changed \in PathSets
        /\ Texts(r.json) \subseteq Texts(j)
        /\ r.changed = {} => r.json = j

\* A read that is carried forward has a value wherever a persisted attribute
\* had one.
ASSUME CarryingAssumption ==
    \A exempt \in Exemptions, prior \in Universe, v \in Reads, P \in PathSets :
        LET c == CarryForward(exempt, prior, v, P) IN
        c.ok => /\ c.value \in Universe
                /\ \A n \in DOMAIN Schema.type.f :
                      Covered(Attr(<<>>, n), P) /\ prior.f[n] # Null => c.value.f[n] # Null
=============================================================================
