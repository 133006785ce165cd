------------------------------- MODULE Paths -------------------------------
(***************************************************************************)
(* The vocabulary of internal/sensitive: paths, specifications of what is  *)
(* sensitive in one resource, and the contract that goes with a public     *)
(* value from which something was withheld.                                *)
(*                                                                         *)
(* A path is a sequence of segments, a segment an attribute name followed  *)
(* by the indexes and map keys after it; a logical path has only names.    *)
(***************************************************************************)
EXTENDS Naturals, Sequences, FiniteSets, Bags, SequencesExt, FiniteSetsExt

Null == [t |-> "null"]
Str(v) == [t |-> "str", v |-> v]
NoContract == [none |-> TRUE]

----------------------------------------------------------------------------
\* Paths.

Attr(path, name) == Append(path, <<name>>)
Index(path, key) == [path EXCEPT ![Len(path)] = Append(@, key)]
Logical(path) == [i \in DOMAIN path |-> <<path[i][1]>>]

Covered(path, paths) == \E p \in paths : IsPrefix(p, path)
Leads(path, paths) == \E p \in paths : IsPrefix(path, p)

\* The sets whose identity the redaction of the paths can change.
Affected(sets, paths) == {s \in sets : \E p \in paths : IsPrefix(s, p) \/ IsPrefix(p, s)}

----------------------------------------------------------------------------
\* Specifications: what is sensitive in one resource, what the configuration
\* spells out of it, and which sets that affects.

Spec(paths, exempt, all) ==
    [paths |-> paths, exempt |-> exempt, sets |-> Affected(all, paths), all |-> all]

\* Effective(nil): no configuration, hence no exemption.
WithoutLiterals(spec) == [spec EXCEPT !.exempt = {}]

HasSet(spec, l) == Leads(l, spec.sets)

----------------------------------------------------------------------------
\* What a projection yields: public JSON, the instances that were withheld and
\* their values.
Projected(json, redacted, values) ==
    [json |-> json, redacted |-> redacted, values |-> values]

\* encodeProjectionContract
Contract(public, paths, redacted, direct, values) ==
    [public |-> public, paths |-> paths, redacted |-> redacted, direct |-> direct,
     values |-> values]
NewContract(public, paths, redacted) == Contract(public, paths, redacted, {}, {})
Rebind(contract, paths, redacted) ==
    Contract(contract.public, paths, redacted, contract.direct, contract.values)

\* ValidateProjectionContract
Valid(public, contract) == contract # NoContract /\ contract.public = public

\* The direct fields among the withheld values, and the contract.
Contracted(spec, p) ==
    LET direct == {l \in {Logical(x.path) : x \in p.values} :
                      Covered(l, spec.paths) /\ ~HasSet(spec, l)}
    IN [json |-> p.json, redacted |-> p.redacted,
        contract |-> Contract(p.json, spec.paths, p.redacted, direct, p.values)]

\* What could not be restored or carried forward.
Failed == [ok |-> FALSE, value |-> Null]
=============================================================================
