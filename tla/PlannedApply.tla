---------------------------- MODULE PlannedApply ----------------------------
(***************************************************************************)
(* The value of one resource from plan to state: what its author wrote,    *)
(* what the provider answers to PlanResource, once when the plan is made   *)
(* and perhaps again when it is applied, what is sent to ApplyResource and *)
(* what the provider says it became.  References have a value only when    *)
(* the resource they name has been applied, perhaps another than planned.  *)
(***************************************************************************)
EXTENDS PlannedValues

CONSTANTS
    Schema,       \* [type, sensitive]
    Authors,      \* the author's values; Ref stands for a reference
    References,   \* what references and environment variables may resolve to
    Default,      \* what the provider computes
    Variants(_),  \* what a provider may make of a value it was to keep
    Replacing,    \* the sets of attributes it may say require a replacement
    MaxPlans,     \* bound on the plans of a behaviour
    Nothing

VARIABLES
    author,    \* the configuration
    recorded,  \* the resource's value in state, Null without an entry
    plan,      \* the change in the reviewed plan
    run,       \* its application
    settled,   \* history: the composed configuration a cooperative provider applied
    plans      \* how many plans were made

vars == <<author, recorded, plan, run, settled, plans>>

Ref == [t |-> "ref"]
Type == Schema.type

Init ==
    /\ author \in Authors
    /\ recorded = Null
    /\ plan = Nothing /\ run = Nothing /\ settled = Nothing
    /\ plans = 0

\* Compose: references resolve to r.
RECURSIVE Compose(_, _)
Compose(v, r) ==
    CASE v = Ref       -> r
      [] v.t \in Named -> [v EXCEPT !.f = [n \in DOMAIN v.f |-> Compose(v.f[n], r)]]
      [] v.t = "set"   -> ImageSet(LAMBDA x : Compose(x, r), v.b)
      [] OTHER         -> v

\* The raw configuration, which lacks what the author did not write.
RECURSIVE Raw(_)
Raw(v) ==
    CASE v.t \in {"obj", "map"} ->
           [t |-> "obj", f |-> [n \in {m \in DOMAIN v.f : v.f[m] # Null} |-> Raw(v.f[n])]]
      [] v.t = "list" -> [t |-> "arr", s |-> [i \in DOMAIN v.f |-> Raw(v.f[i])]]
      [] v.t = "set"  -> LET s == BagSeq(v.b) IN [t |-> "arr", s |-> [i \in DOMAIN s |-> Raw(s[i])]]
      [] OTHER        -> v

\* What the schema calls sensitive, but for the literals of the configuration.
Policy ==
    LET all == TypeSets(Type, <<>>)
        paths == Schema.sensitive
    IN Spec(paths, WalkRaw(Raw(author), <<>>, <<>>, paths, Affected(all, paths)), all)

----------------------------------------------------------------------------
\* The provider.

\* Computed attributes that are still null get the value x.
RECURSIVE Filled(_, _, _)
Filled(ty, v, x) ==
    CASE v.t = "obj" ->
           [v EXCEPT !.f = [n \in DOMAIN v.f |->
               IF n \in ty.computed /\ v.f[n] = Null THEN x ELSE Filled(ty.f[n], v.f[n], x)]]
      [] v.t \in {"map", "list"} -> [v EXCEPT !.f = [n \in DOMAIN v.f |-> Filled(ty.e, v.f[n], x)]]
      [] v.t = "set" -> ImageSet(LAMBDA e : Filled(ty.e, e, x), v.b)
      [] OTHER       -> v

\* Unknown leaves become x.
RECURSIVE Completed(_, _)
Completed(v, x) ==
    CASE v = Unknown   -> x
      [] v.t \in Named -> [v EXCEPT !.f = [n \in DOMAIN v.f |-> Completed(v.f[n], x)]]
      [] v.t = "set"   -> ImageSet(LAMBDA e : Completed(e, x), v.b)
      [] OTHER         -> v

\* A cooperative provider keeps what is proposed and computes the rest.
Cooperative(proposed) == Filled(Type, proposed, Unknown)

PlanAnswers(proposed) ==
    LET kept == {Cooperative(proposed), Filled(Type, proposed, Default)}
    IN {Null} \cup kept \cup UNION {Variants(v) : v \in kept}

ApplyAnswers(planned) ==
    LET kept == Completed(planned, Default)
    IN {Null, Unknown, planned, kept} \cup Variants(kept)

----------------------------------------------------------------------------
\* Plan.

Edit ==
    /\ plan = Nothing
    /\ author' \in Authors \ {author}
    /\ UNCHANGED <<recorded, plan, run, settled, plans>>

Plan ==
    /\ plan = Nothing /\ plans < MaxPlans
    /\ plans' = plans + 1
    /\ \E r \in References \cup {Unknown}, names \in Replacing :
          LET cfg == Compose(author, r)
              proposed == ProposedNew(Type, recorded, cfg)
          IN \E answer \in PlanAnswers(proposed) :
                plan' = [action |-> Classify(recorded, answer, names, Policy, Type),
                         reviewed |-> IF answer = Null THEN Null
                                      ELSE WithUnknowns(Policy, Type, answer),
                         names |-> names, cfg |-> cfg, answer |-> answer,
                         cooperative |-> answer = Cooperative(proposed)]
    /\ UNCHANGED <<author, recorded, run, settled>>

\* The plan is done with, or never applied, or its apply is killed.
Discard ==
    /\ plan # Nothing
    /\ plan' = Nothing /\ run' = Nothing
    /\ UNCHANGED <<author, recorded, settled, plans>>

----------------------------------------------------------------------------
\* applyChange.

Run(phase, sent, cfg) ==
    [phase |-> phase, sent |-> sent, cfg |-> cfg, prior |-> recorded,
     answer |-> Null, failed |-> FALSE, reported |-> FALSE]

Refused == Run("refused", Null, Null)

\* Unknown leaves in sets can only be planned again; the answer must agree with
\* the review.
Preflight(cfg) ==
    IF NeedsReplan(Type, plan.reviewed)
    THEN \E answer \in PlanAnswers(ProposedNew(Type, recorded, cfg)), names \in Replacing :
            run' = IF /\ ContractMatches(plan.reviewed, answer)
                      /\ names = plan.names
                      /\ Classify(recorded, answer, names, Policy, Type) = plan.action
                      /\ answer # Null
                   THEN Run("ready", answer, cfg)
                   ELSE Refused
    ELSE LET sent == ResolvePlannedUnknowns(plan.reviewed, cfg)
         IN run' = IF sent = Null THEN Refused ELSE Run("ready", sent, cfg)

Start ==
    /\ plan # Nothing /\ run = Nothing
    /\ plan.action \in {"create", "update", "replace"}
    /\ \E r \in References : Preflight(Compose(author, r))
    /\ UNCHANGED <<author, recorded, plan, settled, plans>>

\* The destroy of a delete, and of a replacement before its create.
Destroy ==
    /\ \/ plan # Nothing /\ plan.action = "delete" /\ run = Nothing /\ plan' = Nothing /\ run' = Nothing
       \/ /\ plan # Nothing /\ plan.action = "replace" /\ run # Nothing /\ run.phase = "ready"
          /\ run' = [run EXCEPT !.phase = "destroyed"]
          /\ UNCHANGED plan
    /\ recorded' = Null
    /\ settled' = Nothing
    /\ UNCHANGED <<author, plans>>

\* checkResultConsistency
Reported(answer) == answer \in Unset \/ Diverges(run.sent, run.cfg, answer)

\* createOrUpdate.  A value with unknown parts cannot be recorded.
Write ==
    /\ run # Nothing
    /\ run.phase = IF plan.action = "replace" THEN "destroyed" ELSE "ready"
    /\ \E answer \in ApplyAnswers(run.sent), failed \in BOOLEAN :
          /\ run' = [run EXCEPT !.phase = "done", !.answer = answer, !.failed = failed,
                                !.reported = ~failed /\ Reported(answer)]
          /\ recorded' = IF answer = Null \/ ~WhollyKnown(answer) THEN recorded ELSE answer
          /\ settled' = IF /\ ~failed /\ answer = Completed(run.sent, Default)
                           /\ run.sent = Cooperative(ProposedNew(Type, run.prior, run.cfg))
                        THEN run.cfg ELSE Nothing
    /\ UNCHANGED <<author, plan, plans>>

Next == Edit \/ Plan \/ Discard \/ Start \/ Destroy \/ Write

ApplySpec == Init /\ [][Next]_vars

----------------------------------------------------------------------------
\* Properties.

\* The value is the reviewed one with something for each unknown: the elements
\* of sets correspond one to one.
RECURSIVE Instantiates(_, _)
Instantiates(v, reviewed) ==
    CASE reviewed = Unknown -> TRUE
      [] reviewed # Unknown /\ reviewed.t \in Named ->
            v.t = reviewed.t /\ DOMAIN v.f = DOMAIN reviewed.f
            /\ \A n \in DOMAIN v.f : Instantiates(v.f[n], reviewed.f[n])
      [] reviewed.t = "set" ->
            v.t = "set" /\
            LET r == BagSeq(reviewed.b)
                c == BagSeq(v.b)
            IN Len(r) = Len(c) /\
               \E f \in [DOMAIN r -> DOMAIN r] :
                  /\ \A i, j \in DOMAIN r : f[i] = f[j] => i = j
                  /\ \A i \in DOMAIN r : Instantiates(c[f[i]], r[i])
      [] OTHER -> v = reviewed

\* What is destroyed or sent is what was reviewed: the value instantiates the
\* plan's, though references resolved to something else or the provider
\* planned again, and no update has become a replacement.
ReviewHolds ==
    run # Nothing /\ run.phase # "refused" =>
        /\ Instantiates(run.sent, plan.reviewed)
        /\ plan.action = "update" =>
              Classify(run.prior, run.sent, plan.names, Policy, Type) # "replace"

\* The scalars, sets and key sets of a value, each with its logical and its
\* concrete place.
RECURSIVE Facts(_, _, _, _)
Facts(ty, v, inst, l) ==
    IF v.t \in Named
    THEN {<<l, inst, [t |-> "keys", of |-> v.t, f |-> DOMAIN v.f]>>} \cup
         UNION {Facts(Member(ty, n), v.f[n], Place(ty, inst, n),
                      IF ty.k = "obj" THEN Attr(l, n) ELSE l) : n \in DOMAIN v.f}
    ELSE {<<l, inst, v>>}

\* A plan says no-op only if all that differs between the value in state and
\* the planned one is withheld and outside of sets: a change of membership is
\* seen although its elements look alike.
NoOpMeansEqual ==
    plan # Nothing /\ plan.action = "no-op" =>
        LET before == Facts(Type, recorded, <<>>, <<>>)
            after == Facts(Type, plan.answer, <<>>, <<>>)
        IN \A x \in (before \ after) \cup (after \ before) :
              Covered(x[1], Policy.paths) /\ ~Covered(x[1], Policy.sets)

\* Once a cooperative provider has applied a configuration, planning the same
\* configuration changes nothing.
Converges ==
    /\ plan # Nothing /\ run = Nothing /\ plan.cooperative
    /\ settled # Nothing /\ plan.cfg = settled
    => plan.action = "no-op"

Leaves(v) == {x \in Facts(Type, v, <<>>, <<>>) : x[3].t # "keys" /\ WhollyKnown(x[3])}

\* The lists that have another length in one of the values: their items do not
\* correspond, and "wholesale" comparison passes over unknown ones.
Unaligned(v, others) ==
    {x[2] : x \in {y \in Facts(Type, v, <<>>, <<>>) :
        /\ y[3].t = "keys" /\ y[3].of = "list"
        /\ \E o \in others : y \notin Facts(Type, o, <<>>, <<>>)}}

\* An answer to ApplyResource that only fills in unknowns is not reported, and
\* in one that is not reported every configured leaf is as it was sent, save for
\* the items of lists that do not correspond.
PromisesAreChecked ==
    run # Nothing /\ run.phase = "done" /\ ~run.failed =>
        /\ WhollyKnown(run.answer) /\ Instantiates(run.answer, run.sent) => ~run.reported
        /\ ~run.reported =>
              \A x \in Leaves(run.cfg), y \in Leaves(run.sent) :
                  /\ x[2] = y[2] /\ x[3] # Null
                  /\ \A i \in Unaligned(run.sent, {run.cfg, run.answer}) :
                        ~IsPrefix(Steps(i), Steps(x[2]))
                  => y \in Facts(Type, run.answer, <<>>, <<>>)
=============================================================================
