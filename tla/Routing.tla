------------------------------ MODULE Routing ------------------------------
(***************************************************************************)
(* services/providers/router.py and the parts of smart_embedding.py and of *)
(* api/internal/translate.py that choose upstreams, as operators.  `state' *)
(* is what the model and channel rows say of every model: "on" when both   *)
(* are enabled, "off" when the model is disabled, "severed" when its       *)
(* channel is.  A choice the code leaves to chance, to the prompt or to an *)
(* embedding provider is the set of its possible outcomes.                 *)
(***************************************************************************)
EXTENDS Naturals, Sequences, FiniteSets, FiniteSetsExt

CONSTANTS NoModel, NoLabel

Usable(state, m) == state[m] = "on"

\* _ordered_targets: the targets whose model and channel are enabled, each at
\* its place in the list of the policy.
_ordered_targets(policy, state) ==
  RestrictValues(policy.targets, LAMBDA t : Usable(state, t.model))

Labels(targets) == {targets[i].label : i \in DOMAIN targets}

\* _weighted_pick.  The draw is uniform over [0, total], both ends included, so
\* that the first target can be picked even if its weight is zero.
_weighted_pick(targets) ==
  LET weighted == {i \in DOMAIN targets : targets[i].weight > 0}
      first    == {i \in DOMAIN targets : \A j \in DOMAIN targets : i <= j}
  IN  {targets[i].model : i \in weighted \union first}

\* _round_robin_pick: the targets without the repetitions of a model, and the
\* one the shared cursor points at.
_round_robin_pick(targets, cursor) ==
  LET first(i) == \A j \in DOMAIN targets :
                    j < i => targets[j].model # targets[i].model
      firsts   == {i \in DOMAIN targets : first(i)}
      rank(i)  == Cardinality({j \in firsts : j < i})
  IN  {targets[i].model :
         i \in {k \in firsts : rank(k) = cursor % Cardinality(firsts)}}

\* _apply_rules: the label of the first rule that yields one for the prompt.
_apply_rules(rules, yields) ==
  LET hits == {i \in DOMAIN rules : yields[i] # NoLabel}
  IN  IF hits = {} THEN NoLabel ELSE yields[Min(hits)]

\* What the evaluators may yield for some prompt and client: nothing, or one of
\* the labels of the rule (a tokens rule has two).
Evaluations(rules) ==
  {y \in [DOMAIN rules -> UNION {rules[i] : i \in DOMAIN rules} \union {NoLabel}] :
     \A i \in DOMAIN rules : y[i] \in rules[i] \union {NoLabel}}

Verdict(label, status) == [label |-> label, status |-> status]

\* classify: nothing is spent when there is no text or no exemplar; the label is
\* none when the provider fails or no exemplar is near enough, and otherwise
\* one of the labels that usable targets carry.
classify(targets) ==
  {Verdict(NoLabel, "none"), Verdict(NoLabel, "error")} \union
  {Verdict(l, s) : l \in Labels(targets) \union {NoLabel}, s \in {"ok", "cache"}}

\* The two ways _smart_pick finds a label: an embedding model decides alone, or
\* the rules do; with no usable target neither is asked.
SmartVerdicts(policy, targets) ==
  IF targets = <<>> THEN {Verdict(NoLabel, "none")}
  ELSE IF policy.embedding THEN classify(targets)
  ELSE {Verdict(_apply_rules(policy.rules, y), "none") :
          y \in Evaluations(policy.rules)}

\* _smart_pick: a target of the label, else one of the default label.
_smart_pick(targets, label) ==
  LET named(l) == RestrictValues(targets, LAMBDA t : t.label = l)
  IN  _weighted_pick(IF named(label) # <<>> THEN named(label)
                                            ELSE named("default"))

\* select_route's chain, given its primary: the fallback model follows unless it
\* is the primary or is not usable.
WithFallback(policy, primary, state) ==
  LET joins == /\ policy.fallback \notin {NoModel, primary}
               /\ Usable(state, policy.fallback)
  IN  (IF primary = NoModel THEN <<>> ELSE <<primary>>)
      \o (IF joins THEN <<policy.fallback>> ELSE <<>>)

\* select_route: every outcome it may have, with what the classifier did.
select_route(policy, state, cursor) ==
  LET targets  == _ordered_targets(policy, state)
      verdicts == IF policy.strategy = "smart" THEN SmartVerdicts(policy, targets)
                                               ELSE {Verdict(NoLabel, "none")}
      picks(v) == CASE policy.strategy = "smart" -> _smart_pick(targets, v.label)
                    [] policy.strategy = "round_robin" ->
                         _round_robin_pick(targets, cursor)
                    [] OTHER -> _weighted_pick(targets)
      primaries(v) == IF picks(v) = {} THEN {NoModel} ELSE picks(v)
  IN  UNION {{[chain |-> WithFallback(policy, m, state), classifier |-> v.status] :
                m \in primaries(v)} : v \in verdicts}

\* _load_candidates reads the rows again in the translator: the models of the
\* chain that are usable still; when none is, the model of the header, of which
\* only the channel is looked at; nothing (502) when that channel is disabled.
\* A chain is a primary and a fallback at most.
_load_candidates(chain, header, state) ==
  LET kept(i) == IF i \in DOMAIN chain /\ Usable(state, chain[i])
                 THEN <<chain[i]>> ELSE <<>>
      live    == kept(1) \o kept(2)
  IN  IF live # <<>> THEN live
      ELSE IF state[header] = "severed" THEN <<>> ELSE <<header>>
=============================================================================
