-------------------------- MODULE EnvoyPathProofs --------------------------
(***************************************************************************)
(* Proofs about EnvoyPath, for any requests, models, prices, policies,     *)
(* balances and faults.                                                    *)
(***************************************************************************)
EXTENDS EnvoyPath, SequenceTheorems, TLAPS

-----------------------------------------------------------------------------
(***************************************************************************)
(* What the operators return.                                              *)
(***************************************************************************)

LEMMA MaxOfTwo ==
  ASSUME NEW a \in Int, NEW b \in Int
  PROVE  Max({a, b}) = IF a >= b THEN a ELSE b
<1> DEFINE m == IF a >= b THEN a ELSE b
<1>1. m \in {a, b} /\ \A y \in {a, b} : m >= y
  OBVIOUS
<1>2. \A x \in {a, b} : (\A y \in {a, b} : x >= y) => x = m
  OBVIOUS
<1> QED
  BY <1>1, <1>2 DEF Max

LEMMA MinOfTwo ==
  ASSUME NEW a \in Int, NEW b \in Int
  PROVE  Min({a, b}) = IF a <= b THEN a ELSE b
<1> DEFINE m == IF a <= b THEN a ELSE b
<1>1. m \in {a, b} /\ \A y \in {a, b} : m <= y
  OBVIOUS
<1>2. \A x \in {a, b} : (\A y \in {a, b} : x <= y) => x = m
  OBVIOUS
<1> QED
  BY <1>1, <1>2 DEF Min

LEMMA Concatenations ==
  ASSUME NEW a, NEW b
  PROVE  /\ <<>> \o <<>> = <<>> /\ <<>> \o <<a>> = <<a>>
         /\ <<a>> \o <<>> = <<a>> /\ <<a>> \o <<b>> = <<a, b>>
<1>1. <<>> \o <<>> = <<>>
  OBVIOUS
<1>2. <<>> \o <<a>> = <<a>> /\ <<a>> \o <<>> = <<a>>
  OBVIOUS
<1>3. <<a>> \o <<b>> = <<a, b>>
  <2> DEFINE S == {a, b}
  <2>1. <<a>> \in Seq(S) /\ <<b>> \in Seq(S) /\ <<a, b>> \in Seq(S)
    OBVIOUS
  <2>2. /\ Len(<<a>> \o <<b>>) = 2 /\ <<a>> \o <<b>> \in Seq(S)
        /\ (<<a>> \o <<b>>)[1] = a /\ (<<a>> \o <<b>>)[2] = b
    BY <2>1, ConcatProperties
  <2>3. \A i \in 1..2 : (<<a>> \o <<b>>)[i] = <<a, b>>[i]
    BY <2>2
  <2> QED
    BY <2>1, <2>2, <2>3, SeqEqual
<1> QED
  BY <1>1, <1>2, <1>3

\* A chain is empty, a primary, or a primary and a fallback.
LEMMA ChainShapes ==
  ASSUME NEW c
  PROVE  c \in Chains <=> \/ c = <<>>
                          \/ \E a \in Models : c = <<a>>
                          \/ \E a, b \in Models : c = <<a, b>>
<1>1. c \in Chains <=> \E n \in {0, 1, 2} : c \in [1..n -> Models]
  BY DEF Chains
<1>2. c \in [1..0 -> Models] <=> c = <<>>
  <2>1. c \in [1..0 -> Models] => c = <<>>
    OBVIOUS
  <2>2. <<>> \in [1..0 -> Models]
    OBVIOUS
  <2> QED
    BY <2>1, <2>2
<1>3. c \in [1..1 -> Models] <=> \E a \in Models : c = <<a>>
  <2>1. ASSUME c \in [1..1 -> Models]
        PROVE  c = <<c[1]>> /\ c[1] \in Models
    BY <2>1
  <2>2. ASSUME NEW a \in Models
        PROVE  <<a>> \in [1..1 -> Models]
    OBVIOUS
  <2> QED
    BY <2>1, <2>2
<1>4. c \in [1..2 -> Models] <=> \E a, b \in Models : c = <<a, b>>
  <2>1. ASSUME c \in [1..2 -> Models]
        PROVE  c = <<c[1], c[2]>> /\ c[1] \in Models /\ c[2] \in Models
    BY <2>1
  <2>2. ASSUME NEW a \in Models, NEW b \in Models
        PROVE  <<a, b>> \in [1..2 -> Models]
    OBVIOUS
  <2> QED
    BY <2>1, <2>2
<1> QED
  BY <1>1, <1>2, <1>3, <1>4

LEMMA ChainParts ==
  ASSUME NEW c \in Chains, c # <<>>
  PROVE  /\ Head(c) \in Models /\ Tail(c) \in Chains
         /\ Len(c) # 1 => Tail(c) # <<>>
<1>1. CASE \E a \in Models : c = <<a>>
  <2>1. PICK a \in Models : c = <<a>>
    BY <1>1
  <2>2. Head(c) = a /\ Tail(c) = <<>> /\ Len(c) = 1
    BY <2>1
  <2> QED
    BY <2>2, ChainShapes
<1>2. CASE \E a, b \in Models : c = <<a, b>>
  <2>1. PICK a \in Models, b \in Models : c = <<a, b>>
    BY <1>2
  <2>2. Head(c) = a /\ Tail(c) = <<b>> /\ <<b>> # <<>>
    BY <2>1
  <2> QED
    BY <2>2, ChainShapes
<1> QED
  BY <1>1, <1>2, ChainShapes

LEMMA TwoPartsAreChain ==
  ASSUME NEW a, NEW b, a = <<>> \/ \E x \in Models : a = <<x>>,
                       b = <<>> \/ \E x \in Models : b = <<x>>
  PROVE  a \o b \in Chains
<1>1. CASE a = <<>> /\ b = <<>>
  BY <1>1, Concatenations, ChainShapes
<1>2. ASSUME NEW y \in Models, a = <<>>, b = <<y>>
      PROVE  a \o b \in Chains
  <2>1. a \o b = <<y>>
    BY <1>2, Concatenations
  <2> QED
    BY <2>1, ChainShapes
<1>3. ASSUME NEW x \in Models, a = <<x>>, b = <<>>
      PROVE  a \o b \in Chains
  <2>1. a \o b = <<x>>
    BY <1>3, Concatenations
  <2> QED
    BY <2>1, ChainShapes
<1>4. ASSUME NEW x \in Models, NEW y \in Models, a = <<x>>, b = <<y>>
      PROVE  a \o b \in Chains
  <2>1. a \o b = <<x, y>>
    BY <1>4, Concatenations
  <2> QED
    BY <2>1, ChainShapes
<1> QED
  BY <1>1, <1>2, <1>3, <1>4

\* select_route names models that there are.
LEMMA PicksAreModels ==
  ASSUME NEW targets, \A i \in DOMAIN targets : targets[i].model \in Models,
         NEW label, NEW cursor
  PROVE  /\ _weighted_pick(targets) \subseteq Models
         /\ _round_robin_pick(targets, cursor) \subseteq Models
         /\ _smart_pick(targets, label) \subseteq Models
<1>1. ASSUME NEW ts, \A i \in DOMAIN ts : ts[i].model \in Models
      PROVE  _weighted_pick(ts) \subseteq Models
  BY <1>1 DEF _weighted_pick
<1>2. _round_robin_pick(targets, cursor) \subseteq Models
  BY DEF _round_robin_pick
<1>3. _smart_pick(targets, label) \subseteq Models
  <2> DEFINE named(l) == RestrictValues(targets, LAMBDA t : t.label = l)
  <2>1. \A i \in DOMAIN named(label) : named(label)[i].model \in Models
    BY DEF RestrictValues, Restrict
  <2>2. \A i \in DOMAIN named("default") : named("default")[i].model \in Models
    BY DEF RestrictValues, Restrict
  <2>3. _smart_pick(targets, label) =
          _weighted_pick(IF named(label) # <<>> THEN named(label) ELSE named("default"))
    BY DEF _smart_pick
  <2>4. _weighted_pick(named(label)) \subseteq Models
    BY <1>1, <2>1
  <2>5. _weighted_pick(named("default")) \subseteq Models
    BY <1>1, <2>2
  <2> HIDE DEF named
  <2> QED
    BY <2>3, <2>4, <2>5
<1> QED
  BY <1>1, <1>2, <1>3

LEMMA RouteIsChain ==
  ASSUME NEW p \in Policies, NEW st, NEW cursor, NEW d \in select_route(p, st, cursor)
  PROVE  d.chain \in Chains
<1> DEFINE targets == _ordered_targets(p, st)
           picks(v) == CASE p.strategy = "smart" -> _smart_pick(targets, v.label)
                         [] p.strategy = "round_robin" -> _round_robin_pick(targets, cursor)
                         [] OTHER -> _weighted_pick(targets)
           primaries(v) == IF picks(v) = {} THEN {NoModel} ELSE picks(v)
<1>1. \E v, m : m \in primaries(v) /\ d.chain = WithFallback(p, m, st)
  BY DEF select_route
<1>2. PICK v, m : m \in primaries(v) /\ d.chain = WithFallback(p, m, st)
  BY <1>1
<1>3. \A i \in DOMAIN targets : targets[i].model \in Models
  BY PoliciesAssumption DEF _ordered_targets, RestrictValues, Restrict
<1>4. picks(v) \subseteq Models
  BY <1>3, PicksAreModels
<1>5. m = NoModel \/ m \in Models
  BY <1>2, <1>4
<1>6. p.fallback \in Models \union {NoModel}
  BY PoliciesAssumption
<1> DEFINE joins == p.fallback \notin {NoModel, m} /\ Usable(st, p.fallback)
           a == IF m = NoModel THEN <<>> ELSE <<m>>
           b == IF joins THEN <<p.fallback>> ELSE <<>>
<1>7. d.chain = a \o b
  BY <1>2 DEF WithFallback
<1>8. a = <<>> \/ \E x \in Models : a = <<x>>
  BY <1>5
<1>9. b = <<>> \/ \E x \in Models : b = <<x>>
  BY <1>6
<1> QED
  BY <1>7, <1>8, <1>9, TwoPartsAreChain

LEMMA CandidatesAreChain ==
  ASSUME NEW c \in Chains, NEW h \in Models, NEW st
  PROVE  _load_candidates(c, h, st) \in Chains
<1> DEFINE kept(i) == IF i \in DOMAIN c /\ Usable(st, c[i]) THEN <<c[i]>> ELSE <<>>
<1>1. \A i \in {1, 2} : kept(i) = <<>> \/ \E a \in Models : kept(i) = <<a>>
  <2>1. \A i \in DOMAIN c : c[i] \in Models
    BY DEF Chains
  <2> QED
    BY <2>1
<1>3. kept(1) \o kept(2) \in Chains
  <2> HIDE DEF kept
  <2> QED
    BY <1>1, TwoPartsAreChain
<1>4. _load_candidates(c, h, st) \in {kept(1) \o kept(2), <<>>, <<h>>}
  BY DEF _load_candidates
<1> QED
  BY <1>3, <1>4, ChainShapes

-----------------------------------------------------------------------------
(***************************************************************************)
(* What holds of one request, whatever it is doing.  A request owes        *)
(* nothing while it is admitted, owes the price of the candidate at the    *)
(* head of its chain from the answer on, and has paid nothing before the   *)
(* one transaction that bills it.  `marked' is why the access log never    *)
(* charges: the header that names a model is set together with             *)
(* x-llmxy-billed-sync.                                                    *)
(***************************************************************************)

Worth(s) == Price[Head(s.chain)] + IF s.classifier THEN ClassifierPrice ELSE 0

Sound(s) ==
  /\ s.pc \in Admitted \ {"translate"} => s.chain # <<>>
  /\ s.pc = "translate" => s.header \in Models
  /\ s.header # NoModel => s.marked
  /\ s.pc \in Admission => s.owed = 0
  /\ s.pc \in {"bill", "streaming"} => s.owed = Worth(s)
  /\ s.paid \in {0, s.owed}
  /\ s.pc \in Delivery \union {"200"} => s.paid = s.owed
  /\ s.pc \in Admission \union Admitted \union {"unbilled"} => s.paid = 0

\* The stages are told apart by their names.
LEMMA StagesDiffer ==
  /\ \A pc \in Admission : pc \notin Admitted \union Delivery \union Outcomes
  /\ \A pc \in Admitted : pc \notin Admission \union Delivery \union Outcomes
  /\ \A pc \in Delivery : pc \notin Admission \union Admitted \union Outcomes
  /\ "200" \in Outcomes /\ "unbilled" \in Outcomes
  BY DEF Admission, Quota, Hydration, Admitted, Delivery, Outcomes

RequestsTyped == q \in [Requests -> Requested]
RequestsSound == RequestsTyped /\ \A r \in Requests : Sound(q[r])
MoneyTyped    == wallet \in Amounts /\ sub \in 0..MaxSub
CountersTyped == /\ cached \in CounterSets
                 /\ hydrating \in BOOLEAN /\ excused \in BOOLEAN /\ tasks \in 0..MaxTasks
RowsTyped     == state \in [Models -> {"on", "off", "severed"}] /\ changes \in 0..MaxChanges
BucketTyped   == bucket \in [n : 0..(RPM + 1), ttl : BOOLEAN]
LogTyped      == logged \subseteq Requests
FaultsTyped   == faults \in 0..MaxFaults

\* Envoy logs what is over.
LoggedIsOver == \A r \in logged : q[r].pc \in Outcomes

\* A step that replaces one request by a sound one keeps all of them sound.
LEMMA OneRequest ==
  ASSUME RequestsSound, NEW r \in Requests, NEW x \in Requested, Sound(x),
         q' = [q EXCEPT ![r] = x]
  PROVE  RequestsSound'
<1>1. q' \in [Requests -> Requested] /\ \A s \in Requests : q'[s] = IF s = r THEN x ELSE q[s]
  BY DEF RequestsSound, RequestsTyped
<1>2. \A s \in Requests : Sound(q'[s])
  BY <1>1 DEF RequestsSound
<1> QED
  BY <1>1, <1>2 DEF RequestsSound, RequestsTyped, Sound, Worth

LEMMA NoCountersTyped == NoCounters \in CounterSets
  BY DEF CounterSets

LEMMA EmptyChain == <<>> \in Chains
  BY ChainShapes

\* From one stage of the admission to another.
LEMMA GotoSound ==
  ASSUME RequestsSound, NEW r \in Requests, q[r].pc \in Admission,
         NEW pc \in Admission, Goto(r, pc)
  PROVE  RequestsSound'
<1> DEFINE s == q[r]
           x == [s EXCEPT !.pc = pc]
<1>1. s \in Requested /\ Sound(s) /\ s.pc \in Admission
  BY DEF RequestsSound, RequestsTyped
<1>2. q' = [q EXCEPT ![r] = x]
  BY DEF Goto
<1> HIDE DEF s
<1>3. x \in Requested
  BY <1>1 DEF Requested
<1>4. x.pc = pc /\ x.header = s.header /\ x.marked = s.marked /\ x.owed = s.owed /\ x.paid = s.paid
  BY <1>1 DEF Requested
<1>5. pc \notin Admitted /\ pc \notin Delivery \union {"200"}
  BY StagesDiffer
<1> HIDE DEF x
<1>6. Sound(x)
  BY <1>1, <1>4, <1>5 DEF Sound, Admitted
<1> QED
  BY <1>2, <1>3, <1>6, OneRequest

\* However a request ends, it keeps what it has paid; a stream is left unbilled
\* only by a transaction that failed.
LEMMA EndSound ==
  ASSUME RequestsSound, NEW r \in Requests, NEW code, End(r, code),
         code # "unbilled" \/ q[r].pc \in Admitted
  PROVE  RequestsSound'
<1> DEFINE s == q[r]
           pc == IF code \in {"cut", "unbilled"} THEN code ELSE "error"
           x == [s EXCEPT !.chain = <<>>, !.second = FALSE, !.seen = NoCounters, !.pc = pc]
<1>1. s \in Requested /\ Sound(s)
  BY DEF RequestsSound, RequestsTyped
<1>2. q' = [q EXCEPT ![r] = x]
  BY DEF End
<1>3. pc \in {"cut", "unbilled", "error"} /\ (pc = "unbilled" => s.pc \in Admitted)
  OBVIOUS
<1> HIDE DEF s, pc
<1>4. /\ pc \in Outcomes /\ pc # "200"
      /\ pc \notin Admission /\ pc \notin Admitted /\ pc \notin Delivery
  BY <1>3, StagesDiffer DEF Outcomes
<1>b. pc = "unbilled" => s.paid = 0
  BY <1>1, <1>3 DEF Sound
<1>5. x \in Requested
  BY <1>1, <1>4, NoCountersTyped, EmptyChain DEF Requested
<1>6. /\ x.pc = pc /\ x.header = s.header /\ x.marked = s.marked
      /\ x.paid = s.paid /\ x.owed = s.owed
  BY <1>1 DEF Requested
<1> HIDE DEF x
<1>7. Sound(x)
  BY <1>1, <1>3, <1>4, <1>6, <1>b DEF Sound, Admitted
<1> QED
  BY <1>2, <1>5, <1>7, OneRequest

\* What a hydration has read is typed at any time, its mixtures included.
LEMMA SeenIsTyped ==
  ASSUME NEW c \in CounterSets, NEW n \in 0..MaxSub
  PROVE  [wallet |-> c.wallet, sub |-> n] \in CounterSets
<1>1. -Floor \in Amounts
  BY PathAssumption DEF Amounts
<1>2. c.wallet \in Amounts
  BY <1>1 DEF CounterSets, NoCounters
<1> QED
  BY <1>2 DEF CounterSets

\* The quota stage: has_quota_fast with its hydration and its errors.
LEMMA QuotaSound ==
  ASSUME RequestsSound, MoneyTyped, NEW r \in Requests,
         \/ CheckSubs(r) \/ has_quota_fast(r) \/ hydrate_user_quota(r)
         \/ LoadUser(r) \/ LoadSubs(r) \/ StoreCounters(r) \/ QuotaError(r)
  PROVE  RequestsSound'
<1> DEFINE s == q[r]
<1>1. s \in Requested /\ Sound(s)
  BY DEF RequestsSound, RequestsTyped
<1>a. \A pc \in Quota \union {"rate"} :
        pc \in Admission /\ pc \notin Admitted /\ pc \notin Delivery \union {"200"}
  BY StagesDiffer DEF Admission
\* A request that stays in the stage, with what it has seen and whether it looks
\* for the second time.
<1>2. ASSUME NEW pc \in Quota \union {"rate"}, NEW b \in BOOLEAN, NEW c \in CounterSets,
             s.pc \in Quota,
             q' = [q EXCEPT ![r] = [s EXCEPT !.pc = pc, !.second = b, !.seen = c]]
      PROVE  RequestsSound'
  <2> HIDE DEF s
  <2> DEFINE x == [s EXCEPT !.pc = pc, !.second = b, !.seen = c]
  <2>1. x \in Requested
    BY <1>1, <1>a DEF Requested
  <2>2. /\ x.pc = pc /\ x.header = s.header /\ x.marked = s.marked
        /\ x.owed = s.owed /\ x.paid = s.paid
    BY <1>1 DEF Requested
  <2>3. q' = [q EXCEPT ![r] = x]
    BY <1>2
  <2> HIDE DEF x
  <2>4. Sound(x)
    BY <1>1, <1>2, <1>a, <2>2 DEF Sound, Admitted
  <2> QED
    BY <2>1, <2>3, <2>4, OneRequest
<1>3. s.second \in BOOLEAN /\ s.seen \in CounterSets
  BY <1>1 DEF Requested
<1>4. ASSUME CheckSubs(r)
      PROVE  RequestsSound'
  <2>1. q[r].pc \in Admission
    BY <1>4 DEF CheckSubs, Admission, Quota
  <2>2. PICK pc \in Admission : Goto(r, pc)
    BY <1>4 DEF CheckSubs, Admission, Quota
  <2> QED
    BY <2>1, <2>2, GotoSound
<1>5. ASSUME has_quota_fast(r)
      PROVE  RequestsSound'
  <2>1. q[r].pc \in Admission
    BY <1>5 DEF has_quota_fast, Admission, Quota
  <2>2. End(r, "402") \/ \E pc \in Admission : Goto(r, pc)
    BY <1>5 DEF has_quota_fast, Admission, Quota, Hydration
  <2> QED
    BY <2>1, <2>2, GotoSound, EndSound
<1>6. ASSUME hydrate_user_quota(r)
      PROVE  RequestsSound'
  <2>1. s.pc \in Quota /\ "subs" \in Quota /\ "loadUser" \in Quota
    BY <1>6 DEF hydrate_user_quota, Quota, Hydration
  <2>2. CASE hydrating
    <3>1. q' = [q EXCEPT ![r] = [s EXCEPT !.pc = "subs", !.second = TRUE]]
      BY <1>6, <2>2 DEF hydrate_user_quota
    <3>2. [s EXCEPT !.pc = "subs", !.second = TRUE]
            = [s EXCEPT !.pc = "subs", !.second = TRUE, !.seen = s.seen]
      <4> HIDE DEF s
      <4> QED BY <1>1 DEF Requested
    <3> QED
      BY <1>2, <1>3, <2>1, <3>1, <3>2
  <2>3. CASE ~hydrating
    <3>1. Goto(r, "loadUser")
      BY <1>6, <2>3 DEF hydrate_user_quota, Goto, RequestsSound, RequestsTyped
    <3> QED
      BY <1>a, <2>1, <3>1, GotoSound
  <2> QED
    BY <2>2, <2>3
<1>9. ASSUME LoadUser(r)
      PROVE  RequestsSound'
  <2> DEFINE c == [wallet |-> wallet, sub |-> 0]
  <2>1. s.pc \in Quota /\ "loadSubs" \in Quota
    BY <1>9 DEF LoadUser, Quota, Hydration
  <2>2. c \in CounterSets
    BY PathAssumption DEF MoneyTyped, CounterSets
  <2>3. q' = [q EXCEPT ![r] = [s EXCEPT !.pc = "loadSubs", !.seen = c]]
    BY <1>9 DEF LoadUser
  <2> HIDE DEF c
  <2>4. [s EXCEPT !.pc = "loadSubs", !.seen = c]
          = [s EXCEPT !.pc = "loadSubs", !.second = s.second, !.seen = c]
    <3> HIDE DEF s
    <3> QED BY <1>1 DEF Requested
  <2> QED
    BY <1>2, <1>3, <2>1, <2>2, <2>3, <2>4
<1>10. ASSUME LoadSubs(r)
       PROVE  RequestsSound'
  <2> DEFINE c == [wallet |-> s.seen.wallet, sub |-> sub]
  <2>1. s.pc \in Quota /\ "store" \in Quota
    BY <1>10 DEF LoadSubs, Quota, Hydration
  <2>2. c \in CounterSets
    BY <1>3, SeenIsTyped DEF MoneyTyped
  <2>3. q' = [q EXCEPT ![r] = [s EXCEPT !.pc = "store", !.seen = c]]
    BY <1>10 DEF LoadSubs
  <2> HIDE DEF c
  <2>4. [s EXCEPT !.pc = "store", !.seen = c]
          = [s EXCEPT !.pc = "store", !.second = s.second, !.seen = c]
    <3> HIDE DEF s
    <3> QED BY <1>1 DEF Requested
  <2> QED
    BY <1>2, <1>3, <2>1, <2>2, <2>3, <2>4
<1>7. ASSUME StoreCounters(r)
      PROVE  RequestsSound'
  <2>1. s.pc \in Quota /\ "subs" \in Quota
    BY <1>7 DEF StoreCounters, Quota, Hydration
  <2>2. q' = [q EXCEPT ![r] = [s EXCEPT !.pc = "subs", !.second = TRUE, !.seen = NoCounters]]
    BY <1>7 DEF StoreCounters
  <2> QED
    BY <1>2, <2>1, <2>2, NoCountersTyped
<1>8. ASSUME QuotaError(r)
      PROVE  RequestsSound'
  <2>1. s.pc \in Quota /\ "subs" \in Quota
    BY <1>8 DEF QuotaError, Quota
  <2>2. CASE s.pc \in Hydration
    <3>1. q' = [q EXCEPT ![r] = [s EXCEPT !.pc = "subs", !.second = TRUE, !.seen = NoCounters]]
      BY <1>8, <2>2 DEF QuotaError
    <3> QED
      BY <1>2, <2>1, <3>1, NoCountersTyped
  <2>3. CASE s.pc \notin Hydration
    <3>1. Goto(r, "rate")
      BY <1>8, <2>3 DEF QuotaError, Goto
    <3> QED
      BY <2>1, <3>1, GotoSound DEF Admission
  <2> QED
    BY <2>2, <2>3
<1> QED
  BY <1>4, <1>5, <1>6, <1>7, <1>8, <1>9, <1>10

\* The rest of _decide: the rate bucket, the route, and what cuts it short.
LEMMA DecisionSound ==
  ASSUME RequestsSound, NEW r \in Requests,
         \/ rate_limit(r) \/ SetExpiry(r) \/ Interrupted(r)
         \/ ListModels(r) \/ NoRoute(r) \/ _decide(r)
  PROVE  RequestsSound'
<1> DEFINE s == q[r]
<1>1. s \in Requested /\ Sound(s)
  BY DEF RequestsSound, RequestsTyped
<1>2. ASSUME rate_limit(r)
      PROVE  RequestsSound'
  <2>1. q[r].pc \in Admission
    BY <1>2 DEF rate_limit, Admission
  <2>2. End(r, "429") \/ \E pc \in Admission : Goto(r, pc)
    BY <1>2 DEF rate_limit, Admission
  <2> QED
    BY <2>1, <2>2, GotoSound, EndSound
<1>3. ASSUME SetExpiry(r)
      PROVE  RequestsSound'
  BY <1>3, GotoSound DEF SetExpiry, Admission
<1>4. ASSUME Interrupted(r)
      PROVE  RequestsSound'
  BY <1>4, EndSound DEF Interrupted
<1>5. ASSUME NoRoute(r)
      PROVE  RequestsSound'
  BY <1>5, EndSound DEF NoRoute
<1>6. ASSUME ListModels(r)
      PROVE  RequestsSound'
  <2> DEFINE x == [s EXCEPT !.pc = "200", !.second = FALSE, !.marked = TRUE]
  <2>1. s.pc = "route"
    BY <1>6 DEF ListModels
  <2>2. q' = [q EXCEPT ![r] = x]
    BY <1>6 DEF ListModels, RequestsSound, RequestsTyped
  <2> HIDE DEF s
  <2>3. x \in Requested
    BY <1>1 DEF Requested, Outcomes
  <2>4. x.pc = "200" /\ x.marked = TRUE /\ x.owed = s.owed /\ x.paid = s.paid
    BY <1>1 DEF Requested
  <2> HIDE DEF x
  <2>5. Sound(x)
    BY <1>1, <2>1, <2>4 DEF Sound, Admitted, Admission, Quota, Hydration
  <2> QED
    BY <2>2, <2>3, <2>5, OneRequest
<1>7. ASSUME _decide(r)
      PROVE  RequestsSound'
  <2>1. PICK p \in Policies, cursor \in 0..(Period - 1) :
          \E d \in select_route(p, state, cursor) : Decide(r, d)
    BY <1>7 DEF _decide
  <2>2. PICK d \in select_route(p, state, cursor) : Decide(r, d)
    BY <2>1
  <2>3. d.chain \in Chains
    BY RouteIsChain
  <2>4. s.pc = "route"
    BY <1>7 DEF _decide
  <2>5. CASE d.chain = <<>>
    BY <2>2, <2>4, <2>5, EndSound DEF Decide
  <2>6. CASE d.chain # <<>>
    <3> DEFINE cl == (d.classifier = "ok")
               x == [s EXCEPT !.pc = "translate", !.chain = d.chain, !.header = Head(d.chain),
                              !.classifier = cl, !.marked = TRUE]
    <3>1. q' = [q EXCEPT ![r] = x]
      BY <2>2, <2>6 DEF Decide
    <3>2. Head(d.chain) \in Models
      BY <2>3, <2>6, ChainParts
    <3> HIDE DEF s
    <3>a. cl \in BOOLEAN
      OBVIOUS
    <3> HIDE DEF cl
    <3>3. x \in Requested
      BY <1>1, <2>3, <3>2, <3>a DEF Requested, Admitted
    <3>4. /\ x.pc = "translate" /\ x.marked = TRUE /\ x.header = Head(d.chain)
          /\ x.paid = s.paid /\ x.owed = s.owed
      BY <1>1 DEF Requested
    <3>b. "route" \in Admission /\ "translate" \in Admitted
      BY DEF Admission, Admitted
    <3> HIDE DEF x
    <3>5. Sound(x)
      BY <1>1, <2>4, <3>2, <3>4, <3>b, StagesDiffer DEF Sound
    <3> QED
      BY <3>1, <3>3, <3>5, OneRequest
  <2> QED
    BY <2>5, <2>6
<1> QED
  BY <1>2, <1>3, <1>4, <1>5, <1>6, <1>7

\* The translator: the candidates, their answers and the bill.
LEMMA RelaySound ==
  ASSUME RequestsSound, NEW r \in Requests, NEW stage \in {"try", "embed"}, Relay(r, stage)
  PROVE  RequestsSound'
<1> DEFINE s == q[r]
           live == _load_candidates(s.chain, s.header, state)
<1>1. s \in Requested /\ Sound(s) /\ s.pc = "translate"
  BY DEF RequestsSound, RequestsTyped, Relay
<1>2. s.chain \in Chains /\ s.header \in Models
  BY <1>1 DEF Requested, Sound
<1>3. live \in Chains
  BY <1>2, CandidatesAreChain
<1>4. IF live = <<>> THEN End(r, "502")
      ELSE q' = [q EXCEPT ![r].pc = stage, ![r].chain = live]
  BY DEF Relay
<1> HIDE DEF live
<1>5. CASE live = <<>>
  BY <1>1, <1>4, <1>5, EndSound
<1>6. CASE live # <<>>
  <2> DEFINE x == [s EXCEPT !.pc = stage, !.chain = live]
  <2>1. q' = [q EXCEPT ![r] = x]
    BY <1>4, <1>6 DEF RequestsSound, RequestsTyped
  <2> HIDE DEF s
  <2>2. x \in Requested
    BY <1>1, <1>3 DEF Requested, Admitted
  <2>3. /\ x.pc = stage /\ x.chain = live /\ x.header = s.header /\ x.marked = s.marked
        /\ x.paid = s.paid /\ x.owed = s.owed
    BY <1>1 DEF Requested
  <2>a. stage \in Admitted /\ "translate" \in Admitted
    BY DEF Admitted
  <2> HIDE DEF x
  <2>4. Sound(x)
    BY <1>1, <1>6, <2>3, <2>a, StagesDiffer DEF Sound
  <2> QED
    BY <2>1, <2>2, <2>4, OneRequest
<1> QED
  BY <1>5, <1>6

LEMMA WorthIsNat ==
  ASSUME NEW s \in Requested, s.chain # <<>>
  PROVE  Worth(s) \in Nat
<1>1. Head(s.chain) \in Models
  BY ChainParts DEF Requested
<1> QED
  BY <1>1, PathAssumption DEF Worth

LEMMA UpstreamSound ==
  ASSUME RequestsSound, NEW r \in Requests,
         \/ \E pc \in {"bill", "streaming"} : UpstreamAnswers(r, pc)
         \/ UpstreamFails(r) \/ _bill_chat_relay(r) \/ BillingFails(r) \/ Abandon(r)
  PROVE  RequestsSound'
<1> DEFINE s == q[r]
<1>1. s \in Requested /\ Sound(s)
  BY DEF RequestsSound, RequestsTyped
<1>2. s.pc \in {"try", "embed", "bill", "streaming"}
  BY DEF UpstreamAnswers, UpstreamFails, _bill_chat_relay, BillingFails, Abandon
<1>3. s.chain \in Chains /\ s.chain # <<>>
  BY <1>1, <1>2 DEF Requested, Sound, Admitted
<1>4. Worth(s) \in Nat
  BY <1>1, <1>3, WorthIsNat
<1>a. s.pc \in Admitted /\ s.paid = 0 /\ {"bill", "streaming"} \subseteq Admitted
  BY <1>1, <1>2 DEF Sound, Admitted
<1>5. ASSUME NEW pc \in {"bill", "streaming"}, UpstreamAnswers(r, pc)
      PROVE  RequestsSound'
  <2> DEFINE w == Worth(s)
             x == [s EXCEPT !.pc = pc, !.owed = w]
  <2>1. q' = [q EXCEPT ![r] = x] /\ s.pc \in {"try", "embed"}
    BY <1>5 DEF UpstreamAnswers, RequestsSound, RequestsTyped, Worth
  <2> HIDE DEF s, w
  <2>2. x \in Requested
    BY <1>1, <1>4 DEF Requested, Admitted, w
  <2>3. /\ x.pc = pc /\ x.chain = s.chain /\ x.header = s.header /\ x.marked = s.marked
        /\ x.paid = s.paid /\ x.owed = w /\ x.classifier = s.classifier
    BY <1>1 DEF Requested
  <2> HIDE DEF x
  <2>4. Worth(x) = w
    BY <2>3 DEF Worth, w
  <2>5. Sound(x)
    BY <1>1, <1>3, <1>a, <2>3, <2>4, StagesDiffer DEF Sound
  <2> QED
    BY <2>1, <2>2, <2>5, OneRequest
<1>6. ASSUME UpstreamFails(r)
      PROVE  RequestsSound'
  <2>1. s.pc \in {"try", "embed"}
    BY <1>6 DEF UpstreamFails
  <2>2. CASE Len(s.chain) = 1
    BY <1>6, <2>1, <2>2, EndSound DEF UpstreamFails
  <2>3. CASE Len(s.chain) # 1
    <3> DEFINE t == Tail(s.chain)
               x == [s EXCEPT !.chain = t]
    <3>1. q' = [q EXCEPT ![r] = x]
      BY <1>6, <2>3 DEF UpstreamFails
    <3>2. t \in Chains /\ t # <<>>
      BY <1>3, <2>3, ChainParts
    <3> HIDE DEF s, t
    <3>3. x \in Requested
      BY <1>1, <3>2 DEF Requested
    <3>4. /\ x.pc = s.pc /\ x.chain = t /\ x.header = s.header /\ x.marked = s.marked
          /\ x.paid = s.paid /\ x.owed = s.owed
      BY <1>1 DEF Requested
    <3> HIDE DEF x
    <3>5. Sound(x)
      BY <1>1, <1>a, <2>1, <3>2, <3>4, StagesDiffer DEF Sound
    <3> QED
      BY <3>1, <3>3, <3>5, OneRequest
  <2> QED
    BY <2>2, <2>3
<1>7. ASSUME _bill_chat_relay(r)
      PROVE  RequestsSound'
  <2> DEFINE w == Worth(s)
             pc == IF s.pc = "bill" THEN "deliver" ELSE "finish"
             x == [s EXCEPT !.pc = pc, !.chain = <<>>, !.second = FALSE, !.paid = w]
  <2>1. q' = [q EXCEPT ![r] = x] /\ s.pc \in {"bill", "streaming"}
    BY <1>7 DEF _bill_chat_relay, Cost, _record_classifier_from_headers, Worth
  <2>2. s.owed = w
    BY <1>1, <2>1 DEF Sound
  <2>a. pc \in Delivery
    BY DEF Delivery
  <2> HIDE DEF s, w, pc
  <2>3. x \in Requested
    BY <1>1, <1>4, <2>a, EmptyChain DEF Requested, w
  <2>4. /\ x.pc = pc /\ x.header = s.header /\ x.marked = s.marked
        /\ x.paid = w /\ x.owed = s.owed
    BY <1>1 DEF Requested
  <2> HIDE DEF x
  <2>5. Sound(x)
    BY <1>1, <2>2, <2>4, <2>a, StagesDiffer DEF Sound, Admitted
  <2> QED
    BY <2>1, <2>3, <2>5, OneRequest
<1>8. ASSUME BillingFails(r) \/ Abandon(r)
      PROVE  RequestsSound'
  <2>1. \E code : End(r, code)
    BY <1>8 DEF BillingFails, Abandon
  <2> QED
    BY <1>a, <2>1, EndSound
<1> QED
  BY <1>5, <1>6, <1>7, <1>8

\* A paid answer arrives or is lost; what was paid is kept.
LEMMA DeliverySound ==
  ASSUME RequestsSound, NEW r \in Requests, Deliver(r) \/ Undelivered(r)
  PROVE  RequestsSound'
<1> DEFINE s == q[r]
           x == [s EXCEPT !.pc = "200"]
<1>1. s \in Requested /\ Sound(s) /\ s.pc \in Delivery
  BY DEF RequestsSound, RequestsTyped, Deliver, Undelivered
<1>2. CASE Deliver(r)
  <2>1. q' = [q EXCEPT ![r] = x]
    BY <1>2 DEF Deliver, Goto
  <2> HIDE DEF s
  <2>2. x \in Requested
    BY <1>1 DEF Requested, Outcomes
  <2>3. /\ x.pc = "200" /\ x.header = s.header /\ x.marked = s.marked
        /\ x.paid = s.paid /\ x.owed = s.owed
    BY <1>1 DEF Requested
  <2> HIDE DEF x
  <2>4. Sound(x)
    BY <1>1, <2>3, StagesDiffer DEF Sound, Admitted
  <2> QED
    BY <2>1, <2>2, <2>4, OneRequest
<1>3. CASE Undelivered(r)
  <2>1. End(r, "500") \/ End(r, "cut")
    BY <1>3 DEF Undelivered
  <2> QED
    BY <2>1, EndSound
<1> QED
  BY <1>2, <1>3

\* The access log charges nothing: a request that carries a model is marked.
LEMMA EntryIsFree ==
  ASSUME RequestsSound, NEW r \in Requests
  PROVE  (IF q[r].marked THEN 0 ELSE EntryCost(r)) = 0
BY DEF RequestsSound, RequestsTyped, Requested, Sound, EntryCost

\* A request whose entry is dealt with is over, and its account stands.
LEMMA SettledSound ==
  ASSUME RequestsSound, LogTyped, LoggedIsOver, NEW r \in logged
  PROVE  Settled(q[r], q[r].paid) \in Requested /\ Sound(Settled(q[r], q[r].paid))
<1> DEFINE s == q[r]
           x == Settled(s, s.paid)
<1>1. s \in Requested /\ Sound(s) /\ s.pc \in Outcomes
  BY DEF RequestsSound, RequestsTyped, LogTyped, LoggedIsOver
<1>2. NoRequest \in Requested /\ NoRequest.header = NoModel
  BY NoCountersTyped, EmptyChain DEF NoRequest, Requested, Outcomes
<1> HIDE DEF s
<1>3. x \in Requested
  BY <1>1, <1>2 DEF Settled, Requested
<1>4. x.pc = s.pc /\ x.header = NoModel /\ x.paid = s.paid /\ x.owed = s.owed
  BY <1>2 DEF Settled, Requested
<1> HIDE DEF x
<1>5. Sound(x)
  BY <1>1, <1>4, StagesDiffer DEF Sound, Admitted
<1> QED
  BY <1>3, <1>5 DEF s, x

LEMMA LogSound ==
  ASSUME RequestsSound, LogTyped, LoggedIsOver, NEW r \in Requests,
         _ingest_entry(r, TRUE) \/ _ingest_entry(r, FALSE) \/ EntryLost(r)
  PROVE  RequestsSound'
<1> DEFINE s == q[r]
<1>1. s \in Requested /\ Sound(s) /\ s.paid \in Nat
  BY DEF RequestsSound, RequestsTyped, Requested
<1>2. CASE _ingest_entry(r, TRUE)
  <2> DEFINE cost == IF q[r].marked THEN 0 ELSE EntryCost(r)
  <2>1. q' = [q EXCEPT ![r] = [s EXCEPT !.paid = s.paid + cost]]
    BY <1>2 DEF _ingest_entry
  <2>2. cost = 0
    BY EntryIsFree
  <2>3. [s EXCEPT !.paid = s.paid + cost] = s
    <3> HIDE DEF s, cost
    <3> QED BY <1>1, <2>2 DEF Requested
  <2> QED
    BY <1>1, <2>1, <2>3, OneRequest
<1>3. CASE _ingest_entry(r, FALSE)
  <2>1. q' = [q EXCEPT ![r] = Settled(s, s.paid + 0)] /\ r \in logged
    BY <1>3, EntryIsFree DEF _ingest_entry
  <2>2. s.paid + 0 = s.paid
    BY <1>1
  <2> QED
    BY <2>1, <2>2, SettledSound, OneRequest
<1>4. CASE EntryLost(r)
  BY <1>4, SettledSound, OneRequest DEF EntryLost
<1> QED
  BY <1>2, <1>3, <1>4

\* A restart ends what is in flight; what has been paid stays paid.
LEMMA RestartSound ==
  ASSUME RequestsSound, NEW first, resync_on_startup(first)
  PROVE  RequestsSound'
<1> DEFINE left(s) == IF s.pc \in {"streaming", "finish"} THEN "cut" ELSE "error"
           ended(s) == [s EXCEPT !.pc = left(s), !.chain = <<>>, !.second = FALSE,
                                 !.seen = NoCounters]
<1>1. q' = [r \in Requests |-> IF ~InFlight(r) THEN q[r] ELSE ended(q[r])]
  BY DEF resync_on_startup
<1>2. ASSUME NEW s \in Requested, Sound(s)
      PROVE  ended(s) \in Requested /\ Sound(ended(s))
  <2> DEFINE pc == left(s)
             x == [s EXCEPT !.pc = pc, !.chain = <<>>, !.second = FALSE, !.seen = NoCounters]
  <2>1. ended(s) = x
    OBVIOUS
  <2>2. pc \in {"cut", "error"}
    OBVIOUS
  <2> HIDE DEF pc
  <2>3. x \in Requested
    BY <2>2, NoCountersTyped, EmptyChain DEF Requested, Outcomes
  <2>4. /\ x.pc = pc /\ x.header = s.header /\ x.marked = s.marked
        /\ x.paid = s.paid /\ x.owed = s.owed
    BY DEF Requested
  <2> HIDE DEF x, ended
  <2>5. Sound(x)
    BY <1>2, <2>2, <2>4 DEF Sound, Admission, Admitted, Quota, Hydration, Delivery
  <2> QED
    BY <2>1, <2>3, <2>5
<1>3. \A r \in Requests : q'[r] \in Requested /\ Sound(q'[r])
  <2> SUFFICES ASSUME NEW r \in Requests
               PROVE  q'[r] \in Requested /\ Sound(q'[r])
    OBVIOUS
  <2>1. q[r] \in Requested /\ Sound(q[r])
    BY DEF RequestsSound, RequestsTyped
  <2>2. q'[r] = IF ~InFlight(r) THEN q[r] ELSE ended(q[r])
    BY <1>1
  <2> HIDE DEF ended
  <2> QED
    BY <1>2, <2>1, <2>2 DEF InFlight
<1>4. q' \in [Requests -> Requested]
  <2> HIDE DEF ended
  <2>1. DOMAIN q' = Requests /\ q' = [r \in Requests |-> q'[r]]
    BY <1>1
  <2> QED
    BY <1>3, <2>1
<1> QED
  BY <1>3, <1>4 DEF RequestsSound, RequestsTyped, Sound, Worth

LEMMA ArriveSound ==
  ASSUME RequestsSound, NEW r \in Requests, Arrive(r)
  PROVE  RequestsSound'
<1> DEFINE x == [NoRequest EXCEPT !.pc = "subs"]
<1>1. q' = [q EXCEPT ![r] = x]
  BY DEF Arrive
<1>2. x \in Requested /\ Sound(x)
  BY NoCountersTyped, EmptyChain
     DEF NoRequest, Requested, Sound, Admission, Admitted, Quota, Hydration, Delivery
<1> QED
  BY <1>1, <1>2, OneRequest

LEMMA RequestsStaySound ==
  ASSUME RequestsSound, MoneyTyped, LogTyped, LoggedIsOver, [Next]_vars
  PROVE  RequestsSound'
<1>1. ASSUME NEW r \in Requests, Serve(r)
      PROVE  RequestsSound'
  <2>1. CASE \/ CheckSubs(r) \/ has_quota_fast(r) \/ hydrate_user_quota(r)
             \/ LoadUser(r) \/ LoadSubs(r) \/ StoreCounters(r)
    BY <2>1, QuotaSound
  <2>2. CASE rate_limit(r) \/ SetExpiry(r) \/ ListModels(r) \/ NoRoute(r) \/ _decide(r)
    BY <2>2, DecisionSound
  <2>3. CASE chat_completions(r) \/ responses(r) \/ messages(r) \/ embeddings(r)
    <3>1. BadMessages(r) \/ \E stage \in {"try", "embed"} : Relay(r, stage)
      BY <2>3 DEF chat_completions, responses, messages, embeddings
    <3>2. CASE BadMessages(r)
      BY <3>2, EndSound DEF BadMessages
    <3> QED
      BY <3>1, <3>2, RelaySound
  <2>4. CASE (\E pc \in {"bill", "streaming"} : UpstreamAnswers(r, pc))
             \/ UpstreamFails(r) \/ _bill_chat_relay(r)
    BY <2>4, UpstreamSound
  <2>5. CASE Deliver(r)
    BY <2>5, DeliverySound
  <2> QED
    BY <1>1, <2>1, <2>2, <2>3, <2>4, <2>5 DEF Serve
<1>2. ASSUME NEW r \in Requests, Faulty(r)
      PROVE  RequestsSound'
  BY <1>2, QuotaSound, DecisionSound, UpstreamSound, DeliverySound, LogSound DEF Faulty
<1>3. ASSUME UNCHANGED q
      PROVE  RequestsSound'
  BY <1>3 DEF RequestsSound, RequestsTyped, Sound, Worth
<1>4. ASSUME \/ topup_wallet \/ Lapse
             \/ \E price \in {0, PlanPrice} : grant_subscription(price)
             \/ \E left \in 1..MaxSub : cancel_subscription(left)
             \/ \E a \in {-1, 1} : adjust_balance(a)
             \/ \E e \in Edits : update_model(e[1], e[2])
             \/ invalidate_user_quota \/ InvalidationFails
             \/ CountersExpire \/ LockExpires \/ BucketExpires
             \/ PeerCharges(1) \/ UNCHANGED vars
      PROVE  UNCHANGED q
  BY <1>4 DEF topup_wallet, grant_subscription, cancel_subscription, Lapse, adjust_balance,
       update_model, invalidate_user_quota, InvalidationFails, CountersExpire, LockExpires,
       BucketExpires, PeerCharges, vars
<1> QED
  BY <1>1, <1>2, <1>3, <1>4, ArriveSound, LogSound, RestartSound DEF Next

-----------------------------------------------------------------------------
(***************************************************************************)
(* Money, counters and the rest of the state.                              *)
(***************************************************************************)

\* charge_user keeps the books within their bounds, and charges nothing for
\* nothing.
LEMMA ChargeTyped ==
  ASSUME MoneyTyped, NEW cost \in Nat, charge_user(cost)
  PROVE  MoneyTyped' /\ (cost = 0 => UNCHANGED money)
<1> DEFINE take == Min({sub, cost})
<1>1. wallet \in Int /\ sub \in Nat /\ sub <= MaxSub /\ wallet >= -Floor /\ wallet <= MaxWallet
  BY PathAssumption DEF MoneyTyped, Amounts
<1>2. take = IF sub <= cost THEN sub ELSE cost
  BY <1>1, MinOfTwo
<1>3. sub' = sub - take /\ wallet' = Clamp(wallet - (cost - take))
  BY DEF charge_user
<1> HIDE DEF take
<1>4. wallet - (cost - take) \in Int
  BY <1>1, <1>2
<1>5. wallet' = IF wallet - (cost - take) >= -Floor THEN wallet - (cost - take) ELSE -Floor
  BY <1>3, <1>4, MaxOfTwo, PathAssumption DEF Clamp
<1>6. MoneyTyped'
  BY <1>1, <1>2, <1>3, <1>5, PathAssumption DEF MoneyTyped, Amounts
<1>7. cost = 0 => UNCHANGED money
  BY <1>1, <1>2, <1>3, <1>5, PathAssumption DEF money
<1> QED
  BY <1>6, <1>7

\* An entry of the access log moves neither money nor counters.
LEMMA EntryMovesNothing ==
  ASSUME RequestsSound, MoneyTyped, CountersTyped, NEW r \in Requests,
         NEW again \in BOOLEAN, _ingest_entry(r, again)
  PROVE  UNCHANGED <<money, rows, counters, bucket>>
<1> DEFINE cost == IF q[r].marked THEN 0 ELSE EntryCost(r)
           take == Min({sub, cost})
<1>1. cost = 0
  BY EntryIsFree
<1>2. charge_user(cost) /\ UNCHANGED <<rows, hydrating, tasks, excused, bucket>>
  BY DEF _ingest_entry
<1>3. cached' = IF cached = NoCounters THEN cached
                ELSE [wallet |-> Clamp(cached.wallet - (cost - take)), sub |-> cached.sub - take]
  BY DEF _ingest_entry
<1> HIDE DEF cost
<1>4. UNCHANGED money
  BY <1>1, <1>2, ChargeTyped
<1>5. take = 0
  BY <1>1, MinOfTwo, PathAssumption DEF MoneyTyped
<1> HIDE DEF take
<1>6. ASSUME cached # NoCounters
      PROVE  UNCHANGED cached
  <2>1. cached \in [wallet : Amounts, sub : 0..MaxSub]
    BY <1>6 DEF CountersTyped, CounterSets
  <2>2. cached.wallet \in Int /\ cached.wallet >= -Floor /\ cached.sub \in Int
    BY <2>1, PathAssumption DEF Amounts
  <2>3. cached.wallet - (cost - take) = cached.wallet /\ cached.sub - take = cached.sub
    BY <1>1, <1>5, <2>2
  <2>4. Clamp(cached.wallet) = cached.wallet
    BY <2>2, MaxOfTwo, PathAssumption DEF Clamp
  <2>5. cached' = [wallet |-> cached.wallet, sub |-> cached.sub]
    BY <1>3, <1>6, <2>3, <2>4
  <2> QED
    BY <2>1, <2>5
<1> QED
  BY <1>2, <1>3, <1>4, <1>6 DEF counters

\* What a request does while it is served, short of being billed.
Unbilled(r) ==
  \/ CheckSubs(r) \/ has_quota_fast(r) \/ LoadUser(r) \/ LoadSubs(r) \/ QuotaError(r)
  \/ Interrupted(r) \/ ListModels(r) \/ NoRoute(r) \/ _decide(r)
  \/ chat_completions(r) \/ responses(r) \/ messages(r) \/ embeddings(r)
  \/ (\E pc \in {"bill", "streaming"} : UpstreamAnswers(r, pc))
  \/ UpstreamFails(r) \/ BillingFails(r) \/ Abandon(r) \/ Deliver(r) \/ Undelivered(r)
  \/ EntryLost(r) \/ Arrive(r)

LEMMA UnbilledMovesNothing ==
  ASSUME NEW r \in Requests, Unbilled(r)
  PROVE  UNCHANGED <<money, rows, counters, bucket>>
BY DEF Unbilled, CheckSubs, has_quota_fast, LoadUser, LoadSubs, QuotaError, Interrupted,
     ListModels, NoRoute, _decide, chat_completions, responses, messages, embeddings, Relay, BadMessages,
     UpstreamAnswers, UpstreamFails, BillingFails, Abandon, Deliver, Undelivered,
     EntryLost, Arrive

LEMMA BillIsTyped ==
  ASSUME RequestsSound, NEW r \in Requests, q[r].pc \in {"bill", "streaming"}
  PROVE  Cost(r) \in Nat
<1>1. q[r] \in Requested /\ q[r].chain # <<>>
  BY DEF RequestsSound, RequestsTyped, Sound, Admitted
<1>2. Cost(r) = Worth(q[r])
  BY DEF Cost, _record_classifier_from_headers, Worth
<1> QED
  BY <1>1, <1>2, WorthIsNat

Shape == MoneyTyped /\ CountersTyped /\ RowsTyped /\ BucketTyped

\* Every step of every actor, by what it does to the money and the counters.
LEMMA Steps ==
  ASSUME RequestsSound, Shape, [Next]_vars
  PROVE  \/ UNCHANGED <<money, rows, counters, bucket>>
         \/ UNCHANGED <<money, rows, counters>> /\ BucketTyped'
         \/ UNCHANGED <<money, counters, bucket>> /\ RowsTyped'
         \/ \E r \in Requests : hydrate_user_quota(r) \/ StoreCounters(r) \/ _bill_chat_relay(r)
         \/ topup_wallet \/ Lapse
         \/ \E price \in {0, PlanPrice} : grant_subscription(price)
         \/ \E left \in 1..MaxSub : cancel_subscription(left)
         \/ \E a \in {-1, 1} : adjust_balance(a)
         \/ invalidate_user_quota \/ InvalidationFails
         \/ CountersExpire \/ LockExpires \/ PeerCharges(1)
         \/ \E first \in BOOLEAN : resync_on_startup(first)
<1>1. ASSUME NEW r \in Requests, rate_limit(r) \/ SetExpiry(r)
      PROVE  UNCHANGED <<money, rows, counters>> /\ BucketTyped'
  <2>1. bucket.n \in Nat /\ bucket.ttl \in BOOLEAN /\ RPM \in Nat
    BY PathAssumption DEF Shape, BucketTyped
  <2>2. Min({bucket.n + 1, RPM + 1}) \in 0..(RPM + 1)
    BY <2>1, MinOfTwo
  <2>3. CASE rate_limit(r)
    <3>1. bucket' = [bucket EXCEPT !.n = Min({bucket.n + 1, RPM + 1})]
      BY <2>3 DEF rate_limit
    <3>2. UNCHANGED <<money, rows, counters>>
      BY <2>3 DEF rate_limit
    <3> QED
      BY <2>2, <3>1, <3>2 DEF Shape, BucketTyped
  <2>4. CASE SetExpiry(r)
    BY <2>4 DEF SetExpiry, Shape, BucketTyped
  <2> QED
    BY <1>1, <2>3, <2>4
<1>2. ASSUME BucketExpires
      PROVE  UNCHANGED <<money, rows, counters>> /\ BucketTyped'
  BY <1>2, PathAssumption DEF BucketExpires, BucketTyped
<1>3. ASSUME NEW e \in Edits, update_model(e[1], e[2])
      PROVE  UNCHANGED <<money, counters, bucket>> /\ RowsTyped'
  <2>1. e[1] \in Models /\ e[2] \in {"on", "off", "severed"}
    BY PathAssumption
  <2> QED
    BY <1>3, <2>1, PathAssumption DEF update_model, Shape, RowsTyped
<1>4. ASSUME NEW r \in Requests, Serve(r)
      PROVE  \/ Unbilled(r) \/ rate_limit(r) \/ SetExpiry(r)
             \/ hydrate_user_quota(r) \/ StoreCounters(r) \/ _bill_chat_relay(r)
  BY <1>4 DEF Serve, Unbilled
<1>5. ASSUME NEW r \in Requests, Faulty(r)
      PROVE  Unbilled(r) \/ _ingest_entry(r, TRUE)
  BY <1>5 DEF Faulty, Unbilled
<1>6. ASSUME NEW r \in Requests, Arrive(r)
      PROVE  Unbilled(r)
  BY <1>6 DEF Unbilled
<1>7. ASSUME NEW r \in Requests, _ingest_entry(r, TRUE) \/ _ingest_entry(r, FALSE)
      PROVE  UNCHANGED <<money, rows, counters, bucket>>
  BY <1>7, EntryMovesNothing DEF Shape
<1>8. ASSUME UNCHANGED vars
      PROVE  UNCHANGED <<money, rows, counters, bucket>>
  BY <1>8 DEF vars
<1>9. CASE \E r \in Requests : Arrive(r) \/ Serve(r) \/ Faulty(r) \/ _ingest_entry(r, FALSE)
  <2>1. PICK r \in Requests : Arrive(r) \/ Serve(r) \/ Faulty(r) \/ _ingest_entry(r, FALSE)
    BY <1>9
  <2>2. \/ UNCHANGED <<money, rows, counters, bucket>>
        \/ UNCHANGED <<money, rows, counters>> /\ BucketTyped'
        \/ hydrate_user_quota(r) \/ StoreCounters(r) \/ _bill_chat_relay(r)
    BY <1>1, <1>4, <1>5, <1>6, <1>7, <2>1, UnbilledMovesNothing
  <2> QED
    BY <2>2
<1> QED
  BY <1>2, <1>3, <1>8, <1>9 DEF Next

\* The steps that move money, and those that move only the counters.
LEMMA ShapeKept ==
  ASSUME RequestsSound, Shape, [Next]_vars
  PROVE  Shape'
<1> USE DEF money, rows, counters
<1>0. MoneyTyped /\ CountersTyped /\ RowsTyped /\ BucketTyped
  BY DEF Shape
<1>a. tasks \in Int /\ MaxTasks \in Int /\ wallet \in Int /\ sub \in Int /\ MaxSub \in Int
  BY <1>0, PathAssumption DEF CountersTyped, MoneyTyped, Amounts
<1>b. UNCHANGED money => MoneyTyped'
  BY <1>0 DEF MoneyTyped
<1>c. UNCHANGED rows => RowsTyped'
  BY <1>0 DEF RowsTyped
<1>d. UNCHANGED bucket => BucketTyped'
  BY <1>0 DEF BucketTyped
<1>e. UNCHANGED counters => CountersTyped'
  BY <1>0 DEF CountersTyped
<1>1. ASSUME _fire_quota_invalidate, UNCHANGED <<cached, hydrating, excused>>
      PROVE  CountersTyped'
  BY <1>0, <1>1, <1>a DEF _fire_quota_invalidate, CountersTyped
<1>2. ASSUME NEW r \in Requests, hydrate_user_quota(r)
      PROVE  Shape'
  <2>1. CountersTyped'
    BY <1>0, <1>2 DEF hydrate_user_quota, CountersTyped
  <2> QED
    BY <1>2, <1>b, <1>c, <1>d, <2>1 DEF hydrate_user_quota, Shape
<1>3. ASSUME NEW r \in Requests, StoreCounters(r)
      PROVE  Shape'
  <2>1. q[r].seen \in CounterSets
    BY DEF RequestsSound, RequestsTyped, Requested
  <2>2. cached' \in CounterSets /\ excused' \in BOOLEAN /\ UNCHANGED <<hydrating, tasks>>
    BY <1>3, <2>1 DEF StoreCounters, Store
  <2>3. CountersTyped'
    BY <1>0, <2>2 DEF CountersTyped
  <2> QED
    BY <1>3, <1>b, <1>c, <1>d, <2>3 DEF StoreCounters, Shape
<1>4. ASSUME NEW r \in Requests, _bill_chat_relay(r)
      PROVE  Shape'
  <2>1. Cost(r) \in Nat
    BY <1>4, BillIsTyped DEF _bill_chat_relay
  <2>2. MoneyTyped'
    BY <1>0, <1>4, <2>1, ChargeTyped DEF _bill_chat_relay
  <2>3. CountersTyped'
    BY <1>1, <1>4 DEF _bill_chat_relay
  <2> QED
    BY <1>4, <1>c, <1>d, <2>2, <2>3 DEF _bill_chat_relay, Shape
<1>5. ASSUME PeerCharges(1)
      PROVE  Shape'
  <2>1. MoneyTyped'
    BY <1>0, <1>5, ChargeTyped DEF PeerCharges
  <2>2. CountersTyped'
    BY <1>1, <1>5 DEF PeerCharges
  <2> QED
    BY <1>5, <1>c, <1>d, <2>1, <2>2 DEF PeerCharges, Shape
<1>6. ASSUME topup_wallet \/ \E price \in {0, PlanPrice} : grant_subscription(price)
      PROVE  Shape'
  <2>1. MoneyTyped'
    BY <1>0, <1>6, <1>a, PathAssumption DEF topup_wallet, grant_subscription, MoneyTyped, Amounts
  <2>2. CountersTyped'
    BY <1>1, <1>6 DEF topup_wallet, grant_subscription
  <2> QED
    BY <1>6, <1>c, <1>d, <2>1, <2>2 DEF topup_wallet, grant_subscription, Shape
<1>12. ASSUME NEW left \in 1..MaxSub, cancel_subscription(left)
       PROVE  Shape'
  <2> DEFINE refund == (PlanPrice * left) \div MaxSub
  <2>1. PlanPrice * left \in Nat /\ MaxSub \in Nat \ {0}
    BY PathAssumption
  <2>2. refund \in Nat
    BY <2>1
  <2>3. wallet' = wallet + refund /\ wallet' <= MaxWallet /\ sub' = 0
    BY <1>12 DEF cancel_subscription
  <2> HIDE DEF refund
  <2>4. MoneyTyped'
    BY <1>0, <2>2, <2>3, PathAssumption DEF MoneyTyped, Amounts
  <2>5. excused' \in BOOLEAN /\ UNCHANGED <<cached, hydrating, tasks>>
    BY <1>0, <1>12 DEF cancel_subscription, CountersTyped
  <2>6. CountersTyped'
    BY <1>0, <2>5 DEF CountersTyped
  <2> QED
    BY <1>12, <1>c, <1>d, <2>4, <2>6 DEF cancel_subscription, Shape
<1>7. ASSUME Lapse
      PROVE  Shape'
  <2>1. MoneyTyped'
    BY <1>0, <1>7, PathAssumption DEF Lapse, MoneyTyped
  <2>2. excused' \in BOOLEAN /\ UNCHANGED <<cached, hydrating, tasks>>
    BY <1>0, <1>7 DEF Lapse, CountersTyped
  <2>3. CountersTyped'
    BY <1>0, <2>2 DEF CountersTyped
  <2> QED
    BY <1>7, <1>c, <1>d, <2>1, <2>3 DEF Lapse, Shape
<1>8. ASSUME NEW a \in {-1, 1}, adjust_balance(a)
      PROVE  Shape'
  <2>1. wallet + a \in Int
    BY <1>a
  <2>2. wallet' = (IF wallet + a >= 0 THEN wallet + a ELSE 0) /\ wallet' <= MaxWallet
        /\ sub' = sub
    BY <1>8, <2>1, MaxOfTwo DEF adjust_balance
  <2>3. MoneyTyped'
    BY <1>0, <2>1, <2>2, PathAssumption DEF MoneyTyped, Amounts
  <2>4. excused' \in BOOLEAN /\ UNCHANGED <<cached, hydrating, tasks>>
    BY <1>0, <1>8 DEF adjust_balance, CountersTyped
  <2>5. CountersTyped'
    BY <1>0, <2>4 DEF CountersTyped
  <2>6. RowsTyped'
    BY <1>0, <1>8, PathAssumption DEF adjust_balance, RowsTyped
  <2> QED
    BY <1>8, <1>d, <2>3, <2>5, <2>6 DEF adjust_balance, Shape
<1>9. ASSUME invalidate_user_quota \/ CountersExpire \/ LockExpires \/ InvalidationFails
      PROVE  Shape'
  <2>1. cached' \in CounterSets /\ hydrating' \in BOOLEAN /\ excused' \in BOOLEAN
    BY <1>0, <1>9, NoCountersTyped
       DEF invalidate_user_quota, CountersExpire, LockExpires, InvalidationFails, Drop,
         CountersTyped
  <2>2. tasks' \in 0..MaxTasks
    BY <1>0, <1>9, <1>a
       DEF invalidate_user_quota, CountersExpire, LockExpires, InvalidationFails, CountersTyped
  <2>3. CountersTyped'
    BY <2>1, <2>2 DEF CountersTyped
  <2> QED
    BY <1>9, <1>b, <1>c, <1>d, <2>3
       DEF invalidate_user_quota, CountersExpire, LockExpires, InvalidationFails, Shape
<1>10. ASSUME NEW first \in BOOLEAN, resync_on_startup(first)
       PROVE  Shape'
  <2>1. cached' \in CounterSets /\ hydrating' \in BOOLEAN /\ excused' \in BOOLEAN
    BY <1>0, <1>10, NoCountersTyped DEF resync_on_startup, Drop, CountersTyped
  <2>2. tasks' \in 0..MaxTasks
    <3>1. tasks' = 0
      BY <1>10 DEF resync_on_startup
    <3> QED
      BY <3>1, PathAssumption
  <2>3. CountersTyped'
    BY <2>1, <2>2 DEF CountersTyped
  <2> QED
    BY <1>10, <1>b, <1>c, <1>d, <2>3 DEF resync_on_startup, Shape
<1>11. ASSUME \/ UNCHANGED <<money, rows, counters, bucket>>
              \/ UNCHANGED <<money, rows, counters>> /\ BucketTyped'
              \/ UNCHANGED <<money, counters, bucket>> /\ RowsTyped'
       PROVE  Shape'
  BY <1>11, <1>b, <1>c, <1>d, <1>e DEF Shape
<1> QED
  BY <1>2, <1>3, <1>4, <1>5, <1>6, <1>7, <1>8, <1>9, <1>10, <1>11, <1>12, Steps

LEMMA LogKept ==
  ASSUME LogTyped, FaultsTyped, [Next]_vars
  PROVE  LogTyped' /\ FaultsTyped'
<1>1. Fault => FaultsTyped'
  BY PathAssumption DEF Fault, FaultsTyped
<1>2. UNCHANGED faults => FaultsTyped'
  BY DEF FaultsTyped
<1>3. ASSUME NEW r \in Requests, NEW code, End(r, code)
      PROVE  LogTyped'
  BY <1>3 DEF End, LogTyped
<1>4. UNCHANGED logged => LogTyped'
  BY DEF LogTyped
<1> HIDE DEF Fault, FaultsTyped, LogTyped
<1>5. ASSUME NEW r \in Requests, Serve(r)
      PROVE  UNCHANGED faults /\ LogTyped'
  <2>1. CASE \/ CheckSubs(r) \/ has_quota_fast(r) \/ hydrate_user_quota(r)
             \/ LoadUser(r) \/ LoadSubs(r) \/ StoreCounters(r)
    BY <1>3, <1>4, <2>1 DEF CheckSubs, has_quota_fast, hydrate_user_quota, LoadUser,
         LoadSubs, StoreCounters
  <2>2. CASE rate_limit(r) \/ SetExpiry(r) \/ NoRoute(r)
    BY <1>3, <1>4, <2>2 DEF rate_limit, SetExpiry, NoRoute
  <2>3. CASE _decide(r)
    BY <1>3, <1>4, <2>3 DEF _decide, Decide
  <2>4. CASE ListModels(r) \/ _bill_chat_relay(r) \/ Deliver(r)
    BY <2>4 DEF ListModels, _bill_chat_relay, Deliver, LogTyped
  <2>5. CASE chat_completions(r) \/ responses(r) \/ messages(r) \/ embeddings(r)
    BY <1>3, <1>4, <2>5
       DEF chat_completions, responses, messages, embeddings, Relay, BadMessages
  <2>6. CASE (\E pc \in {"bill", "streaming"} : UpstreamAnswers(r, pc)) \/ UpstreamFails(r)
    BY <1>3, <1>4, <2>6 DEF UpstreamAnswers, UpstreamFails
  <2> QED
    BY <1>5, <2>1, <2>2, <2>3, <2>4, <2>5, <2>6 DEF Serve
<1>6. ASSUME NEW r \in Requests, Faulty(r)
      PROVE  FaultsTyped' /\ LogTyped'
  <2>1. CASE \/ QuotaError(r) \/ Interrupted(r)
             \/ BillingFails(r) \/ Abandon(r) \/ Undelivered(r)
    BY <1>1, <1>3, <1>4, <2>1 DEF QuotaError, Interrupted, BillingFails, Abandon, Undelivered
  <2>2. CASE _ingest_entry(r, TRUE)
    BY <1>1, <1>4, <2>2 DEF _ingest_entry
  <2>3. CASE EntryLost(r)
    BY <1>1, <2>3 DEF EntryLost, LogTyped
  <2> QED
    BY <1>6, <2>1, <2>2, <2>3 DEF Faulty
<1>7. ASSUME NEW r \in Requests, Arrive(r)
      PROVE  FaultsTyped' /\ LogTyped'
  BY <1>2, <1>4, <1>7 DEF Arrive
<1>8. ASSUME NEW r \in Requests, _ingest_entry(r, FALSE)
      PROVE  FaultsTyped' /\ LogTyped'
  BY <1>2, <1>8 DEF _ingest_entry, LogTyped
<1>9. ASSUME NEW first \in BOOLEAN, resync_on_startup(first)
      PROVE  FaultsTyped' /\ LogTyped'
  <2>1. FaultsTyped'
    BY <1>1, <1>9 DEF resync_on_startup
  <2>2. logged' = logged \union {r \in Requests : InFlight(r)}
    BY <1>9 DEF resync_on_startup
  <2> QED
    BY <2>1, <2>2 DEF LogTyped
<1>10. ASSUME \/ topup_wallet \/ Lapse
              \/ \E price \in {0, PlanPrice} : grant_subscription(price)
              \/ \E left \in 1..MaxSub : cancel_subscription(left)
              \/ \E a \in {-1, 1} : adjust_balance(a)
              \/ \E e \in Edits : update_model(e[1], e[2])
              \/ invalidate_user_quota
              \/ CountersExpire \/ LockExpires \/ BucketExpires
              \/ PeerCharges(1) \/ UNCHANGED vars
       PROVE  FaultsTyped' /\ LogTyped'
  <2>1. UNCHANGED <<faults, logged>>
    BY <1>10 DEF topup_wallet, grant_subscription, cancel_subscription, Lapse,
         adjust_balance, update_model, invalidate_user_quota, CountersExpire, LockExpires, BucketExpires, PeerCharges, vars
  <2> QED
    BY <1>2, <1>4, <2>1
<1>11. ASSUME InvalidationFails
       PROVE  FaultsTyped' /\ LogTyped'
  BY <1>1, <1>4, <1>11 DEF InvalidationFails
<1> QED
  BY <1>2, <1>5, <1>6, <1>7, <1>8, <1>9, <1>10, <1>11 DEF Next

\* Only a request that is over is logged, and it stays over until a new one takes
\* its place, once the entry is gone.
LEMMA LoggedStaysOver ==
  ASSUME RequestsTyped, LogTyped, LoggedIsOver, [Next]_vars
  PROVE  LoggedIsOver'
<1> DEFINE Others(r) == \A s \in Requests \ {r} : q'[s] = q[s]
           Moves(r)  == Others(r) /\ q[r].pc \notin Outcomes /\ UNCHANGED logged
           Ends(r)   == Others(r) /\ q'[r].pc \in Outcomes /\ logged' = logged \union {r}
           Gone(r)   == Others(r) /\ logged' = logged \ {r}
<1>1. ASSUME NEW r \in Requests, Moves(r) \/ Ends(r) \/ Gone(r)
      PROVE  LoggedIsOver'
  BY <1>1 DEF LoggedIsOver, LogTyped
<1>2. ASSUME NEW r \in Requests, NEW code, End(r, code)
      PROVE  Ends(r)
  <2> DEFINE x == [q[r] EXCEPT !.chain = <<>>, !.second = FALSE, !.seen = NoCounters,
                     !.pc = IF code \in {"cut", "unbilled"} THEN code ELSE "error"]
  <2>1. q' = [q EXCEPT ![r] = x] /\ logged' = logged \union {r}
    BY <1>2 DEF End
  <2>2. x.pc \in {"cut", "unbilled", "error"}
    BY DEF RequestsTyped, Requested
  <2> HIDE DEF x
  <2> QED
    BY <2>1, <2>2 DEF RequestsTyped, Outcomes
<1>3. ASSUME NEW r \in Requests, NEW x, q' = [q EXCEPT ![r] = x]
      PROVE  Others(r) /\ q'[r] = x
  BY <1>3 DEF RequestsTyped
<1>4. ASSUME NEW r \in Requests, NEW pc, Goto(r, pc)
      PROVE  Others(r) /\ q'[r].pc = pc
  BY <1>4 DEF Goto, RequestsTyped, Requested
<1> USE StagesDiffer
<1> HIDE DEF Others
<1>5. ASSUME NEW r \in Requests,
             CheckSubs(r) \/ has_quota_fast(r) \/ rate_limit(r) \/ SetExpiry(r)
      PROVE  Moves(r) \/ Ends(r)
  <2>1. q[r].pc \notin Outcomes
    BY <1>5 DEF CheckSubs, has_quota_fast, rate_limit, SetExpiry, Outcomes
  <2>2. (\E code : End(r, code)) \/ ((\E pc : Goto(r, pc)) /\ UNCHANGED logged)
    BY <1>5 DEF CheckSubs, has_quota_fast, rate_limit, SetExpiry
  <2> QED
    BY <1>2, <1>4, <2>1, <2>2
<1>6. ASSUME NEW r \in Requests,
             \/ hydrate_user_quota(r) \/ LoadUser(r) \/ LoadSubs(r) \/ StoreCounters(r)
             \/ QuotaError(r)
             \/ \E pc \in {"bill", "streaming"} : UpstreamAnswers(r, pc)
             \/ _bill_chat_relay(r)
      PROVE  Moves(r)
  <2>1. q[r].pc \notin Outcomes
    BY <1>6 DEF hydrate_user_quota, LoadUser, LoadSubs, StoreCounters, QuotaError,
         UpstreamAnswers, _bill_chat_relay, Outcomes, Quota, Hydration
  <2>2. UNCHANGED logged
    BY <1>6 DEF hydrate_user_quota, LoadUser, LoadSubs, StoreCounters, QuotaError,
         UpstreamAnswers, _bill_chat_relay
  <2>3. Others(r)
    BY <1>6 DEF Others, RequestsTyped, hydrate_user_quota, LoadUser, LoadSubs,
         StoreCounters, QuotaError, UpstreamAnswers, _bill_chat_relay
  <2> QED
    BY <2>1, <2>2, <2>3
<1>7. ASSUME NEW r \in Requests, \/ Interrupted(r) \/ NoRoute(r) \/ BadMessages(r)
                                 \/ BillingFails(r) \/ Abandon(r) \/ Undelivered(r)
      PROVE  Ends(r)
  BY <1>2, <1>7
     DEF Interrupted, NoRoute, BadMessages, BillingFails, Abandon, Undelivered
<1>8. ASSUME NEW r \in Requests, ListModels(r) \/ Deliver(r)
      PROVE  Ends(r)
  <2>1. logged' = logged \union {r}
    BY <1>8 DEF ListModels, Deliver
  <2>2. CASE ListModels(r)
    <3>1. q' = [q EXCEPT ![r] = [q[r] EXCEPT !.pc = "200", !.second = FALSE, !.marked = TRUE]]
      BY <2>2 DEF ListModels, RequestsTyped
    <3>2. [q[r] EXCEPT !.pc = "200", !.second = FALSE, !.marked = TRUE].pc = "200"
      BY DEF RequestsTyped, Requested
    <3> QED
      BY <1>3, <2>1, <3>1, <3>2
  <2>3. CASE Deliver(r)
    BY <1>4, <2>1, <2>3 DEF Deliver
  <2> QED
    BY <1>8, <2>2, <2>3
<1>9. ASSUME NEW r \in Requests, _decide(r) \/ UpstreamFails(r)
      PROVE  Moves(r) \/ Ends(r)
  <2>1. q[r].pc \notin Outcomes
    BY <1>9 DEF _decide, UpstreamFails, Outcomes
  <2>2. (\E code : End(r, code)) \/ ((\E x : q' = [q EXCEPT ![r] = x]) /\ UNCHANGED logged)
    BY <1>9 DEF _decide, Decide, UpstreamFails
  <2> QED
    BY <1>2, <1>3, <2>1, <2>2
<1>10. ASSUME NEW r \in Requests, NEW stage, Relay(r, stage)
       PROVE  Moves(r) \/ Ends(r)
  <2>1. q[r].pc \notin Outcomes
    BY <1>10 DEF Relay, Outcomes
  <2>2. \/ End(r, "502")
        \/ UNCHANGED logged /\ \E live : q' = [q EXCEPT ![r].pc = stage, ![r].chain = live]
    BY <1>10 DEF Relay
  <2>3. ASSUME NEW live, q' = [q EXCEPT ![r].pc = stage, ![r].chain = live]
        PROVE  Others(r)
    BY <2>3 DEF Others, RequestsTyped
  <2> QED
    BY <1>2, <2>1, <2>2, <2>3
<1>11. ASSUME NEW r \in Requests, Serve(r)
       PROVE  Moves(r) \/ Ends(r)
  BY <1>5, <1>6, <1>7, <1>8, <1>9, <1>10, <1>11
     DEF Serve, chat_completions, responses, messages, embeddings
<1>12. ASSUME NEW r \in Requests, _ingest_entry(r, FALSE) \/ EntryLost(r)
       PROVE  Gone(r)
  <2>1. \E x : q' = [q EXCEPT ![r] = x]
    BY <1>12 DEF _ingest_entry, EntryLost
  <2>2. logged' = logged \ {r}
    BY <1>12 DEF _ingest_entry, EntryLost
  <2> QED
    BY <1>3, <2>1, <2>2
<1>13. ASSUME NEW r \in Requests, _ingest_entry(r, TRUE)
       PROVE  LoggedIsOver'
  <2>1. PICK x : q' = [q EXCEPT ![r] = [q[r] EXCEPT !.paid = x]]
    BY <1>13 DEF _ingest_entry
  <2>2. [q[r] EXCEPT !.paid = x].pc = q[r].pc
    BY DEF RequestsTyped, Requested
  <2>3. UNCHANGED logged
    BY <1>13 DEF _ingest_entry
  <2> QED
    BY <1>3, <2>1, <2>2, <2>3 DEF Others, LoggedIsOver, LogTyped
<1>14. ASSUME NEW r \in Requests, Arrive(r)
       PROVE  LoggedIsOver'
  <2>1. Others(r) /\ r \notin logged /\ UNCHANGED logged
    BY <1>3, <1>14 DEF Arrive
  <2> QED
    BY <2>1 DEF Others, LoggedIsOver, LogTyped
<1>15. ASSUME NEW first \in BOOLEAN, resync_on_startup(first)
       PROVE  LoggedIsOver'
  <2> DEFINE left(s) == IF s.pc \in {"streaming", "finish"} THEN "cut" ELSE "error"
             ended(s) == [s EXCEPT !.pc = left(s), !.chain = <<>>, !.second = FALSE,
                                   !.seen = NoCounters]
  <2>1. \A r \in Requests : q'[r] = IF ~InFlight(r) THEN q[r] ELSE ended(q[r])
    BY <1>15 DEF resync_on_startup
  <2>2. \A r \in Requests : ended(q[r]).pc \in {"cut", "error"}
    BY DEF RequestsTyped, Requested
  <2>3. logged' = logged \union {r \in Requests : InFlight(r)}
    BY <1>15 DEF resync_on_startup
  <2> HIDE DEF ended
  <2> QED
    BY <2>1, <2>2, <2>3 DEF LoggedIsOver, LogTyped, Outcomes
<1>16. ASSUME UNCHANGED <<q, logged>>
       PROVE  LoggedIsOver'
  BY <1>16 DEF LoggedIsOver
<1>17. ASSUME \/ topup_wallet \/ Lapse
              \/ \E price \in {0, PlanPrice} : grant_subscription(price)
              \/ \E left \in 1..MaxSub : cancel_subscription(left)
              \/ \E a \in {-1, 1} : adjust_balance(a)
              \/ \E e \in Edits : update_model(e[1], e[2])
              \/ invalidate_user_quota \/ InvalidationFails
              \/ CountersExpire \/ LockExpires \/ BucketExpires
              \/ PeerCharges(1) \/ UNCHANGED vars
       PROVE  UNCHANGED <<q, logged>>
  BY <1>17 DEF topup_wallet, grant_subscription, cancel_subscription, Lapse, adjust_balance,
       update_model, invalidate_user_quota, InvalidationFails, CountersExpire,
       LockExpires, BucketExpires, PeerCharges, vars
<1>18. ASSUME NEW r \in Requests, Faulty(r)
       PROVE  LoggedIsOver'
  BY <1>1, <1>6, <1>7, <1>12, <1>13, <1>18 DEF Faulty
<1> QED
  BY <1>1, <1>11, <1>12, <1>14, <1>15, <1>16, <1>17, <1>18 DEF Next

-----------------------------------------------------------------------------
(***************************************************************************)
(* The counters.                                                           *)
(***************************************************************************)

\* CountersFresh is inductive: a commit with a hook leaves a task behind, one
\* without is excused, and counters are stored fresh or excused.
LEMMA CountersKeptFresh ==
  ASSUME RequestsSound, Shape, CountersFresh, [Next]_vars
  PROVE  CountersFresh'
<1> USE DEF money, rows, counters
<1>0. tasks \in Nat
  BY PathAssumption DEF Shape, CountersTyped
<1>1. ASSUME UNCHANGED <<wallet, sub, cached, tasks, excused>>
      PROVE  CountersFresh'
  BY <1>1 DEF CountersFresh, Counters
<1>2. ASSUME _fire_quota_invalidate
      PROVE  CountersFresh'
  BY <1>0, <1>2 DEF _fire_quota_invalidate, CountersFresh
<1>3. ASSUME excused' = (excused \/ cached # NoCounters), UNCHANGED cached
      PROVE  CountersFresh'
  BY <1>3 DEF CountersFresh, NoCounters
<1>4. ASSUME Drop
      PROVE  CountersFresh'
  BY <1>4 DEF Drop, CountersFresh, NoCounters
<1>5. ASSUME NEW r \in Requests, StoreCounters(r)
      PROVE  CountersFresh'
  <2>1. cached' = q[r].seen /\ excused' = (q[r].seen # Counters) /\ Counters' = Counters
    BY <1>5 DEF StoreCounters, Store, Counters
  <2> QED
    BY <2>1 DEF CountersFresh
<1>6. ASSUME NEW first \in BOOLEAN, resync_on_startup(first)
      PROVE  CountersFresh'
  <2>1. CASE first
    BY <1>4, <1>6, <2>1 DEF resync_on_startup
  <2>2. CASE ~first
    <3>1. excused' = (excused \/ tasks > 0) /\ UNCHANGED <<cached, wallet, sub>>
      BY <1>6, <2>2 DEF resync_on_startup
    <3>2. Counters' = Counters /\ NoCounters' = NoCounters
      BY <3>1 DEF Counters, NoCounters
    <3> QED
      BY <3>1, <3>2 DEF CountersFresh
  <2> QED
    BY <2>1, <2>2
<1>7. ASSUME \E r \in Requests : hydrate_user_quota(r)
      PROVE  CountersFresh'
  BY <1>1, <1>7 DEF hydrate_user_quota
<1>8. ASSUME \/ \E r \in Requests : _bill_chat_relay(r)
             \/ topup_wallet \/ PeerCharges(1)
             \/ \E price \in {0, PlanPrice} : grant_subscription(price)
      PROVE  CountersFresh'
  BY <1>2, <1>8 DEF _bill_chat_relay, topup_wallet, grant_subscription, PeerCharges
<1>9. ASSUME \/ Lapse \/ InvalidationFails \/ \E a \in {-1, 1} : adjust_balance(a)
             \/ \E left \in 1..MaxSub : cancel_subscription(left)
      PROVE  CountersFresh'
  BY <1>3, <1>9 DEF Lapse, adjust_balance, cancel_subscription, InvalidationFails
<1>10. ASSUME invalidate_user_quota \/ CountersExpire
       PROVE  CountersFresh'
  BY <1>4, <1>10 DEF invalidate_user_quota, CountersExpire
<1>11. ASSUME LockExpires
       PROVE  CountersFresh'
  BY <1>1, <1>11 DEF LockExpires
<1>12. ASSUME \/ UNCHANGED <<money, rows, counters, bucket>>
              \/ UNCHANGED <<money, rows, counters>> /\ BucketTyped'
              \/ UNCHANGED <<money, counters, bucket>> /\ RowsTyped'
       PROVE  CountersFresh'
  BY <1>1, <1>12
<1> QED
  BY <1>5, <1>6, <1>7, <1>8, <1>9, <1>10, <1>11, <1>12, Steps

-----------------------------------------------------------------------------
(***************************************************************************)
(* The theorems.                                                           *)
(***************************************************************************)

PathInv == /\ RequestsSound /\ LoggedIsOver /\ CountersFresh
           /\ Shape /\ LogTyped /\ FaultsTyped

LEMMA InitPathInv == Init => PathInv
<1> SUFFICES ASSUME Init
             PROVE  PathInv
  OBVIOUS
<1>1. NoRequest \in Requested /\ Sound(NoRequest)
  BY NoCountersTyped, EmptyChain
     DEF NoRequest, Requested, Sound, Outcomes, Admission, Admitted, Quota, Hydration, Delivery
<1>2. q = [r \in Requests |-> NoRequest]
  BY DEF Init
<1>3. RequestsSound
  BY <1>1, <1>2 DEF RequestsSound, RequestsTyped
<1>4. MoneyTyped
  BY PathAssumption DEF Init, MoneyTyped, Amounts
<1>5. CountersTyped
  <2>1. cached = NoCounters /\ hydrating = FALSE /\ excused = FALSE /\ tasks = 0
    BY DEF Init
  <2>2. hydrating \in BOOLEAN /\ excused \in BOOLEAN /\ cached \in CounterSets
    BY <2>1, NoCountersTyped
  <2>3. tasks \in 0..MaxTasks
    BY <2>1, PathAssumption
  <2> QED
    BY <2>2, <2>3 DEF CountersTyped
<1>6. RowsTyped /\ BucketTyped /\ LogTyped /\ FaultsTyped
  BY PathAssumption DEF Init, RowsTyped, BucketTyped, LogTyped, FaultsTyped
<1>7. CountersFresh /\ LoggedIsOver
  BY DEF Init, CountersFresh, LoggedIsOver
<1> QED
  BY <1>3, <1>4, <1>5, <1>6, <1>7 DEF PathInv, Shape

LEMMA PathInvKept ==
  ASSUME PathInv, [Next]_vars
  PROVE  PathInv'
BY RequestsStaySound, LoggedStaysOver, ShapeKept, LogKept, CountersKeptFresh
   DEF PathInv, Shape, RequestsSound

LEMMA PathInvAlways == Spec => []PathInv
  BY InitPathInv, PathInvKept, PTL DEF Spec

\* Every run keeps the shape of the tables, of the Redis keys and of the requests;
\* a request past _load_candidates has a candidate left.
THEOREM TypeCorrect == Spec => []TypeOK
<1>1. PathInv => TypeOK
  BY DEF PathInv, Shape, RequestsSound, RequestsTyped, MoneyTyped, CountersTyped, RowsTyped,
       BucketTyped, LogTyped, FaultsTyped, TypeOK, Sound
<1> QED
  BY <1>1, PathInvAlways, PTL

\* The post-commit hook of db/session.py keeps the Redis counters honest: ones
\* that differ from PostgreSQL are about to be dropped, or went stale in one of
\* the ways no hook covers, an immediate cancellation among them.
THEOREM CountersStayFresh == Spec => []CountersFresh
<1>1. PathInv => CountersFresh
  BY DEF PathInv
<1> QED
  BY <1>1, PathInvAlways, PTL

\* Whatever fails, falls back, is cut, delivered twice or lost, and however
\* often: a request pays nothing, or once the price of the model that answered
\* and of its classifier.  Whoever got the whole answer has paid it; a stream
\* whose transaction failed has paid nothing.
THEOREM AnswersAreBilledExactly == Spec => []BilledExactly
<1>1. PathInv => BilledExactly
  BY DEF PathInv, RequestsSound, Sound, BilledExactly
<1> QED
  BY <1>1, PathInvAlways, PTL
=============================================================================
