----------------------------- MODULE EnvoyPath -----------------------------
(***************************************************************************)
(* A request of one funded-or-not user on its way through Envoy, after the *)
(* key and the user have passed (module KeyCache): the quota counters in   *)
(* Redis (services/quota_cache.py) and the rate bucket (services/quota.py) *)
(* that ext_proc_server._decide asks, the route it chooses (Routing), the  *)
(* translator that calls the upstreams and bills (api/internal/            *)
(* translate.py), the post-commit hook that drops the counters             *)
(* (db/session.py), and the access-log server (als_server.py).             *)
(*                                                                         *)
(* PostgreSQL is the wallet and the quota left in the user's subscription; *)
(* a charge, with its locks, is one step here and many in Billing.  The    *)
(* per-key cap is unlimited.  Of the user's other requests only the charge *)
(* is followed (PeerCharges).  Prices are what one answer of a model costs.*)
(***************************************************************************)
EXTENDS Integers, Routing

CONSTANTS
  Requests,         \* requests followed from end to end
  Models, Price,    \* upstream models, and the cents an answer of each costs
  ClassifierPrice,  \* the cents the embedding of a prompt costs
  Policies,         \* the route policies requests may name
  Edits,            \* bound: the <<model, state>> an administrator may set
  Period,           \* a common multiple of the lengths of round-robin lists
  RPM,              \* requests per minute the plan of the user allows
  PlanPrice,        \* the cents the plan costs
  MaxWallet, Floor, \* bounds: the wallet stays in -Floor..MaxWallet
  MaxSub,           \* quota of the plan, and bound on the user's
  MaxTasks,         \* bound: scheduled invalidations
  MaxChanges,       \* bound: steps of the administrator
  MaxFaults         \* bound: errors, cut connections, restarts

ASSUME PathAssumption ==
  /\ Price \in [Models -> Nat] /\ ClassifierPrice \in Nat
  /\ Edits \subseteq Models \X {"on", "off", "severed"}
  /\ Period \in Nat \ {0} /\ RPM \in Nat \ {0} /\ MaxTasks \in Nat \ {0}
  /\ MaxWallet \in Nat /\ Floor \in Nat /\ MaxSub \in Nat /\ PlanPrice \in Nat
  /\ MaxChanges \in Nat /\ MaxFaults \in Nat

\* A policy is saved only when its targets and its fallback are models
\* (_validate_modality of admin/routes.py); one deleted later is never usable.
ASSUME PoliciesAssumption ==
  \A p \in Policies :
    /\ \A i \in DOMAIN p.targets : p.targets[i].model \in Models
    /\ p.fallback \in Models \union {NoModel}

VARIABLES
  wallet, sub,  \* users.balance_cents; remaining_cents of the active subscription
  state,        \* what the model and channel rows say of each model
  cached,       \* wallet:{uid}, usubs:{uid} and subq:{sid} in Redis
  hydrating,    \* qhydr:{uid} is set
  bucket,       \* rl:u:{uid}: its count and whether it will expire
  tasks,        \* invalidate_user_quota tasks scheduled and not yet run
  excused,      \* history: the counters went stale in a way no hook covers
  q,            \* the requests
  logged,       \* requests whose access-log entry is on its way
  changes, faults

money    == <<wallet, sub>>
counters == <<cached, hydrating, tasks, excused>>
rows     == <<state, changes>>
vars     == <<money, rows, counters, bucket, q, logged, faults>>

Amounts     == (-Floor)..MaxWallet
Counters    == [wallet |-> wallet, sub |-> sub]
NoCounters  == [wallet |-> -Floor, sub |-> -1]   \* the keys do not exist
CounterSets == [wallet : Amounts, sub : 0..MaxSub] \union {NoCounters}
Hydration   == {"hydrate", "loadUser", "loadSubs", "store"}
Quota       == {"subs", "wallet"} \union Hydration
Admission   == Quota \union {"rate", "expire", "route"}
Admitted    == {"translate", "try", "embed", "bill", "streaming"}
Delivery    == {"deliver", "finish"}   \* paid, and not yet all sent
Outcomes    == {"idle", "200", "error", "cut", "unbilled"}

NoRequest == [pc |-> "idle", second |-> FALSE, seen |-> NoCounters,
              chain |-> <<>>, header |-> NoModel, classifier |-> FALSE,
              marked |-> FALSE, owed |-> 0, paid |-> 0]

Chains    == UNION {[1..n -> Models] : n \in 0..2}   \* a primary, a fallback
Requested == [pc : Admission \union Admitted \union Delivery \union Outcomes,
              second : BOOLEAN,
              seen : CounterSets, chain : Chains, header : Models \union {NoModel},
              classifier : BOOLEAN, marked : BOOLEAN, owed : Nat, paid : Nat]

\* The variables have the shape the tables and the Redis keys give them.
TypeOK ==
  /\ wallet \in Amounts /\ sub \in 0..MaxSub
  /\ state \in [Models -> {"on", "off", "severed"}]
  /\ cached \in CounterSets
  /\ hydrating \in BOOLEAN /\ excused \in BOOLEAN /\ tasks \in 0..MaxTasks
  /\ bucket \in [n : 0..(RPM + 1), ttl : BOOLEAN]
  /\ q \in [Requests -> Requested]
  /\ \A r \in Requests :
       q[r].pc \in Admitted \ {"translate"} => q[r].chain # <<>>
  /\ logged \subseteq Requests
  /\ changes \in 0..MaxChanges /\ faults \in 0..MaxFaults

Init ==
  /\ wallet \in 0..MaxWallet /\ sub = 0
  /\ state = [m \in Models |-> "on"]
  /\ cached = NoCounters /\ hydrating = FALSE
  /\ bucket = [n |-> 0, ttl |-> FALSE]
  /\ tasks = 0 /\ excused = FALSE
  /\ q = [r \in Requests |-> NoRequest]
  /\ logged = {} /\ changes = 0 /\ faults = 0

Goto(r, pc) == q' = [q EXCEPT ![r].pc = pc]
\* A request ends without its answer, and Envoy logs it: with an HTTP error, which
\* one makes no difference later, or with a stream that was cut or not billed.
End(r, code) ==
  /\ q' = [q EXCEPT ![r] = [@ EXCEPT !.chain = <<>>, !.second = FALSE,
                !.seen = NoCounters,
                !.pc = IF code \in {"cut", "unbilled"} THEN code ELSE "error"]]
  /\ logged' = logged \union {r}
Fault == faults < MaxFaults /\ faults' = faults + 1

(***************************************************************************)
(* PostgreSQL.  A charge drains the subscription and then the wallet,      *)
(* which may go below zero: the cost is known after the answer.            *)
(***************************************************************************)

Clamp(n) == Max({n, -Floor})   \* bound: deeper debts are not told apart

charge_user(cost) ==
  LET take == Min({sub, cost})
  IN  /\ sub' = sub - take
      /\ wallet' = Clamp(wallet - (cost - take))

\* The post-commit hook schedules the task that drops the counters.
_fire_quota_invalidate == tasks < MaxTasks /\ tasks' = tasks + 1

\* The user tops up (topup_wallet).
topup_wallet ==
  /\ wallet < MaxWallet /\ wallet' = wallet + 1
  /\ _fire_quota_invalidate
  /\ UNCHANGED <<sub, rows, cached, hydrating, excused, bucket, q,
                 logged, faults>>

\* The user buys or renews the plan, with a provider's payment or out of the
\* wallet (grant_subscription, renew_subscription).
grant_subscription(price) ==
  /\ sub < MaxSub /\ sub' = MaxSub
  /\ price = 0 \/ wallet >= price
  /\ wallet' = wallet - price
  /\ _fire_quota_invalidate
  /\ UNCHANGED <<rows, cached, hydrating, excused, bucket, q, logged, faults>>

\* The user cancels at once: what is left is refunded in proportion, and no hook
\* is marked.  The period of the row may be over and the row not closed yet.
cancel_subscription(left) ==
  /\ sub > 0 => left = sub
  /\ wallet' = wallet + ((PlanPrice * left) \div MaxSub) /\ wallet' <= MaxWallet
  /\ sub' = 0
  /\ excused' = (excused \/ cached # NoCounters)
  /\ UNCHANGED <<rows, cached, hydrating, tasks, bucket, q, logged, faults>>

\* The period of the subscription ends: what is left of it no longer counts,
\* and nothing tells Redis.
Lapse ==
  /\ sub > 0 /\ sub' = 0
  /\ excused' = (excused \/ cached # NoCounters)
  /\ UNCHANGED <<wallet, rows, cached, hydrating, tasks, bucket, q,
                 logged, faults>>

\* adjust_balance of the administrator: no debt is left, and no hook is marked.
\* (Its unlocked read and its absolute write are one step here.)
adjust_balance(amount) ==
  /\ changes < MaxChanges /\ changes' = changes + 1
  /\ wallet' = Max({wallet + amount, 0}) /\ wallet' <= MaxWallet
  /\ excused' = (excused \/ cached # NoCounters)
  /\ UNCHANGED <<sub, state, cached, hydrating, tasks, bucket, q,
                 logged, faults>>

\* The administrator disables or enables a model or its channel.
update_model(m, s) ==
  /\ changes < MaxChanges /\ changes' = changes + 1
  /\ state[m] # s /\ state' = [state EXCEPT ![m] = s]
  /\ UNCHANGED <<money, counters, bucket, q, logged, faults>>

(***************************************************************************)
(* quota_cache: counters in Redis that are loaded on a miss and dropped    *)
(* after a commit.                                                         *)
(***************************************************************************)

\* Storing counters replaces what was there; they may be stale already.
Store(c) == cached' = c /\ excused' = (c # Counters)
Drop     == cached' = NoCounters /\ excused' = FALSE

\* One pass of _check.  Reading the subscriptions settles the request if quota is
\* left; a usubs key that does not exist reads as an empty list.
CheckSubs(r) ==
  /\ q[r].pc = "subs"
  /\ Goto(r, IF cached.sub > 0 THEN "rate" ELSE "wallet")
  /\ UNCHANGED <<money, rows, counters, bucket, logged, faults>>

ZeroIsMiss(c) == IF c.wallet > 0 THEN "ok" ELSE "miss"

\* What _check makes of the wallet it reads: a missing or negative one is a miss.
_check(c) == IF c = NoCounters \/ c.wallet < 0 THEN "miss"
             ELSE IF c.wallet > 0 THEN "ok" ELSE "refuse"

RefuseOnMiss(r) ==
  /\ q[r].pc = "wallet"
  /\ IF _check(cached) = "ok" THEN Goto(r, "rate") /\ UNCHANGED logged
                              ELSE End(r, "402")
  /\ UNCHANGED <<money, rows, counters, bucket, faults>>

\* has_quota_fast: a first miss hydrates and checks again; a second lets the
\* request pass.
has_quota_fast(r) ==
  /\ q[r].pc = "wallet"
  /\ \/ /\ _check(cached) = "ok" /\ Goto(r, "rate") /\ UNCHANGED logged
     \/ /\ _check(cached) = "refuse" /\ End(r, "402")
     \/ /\ _check(cached) = "miss"
        /\ Goto(r, IF q[r].second THEN "rate" ELSE "hydrate")
        /\ UNCHANGED logged
  /\ UNCHANGED <<money, rows, counters, bucket, faults>>

\* hydrate_user_quota takes the lock; whoever finds it taken returns at once.
hydrate_user_quota(r) ==
  /\ q[r].pc = "hydrate"
  /\ hydrating' = TRUE
  /\ q' = [q EXCEPT ![r] = IF hydrating
             THEN [@ EXCEPT !.pc = "subs", !.second = TRUE]
             ELSE [@ EXCEPT !.pc = "loadUser"]]
  /\ UNCHANGED <<money, rows, cached, tasks, excused, bucket, logged,
                 faults>>

\* It reads the user and then the subscriptions, each as last committed ...
LoadUser(r) ==
  /\ q[r].pc = "loadUser"
  /\ q' = [q EXCEPT ![r] = [@ EXCEPT !.pc = "loadSubs",
                                     !.seen = [wallet |-> wallet, sub |-> 0]]]
  /\ UNCHANGED <<money, rows, counters, bucket, logged, faults>>

LoadSubs(r) ==
  /\ q[r].pc = "loadSubs"
  /\ q' = [q EXCEPT ![r] = [@ EXCEPT !.pc = "store",
                                     !.seen = [wallet |-> q[r].seen.wallet, sub |-> sub]]]
  /\ UNCHANGED <<money, rows, counters, bucket, logged, faults>>

\* ... and writes what it loaded, whatever has been committed or dropped since.
StoreCounters(r) ==
  /\ q[r].pc = "store"
  /\ Store(q[r].seen)
  /\ q' = [q EXCEPT ![r] = [@ EXCEPT !.pc = "subs", !.second = TRUE,
                                     !.seen = NoCounters]]
  /\ UNCHANGED <<money, rows, hydrating, tasks, bucket, logged, faults>>

\* An error while it hydrates is logged, and the counters are checked again; an
\* error of Redis while they are checked lets the request pass.
QuotaError(r) ==
  /\ q[r].pc \in Quota /\ Fault
  /\ q' = [q EXCEPT ![r] = IF q[r].pc \in Hydration
             THEN [@ EXCEPT !.pc = "subs", !.second = TRUE, !.seen = NoCounters]
             ELSE [@ EXCEPT !.pc = "rate"]]
  /\ UNCHANGED <<money, rows, counters, bucket, logged>>

\* The task of the hook: it drops the counters, or fails and is not repeated.
invalidate_user_quota ==
  /\ tasks > 0 /\ tasks' = tasks - 1 /\ Drop
  /\ UNCHANGED <<money, rows, hydrating, bucket, q, logged, faults>>

InvalidationFails ==
  /\ tasks > 0 /\ tasks' = tasks - 1 /\ Fault
  /\ excused' = (excused \/ cached # NoCounters)
  /\ UNCHANGED <<money, rows, cached, hydrating, bucket, q, logged>>

\* The keys live an hour, the lock five seconds, and a decision as long as Envoy's
\* message_timeout: when the hour is over, so are the lock that was taken for
\* the counters and the request that checks them a second time.
CountersExpire ==
  /\ cached # NoCounters /\ ~hydrating /\ Drop
  /\ \A r \in Requests : q[r].pc \in Quota => ~q[r].second
  /\ UNCHANGED <<money, rows, hydrating, tasks, bucket, q, logged,
                 faults>>

LockExpires ==
  /\ hydrating /\ hydrating' = FALSE
  /\ UNCHANGED <<money, rows, cached, tasks, excused, bucket, q,
                 logged, faults>>

\* The answer to another request of the user is billed, which may be long after
\* that request was admitted.
PeerCharges(cost) ==
  /\ charge_user(cost) /\ _fire_quota_invalidate
  /\ UNCHANGED <<rows, cached, hydrating, excused, bucket, q, logged,
                 faults>>

(***************************************************************************)
(* The rest of _decide: the rate bucket and the route.                     *)
(***************************************************************************)

\* rate_limit counts the request in the bucket of the minute; whoever starts the
\* bucket sets its expiry with a second command.
rate_limit(r) ==
  /\ q[r].pc = "rate"
  /\ LET n == Min({bucket.n + 1, RPM + 1})
     IN  /\ bucket' = [bucket EXCEPT !.n = n]
         /\ IF n > RPM THEN End(r, "429")
            ELSE /\ Goto(r, IF n = 1 THEN "expire" ELSE "route")
                 /\ UNCHANGED logged
  /\ UNCHANGED <<money, rows, counters, faults>>

SetExpiry(r) ==
  /\ q[r].pc = "expire"
  /\ bucket' = [bucket EXCEPT !.ttl = TRUE]
  /\ Goto(r, "route")
  /\ UNCHANGED <<money, rows, counters, logged, faults>>

BucketExpires ==
  /\ bucket.ttl /\ bucket' = [n |-> 0, ttl |-> FALSE]
  /\ UNCHANGED <<money, rows, counters, q, logged, faults>>

\* The stream to ext_proc ends early: Redis fails outside has_quota_fast, the
\* client goes away, or Envoy's message_timeout passes.  Envoy answers with an
\* error, since failure_mode_allow is false.
Interrupted(r) ==
  /\ q[r].pc \in Admission /\ Fault
  /\ End(r, "500")
  /\ UNCHANGED <<money, rows, counters, bucket>>

\* /v1/models needs no route.
ListModels(r) ==
  /\ q[r].pc = "route"
  /\ q' = [q EXCEPT ![r].pc = "200", ![r].second = FALSE, ![r].marked = TRUE]
  /\ logged' = logged \union {r}
  /\ UNCHANGED <<money, rows, counters, bucket, faults>>

\* The model is not named, not public, or not offered on this endpoint.
NoRoute(r) ==
  /\ q[r].pc = "route" /\ End(r, "404")
  /\ UNCHANGED <<money, rows, counters, bucket, faults>>

\* select_route's decision becomes the headers the translator works from.
Decide(r, d) ==
  IF d.chain = <<>> THEN End(r, "502")
  ELSE /\ q' = [q EXCEPT ![r] = [@ EXCEPT !.pc = "translate", !.chain = d.chain,
                  !.header = Head(d.chain), !.classifier = (d.classifier = "ok"),
                  !.marked = TRUE]]
       /\ UNCHANGED logged

\* The round-robin cursor is shared with the requests of all users, or is the
\* process's own when Redis does not answer: it may point anywhere.
_decide(r) ==
  /\ q[r].pc = "route"
  /\ \E p \in Policies, cursor \in 0..(Period - 1) :
       \E d \in select_route(p, state, cursor) : Decide(r, d)
  /\ UNCHANGED <<money, rows, counters, bucket, faults>>

(***************************************************************************)
(* The translator.  Its chat endpoints and embeddings share their steps;   *)
(* images_generations holds and reconciles, which module Billing models.   *)
(***************************************************************************)

\* Every endpoint begins with the candidates.
Relay(r, stage) ==
  /\ q[r].pc = "translate"
  /\ LET live == _load_candidates(q[r].chain, q[r].header, state)
     IN  IF live = <<>> THEN End(r, "502")
         ELSE /\ q' = [q EXCEPT ![r].pc = stage, ![r].chain = live]
              /\ UNCHANGED logged
  /\ UNCHANGED <<money, rows, counters, bucket, faults>>

chat_completions(r) == Relay(r, "try")
responses(r)        == Relay(r, "try")
\* messages refuses an Anthropic request it cannot translate; embeddings, which
\* goes through execute_embedding_relay, never streams.
BadMessages(r) ==
  /\ q[r].pc = "translate" /\ End(r, "400")
  /\ UNCHANGED <<money, rows, counters, bucket, faults>>
messages(r)   == Relay(r, "try") \/ BadMessages(r)
embeddings(r) == Relay(r, "embed")

\* The candidate answers, whole or as a stream that begins.  From now on the
\* providers have done work for the request: `owed' is what it is worth.
UpstreamAnswers(r, pc) ==
  /\ q[r].pc = "try" \/ (q[r].pc = "embed" /\ pc = "bill")
  /\ q' = [q EXCEPT ![r].pc = pc,
             ![r].owed = Price[Head(q[r].chain)] +
                         IF q[r].classifier THEN ClassifierPrice ELSE 0]
  /\ UNCHANGED <<money, rows, counters, bucket, logged, faults>>

TryTheLastAgain(r) ==
  /\ q[r].pc \in {"try", "embed"}
  /\ q' = [q EXCEPT ![r].chain = Tail(@)]
  /\ UNCHANGED <<money, rows, counters, bucket, logged, faults>>

\* It has no adapter, raises, or answers with an error: the next one is tried.
UpstreamFails(r) ==
  /\ q[r].pc \in {"try", "embed"}
  /\ IF Len(q[r].chain) = 1 THEN End(r, "502")
     ELSE q' = [q EXCEPT ![r].chain = Tail(@)] /\ UNCHANGED logged
  /\ UNCHANGED <<money, rows, counters, bucket, faults>>

\* calc_cost_cents of the candidate that answered, and of the classifier when it
\* called its provider.
_record_classifier_from_headers(r) ==
  IF q[r].classifier THEN ClassifierPrice ELSE 0
Cost(r) == Price[Head(q[r].chain)] + _record_classifier_from_headers(r)

BillWithoutMark(r) ==
  /\ q[r].pc \in {"bill", "streaming"}
  /\ charge_user(Cost(r))
  /\ q' = [q EXCEPT ![r] = [@ EXCEPT !.pc = IF q[r].pc = "bill" THEN "deliver" ELSE "finish",
                              !.chain = <<>>, !.second = FALSE, !.paid = Cost(r)]]
  /\ UNCHANGED <<rows, counters, bucket, logged, faults>>

\* _bill_chat_relay, in one transaction, before the answer is sent or after the
\* last event of a stream.
_bill_chat_relay(r) ==
  /\ q[r].pc \in {"bill", "streaming"}
  /\ charge_user(Cost(r)) /\ _fire_quota_invalidate
  /\ q' = [q EXCEPT ![r] = [@ EXCEPT !.pc = IF q[r].pc = "bill" THEN "deliver" ELSE "finish",
                              !.chain = <<>>, !.second = FALSE, !.paid = Cost(r)]]
  /\ UNCHANGED <<rows, cached, hydrating, excused, bucket, logged, faults>>

\* The answer, or the end of the stream, reaches the client ...
Deliver(r) ==
  /\ q[r].pc \in Delivery
  /\ Goto(r, "200") /\ logged' = logged \union {r}
  /\ UNCHANGED <<money, rows, counters, bucket, faults>>

\* ... or it does not: its conversion raises, or the connection is gone.
Undelivered(r) ==
  /\ q[r].pc \in Delivery /\ Fault
  /\ End(r, IF q[r].pc = "deliver" THEN "500" ELSE "cut")
  /\ UNCHANGED <<money, rows, counters, bucket>>

\* The transaction fails.  An answer that has not been sent becomes an error, a
\* stream has been read to its end.
BillingFails(r) ==
  /\ q[r].pc \in {"bill", "streaming"} /\ Fault
  /\ End(r, IF q[r].pc = "bill" THEN "500" ELSE "unbilled")
  /\ UNCHANGED <<money, rows, counters, bucket>>

\* The client leaves a stream: the generator is closed before it bills.
Abandon(r) ==
  /\ q[r].pc = "streaming" /\ Fault
  /\ End(r, "cut")
  /\ UNCHANGED <<money, rows, counters, bucket>>

(***************************************************************************)
(* The access-log server.  Every request _decide lets through carries      *)
(* x-llmxy-billed-sync, and a request it refuses has no model header.      *)
(***************************************************************************)

\* What _ingest_entry bills for an entry that is not marked: the model of the
\* header if the response was a success, and the classifier in any case.
EntryCost(r) ==
  IF q[r].header = NoModel THEN 0
  ELSE (IF q[r].pc \in {"200", "unbilled", "cut"} THEN Price[q[r].header] ELSE 0)
       + _record_classifier_from_headers(r)

IngestMarkedToo(r, again) ==
  /\ r \in logged /\ ~again /\ logged' = logged \ {r}
  /\ charge_user(EntryCost(r))
  /\ q' = [q EXCEPT ![r].paid = @ + EntryCost(r)]
  /\ UNCHANGED <<rows, counters, bucket, faults>>

\* What is remembered of a request once its entry is gone.
Settled(s, paid) ==
  [NoRequest EXCEPT !.pc = s.pc, !.owed = s.owed, !.paid = paid]

\* _ingest_entry charges, commits and mirrors the charge onto the counters that
\* exist (apply_charge).  An entry may be delivered again.
_ingest_entry(r, again) ==
  /\ r \in logged
  /\ IF again THEN Fault /\ UNCHANGED logged
              ELSE logged' = logged \ {r} /\ UNCHANGED faults
  /\ LET cost == IF q[r].marked THEN 0 ELSE EntryCost(r)
         take == Min({sub, cost})
     IN  /\ charge_user(cost)
         /\ cached' = IF cached = NoCounters THEN cached
                      ELSE [wallet |-> Clamp(cached.wallet - (cost - take)),
                            sub |-> cached.sub - take]
         /\ q' = [q EXCEPT ![r] = IF again THEN [q[r] EXCEPT !.paid = @ + cost]
                    ELSE Settled(q[r], q[r].paid + cost)]
  /\ UNCHANGED <<rows, hydrating, tasks, excused, bucket>>

EntryLost(r) ==
  /\ r \in logged /\ Fault /\ logged' = logged \ {r}
  /\ q' = [q EXCEPT ![r] = Settled(q[r], q[r].paid)]
  /\ UNCHANGED <<money, rows, counters, bucket>>

(***************************************************************************)
(* The api process dies and starts again: its tasks and requests are gone. *)
(* resync_on_startup drops the counters and the lock unless another start  *)
(* did within the minute; the rate bucket is no part of it.                *)
(***************************************************************************)

InFlight(r) == q[r].pc \in Admission \union Admitted \union Delivery

resync_on_startup(first) ==
  /\ Fault /\ tasks' = 0
  /\ q' = [r \in Requests |->
             IF ~InFlight(r) THEN q[r]
             ELSE [q[r] EXCEPT !.pc = IF @ \in {"streaming", "finish"}
                                      THEN "cut" ELSE "error",
                     !.chain = <<>>, !.second = FALSE, !.seen = NoCounters]]
  /\ logged' = logged \union {r \in Requests : InFlight(r)}
  /\ IF first THEN Drop /\ hydrating' = FALSE
     ELSE /\ excused' = (excused \/ tasks > 0)
          /\ UNCHANGED <<cached, hydrating>>
  /\ UNCHANGED <<money, rows, bucket>>

\* A new request takes the place of one that is over and logged.
Arrive(r) ==
  /\ q[r].pc \in Outcomes /\ r \notin logged
  /\ q' = [q EXCEPT ![r] = [NoRequest EXCEPT !.pc = "subs"]]
  /\ UNCHANGED <<money, rows, counters, bucket, logged, faults>>

\* What a request does next when nothing goes wrong.
Serve(r) ==
  \/ CheckSubs(r) \/ has_quota_fast(r) \/ hydrate_user_quota(r)
  \/ LoadUser(r) \/ LoadSubs(r) \/ StoreCounters(r)
  \/ rate_limit(r) \/ SetExpiry(r)
  \/ ListModels(r) \/ NoRoute(r) \/ _decide(r)
  \/ chat_completions(r) \/ responses(r) \/ messages(r) \/ embeddings(r)
  \/ \E pc \in {"bill", "streaming"} : UpstreamAnswers(r, pc)
  \/ UpstreamFails(r) \/ _bill_chat_relay(r) \/ Deliver(r)

Faulty(r) ==
  \/ QuotaError(r) \/ Interrupted(r)
  \/ BillingFails(r) \/ Abandon(r) \/ Undelivered(r)
  \/ _ingest_entry(r, TRUE) \/ EntryLost(r)

Next ==
  \/ \E r \in Requests : Arrive(r) \/ Serve(r) \/ Faulty(r) \/ _ingest_entry(r, FALSE)
  \/ topup_wallet \/ Lapse
  \/ \E price \in {0, PlanPrice} : grant_subscription(price)
  \/ \E left \in 1..MaxSub : cancel_subscription(left)
  \/ \E a \in {-1, 1} : adjust_balance(a)
  \/ \E e \in Edits : update_model(e[1], e[2])
  \/ invalidate_user_quota \/ InvalidationFails
  \/ CountersExpire \/ LockExpires \/ BucketExpires
  \/ PeerCharges(1)
  \/ \E first \in BOOLEAN : resync_on_startup(first)

\* Users keep calling, processes and the event loop run, Redis expires its keys.
\* Nobody has to top up, and nothing has to fail.
Fairness ==
  /\ \A r \in Requests :
       WF_vars(Arrive(r) \/ Serve(r) \/ _ingest_entry(r, FALSE))
  /\ WF_vars(invalidate_user_quota)
  /\ WF_vars(CountersExpire) /\ WF_vars(LockExpires) /\ WF_vars(BucketExpires)

Spec == Init /\ [][Next]_vars /\ Fairness

(***************************************************************************)
(* Properties.                                                             *)
(***************************************************************************)

\* The hook of db/session.py keeps the counters honest: counters that differ from
\* PostgreSQL are about to be dropped, unless they were stored after the commit
\* that outdated them, or went stale in one of the four ways no hook covers (a
\* period that ended, adjust_balance, an immediate cancellation, a task that
\* failed or died).
CountersFresh ==
  cached \notin {NoCounters, Counters} => tasks > 0 \/ excused

\* A request pays once, for the model that answered and for the classifier if it
\* called its provider, or not at all: whichever candidates failed before, however
\* often its log entry is delivered, by the translator or by the access-log
\* server.  Whoever got the whole answer has paid; whoever was refused, found no
\* upstream or saw the transaction fail has not.  An answer that is lost between
\* the commit and the client has been paid for, a stream that is cut has not,
\* unless it was cut after its last event.
BilledExactly ==
  \A r \in Requests :
    /\ q[r].paid \in {0, q[r].owed}
    /\ q[r].pc \in Delivery \union {"200"} => q[r].paid = q[r].owed
    /\ q[r].pc = "unbilled" => q[r].paid = 0

Funded   == wallet > 0 \/ sub > 0
Stranded == bucket.n > 0 /\ ~bucket.ttl /\ \A r \in Requests : q[r].pc # "expire"
Serving  == \E r \in Requests : q[r].pc \in Admitted \union {"route"}

\* A user with money is let through before long, whatever Redis believed, lost or
\* was told too late; or is out of money again.  There are two exceptions: a rate
\* bucket whose first request died between INCR and EXPIRE, and a user who never
\* stops buying plans out of the wallet, since a purchase between the two reads
\* of a hydration hides the money from both.
FundedIsServed ==
  <>[][wallet' >= wallet \/ sub' <= sub]_vars
    => (Funded ~> (Serving \/ ~Funded \/ Stranded))

\* A user who stays at exactly nothing is in the end not let through any more:
\* has_quota_fast's permissive second miss is no lasting way around the quota.
EmptyIsRefused ==
  <>[](wallet = 0 /\ sub = 0) => <>[](\A r \in Requests : q[r].pc \notin Admitted)

\* has_quota's docstring: "Check user can spend: either has an active
\* subscription with remaining quota, or has wallet balance".  A user without
\* money, whose balance no longer moves, is in the end refused by its hot-path
\* equivalent.
UnfundedIsRefused ==
  <>[](~Funded) /\ <>[][money' = money]_vars
    => <>[](\A r \in Requests : q[r].pc \notin Admitted)
=============================================================================
