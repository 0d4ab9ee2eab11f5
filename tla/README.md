# Verification of llmxy

llmxy is a gateway in front of LLM providers. Customers buy quota (plans) or
top up a wallet, send requests with an API key, and are billed for what the
upstream reports; requests reach the backend directly or through Envoy proxies
that the backend configures, starts and supervises. This directory holds TLA+
models of the parts of the backend (`src/api/app`) where money and quota change
hands, where requests are let in, and where Envoy is controlled, TLC
configurations that check them on small instances, and TLAPS proofs, for every
instance, of all their safety properties.
Paths below are relative to `src/api/app` unless they start with `src/`.

## 1. The system

| Component | State | Operations | Talks to |
|---|---|---|---|
| Billing core `services/billing.py` | rows `users.balance_cents`, `api_keys.used_cents`, `subscriptions.*`, `balance_tx` | `charge_user`, `refund_to_sources`, `available_cents`, `has_quota`, `topup_wallet`, `grant_subscription`, `renew_subscription` | PostgreSQL through the caller's session; never commits |
| Relays `api/relay/*`, `services/image_relay.py` | the request's session and locals | load key and user, gate, call candidates, hold / reconcile / refund, charge, log, commit | billing core, router, providers |
| Translator `api/internal/translate.py` | same | the relays behind Envoy, not gated by `has_quota`; marks requests `x-llmxy-billed-sync` | billing core |
| Subscription API `api/v1/plans.py`, `api/v1/subscriptions.py` | `subscriptions`, wallet, `orders` | subscribe, cancel now / at period end, resume, renew now | billing core |
| Renewal worker `services/subscriptions_renewal.py` | a task per API process | scan lapsed rows `FOR UPDATE SKIP LOCKED`, renew or close each, one commit | billing core |
| Orders `api/v1/orders.py`, `services/payment/*` | `orders` | create, payment callback, mock pay | providers call back; billing core |
| API keys `services/api_key*.py`, `api/v1/api_keys.py` | `api_keys` status, quota window | expire, roll window, revoke | caches |
| Caches `services/quota_cache.py`, `services/api_key_cache.py`, `core/cache_invalidate.py` | Redis counters, per-process TTL caches | hydrate, mirror a charge, invalidate (post-commit hook in `db/session.py`), resync | Redis, PostgreSQL |
| Rate limiter `services/quota.py` | Redis bucket per user | INCR, EXPIRE | |
| ext_proc `services/envoy/ext_proc_server.py` | caches | admit or refuse an Envoy request | caches, router |
| ALS `services/envoy/als_server.py` | stream | bill an unmarked request from its access-log entry | billing core, caches |
| xDS `services/envoy/xds_server.py` | per node: registration, pending types, nonces, versions | ADS stream, ACK / NACK, notify | admin API |
| Envoy processes `services/envoy/runtime.py` | pid files, `envoy_instances` | start, stop, adopt, health loop, leader lock | OS, PostgreSQL |
| Router `services/providers/router.py` | none | order candidates by strategy | |
| Everything else | adapters, protocol translation, auth, admin CRUD, front ends | no shared state of interest | |

Users' rows never meet, nor do those of two keys or two Envoy nodes, so each
model is about one user, one key or one node.

What is hard: several handlers, several API processes and background tasks work
on the same rows in `READ COMMITTED` transactions. `charge_user` and
the worker take row locks; the subscription API, the payment callback and the
image gate read without them and write later. A client may go away or a process
die at any await. SQLAlchemy's session holds copies of rows and writes back only
attributes it thinks changed. Behind Envoy a request is judged by copies: key and
user snapshots per process, quota counters in Redis, each filled from a read
that may be old by then and dropped by messages or tasks that may be lost.
Envoy learns of a change through a commit, a notification, an event and a push
that belong to different tasks and processes. An Envoy process, its pid
file, its handle and its row are four records that crashes, zombies and
overlapping calls pull apart. `PROJECT.json` lists each place as a hazard.

What makes each part correct:

* billing: quota never overdrawn nor exceeded, drained in order, wallet last;
  each request billed exactly what it logs, once, or nothing; a hold fully
  returned; no request stuck on a lock;
* subscriptions: quota within the plan whatever calls overlap; the worker acts
  on rows as they are; a lapsed subscription is settled; no double charge;
* orders: a payment is credited, and once;
* keys and snapshots: a revoked, expired or disabled key or owner is refused within
  a bounded time, whatever is lost; an idle key past due is flipped;
* quota counters and rate bucket: stale only in known ways; who has money is
  let in, who has none is not;
* translator and ALS: an answered request is billed by one of them, once;
* xDS: nothing goes stale silently, and Envoy ends up with what the tables say;
* Envoy processes: every running process is on record, and the recorded status
  follows the process.

## 2. The modules

| Module | Models |
|---|---|
| `Orm` | the one rule of SQLAlchemy's unit of work that matters: a flush writes an assigned attribute only when it differs from what the session believes, and then writes the assigned value. External. |
| `Ledger` | abstract specification of billing: one account, credits, and bills that take their amount in one step, at most one per request. |
| `Billing` | the money path of a relay request. |
| `BillingProofs`, `LedgerProofs` | theorems about `Billing`; that it implements `Ledger`. |
| `Subscriptions` | the subscription API and the renewal worker. |
| `Orders` | extends `Subscriptions` with orders and callbacks on the same wallet and table; its `Spec` is the composed system. |
| `OrdersProofs` | theorems about that system. |
| `KeyCache` | API keys, their expiry, the snapshot caches and their invalidation, the first half of ext_proc's decision. |
| `Routing` | the router as operators: for each strategy the set of routes it may choose. |
| `EnvoyPath` | extends `Routing`: a request behind Envoy from the quota counters to the access log. |
| `Ads` | the ADS server, its wake-ups, and the administration calls that change what it renders. |
| `EnvoyRuntime` | an Envoy instance: row, process, pid file, handle, health loop, restart of the backend. |
| `KeyCacheProofs`, `EnvoyPathProofs`, `AdsProofs`, `EnvoyRuntimeProofs` | theorems about the module they are named for. |
| `MCBilling`, `MCOrders`, `MCEnvoyPath` | values for TLC. |

### Billing

The database is `committed` (what others read), `heap` (newest version, written
only by the lock holder) and `lock` per row. `EndTx` is commit or rollback,
`Visible` what a statement of a transaction reads. A request is a program
counter with the locals of its handler; each awaited statement that another
transaction can tell apart is an action:

| Actions | Code |
|---|---|
| `Load`, `Gate` | `core/deps.py` `get_api_key`; `has_quota` at the head of the relay handlers. Requests outside `Direct` came through Envoy and are not gated here. |
| `ChatAnswered`, `ChatFailed`, `Classify`, `Commit` | `api/relay/chat.py`: one candidate answered or all failed, the smart-routing classifier's charge, the commit |
| `Quote`, `QuoteRefused`, `Hold`, `SkipCandidate`, `Generated`, `GenerateFailed` | the candidate loop of `execute_image_relay` |
| `charge_user`, `LockSub`, `StartDrain`, `DrainSub`, `ChargeWallet`, `ChargeKey` | `charge_user`: the query `FOR UPDATE` row by row (a row whose newest version no longer qualifies is skipped), the drain loop, wallet, key, flush |
| `refund_to_sources`, `StartPlan`, `PlanSub`, `EndPlan`, `RefundWallet`, `RefundSubs`, `RefundKey` | `refund_to_sources` |
| `Abort` | client gone, process death, an exception; also the refusals before anything is written (rate limit, bad body, no route), which change the database as little |
| `DeadlockVictim` | PostgreSQL breaks a cycle of lock waits. A charge inside an image request locks subscriptions after the hold locked wallet and key, so cycles do occur. |
| `topup_wallet`, `grant_subscription`, `Tick` | other writers of the rows, and time |

Requests in `Detached` are streams: their generator runs after FastAPI closed the
session of `get_db`, so the loaded `api_key` is no longer attached and its
assigned attribute is not flushed (`UsedInRow`). Costs, quotes and classifier
costs are inputs from small sets; `BalanceTx` and `UsageLog` rows are abstracted
to `logged`, the sum of `cost_cents` a request logs.

### Subscriptions and Orders

An API call is split where it reads without a lock: `LoadUser` (the balance, kept
as the answer to "does it cover the price"), `Look` / `LookOnly` (the checks,
remembering the row in `seen`), then the writing action. Writes and commit are
one step, because the first write locks its row until the commit; a
cycle of lock waits between a call and the worker ends with one side rolled
back, which is `Abort` or `WorkerFails`. Writing actions assign through
`Flushed`, so a stale session overwrites exactly the columns SQLAlchemy would.
The worker holds locks through a batch, so `Scan`, `Decide`, `ChargeRenewal` and
`WorkerCommit` are separate. `charge_user` is here a one-cent charge, the
finest grain, which like the code's may take the wallet below zero (down to
`-MaxDebt`); its detail is `Billing`'s. A callback is `Deliver` (the check of
the order's status) and `payment_callback` (credit and commit).

The branches "plan deleted" of `renew_subscription` and of the callback are
left out: `subscriptions.plan_id` and `orders.plan_id` are foreign keys without
`ON DELETE`, so the plan of a row always exists. Plans that are not on sale are
not in `Plans`. `canceled_at` and other timestamps no decision reads are left out.

### KeyCache

State: the `api_keys` row (`row`; status "deleted" when there is none), its owner's
status, a clock, the cache entries of each followed worker, the messages on their
way to it, the owner's call in progress, the past-due row a direct request has
loaded (`direct`), and the request being decided. `keyLive` records the last instant
for which an active row granted access (a row that expires at 3 and is disabled at 1
granted it until 1), `userLive` the last instant the owner was active; `raced`
records that a worker lost a message, that it cached a row that had changed while it
was being read, or that the direct relay wrote over a change.

| Actions | Code |
|---|---|
| `Load`, `CommitCall`, `invalidate_apikey` | `api/v1/api_keys.py`: load the row, assign, commit (only changed attributes are written), publish |
| `_scan_once`, `SweepPublish` | `services/api_key_expiry.py` |
| `PublisherDies` | a process that ends between commit and publication |
| `DirectLoad`, `enforce_key_state` | the direct relay: `core/deps.py` loads the row, `services/api_key.py` commits `expired` on it and tells no cache |
| `disable_user` | `disable_user` and `enable_user`, which invalidate nothing |
| `publish`, `Deliver`, `ListenerDies`, `Restart` | `core/cache_invalidate.py`; its listener task has no retry |
| `Crowded`, `Tick` | `core/ttl_cache.py`: eviction at `maxsize`, deadline |
| `Arrive`, `ReadKey`, `FillKey`, `ReadUser`, `FillUser` | `get_apikey_snapshot`, `get_user_snapshot`: cache, else SELECT, then fill |
| `Judge`, `EnforceRead`, `EnforceExpire`, `EnforcePublish` | `enforce_key_state_cached` (the expiry half): read, commit and publish are separated by awaits |
| `_decide`, `Answer` | the rest of ext_proc's decision, as an arbitrary outcome, and its answer |

`update_apikey_snapshot` has no action: the publish that follows it in every
caller runs the local eviction first and drops the entry it seeded.

### EnvoyPath and Routing

State: the wallet and subscription in PostgreSQL, the Redis counters (`cached`) with
the hydration lock, the rate bucket, the invalidation tasks, and per request its
place, route, bill and access-log entry. `excused` records that counters went
stale in a way no hook covers: the end of a period, `adjust_balance`, an immediate
`cancel_subscription`, a task that failed or died, or a hydration that stored what
it had read before a commit. `owed` is what the answer of a request is worth,
`paid` what has been charged for it.

| Actions | Code |
|---|---|
| `CheckSubs`, `has_quota_fast`, `hydrate_user_quota`, `LoadUser`, `LoadSubs`, `StoreCounters`, `QuotaError` | `services/quota_cache.py`, an action per Redis or PostgreSQL round trip that others can come between |
| `_fire_quota_invalidate`, `invalidate_user_quota`, `InvalidationFails` | the post-commit hook and its task |
| `rate_limit`, `SetExpiry` | `services/quota.py` |
| `ListModels`, `NoRoute`, `_decide` | the second half of `_decide`; the route is any outcome of `select_route` for the rows as they are |
| `chat_completions`, `responses`, `messages`, `embeddings`, `UpstreamAnswers`, `UpstreamFails` | the translator's endpoints: the same steps from `_load_candidates` on, which reads the rows again |
| `_bill_chat_relay`, `BillingFails`, `Abandon` | the bill, its failure, and a stream whose client leaves |
| `Deliver`, `Undelivered` | after the commit the answer is converted and sent, or is not |
| `_ingest_entry`, `EntryLost` | `services/envoy/als_server.py` |
| `resync_on_startup`, `Interrupted` | death and restart of the process; a decision Envoy gives up on |
| `topup_wallet`, `grant_subscription`, `cancel_subscription`, `Lapse`, `adjust_balance`, `PeerCharges`, `update_model` | who else writes the rows |

A charge is one step: its locks are `Billing`'s subject. `Routing` gives every
choice the code leaves to a random draw, to the prompt or to an embedding
provider as the set of its outcomes, so a property of `EnvoyPath` holds for each
of them; cosine similarities, token counts and country lookups are data behind
those sets. Image requests hold and reconcile as in `Billing`.

### Ads

State: the channels and the listener's port (as the number of changes), whether the
instance row exists, per process the registered event, the Redis subscription and
messages on their way, the stream Envoy is connected to with its sets `subscribed`,
`pending` and `todo`, the messages on it, and what Envoy runs. The version of a type
is the hash of its content, so content and version are the same here. Actions are
the loop of `StreamAggregatedResources` cut at its awaits (`Wake`,
`_build_resources`, `Push` per type), `_process_request`, the notification chain
(`update_channel`, `regenerate_all_running`, `notify_node`, `_pubsub_listener`), the
calls that announce nothing (`update_instance`, `delete_instance`), a channel that
cannot be rendered (`RenderRaises`: `urlparse` refuses its port, and the stream
ends), a database error (`StreamRaises`), the `finally` of a broken stream
(`CloseStale`) and a process crash. `missed` records that a change was announced to
nobody or not for all types; the properties except it, and say that there is no
other way. Envoy itself (`Receive`) is external: it subscribes in the order
clusters, listeners, routes. Of the states in `Bad`, those in `raises` (any subset,
chosen at the start) cannot be rendered and Envoy refuses the others.

### EnvoyRuntime

State: the row, the pid file, the `Popen` handle, the processes of the operating
system (booting, serving, zombie, gone), the administration calls with the row their
sessions loaded, and the health loop. `start` is `StartPorts`, `StartRaises`, `Spawn` or
`SpawnFails`, `RecordPid`, `StartReady`; `stop` is `Terminate`, `StopFinish`; restart
is both. Any commit may fail and end its call, Envoy may ignore SIGTERM, a kill may
fail, and so may the adoption at start-up, after which the api process runs
without its health monitor. `lost` records the events after which no stop finds a
running Envoy (a second one spawned, a row deleted under it, a handle dropped before
the pid is on record, an adoption that misses it); `abandoned` that the last start or
adoption ended in an exception and left the row as it was. The code lets both happen,
and the invariants say that nothing else does.

Remarks made while reading, which no run is about:

* the docstring of `runtime.py` says orphans are not adopted; `adopt_orphans` does;
* the comment in `_process_request` says a refused type is sent again after the
  operator has fixed it; it is sent again at once;
* `has_quota_fast` lets a request pass when Redis fails, but `rate_limit`,
  next, needs Redis too, and its error ends the stream: Envoy answers 500;
* ext_proc marks every request it admits as billed by the translator, so the
  charging branch of ALS is never taken today; nor is the classifier's, although the
  comment at `services/envoy/als_server.py:322-325` bills it "regardless of whether the
  relay itself succeeded": when every upstream fails nobody pays for the classifier,
  and `BilledExactly` lets such a request pay nothing;
* the docstring at `api/v1/admin/envoy.py:586-587` lets "port changes only take effect
  after restart", but `xds_server.py:152` renders the `listen_port` the row has now: one
  edited while the row says error or starting moves the listener of a connected Envoy
  with the next push (`update_instance` of `Ads`);
* a model disabled after the decision is still called and billed when no
  other candidate is left, since the header's model is not checked again.

## 3. The runs

| Run | Result |
|---|---|
| `billing` | passes: `TypeOK`, `SubsInBounds`, `QuotaBeforeWallet`, `ImplementsLedger` (refinement), `BillingEnds` (liveness); about 161 000 states |
| `image_hold` | `HoldNeverOverdraws` fails: two image requests pass the gate on one balance |
| `key_usage` | `KeyCountsEveryCent` fails: one request counts twice in `used_cents` |
| `refund_source` | `RefundReturnsToLiveSub` fails: the share of a live subscription the hold emptied goes to the wallet |
| `orders` | passes: `OrdersTypeOK`, `RemainingInBounds`, `WorkerActsOnCurrentRows`, `DueIsSettled`, `PaymentArrives` (liveness); about 384 000 states |
| `duplicate_callback` | `CreditedOnce` fails: overlapping callbacks both credit |
| `renew_twice` | `RenewedOnlyWhenLapsed` fails: `renew_now` charges after the worker renewed |
| `keys` | passes: `TypeOK`, `StaleOnlyByRace`, `AdmissionIsFresh`, `PastDueIsFlipped` (liveness); about 1 070 000 states |
| `ads` | passes: `TypeOK`, `NoSilentGap`, `Converges` (liveness); about 724 000 states |
| `runtime` | passes: `TypeOK`, `Tracked`, `StoppedIsQuiet`, `StartingIsBusy`, `StatusCatchesUp` (liveness); about 115 000 states |
| `envoy_path` | passes: `TypeOK`, `CountersFresh`, `BilledExactly`, `FundedIsServed`, `EmptyIsRefused` (liveness); about 319 000 states |
| `unfunded` | `UnfundedIsRefused` fails: a user in debt is let in for ever |

The six failing runs each check one sentence of the repository's own docs or
comments; `findings` in `PROJECT.json` quotes it.

Bounds of `billing`: one image request with two candidates and one streamed chat
request that bills outside its session; one subscription of 1 cent that expires at
time 1 and one of 2 cents that may be granted meanwhile; a wallet of 2; costs 1
and 3, so that a charge fits one subscription, spans both, reaches the wallet or
overdraws it; an actual cost above, equal to and below the quote; one top-up. Two
requests suffice for every lock cycle and for each pairwise race on a row; the
theorems cover any number. Bounds of `orders`: a monthly and a one-time plan, one
subscription of each, one call, one worker and one callback at a time, one
failure, one month boundary, a debt of at most 1; it starts with the monthly
subscription and an empty wallet, so that a renewal has to wait for the top-up.
`duplicate_callback` has two callbacks and no subscription, `renew_twice` a cent to
renew with.

Bounds of `keys`: one worker whose caches are followed and an unspecified rest that
only publishes, one request at a time, a TTL and a decision of one tick each,
three ticks, two changes, one fault, expiry date 1 or none, so that a key can be
changed, shortened or prolonged while a request that began before reads it, and be
used a TTL later. A second worker adds
nothing: workers share only row and messages. `ads`: two processes, so that a
notification has to cross, two changes of which the first, if it is to the channels,
is refused by Envoy or cannot be rendered, one fault, one message each way. `runtime`:
two calls, which may overlap, two processes, two port pairs, a threshold of two, three
faults: a call, its failure, a restart and a failed adoption fit in one behaviour;
longer sequences are the theorems' business.
`envoy_path`: one followed request (others are `PeerCharges` and the lock they may
hold), a wallet of -1 to 1, a subscription of 1, prices 1 and 2, four policies (weighted
with a fallback, round robin, smart by embedding and by rules), one edit of a row, one
task at a time, one fault. `unfunded` needs neither edit nor fault; its wallet
goes down to -2.

`ads` and `runtime` switch deadlock checking off: the changes, calls and faults are bounded, and after the last of them the control plane
rests. The others do not: `Served` is the legitimate end of `Billing`, the admin's
status switch keeps `Orders` moving, and requests keep arriving in `KeyCache` and
`EnvoyPath`.

Fairness. `Billing`: weak fairness of `Step` for each request (a handler that can
run does, the lock queue moves, the deadlock detector runs), and of `Answer` for
requests that are not streams: their HTTP calls have a timeout, while a
streaming call sets none. `BillingEnds` therefore excepts a
request that waits for its upstream. `Orders`: weak fairness of the worker's steps
(`_loop` runs for ever and survives a failed scan), of the delivery of a callback
(providers repeat one until it is answered) and of its handler. API calls, the customer
and the admin are under no obligation. `MaxFailures` bounds failures, so "failures
end" is part of what the liveness results assume.

`KeyCache`: weak fairness of the sweeper's scan and publish (`_loop` runs every five
minutes and survives errors); neither requests nor the listener have to move, so
`AdmissionIsFresh` is a safety property that a dead listener cannot break.
`EnvoyPath`: requests keep coming and are served, tasks run, Redis expires its keys;
top-ups and faults need not happen. `CountersExpire` is kept out of the time between
the two checks of one decision: the keys live an hour, a decision at most as long as
Envoy's message timeout. `FundedIsServed` has a premise: from some time on the user
no longer buys plans out of the wallet, since a purchase between the two SELECTs of
a hydration hides the money from both, and nothing but the customer ends that.
`Ads`: the loops run (an unrenderable table makes them raise each time), Redis is
reached again (the listener retries for ever), Envoy answers and reconnects.
`EnvoyRuntime`: the health loop runs, a supervisor restarts the backend, the lock of
a dead leader expires; administration calls need not make progress.

## 4. The proofs

Every invariant, action property and refinement that a passing run checks is also a
theorem: it holds for every value of the constants that meets the module's
assumptions, so for any number of requests, subscriptions, callers, workers,
processes and faults. The assumptions are typings (`Nat`, subsets, disjoint
sentinels) and four facts that a deployment has: there is a port to choose
(`Ports # {}`), an api process (`Procs # {}`), a policy names models that exist
(`PoliciesAssumption`: `_validate_modality` of `admin/routes.py` refuses a target or
a fallback that is not in the models table, and one deleted later is unusable),
and a user has finitely many subscriptions. TLC evaluates all of them.

Each proof has the same plan. The type invariant is split by owner, so that an
action's proof touches only what it writes. A safety property is seldom inductive;
its strengthening was checked by TLC on the run's instance before it was proved.
There is one step per action, and the temporal step combines them.

`BillingProofs`

* `TypeCorrect`: inductive as it stands. The substance is that `left`, the shares
  and the refunds never go below zero, which rests on `Lesser`.
* `SubsStayInBounds` (`SubsInBounds`): a commit publishes whatever the heap holds, so
  `LockInv` says that an unlocked row's two versions agree (`RowsClean`), both
  versions of a subscription are within its quota (`VersionsInBounds`), what a
  request read it has locked (`ReadsLocked`) and is still the row's value until it
  drains it (`ReadsFresh`), it drains only what it fetched (`DrainsFetched`), a
  share fits back under the quota and its row is locked (`SharesCovered`), and only
  subscriptions that exist are visited or locked (`OnlyIssued`), so that a grant
  never meets a reader.
* `QuotaFirst` (`QuotaBeforeWallet`), from `LockInv` and `DrainOrder`: what is left to
  visit ends no sooner than what was visited, and what was visited is empty unless
  nothing is left to charge.

`LedgerProofs`

* `BillingImplementsLedger` (`ImplementsLedger`): under the mapping of `L`, every step
  is a bill, a credit or a stutter. The invariant is `Balanced`: for each request,
  `Debit` (committed minus heap over the money rows it has locked) equals at every
  program counter what the code has logged, plus what it holds, plus what it is
  about to return, minus what it has still to take. In `plan` that is the loop
  invariant of `refund_to_sources`: what is left, the wallet's share and the shares
  already visited add up to the refund, and what is left fits the shares to come.
  `OwnBalance` reduces a step to the balance of the request that takes it: rows
  locked by others are not touched. `NotYet` (a subscription not yet granted is
  empty) makes a grant credit its whole quota.
* The mapping sums over sets. `SmallestSubset` (a nonempty set of subsets of a
  finite set has a minimal member, from the well-foundedness of strict inclusion)
  stands in for induction: a law of sums is proved by taking a minimal
  counterexample. `SumIsAdditive` ties `MapThenSumSet` to an additive function, and
  `SumRule`, `SumPlus`, `SumPoint`, `SumSplit` are what the steps cite.

`OrdersProofs`

* `TypeCorrect` (`OrdersTypeOK`), with `CallsTargeted`: a call under way works on a
  plan if it subscribes, on a subscription otherwise.
* `QuotaStaysInPlan` (`RemainingInBounds`).
* `WorkerIsCurrent` (`WorkerActsOnCurrentRows`), from `ScanInv`: the worker has locked
  what it has still to visit or has decided about, a locked row stays lapsed, and
  one to be renewed is not cancelled meanwhile.

`KeyCacheProofs`

* `TypeCorrect`; `StaleByRaceOnly` (`StaleOnlyByRace`).
* `AdmissionsAreFresh` (`AdmissionIsFresh`), from `FreshInv`: each copy of a
  permission, in a row, a cache or a decision, is tied to the instant the
  history last granted it; being stored late costs a copy at most `Latency`, being
  kept at most `TTL`. Looking for this invariant showed that an earlier history was
  wrong: it took a key to be good as long as some row said "active", also past the
  row's expiry date, and with a second expiry date TLC confirmed it.
* `StaleByRaceOnly` rests on `DirectPastDue`: what a direct request is about to expire
  is active and past due, so the change it never announces leaves entries that
  `enforce_key_state_cached` will not take at their word.

`EnvoyPathProofs`

* `TypeCorrect`, which includes that a request past `_load_candidates` has a
  candidate left; lemmas say what `Routing`'s operators return.
* `CountersStayFresh` (`CountersFresh`).
* `AnswersAreBilledExactly` (`BilledExactly`), from `Sound` and `LoggedIsOver`: a request
  has paid nothing before its bill and all it owes after it, what it owes while it is
  billed or streamed is the price of the head of its chain and of its classifier,
  only a request that is over has a log entry, and the header that names a model is
  set together with `x-llmxy-billed-sync`, which is why the access log never charges.

`AdsProofs`

* `TypeCorrect`, with the bounds that make it inductive: the table changes at most
  once per call, and a stream breaks at most once per fault.
* `GapsAreAnnounced` (`NoSilentGap`), with `BuiltCovered`: a push sends what was rendered
  when it began, so a change after the rendering must be announced again.

`EnvoyRuntimeProofs`

* `TypeCorrect`.
* `EnvoysAreTracked`, `StoppedMeansQuiet`, `StartingMeansBusy` (`Tracked`,
  `StoppedIsQuiet`, `StartingIsBusy`), from `RuntimeInv`, of which the first and the last
  are conjuncts: besides, unless `lost`, at most one Envoy runs (`OneEnvoy`), one that
  runs under a stopped row is in the hands of the start that spawned it
  (`StoppedIsHeld`), a start that is past its ports has seen its own "starting"
  (`SeenStarting`), so that its last write is flushed, a remote instance has no such
  call (`RemoteIdle`), and a dead api process has neither handle nor calls (`Down`).

Only model-checked: liveness (`BillingEnds`, `DueIsSettled`, `PaymentArrives`,
`PastDueIsFlipped`, `FundedIsServed`, `EmptyIsRefused`, `Converges`,
`StatusCatchesUp`), which is out of the prover's reach, and the six sentences that
the code does not keep, which have counterexamples.

## 5. Not modelled, and the plan

Left out for good: message formats, adapters and protocol translation (pure
functions on payloads), authentication tokens and OAuth, catalogue CRUD and
reports, seed data, and the web front ends.

Left out of modelled parts: the roll of a key's periodic quota window and the per-key
usage counter; `instance_stats`, logs and manifests of the Envoy administration
(reads); the port checks of `create_instance` against other instances (the model
has one); prices and image tiers (inputs); exemplar caches and warm-up of smart
routes (a cache of provider answers: `classify` may return either verdict anyway).

Next, in this order:

1. Proofs of what follows from the theorems and no run states yet: from `Ledger`, that
   the user's funds are what was credited minus all bills, for finitely many requests;
   the conditions under which the broken sentences do hold (callbacks of one
   order that never overlap credit it once; a hold that meets no other charge does
   not overdraw the wallet).
2. The quota window of a key: `enforce_key_state`, its cached twin, charges that
   race a roll, the mirrored usage counter.
3. More of `Subscriptions`: two subscriptions of one plan (purchase cap, one active
   subscription), the proration of an immediate cancel.
