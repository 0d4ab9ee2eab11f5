------------------------------ MODULE Billing ------------------------------
(***************************************************************************)
(* The money path of llmxy: how a relay request is gated, charged, held,   *)
(* refunded and committed (services/billing.py, services/image_relay.py    *)
(* and the relay handlers that call them).                                 *)
(*                                                                         *)
(* One user is modelled: rows of different users never meet.  The rows are *)
(* the user's wallet (users.balance_cents), one API key                    *)
(* (api_keys.used_cents) and the user's subscriptions                      *)
(* (subscriptions.remaining_cents).  Each request is one PostgreSQL        *)
(* transaction at READ COMMITTED: `committed' is what other transactions   *)
(* read, `heap' is the latest version of a row, written by the transaction *)
(* that holds the row's lock, and a commit or a rollback makes the two     *)
(* agree again.  SQLAlchemy's copies of the users and api_keys rows are    *)
(* balanceSeen and usedSeen, as old as the moment the request loaded them. *)
(***************************************************************************)
EXTENDS Integers, FiniteSetsExt, Orm

CONSTANTS
  Requests,        \* relay requests of the user, each served once
  ImageRequests,   \* those that run the hold / generate / reconcile flow
  Direct,          \* those of the direct relay, gated by has_quota
  Detached,        \* streams that bill after their session was closed
  Subs,            \* subscriptions the user has or will be granted
  InitialSubs,     \* those granted before the first request
  PeriodEnd,       \* current_period_end of each subscription
  Quota,           \* plan.quota_cents of each subscription
  Wallet, Key,     \* the users row and the api_keys row
  NoTx,            \* a row lock nobody holds
  Costs,           \* what an upstream answer may cost, in cents
  ClassifierCosts, \* what a smart-routing classification may cost
  KeyQuota,        \* api_keys.quota_cents, 0 for an unlimited key
  InitialBalance,
  TopupAmount,
  MaxTries,        \* candidates of an image request
  MaxTopups,       \* bound: wallet top-ups during the run
  MaxTime          \* bound: the last instant of the clock

Rows == Subs \union {Wallet, Key}

ASSUME RequestsAssumption ==
  /\ ImageRequests \subseteq Requests
  /\ Direct \subseteq Requests
  /\ Detached \subseteq Requests \ ImageRequests
  /\ NoTx \notin Requests

ASSUME RowsAssumption ==
  /\ IsFiniteSet(Subs) /\ InitialSubs \subseteq Subs
  /\ Wallet \notin Subs /\ Key \notin Subs /\ Wallet # Key
  /\ PeriodEnd \in [Subs -> Nat]
  /\ Quota \in [Subs -> Nat]

ASSUME AmountsAssumption ==
  /\ Costs \subseteq Nat /\ ClassifierCosts \subseteq Nat
  /\ KeyQuota \in Nat /\ InitialBalance \in Nat /\ TopupAmount \in Nat
  /\ MaxTries \in Nat \ {0} /\ MaxTopups \in Nat /\ MaxTime \in Nat

VARIABLES
  \* The database.
  committed,   \* [Rows -> Int]: the committed version of each row
  heap,        \* [Rows -> Int]: its latest version, committed or not
  lock,        \* [Rows -> Requests \union {NoTx}]: who holds the row lock
  issued,      \* the subscriptions that exist
  now,         \* the wall clock
  topups,      \* how many top-ups have been credited
  \* The requests.
  pc, ret,     \* where a request is, and where its charge or refund returns
  balanceSeen, \* user.balance_cents in its session
  usedSeen,    \* api_key.used_cents in its session
  todo,        \* the subscriptions its current loop has still to visit
  read,        \* remaining_cents as its FOR UPDATE read it; 0: not fetched
  cost, left,  \* the amount of its current charge or refund, and what is left
  subPart,     \* the share of each subscription in its breakdown
  walletPart,  \* the share of the wallet in its breakdown
  tries,       \* the image candidates it has not tried yet
  estimate,    \* the amount of its current hold
  logged       \* the cost_cents of the UsageLog rows it has added

world   == <<issued, now, topups>>
db      == <<committed, heap, lock, world>>
session == <<balanceSeen, usedSeen>>
call    == <<ret, todo, read, cost, left, subPart, walletPart>>
relay   == <<tries, estimate, logged>>
vars    == <<db, pc, session, call, relay>>

(***************************************************************************)
(* Where a request can be.  Every state between "gate" and "commit" is an  *)
(* await of the handler.                                                   *)
(***************************************************************************)
Charging  == {"lockCharge", "drain", "chargeKey"}
Refunding == {"lockRefund", "plan", "refundWallet", "refundSubs", "refundKey"}
Final     == {"done", "denied", "failed", "aborted"}
Waiting   == {"idle", "gate", "upstream", "quote", "hold", "generate",
              "classify", "commit"}
Returns   == {"quote", "generate", "classify", "commit"}

DbTypeOK ==
  /\ committed \in [Rows -> Int]
  /\ heap \in [Rows -> Int]
  /\ lock \in [Rows -> Requests \union {NoTx}]
  /\ issued \subseteq Subs
  /\ now \in Nat
  /\ topups \in Nat

CallTypeOK ==
  /\ pc \in [Requests -> Waiting \union Charging \union Refunding \union Final]
  /\ ret \in [Requests -> Returns]
  /\ todo \in [Requests -> SUBSET Subs]
  /\ read \in [Requests -> [Subs -> Nat]]
  /\ cost \in [Requests -> Nat]
  /\ left \in [Requests -> Nat]
  /\ subPart \in [Requests -> [Subs -> Nat]]
  /\ walletPart \in [Requests -> Nat]

RelayTypeOK ==
  /\ balanceSeen \in [Requests -> Int]
  /\ usedSeen \in [Requests -> Int]
  /\ tries \in [Requests -> Int]
  /\ estimate \in [Requests -> Nat]
  /\ logged \in [Requests -> Nat]

\* The amounts that a charge or a refund computes on its way are never
\* negative; the wallet and the key's counter may be.
TypeOK == DbTypeOK /\ CallTypeOK /\ RelayTypeOK

NoShare == [s \in Subs |-> 0]

Init ==
  /\ committed = [row \in Rows |->
                    IF row = Wallet THEN InitialBalance
                    ELSE IF row \in InitialSubs THEN Quota[row] ELSE 0]
  /\ heap = committed
  /\ lock = [row \in Rows |-> NoTx]
  /\ issued = InitialSubs
  /\ now = 0
  /\ topups = 0
  /\ pc = [r \in Requests |-> "idle"]
  /\ ret = [r \in Requests |-> "commit"]
  /\ balanceSeen = [r \in Requests |-> 0]
  /\ usedSeen = [r \in Requests |-> 0]
  /\ todo = [r \in Requests |-> {}]
  /\ read = [r \in Requests |-> NoShare]
  /\ cost = [r \in Requests |-> 0]
  /\ left = [r \in Requests |-> 0]
  /\ subPart = [r \in Requests |-> NoShare]
  /\ walletPart = [r \in Requests |-> 0]
  /\ tries = [r \in Requests |-> MaxTries]
  /\ estimate = [r \in Requests |-> 0]
  /\ logged = [r \in Requests |-> 0]

-----------------------------------------------------------------------------
(***************************************************************************)
(* Helpers.                                                                *)
(***************************************************************************)

SumOver(f, S) == MapThenSumSet(LAMBDA x : f[x], S)

Lesser(a, b) == IF a <= b THEN a ELSE b
Positive(a)  == IF a > 0 THEN a ELSE 0

\* A transaction sees its own writes and the commits of the others.
Visible(r, row) == IF lock[row] = r THEN heap[row] ELSE committed[row]

\* The row lock is free, or r's already.
MayLock(r, row) == lock[row] \in {NoTx, r}

\* The query of active_subscriptions, as r's snapshot answers it.
active_subscriptions(r) ==
  {s \in issued : PeriodEnd[s] > now /\ Visible(r, s) > 0}

\* Mutant: the ORDER BY is missing.
SoonestUnordered(S) == S

\* ORDER BY current_period_end: the rows that may come first.  Rows that
\* end at the same instant come in any order.
Soonest(S) == {s \in S : \A t \in S : PeriodEnd[s] <= PeriodEnd[t]}

available_cents(r) ==
  SumOver([s \in Subs |-> Visible(r, s)], active_subscriptions(r))
    + Positive(balanceSeen[r])

has_quota(r) ==
  /\ ~(KeyQuota > 0 /\ usedSeen[r] >= KeyQuota)
  /\ active_subscriptions(r) # {} \/ balanceSeen[r] > 0

\* api_key.used_cents changes by d: a bulk UPDATE of the row, which the
\* session mirrors onto an attached object (Believed) before the handler
\* assigns the attribute once more.
Believed(r, d) == usedSeen[r] + (IF r \in Detached THEN 0 ELSE d)

UsedInRow(r, d, assigned) ==
  IF r \in Detached THEN heap[Key] + d
  ELSE Flushed(heap[Key] + d, Believed(r, d), assigned)

-----------------------------------------------------------------------------
(***************************************************************************)
(* Transactions.                                                           *)
(***************************************************************************)

\* The rows r has locked get their new version, and the locks are freed.
EndTx(r, versions) ==
  /\ lock' = [row \in Rows |-> IF lock[row] = r THEN NoTx ELSE lock[row]]
  /\ committed' = [row \in Rows |->
                     IF lock[row] = r THEN versions[row] ELSE committed[row]]
  /\ heap' = [row \in Rows |->
                IF lock[row] = r THEN versions[row] ELSE heap[row]]

\* The handler returns: its locals are gone.
Return(r, outcome) ==
  /\ pc' = [pc EXCEPT ![r] = outcome]
  /\ ret' = [ret EXCEPT ![r] = "commit"]
  /\ balanceSeen' = [balanceSeen EXCEPT ![r] = 0]
  /\ usedSeen' = [usedSeen EXCEPT ![r] = 0]
  /\ todo' = [todo EXCEPT ![r] = {}]
  /\ read' = [read EXCEPT ![r] = NoShare]
  /\ cost' = [cost EXCEPT ![r] = 0]
  /\ left' = [left EXCEPT ![r] = 0]
  /\ subPart' = [subPart EXCEPT ![r] = NoShare]
  /\ walletPart' = [walletPart EXCEPT ![r] = 0]
  /\ tries' = [tries EXCEPT ![r] = 0]
  /\ estimate' = [estimate EXCEPT ![r] = 0]

Commit(r) ==
  /\ pc[r] = "commit"
  /\ EndTx(r, heap)
  /\ Return(r, "done")
  /\ UNCHANGED <<world, logged>>

\* The session is closed without a commit: what it wrote is undone.
Rollback(r, outcome) ==
  /\ EndTx(r, committed)
  /\ Return(r, outcome)
  /\ logged' = [logged EXCEPT ![r] = 0]
  /\ UNCHANGED world

-----------------------------------------------------------------------------
(***************************************************************************)
(* charge_user: lock the active subscriptions in the order they end, drain *)
(* them in that order, charge the remainder to the wallet, count the cost  *)
(* on the API key.                                                         *)
(***************************************************************************)

\* The call: a cost of zero returns an empty breakdown at once.
charge_user(r, c, next) ==
  /\ pc' = [pc EXCEPT ![r] = IF c <= 0 THEN next ELSE "lockCharge"]
  /\ ret' = [ret EXCEPT ![r] = next]
  /\ todo' = [todo EXCEPT ![r] = IF c <= 0 THEN {} ELSE active_subscriptions(r)]
  /\ read' = [read EXCEPT ![r] = NoShare]
  /\ cost' = [cost EXCEPT ![r] = c]
  /\ left' = [left EXCEPT ![r] = c]
  /\ subPart' = [subPart EXCEPT ![r] = NoShare]
  /\ walletPart' = [walletPart EXCEPT ![r] = 0]

\* Its return: the locals of the call are gone.  Only a hold keeps the
\* breakdown it returned.
EndCall(r, dropBreakdown) ==
  /\ todo' = [todo EXCEPT ![r] = {}]
  /\ read' = [read EXCEPT ![r] = NoShare]
  /\ cost' = [cost EXCEPT ![r] = 0]
  /\ left' = [left EXCEPT ![r] = 0]
  /\ subPart' = [subPart EXCEPT ![r] = IF dropBreakdown THEN NoShare ELSE @]
  /\ walletPart' = [walletPart EXCEPT ![r] = IF dropBreakdown THEN 0 ELSE @]

\* Mutant: the subscriptions are read without FOR UPDATE.
LockSubUnlocked(r, s) ==
  /\ pc[r] \in {"lockCharge", "lockRefund"}
  /\ s \in Soonest(todo[r])
  /\ todo' = [todo EXCEPT ![r] = @ \ {s}]
  /\ read' = [read EXCEPT ![r][s] = Positive(Visible(r, s))]
  /\ UNCHANGED <<db, pc, ret, session, cost, left, subPart, walletPart, relay>>

\* FOR UPDATE reaches the next row of the query: it waits for the lock, locks
\* the newest version, and skips the row if that has no quota left.
LockSub(r, s) ==
  /\ pc[r] \in {"lockCharge", "lockRefund"}
  /\ s \in Soonest(todo[r])
  /\ MayLock(r, s)
  /\ lock' = [lock EXCEPT ![s] = r]
  /\ todo' = [todo EXCEPT ![r] = @ \ {s}]
  /\ read' = [read EXCEPT ![r][s] = Positive(heap[s])]
  /\ UNCHANGED <<committed, heap, world, pc, ret, session, cost, left,
                    subPart, walletPart, relay>>

Fetched(r) == {s \in Subs : read[r][s] > 0}

\* The query is complete, and the charge starts to drain its rows.
StartDrain(r) ==
  /\ pc[r] = "lockCharge"
  /\ todo[r] = {}
  /\ pc' = [pc EXCEPT ![r] = "drain"]
  /\ todo' = [todo EXCEPT ![r] = Fetched(r)]
  /\ UNCHANGED <<db, ret, session, read, cost, left, subPart, walletPart,
                    relay>>

\* Mutant: the whole remaining quota is taken, whatever is left to charge.
DrainSubWhole(r, s) ==
  /\ pc[r] = "drain"
  /\ left[r] > 0
  /\ s \in Soonest(todo[r])
  /\ MayLock(r, s)
  /\ heap' = [heap EXCEPT ![s] = @ - read[r][s]]
  /\ left' = [left EXCEPT ![r] = @ - read[r][s]]
  /\ subPart' = [subPart EXCEPT ![r][s] = read[r][s]]
  /\ lock' = [lock EXCEPT ![s] = r]
  /\ todo' = [todo EXCEPT ![r] = @ \ {s}]
  /\ UNCHANGED <<committed, world, pc, ret, session, read, cost, walletPart,
                 relay>>

DrainSub(r, s) ==
  /\ pc[r] = "drain"
  /\ left[r] > 0
  /\ s \in Soonest(todo[r])
  /\ MayLock(r, s)
  /\ LET take == Lesser(read[r][s], left[r]) IN
       /\ heap' = [heap EXCEPT ![s] = @ - take]
       /\ left' = [left EXCEPT ![r] = @ - take]
       /\ subPart' = [subPart EXCEPT ![r][s] = take]
  /\ lock' = [lock EXCEPT ![s] = r]
  /\ todo' = [todo EXCEPT ![r] = @ \ {s}]
  /\ UNCHANGED <<committed, world, pc, ret, session, read, cost, walletPart,
                    relay>>

\* What no subscription covered is taken from the wallet, which nothing
\* stops from going below zero.
ChargeWallet(r) ==
  /\ pc[r] = "drain"
  /\ left[r] = 0 \/ todo[r] = {}
  /\ IF left[r] > 0
       THEN /\ MayLock(r, Wallet)
            /\ lock' = [lock EXCEPT ![Wallet] = r]
            /\ heap' = [heap EXCEPT ![Wallet] = @ - left[r]]
            /\ balanceSeen' = [balanceSeen EXCEPT ![r] = heap[Wallet] - left[r]]
       ELSE UNCHANGED <<lock, heap, balanceSeen>>
  /\ walletPart' = [walletPart EXCEPT ![r] = left[r]]
  /\ left' = [left EXCEPT ![r] = 0]
  /\ pc' = [pc EXCEPT ![r] = "chargeKey"]
  /\ UNCHANGED <<committed, world, usedSeen, ret, todo, read, cost, subPart,
                    relay>>

ChargeKey(r) ==
  LET assigned == Believed(r, cost[r]) + cost[r] IN
  /\ pc[r] = "chargeKey"
  /\ MayLock(r, Key)
  /\ lock' = [lock EXCEPT ![Key] = r]
  /\ heap' = [heap EXCEPT ![Key] = UsedInRow(r, cost[r], assigned)]
  /\ usedSeen' = [usedSeen EXCEPT ![r] = assigned]
  /\ pc' = [pc EXCEPT ![r] = ret[r]]
  /\ EndCall(r, ret[r] # "generate")
  /\ UNCHANGED <<committed, world, balanceSeen, ret, relay>>

-----------------------------------------------------------------------------
(***************************************************************************)
(* refund_to_sources: the wallet gets its share back first; the rest is    *)
(* planned over the subscriptions of the breakdown, and the share of one   *)
(* that active_subscriptions no longer returns is added to the wallet's.   *)
(***************************************************************************)

refund_to_sources(r, amount, next) ==
  LET wallet == Lesser(walletPart[r], amount) IN
  /\ pc' = [pc EXCEPT ![r] =
              IF amount > wallet THEN "lockRefund" ELSE "refundWallet"]
  /\ ret' = [ret EXCEPT ![r] = next]
  /\ todo' = [todo EXCEPT ![r] =
                IF amount > wallet THEN active_subscriptions(r) ELSE {}]
  /\ read' = [read EXCEPT ![r] = NoShare]
  /\ cost' = [cost EXCEPT ![r] = amount]
  /\ left' = [left EXCEPT ![r] = amount - wallet]
  /\ walletPart' = [walletPart EXCEPT ![r] = wallet]
  /\ subPart' = IF amount > wallet THEN subPart
                ELSE [subPart EXCEPT ![r] = NoShare]

StartPlan(r) ==
  /\ pc[r] = "lockRefund"
  /\ todo[r] = {}
  /\ pc' = [pc EXCEPT ![r] = "plan"]
  /\ todo' = [todo EXCEPT ![r] = {s \in Subs : subPart[r][s] > 0}]
  /\ UNCHANGED <<db, ret, session, read, cost, left, subPart, walletPart,
                    relay>>

\* One entry of the breakdown: subPart becomes what the subscription gets.
PlanSub(r, s) ==
  LET give == Lesser(subPart[r][s], left[r]) IN
  /\ pc[r] = "plan"
  /\ s \in Soonest(todo[r])
  /\ todo' = [todo EXCEPT ![r] = @ \ {s}]
  /\ left' = [left EXCEPT ![r] = @ - give]
  /\ subPart' = [subPart EXCEPT
                   ![r][s] = IF s \in Fetched(r) THEN give ELSE 0]
  /\ walletPart' = [walletPart EXCEPT
                      ![r] = IF s \in Fetched(r) THEN @ ELSE @ + give]
  /\ UNCHANGED <<db, pc, ret, session, read, cost, relay>>

EndPlan(r) ==
  /\ pc[r] = "plan"
  /\ todo[r] = {}
  /\ pc' = [pc EXCEPT ![r] = "refundWallet"]
  /\ UNCHANGED <<db, call, session, relay>>

RefundWallet(r) ==
  /\ pc[r] = "refundWallet"
  /\ IF walletPart[r] > 0
       THEN /\ MayLock(r, Wallet)
            /\ lock' = [lock EXCEPT ![Wallet] = r]
            /\ heap' = [heap EXCEPT ![Wallet] = @ + walletPart[r]]
            /\ balanceSeen' = [balanceSeen EXCEPT
                                 ![r] = heap[Wallet] + walletPart[r]]
       ELSE UNCHANGED <<lock, heap, balanceSeen>>
  /\ pc' = [pc EXCEPT ![r] = "refundSubs"]
  /\ UNCHANGED <<committed, world, usedSeen, call, relay>>

\* The rows were locked by the plan's query, so the UPDATEs never wait.
RefundSubs(r) ==
  /\ pc[r] = "refundSubs"
  /\ heap' = [row \in Rows |->
                IF row \in Subs THEN heap[row] + subPart[r][row] ELSE heap[row]]
  /\ subPart' = [subPart EXCEPT ![r] = NoShare]
  /\ pc' = [pc EXCEPT ![r] = "refundKey"]
  /\ UNCHANGED <<committed, lock, world, ret, session, todo, read, cost, left,
                    walletPart, relay>>

RefundKey(r) ==
  LET total    == cost[r] - left[r]
      assigned == Positive(Believed(r, -total) - total)
  IN
  /\ pc[r] = "refundKey"
  /\ IF total > 0
       THEN /\ MayLock(r, Key)
            /\ lock' = [lock EXCEPT ![Key] = r]
            /\ heap' = [heap EXCEPT ![Key] = UsedInRow(r, -total, assigned)]
            /\ usedSeen' = [usedSeen EXCEPT ![r] = assigned]
       ELSE UNCHANGED <<lock, heap, usedSeen>>
  /\ pc' = [pc EXCEPT ![r] = ret[r]]
  /\ EndCall(r, TRUE)
  /\ UNCHANGED <<committed, world, balanceSeen, ret, relay>>

-----------------------------------------------------------------------------
(***************************************************************************)
(* The relay handlers.                                                     *)
(***************************************************************************)

\* The handler loads the API key and its user into its session.
Load(r) ==
  /\ pc[r] = "idle"
  /\ balanceSeen' = [balanceSeen EXCEPT ![r] = committed[Wallet]]
  /\ usedSeen' = [usedSeen EXCEPT ![r] = committed[Key]]
  /\ pc' = [pc EXCEPT ![r] = "gate"]
  /\ UNCHANGED <<db, call, relay>>

\* The direct relay asks has_quota; a request that came through Envoy was
\* let in by ext_proc before this transaction began.
Gate(r) ==
  /\ pc[r] = "gate"
  /\ pc' = [pc EXCEPT ![r] =
              CASE r \in Direct /\ ~has_quota(r) -> "denied"
                [] r \in ImageRequests           -> "quote"
                [] OTHER                         -> "upstream"]
  /\ UNCHANGED <<db, call, session, relay>>

\* A candidate answered (a stream: its last chunk passed): bill it.
ChatAnswered(r, c) ==
  /\ pc[r] = "upstream"
  /\ charge_user(r, c, "classify")
  /\ logged' = [logged EXCEPT ![r] = c]
  /\ UNCHANGED <<db, session, tries, estimate>>

\* Every candidate failed: 502, nothing was written.
ChatFailed(r) ==
  /\ pc[r] = "upstream"
  /\ Rollback(r, "failed")

\* Smart routing's classifier call is billed in the same transaction.
Classify(r, c) ==
  /\ pc[r] = "classify"
  /\ charge_user(r, c, "commit")
  /\ logged' = [logged EXCEPT ![r] = @ + c]
  /\ UNCHANGED <<db, session, tries, estimate>>

\* An image candidate is quoted at e and passes the gate of available_cents,
Quote(r, e) ==
  /\ pc[r] = "quote"
  /\ e = 0 \/ available_cents(r) >= e
  /\ pc' = [pc EXCEPT ![r] = "hold"]
  /\ estimate' = [estimate EXCEPT ![r] = e]
  /\ UNCHANGED <<db, session, call, tries, logged>>

\* ... after which the estimate is charged as a hold,
Hold(r) ==
  /\ pc[r] = "hold"
  /\ charge_user(r, estimate[r], "generate")
  /\ UNCHANGED <<db, session, relay>>

\* ... or refused with 402, which ends the handler without a commit.
QuoteRefused(r, e) ==
  /\ pc[r] = "quote"
  /\ e > 0 /\ available_cents(r) < e
  /\ Rollback(r, "denied")

\* Where the candidate loop goes when this candidate is given up: the next
\* one or, after the last, the commit; an answer of 200 without images also
\* bills the classifier.
AfterCandidate(r, status) ==
  CASE tries[r] > 1 -> "quote"
    [] status = 200 -> "classify"
    [] OTHER        -> "commit"

\* The candidate has no image adapter, or its connector not the protocol.
SkipCandidate(r) ==
  /\ pc[r] = "quote"
  /\ pc' = [pc EXCEPT ![r] = AfterCandidate(r, 502)]
  /\ tries' = [tries EXCEPT ![r] = @ - 1]
  /\ UNCHANGED <<db, call, session, estimate, logged>>

\* Images came back and cost a: return or charge the difference to the hold.
Generated(r, a) ==
  /\ pc[r] = "generate"
  /\ IF a < estimate[r]
       THEN refund_to_sources(r, estimate[r] - a, "classify")
       ELSE charge_user(r, a - estimate[r], "classify")
  /\ logged' = [logged EXCEPT ![r] = a]
  /\ estimate' = [estimate EXCEPT ![r] = 0]
  /\ UNCHANGED <<db, session, tries>>

\* Mutant: a failed attempt keeps its hold.
GenerateFailedKeepsHold(r, status) ==
  /\ pc[r] = "generate"
  /\ pc' = [pc EXCEPT ![r] = AfterCandidate(r, status)]
  /\ tries' = [tries EXCEPT ![r] = @ - 1]
  /\ UNCHANGED <<db, session, call, estimate, logged>>

\* Mutant: a failed attempt is retried on the same candidate.
GenerateFailedRetries(r, status) ==
  /\ pc[r] = "generate"
  /\ IF estimate[r] > 0
       THEN refund_to_sources(r, estimate[r], "quote")
       ELSE /\ pc' = [pc EXCEPT ![r] = "quote"]
            /\ UNCHANGED call
  /\ estimate' = [estimate EXCEPT ![r] = 0]
  /\ UNCHANGED <<db, session, tries, logged>>

\* An error, a timeout or an empty answer: return the whole hold.
GenerateFailed(r, status) ==
  /\ pc[r] = "generate"
  /\ IF estimate[r] > 0
       THEN refund_to_sources(r, estimate[r], AfterCandidate(r, status))
       ELSE /\ pc' = [pc EXCEPT ![r] = AfterCandidate(r, status)]
            /\ UNCHANGED call
  /\ tries' = [tries EXCEPT ![r] = @ - 1]
  /\ estimate' = [estimate EXCEPT ![r] = 0]
  /\ UNCHANGED <<db, session, logged>>

\* The client went away, the process died or a statement raised.
Abort(r) ==
  /\ pc[r] \notin Final \union {"idle"}
  /\ Rollback(r, "aborted")

-----------------------------------------------------------------------------
(***************************************************************************)
(* Lock waits.  PostgreSQL aborts one transaction of a waits-for cycle.    *)
(***************************************************************************)

\* The rows that r's next statement may be waiting for.
Wanted(r) ==
  CASE pc[r] \in {"lockCharge", "lockRefund"}         -> Soonest(todo[r])
    [] pc[r] = "drain" /\ left[r] > 0 /\ todo[r] = {} -> {Wallet}
    [] pc[r] = "refundWallet" /\ walletPart[r] > 0    -> {Wallet}
    [] pc[r] \in {"chargeKey", "refundKey"}           -> {Key}
    [] OTHER                                          -> {}

WaitsFor(r) == {lock[row] : row \in Wanted(r)} \ {NoTx, r}

DeadlockVictim(r) ==
  /\ \E C \in SUBSET Requests :
       r \in C /\ \A q \in C : WaitsFor(q) \intersect C # {}
  /\ Rollback(r, "aborted")

-----------------------------------------------------------------------------
(***************************************************************************)
(* The rest of the system, as far as it writes these rows.                 *)
(***************************************************************************)

\* topup_wallet, in the transaction of a paid order.
topup_wallet ==
  /\ topups < MaxTopups
  /\ lock[Wallet] = NoTx
  /\ committed' = [committed EXCEPT ![Wallet] = @ + TopupAmount]
  /\ heap' = [heap EXCEPT ![Wallet] = @ + TopupAmount]
  /\ topups' = topups + 1
  /\ UNCHANGED <<lock, issued, now, pc, session, call, relay>>

\* grant_subscription inserts a row with the plan's whole quota.
grant_subscription(s) ==
  /\ s \notin issued
  /\ PeriodEnd[s] > now
  /\ issued' = issued \union {s}
  /\ committed' = [committed EXCEPT ![s] = Quota[s]]
  /\ heap' = [heap EXCEPT ![s] = Quota[s]]
  /\ UNCHANGED <<lock, now, topups, pc, session, call, relay>>

Tick ==
  /\ now < MaxTime
  /\ now' = now + 1
  /\ UNCHANGED <<committed, heap, lock, issued, topups, pc, session, call,
                    relay>>

-----------------------------------------------------------------------------

\* The upstream's answers.
Answer(r) ==
  \/ \E c \in Costs : ChatAnswered(r, c)
  \/ ChatFailed(r)

\* Every other step of the handler.
Step(r) ==
  \/ Gate(r)
  \/ \E c \in ClassifierCosts : Classify(r, c)
  \/ \E e \in Costs : Quote(r, e) \/ QuoteRefused(r, e)
  \/ Hold(r)
  \/ SkipCandidate(r)
  \/ \E a \in Costs : Generated(r, a)
  \/ \E status \in {200, 502} : GenerateFailed(r, status)
  \/ \E s \in Subs : LockSub(r, s) \/ DrainSub(r, s) \/ PlanSub(r, s)
  \/ StartDrain(r) \/ ChargeWallet(r) \/ ChargeKey(r)
  \/ StartPlan(r) \/ EndPlan(r)
  \/ RefundWallet(r) \/ RefundSubs(r) \/ RefundKey(r)
  \/ Commit(r)
  \/ DeadlockVictim(r)

\* All requests have been served.
Served ==
  /\ \A r \in Requests : pc[r] \in Final
  /\ UNCHANGED vars

Next ==
  \/ \E r \in Requests : Load(r) \/ Answer(r) \/ Step(r) \/ Abort(r)
  \/ \E s \in Subs : grant_subscription(s)
  \/ topup_wallet
  \/ Tick
  \/ Served

\* Handlers, the row locks' queue and the deadlock detector make progress,
\* and an upstream call that is not a stream ends by its HTTP timeout.
Fairness ==
  /\ \A r \in Requests : WF_vars(Step(r))
  /\ \A r \in Requests \ Detached : WF_vars(Answer(r))

Spec == Init /\ [][Next]_vars /\ Fairness

-----------------------------------------------------------------------------
(***************************************************************************)
(* Properties.                                                             *)
(***************************************************************************)

\* A subscription is never overdrawn and never holds more than its plan
\* granted, whatever charges, holds and refunds overlap: charge_user takes
\* min(remaining, cost) of a value it read FOR UPDATE, and
\* refund_to_sources gives back at most what the hold took.
SubsInBounds ==
  \A s \in Subs : committed[s] \in 0 .. Quota[s]

\* charge_user drains quota by nearest period end and turns to the wallet
\* last: a subscription is charged only when those it fetched that end
\* sooner are empty, and the wallet only when all that it fetched are.
QuotaBeforeWallet ==
  \A r \in Requests : pc[r] \in {"drain", "chargeKey"} =>
    \A t \in Fetched(r) :
      \/ heap[t] = 0
      \/ /\ walletPart[r] = 0
         /\ \A s \in Fetched(r) :
              PeriodEnd[s] > PeriodEnd[t] => subPart[r][s] = 0

\* Money moves only in commits: each commit takes exactly the cost_cents of
\* the UsageLog rows it adds from the wallet and the subscriptions, an
\* aborted, denied or failed request takes nothing, and no request is billed
\* twice.  (The abstract specification is module Ledger.)
L == INSTANCE Ledger WITH
       funds    <- SumOver(committed, Rows \ {Key}),
       credited <- InitialBalance + topups * TopupAmount + SumOver(Quota, issued),
       bill     <- [r \in Requests |->
                      IF pc[r] = "done" THEN logged[r] ELSE -1]
ImplementsLedger == L!Spec

\* Whatever rows it must wait for, a request that began to bill or to hold
\* ends: row locks are never kept for ever, and a cycle of waits is broken.
BillingEnds ==
  \A r \in Requests :
    pc[r] \notin Final \union {"idle", "upstream"} ~> pc[r] \in Final
                                                      \union {"upstream"}

\* "Gate before holding so the pre-deduction can never drive a balance
\* negative" (image_relay.py): no image hold leaves the wallet below zero.
HoldNeverOverdraws ==
  \A r \in ImageRequests :
    pc[r] = "generate" /\ walletPart[r] > 0 => heap[Wallet] >= 0

\* charge_user "increments API key usage": when no request is under way, the
\* key's used_cents is the sum of what its requests were billed.
KeyCountsEveryCent ==
  (\A r \in Requests : pc[r] \in Final \union {"idle"}) =>
    committed[Key] =
      SumOver(logged, {r \in Requests : pc[r] = "done"})

\* refund_to_sources returns money "to the exact sources", and only "an
\* expired subscription's share is routed to the wallet": planning the share
\* of a subscription whose period still runs leaves the wallet's share alone.
RefundReturnsToLiveSub ==
  [][\A r \in Requests : \A s \in Subs :
       PlanSub(r, s) /\ PeriodEnd[s] > now => walletPart'[r] = walletPart[r]]_vars
=============================================================================
