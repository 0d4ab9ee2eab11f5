--------------------------- MODULE Subscriptions ---------------------------
(***************************************************************************)
(* The life of one user's subscriptions: subscribing from the wallet,      *)
(* cancelling, resuming, renewing by hand, and the renewal worker          *)
(* (api/v1/plans.py, api/v1/subscriptions.py, services/billing.py and      *)
(* services/subscriptions_renewal.py).                                     *)
(*                                                                         *)
(* An API call reads the rows it decides on without a lock and writes      *)
(* later.  Its writes and its commit are one step here: the first write    *)
(* locks its row until the commit, so nobody sees them apart, and a cycle  *)
(* of lock waits ends with one side rolled back, which is Abort or         *)
(* WorkerFails.  The worker reads FOR UPDATE SKIP LOCKED and keeps the     *)
(* locks through its whole batch, so its steps are told apart.             *)
(***************************************************************************)
EXTENDS Integers, FiniteSets, Orm

CONSTANTS
  Plans,          \* the plans on offer
  OneTime,        \* those with plan_type one_time; the others recur monthly
  Price,          \* plan.price_cents
  PlanQuota,      \* plan.quota_cents
  MaxPurchases,   \* plan.max_purchases_per_user of a one-time plan
  Subs,           \* bound: the subscriptions that can ever be created
  Bought,         \* bound: those of them kept for paid orders
  PlanOf,         \* the plan of each subscription
  InitialSubs,    \* those that exist at the start
  Callers,        \* concurrent API calls of the user
  Workers,        \* renewal workers, one per API process
  NoOne,          \* a lock nobody holds, a call without a target
  InitialBalance,
  MaxDebt,        \* bound: how far below zero charges take the wallet
  Month,          \* instants in a calendar month
  Duration,       \* plan.duration_days of the one-time plans
  MaxTime,        \* bound: the last instant of the clock
  MaxFailures     \* bound: renewal scans that fail

ASSUME PlansAssumption ==
  /\ OneTime \subseteq Plans
  /\ Price \in [Plans -> Nat]
  /\ PlanQuota \in [Plans -> Nat]
  /\ MaxPurchases \in Nat
  /\ InitialSubs \subseteq Subs /\ Bought \subseteq Subs
  /\ PlanOf \in [Subs -> Plans]

ASSUME BoundsAssumption ==
  /\ NoOne \notin Workers
  /\ InitialBalance \in Nat /\ MaxDebt \in Nat /\ MaxTime \in Nat /\ MaxFailures \in Nat
  /\ Month \in Nat \ {0} /\ Duration \in Nat \ {0}

VARIABLES
  wallet,      \* users.balance_cents, committed
  userActive,  \* users.status is active
  now,         \* the wall clock
  \* The subscriptions table, committed.
  status, remaining, end, cancelAtEnd,
  rowLock,     \* [Subs -> Workers \union {NoOne}]
  walletLock,  \* the worker that has an uncommitted write of the wallet
  \* The API calls.
  pc, op, target,
  affords,     \* user.balance_cents in the call's session covers the price
  seen,        \* the subscription as the call's session loaded it
  \* The workers.
  batch,       \* rows the scan returned and the loop has still to visit
  outcome,     \* what the loop decided for each of its rows
  due,         \* the price about to be charged
  debit,       \* what the scan has taken from the wallet so far
  failures     \* scans that failed

user    == <<wallet, userActive>>
table   == <<status, remaining, end, cancelAtEnd>>
calls   == <<pc, op, target, affords, seen>>
workers == <<rowLock, walletLock, batch, outcome, due, debit, failures>>
subVars == <<user, now, table, calls, workers>>

Statuses == {"none", "active", "past_due", "canceled", "expired"}
Outcomes == {"none", "renewed", "closed", "inactive", "past_due"}
Ops      == {"subscribe", "cancel", "cancelAtEnd", "resume", "renew"}
Nothing  == [status |-> "none", remaining |-> 0, end |-> 0,
             cancelAtEnd |-> FALSE]

SubsTypeOK ==
  /\ wallet \in Int /\ userActive \in BOOLEAN /\ now \in 0 .. MaxTime
  /\ status \in [Subs -> Statuses]
  /\ remaining \in [Subs -> Nat]
  /\ end \in [Subs -> Nat]
  /\ cancelAtEnd \in [Subs -> BOOLEAN]
  /\ rowLock \in [Subs -> Workers \union {NoOne}]
  /\ walletLock \in Workers \union {NoOne}
  /\ pc \in [Callers -> {"idle", "loaded", "write"}]
  /\ op \in [Callers -> Ops \union {"none"}]
  /\ target \in [Callers -> Subs \union Plans \union {NoOne}]
  /\ affords \in [Callers -> BOOLEAN]
  /\ seen \in [Callers -> [status : Statuses, remaining : Nat, end : Nat,
                           cancelAtEnd : BOOLEAN]]
  /\ batch \in [Workers -> SUBSET Subs]
  /\ outcome \in [Workers -> [Subs -> Outcomes]]
  /\ due \in [Workers -> Nat] /\ debit \in [Workers -> Nat]
  /\ failures \in 0 .. MaxFailures

-----------------------------------------------------------------------------
(***************************************************************************)
(* services/billing.py                                                     *)
(***************************************************************************)

\* The first day of the next calendar month.
next_period_end(t) == (t \div Month + 1) * Month

initial_period_end(p) ==
  IF p \in OneTime THEN now + Duration ELSE next_period_end(now)

\* Serving quota in the current period.
Live(s) == status[s] = "active" /\ end[s] > now

\* renew_subscription's decision about a subscription of a user.
renew_subscription(s, cancelled, isActive, affordable) ==
  CASE cancelled                    -> "closed"
    [] PlanOf[s] \in OneTime        -> "closed"
    [] ~isActive                    -> "inactive"
    [] ~affordable                  -> "past_due"
    [] OTHER                        -> "renewed"

\* ... and what it assigns to the row.
NewStatus(o) ==
  CASE o = "renewed"  -> "active"
    [] o = "past_due" -> "past_due"
    [] OTHER          -> "expired"

\* Mutant: unused quota rolls over into the next period.
NewRemainingRollover(o, s, old) ==
  IF o = "renewed" THEN old + PlanQuota[PlanOf[s]] ELSE old

NewRemaining(o, s, old) ==
  CASE o = "renewed"  -> PlanQuota[PlanOf[s]]
    [] o = "inactive" -> old
    [] OTHER          -> 0
NewEnd(o, old) == IF o = "renewed" THEN next_period_end(old) ELSE old

\* grant_subscription inserts a row of plan p with the whole quota.
grant_subscription(s, p) ==
  /\ status[s] = "none" /\ PlanOf[s] = p
  /\ status' = [status EXCEPT ![s] = "active"]
  /\ remaining' = [remaining EXCEPT ![s] = PlanQuota[p]]
  /\ end' = [end EXCEPT ![s] = initial_period_end(p)]
  /\ UNCHANGED cancelAtEnd

\* Mutant: the query does not ask for remaining_cents > 0.
charge_user_empty ==
  \E s \in Subs :
    /\ Live(s)
    /\ rowLock[s] = NoOne
    /\ remaining' = [remaining EXCEPT ![s] = @ - 1]
    /\ UNCHANGED <<user, now, status, end, cancelAtEnd, calls, workers>>

\* charge_user, seen from here: one cent of a request is taken from the live
\* subscription that ends first, or else from the wallet, which may go below zero.
charge_user ==
  LET funded == {s \in Subs : Live(s) /\ remaining[s] > 0} IN
  /\ \/ \E s \in funded :
          /\ \A t \in funded : end[s] <= end[t]
          /\ rowLock[s] = NoOne
          /\ remaining' = [remaining EXCEPT ![s] = @ - 1]
          /\ UNCHANGED wallet
     \/ /\ funded = {} /\ wallet > -MaxDebt
        /\ walletLock = NoOne
        /\ wallet' = wallet - 1
        /\ UNCHANGED remaining
  /\ UNCHANGED <<userActive, now, status, end, cancelAtEnd, calls,
                 workers>>

-----------------------------------------------------------------------------
(***************************************************************************)
(* API calls.  Each loads the user, then looks at the subscriptions, and   *)
(* either returns at once or goes on to its writes.                        *)
(***************************************************************************)

\* The call has returned, committed or rolled back: its locals are gone.
Return(c) ==
  /\ pc' = [pc EXCEPT ![c] = "idle"]
  /\ op' = [op EXCEPT ![c] = "none"]
  /\ target' = [target EXCEPT ![c] = NoOne]
  /\ affords' = [affords EXCEPT ![c] = FALSE]
  /\ seen' = [seen EXCEPT ![c] = Nothing]

\* subscribe_with_balance: no live subscription of the plan, the purchase
\* cap not reached, and the price within the balance.
MaySubscribe(p, affordable) ==
  /\ ~\E s \in Subs : PlanOf[s] = p /\ Live(s)
  /\ p \in OneTime =>
       Cardinality({s \in Subs : PlanOf[s] = p /\ status[s] # "none"})
         < MaxPurchases
  /\ Price[p] = 0 \/ affordable

\* The checks before the first write.
Proceeds(o, x, affordable) ==
  CASE o = "subscribe"   -> MaySubscribe(x, affordable)
    [] o = "cancel"      -> status[x] \in {"active", "past_due"}
    [] o = "cancelAtEnd" -> status[x] \in {"active", "past_due"}
                            /\ ~cancelAtEnd[x]
    [] o = "resume"      -> status[x] \in {"active", "past_due"}
                            /\ cancelAtEnd[x]
    [] o = "renew"       -> ~Live(x) /\ status[x] \in {"active", "past_due"}

Row(s) == [status |-> status[s], remaining |-> remaining[s], end |-> end[s],
           cancelAtEnd |-> cancelAtEnd[s]]

\* get_current_user loads the user into the session of a call that will
\* look at the balance.
LoadUser(c, o, x) ==
  /\ pc[c] = "idle"
  /\ userActive
  /\ \/ o = "subscribe" /\ x \in Plans
     \/ o = "renew" /\ x \in Subs /\ status[x] # "none"
  /\ pc' = [pc EXCEPT ![c] = "loaded"]
  /\ op' = [op EXCEPT ![c] = o]
  /\ target' = [target EXCEPT ![c] = x]
  /\ affords' = [affords EXCEPT ![c] =
                   wallet >= Price[IF x \in Plans THEN x ELSE PlanOf[x]]]
  /\ UNCHANGED <<user, now, table, seen, workers>>

\* ... which then looks at the subscriptions and goes on to its writes,
Look(c) ==
  /\ pc[c] = "loaded"
  /\ Proceeds(op[c], target[c], affords[c])
  /\ pc' = [pc EXCEPT ![c] = "write"]
  /\ seen' = [seen EXCEPT ![c] =
                IF op[c] = "renew" THEN Row(target[c]) ELSE Nothing]
  /\ UNCHANGED <<user, now, table, op, target, affords, workers>>

\* ... or returns at once.
Refuse(c) ==
  /\ pc[c] = "loaded"
  /\ ~Proceeds(op[c], target[c], affords[c])
  /\ Return(c)
  /\ UNCHANGED <<user, now, table, workers>>

\* The calls that never look at the balance; one that is refused changes
\* nothing.
LookOnly(c, o, s) ==
  /\ pc[c] = "idle"
  /\ userActive
  /\ Proceeds(o, s, TRUE)
  /\ pc' = [pc EXCEPT ![c] = "write"]
  /\ op' = [op EXCEPT ![c] = o]
  /\ target' = [target EXCEPT ![c] = s]
  /\ seen' = [seen EXCEPT ![c] = IF o = "cancel" THEN Row(s) ELSE Nothing]
  /\ UNCHANGED <<user, now, table, affords, workers>>

Abort(c) ==
  /\ pc[c] \in {"loaded", "write"}
  /\ Return(c)
  /\ UNCHANGED <<user, now, table, workers>>

\* The UPDATE ... balance_cents + d of the write phase.
AddToWallet(d) ==
  /\ d # 0 => walletLock = NoOne
  /\ wallet' = wallet + d

subscribe_with_balance(c) ==
  /\ pc[c] = "write" /\ op[c] = "subscribe"
  /\ AddToWallet(-Price[target[c]])
  /\ \E s \in Subs \ Bought : grant_subscription(s, target[c])
  /\ Return(c)
  /\ UNCHANGED <<userActive, now, workers>>

\* cancel_subscription with at_period_end=false: the refund is prorated by
\* the remaining quota that the session loaded.
cancel_now(c) ==
  LET s == target[c]
      p == PlanOf[s]
      refund == IF Price[p] > 0 /\ PlanQuota[p] > 0
                  THEN (Price[p] * seen[c].remaining) \div PlanQuota[p]
                  ELSE 0
  IN
  /\ pc[c] = "write" /\ op[c] = "cancel"
  /\ rowLock[s] = NoOne
  /\ AddToWallet(IF refund > Price[p] THEN Price[p] ELSE refund)
  /\ status' = [status EXCEPT ![s] = "canceled"]
  /\ cancelAtEnd' = [cancelAtEnd EXCEPT
                       ![s] = Flushed(@, seen[c].cancelAtEnd, TRUE)]
  /\ remaining' = [remaining EXCEPT ![s] = Flushed(@, seen[c].remaining, 0)]
  /\ end' = [end EXCEPT ![s] = Flushed(@, seen[c].end, now)]
  /\ Return(c)
  /\ UNCHANGED <<userActive, now, workers>>

\* cancel_subscription with at_period_end=true, and resume_subscription.
schedule_cancel(c, o, flag) ==
  /\ pc[c] = "write" /\ op[c] = o
  /\ rowLock[target[c]] = NoOne
  /\ cancelAtEnd' = [cancelAtEnd EXCEPT ![target[c]] = flag]
  /\ Return(c)
  /\ UNCHANGED <<user, now, status, remaining, end, workers>>

cancel_at_period_end(c) == schedule_cancel(c, "cancelAtEnd", TRUE)
resume_subscription(c)  == schedule_cancel(c, "resume", FALSE)

\* renew_now: renew_subscription on the row the session loaded.
renew_now(c) ==
  LET s == target[c]
      o == renew_subscription(s, seen[c].cancelAtEnd, TRUE, affords[c])
  IN
  /\ pc[c] = "write" /\ op[c] = "renew"
  /\ rowLock[s] = NoOne
  /\ AddToWallet(IF o = "renewed" THEN -Price[PlanOf[s]] ELSE 0)
  /\ status' = [status EXCEPT ![s] = Flushed(@, seen[c].status, NewStatus(o))]
  /\ remaining' = [remaining EXCEPT ![s] =
                     Flushed(@, seen[c].remaining,
                             NewRemaining(o, s, seen[c].remaining))]
  /\ end' = [end EXCEPT ![s] = Flushed(@, seen[c].end, NewEnd(o, seen[c].end))]
  /\ Return(c)
  /\ UNCHANGED <<userActive, now, cancelAtEnd, workers>>

-----------------------------------------------------------------------------
(***************************************************************************)
(* The renewal worker, _scan_once.                                         *)
(***************************************************************************)

\* Mutant: the query forgets past_due.
LapsedActive(s) == status[s] = "active" /\ end[s] <= now

Lapsed(s) == status[s] \in {"active", "past_due"} /\ end[s] <= now

Idle(w) == \A s \in Subs : rowLock[s] # w

\* Mutant: the scan does not lock what it read.
ScanUnlocked(w) ==
  LET rows == {s \in Subs : Lapsed(s)} IN
  /\ batch[w] = {} /\ outcome[w] = [s \in Subs |-> "none"]
  /\ rows # {}
  /\ batch' = [batch EXCEPT ![w] = rows]
  /\ UNCHANGED <<user, now, table, calls, rowLock, walletLock, outcome, due,
                 debit, failures>>

\* SELECT ... FOR UPDATE SKIP LOCKED.  A scan that finds nothing changes
\* nothing.
Scan(w) ==
  LET rows == {s \in Subs : Lapsed(s) /\ rowLock[s] = NoOne} IN
  /\ Idle(w)
  /\ rows # {}
  /\ rowLock' = [s \in Subs |-> IF s \in rows THEN w ELSE rowLock[s]]
  /\ batch' = [batch EXCEPT ![w] = rows]
  /\ UNCHANGED <<user, now, table, calls, walletLock, outcome, due, debit,
                 failures>>

\* The loop loads the user and decides about the next row.
Decide(w, s) ==
  LET o == renew_subscription(s, cancelAtEnd[s], userActive,
                              wallet - debit[w] >= Price[PlanOf[s]])
  IN
  /\ s \in batch[w] /\ due[w] = 0
  /\ batch' = [batch EXCEPT ![w] = @ \ {s}]
  /\ outcome' = [outcome EXCEPT ![w][s] = o]
  /\ due' = [due EXCEPT ![w] = IF o = "renewed" THEN Price[PlanOf[s]] ELSE 0]
  /\ UNCHANGED <<user, now, table, calls, rowLock, walletLock, debit,
                 failures>>

\* ... and takes the price from the wallet, if it is to be renewed.
ChargeRenewal(w) ==
  /\ due[w] > 0
  /\ walletLock \in {NoOne, w}
  /\ walletLock' = w
  /\ debit' = [debit EXCEPT ![w] = @ + due[w]]
  /\ due' = [due EXCEPT ![w] = 0]
  /\ UNCHANGED <<user, now, table, calls, rowLock, batch, outcome, failures>>

EndScan(w) ==
  /\ rowLock' = [s \in Subs |-> IF rowLock[s] = w THEN NoOne ELSE rowLock[s]]
  /\ walletLock' = IF walletLock = w THEN NoOne ELSE walletLock
  /\ batch' = [batch EXCEPT ![w] = {}]
  /\ outcome' = [outcome EXCEPT ![w] = [s \in Subs |-> "none"]]
  /\ due' = [due EXCEPT ![w] = 0]
  /\ debit' = [debit EXCEPT ![w] = 0]

\* One commit for the whole batch.
WorkerCommit(w) ==
  LET o == outcome[w]
      visited == {s \in Subs : o[s] # "none"}
  IN
  /\ visited # {} /\ batch[w] = {} /\ due[w] = 0
  /\ wallet' = wallet - debit[w]
  /\ status' = [s \in Subs |->
                  IF s \in visited THEN NewStatus(o[s]) ELSE status[s]]
  /\ remaining' = [s \in Subs |->
                     IF s \in visited THEN NewRemaining(o[s], s, remaining[s])
                     ELSE remaining[s]]
  /\ end' = [s \in Subs |->
               IF s \in visited THEN NewEnd(o[s], end[s]) ELSE end[s]]
  /\ EndScan(w)
  /\ UNCHANGED <<userActive, now, cancelAtEnd, calls, failures>>

\* A statement fails, or the process dies: nothing of the batch is kept.
WorkerFails(w) ==
  /\ ~Idle(w)
  /\ failures < MaxFailures
  /\ failures' = failures + 1
  /\ EndScan(w)
  /\ UNCHANGED <<user, now, table, calls>>

-----------------------------------------------------------------------------

\* disable_user and enable_user of the admin API.
set_user_status ==
  /\ userActive' = ~userActive
  /\ UNCHANGED <<wallet, now, table, calls, workers>>

Tick ==
  /\ now < MaxTime
  /\ now' = now + 1
  /\ UNCHANGED <<user, table, calls, workers>>

SubsInit ==
  /\ wallet = InitialBalance /\ userActive = TRUE /\ now = 0
  /\ status = [s \in Subs |-> IF s \in InitialSubs THEN "active" ELSE "none"]
  /\ remaining = [s \in Subs |->
                    IF s \in InitialSubs THEN PlanQuota[PlanOf[s]] ELSE 0]
  /\ end = [s \in Subs |->
              IF s \in InitialSubs THEN initial_period_end(PlanOf[s]) ELSE 0]
  /\ cancelAtEnd = [s \in Subs |-> FALSE]
  /\ rowLock = [s \in Subs |-> NoOne] /\ walletLock = NoOne
  /\ pc = [c \in Callers |-> "idle"]
  /\ op = [c \in Callers |-> "none"]
  /\ target = [c \in Callers |-> NoOne]
  /\ affords = [c \in Callers |-> FALSE]
  /\ seen = [c \in Callers |-> Nothing]
  /\ batch = [w \in Workers |-> {}]
  /\ outcome = [w \in Workers |-> [s \in Subs |-> "none"]]
  /\ due = [w \in Workers |-> 0] /\ debit = [w \in Workers |-> 0]
  /\ failures = 0

Call(c) ==
  \/ \E o \in {"subscribe", "renew"}, x \in Subs \union Plans :
       LoadUser(c, o, x)
  \/ \E o \in {"cancel", "cancelAtEnd", "resume"}, s \in Subs :
       LookOnly(c, o, s)
  \/ Look(c) \/ Refuse(c) \/ Abort(c)
  \/ subscribe_with_balance(c) \/ cancel_now(c) \/ cancel_at_period_end(c)
  \/ resume_subscription(c) \/ renew_now(c)

\* What the loop of the worker does by itself.
WorkerStep(w) ==
  \/ Scan(w)
  \/ \E s \in Subs : Decide(w, s)
  \/ ChargeRenewal(w)
  \/ WorkerCommit(w)

SubsNext ==
  \/ \E c \in Callers : Call(c)
  \/ \E w \in Workers : WorkerStep(w) \/ WorkerFails(w)
  \/ charge_user
  \/ set_user_status
  \/ Tick

-----------------------------------------------------------------------------
(***************************************************************************)
(* Properties.                                                             *)
(***************************************************************************)

\* Refills, absolute writes of stale sessions and charges together never
\* leave a subscription with more than its plan's quota.
RemainingInBounds ==
  \A s \in Subs : remaining[s] \in 0 .. PlanQuota[PlanOf[s]]

\* What the worker commits is still true of the rows: every row it renews or
\* closes has lapsed and is not canceled, and none that it charges is to be
\* canceled.  _scan_once reads FOR UPDATE and keeps the locks until then.
WorkerActsOnCurrentRows ==
  [][\A w \in Workers : WorkerCommit(w) =>
       \A s \in Subs :
         /\ outcome[w][s] # "none" => Lapsed(s)
         /\ outcome[w][s] = "renewed" => ~cancelAtEnd[s]]_subVars

\* No subscription stays due for ever: one whose period has ended is renewed
\* or closed or, for want of money, past_due; and "the worker will retry on
\* the next tick once the wallet is topped up".
Due(s) ==
  /\ end[s] <= now
  /\ \/ status[s] = "active"
     \/ status[s] = "past_due" /\ userActive /\ wallet >= Price[PlanOf[s]]
DueIsSettled == \A s \in Subs : []<>~Due(s)

\* renew_now is a "no-op if the current period hasn't ended": a renewal is
\* charged only when the period it follows has ended.
RenewedOnlyWhenLapsed ==
  [][\A c \in Callers :
       renew_now(c) /\ wallet' < wallet => Lapsed(target[c])]_subVars
=============================================================================
