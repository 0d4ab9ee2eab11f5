---------------------------- MODULE OrdersProofs ----------------------------
(***************************************************************************)
(* Proofs about Orders and the Subscriptions it extends, for any plans,    *)
(* subscriptions, overlapping API calls, renewal workers and callbacks.    *)
(***************************************************************************)
EXTENDS Orders, TLAPS

-----------------------------------------------------------------------------
(***************************************************************************)
(* The inductive invariants.                                               *)
(***************************************************************************)

\* A call under way knows its operation and works on something of its kind.
CallsTargeted ==
  \A c \in Callers : pc[c] # "idle" =>
    /\ op[c] \in Ops
    /\ IF op[c] = "subscribe" THEN target[c] \in Plans ELSE target[c] \in Subs

\* The type invariant, by owner.
TableTyped ==
  /\ wallet \in Int /\ userActive \in BOOLEAN /\ now \in 0 .. MaxTime
  /\ status \in [Subs -> Statuses] /\ remaining \in [Subs -> Nat]
  /\ end \in [Subs -> Nat] /\ cancelAtEnd \in [Subs -> BOOLEAN]
CallsTyped ==
  /\ pc \in [Callers -> {"idle", "loaded", "write"}]
  /\ op \in [Callers -> Ops \union {"none"}]
  /\ target \in [Callers -> Subs \union Plans \union {NoOne}]
  /\ affords \in [Callers -> BOOLEAN]
  /\ seen \in [Callers -> [status : Statuses, remaining : Nat, end : Nat,
                           cancelAtEnd : BOOLEAN]]
  /\ CallsTargeted
WorkersTyped ==
  /\ rowLock \in [Subs -> Workers \union {NoOne}]
  /\ walletLock \in Workers \union {NoOne}
  /\ batch \in [Workers -> SUBSET Subs]
  /\ outcome \in [Workers -> [Subs -> Outcomes]]
  /\ due \in [Workers -> Nat] /\ debit \in [Workers -> Nat]
  /\ failures \in 0 .. MaxFailures
OrdersTyped ==
  /\ orderStatus \in [OrderIds -> {"none", "pending", "paid"}]
  /\ credits \in [OrderIds -> Nat]
  /\ settled \subseteq OrderIds
  /\ handling \in [Callbacks -> OrderIds \union {NoPlan}]

TypeInv == TableTyped /\ CallsTyped /\ WorkersTyped /\ OrdersTyped

\* A worker has locked every row it has still to visit or has decided about.
BatchLocked ==
  \A w \in Workers : \A s \in Subs :
    s \in batch[w] \/ outcome[w][s] # "none" => rowLock[s] = w

\* A locked row keeps what made the scan choose it ...
LockedIsLapsed == \A s \in Subs : rowLock[s] # NoOne => Lapsed(s)

\* ... and what made the loop renew it.
RenewedIsWanted ==
  \A w \in Workers : \A s \in Subs :
    outcome[w][s] = "renewed" => ~cancelAtEnd[s]

ScanInv == BatchLocked /\ LockedIsLapsed /\ RenewedIsWanted

-----------------------------------------------------------------------------
(***************************************************************************)
(* Type correctness.                                                       *)
(***************************************************************************)

\* The next calendar month begins at an instant of the clock.
LEMMA PeriodEndType ==
  ASSUME NEW t \in Nat
  PROVE  next_period_end(t) \in Nat
BY BoundsAssumption DEF next_period_end

LEMMA InitialEndType ==
  ASSUME now \in Nat, NEW p
  PROVE  initial_period_end(p) \in Nat
BY BoundsAssumption, PeriodEndType DEF initial_period_end

\* What renew_subscription assigns has the type of its column.
LEMMA NewRowTypes ==
  ASSUME NEW o \in Outcomes, NEW s \in Subs, NEW n \in Nat
  PROVE  /\ NewStatus(o) \in Statuses
         /\ NewRemaining(o, s, n) \in Nat
         /\ NewEnd(o, n) \in Nat
BY PlansAssumption, PeriodEndType
   DEF NewStatus, NewRemaining, NewEnd, Outcomes, Statuses

\* A call that returns leaves typed locals.
LEMMA ReturnTyped ==
  ASSUME CallsTyped, NEW c \in Callers, Return(c)
  PROVE  CallsTyped'
<1>1. Nothing \in [status : Statuses, remaining : Nat, end : Nat,
                   cancelAtEnd : BOOLEAN]
  BY DEF Nothing, Statuses
<1>2. seen' \in [Callers -> [status : Statuses, remaining : Nat, end : Nat,
                             cancelAtEnd : BOOLEAN]]
  BY <1>1 DEF CallsTyped, Return
<1> QED
  BY <1>2 DEF CallsTyped, CallsTargeted, Return

\* A scan that ends leaves its worker without rows, locks and money.
LEMMA EndScanTyped ==
  ASSUME WorkersTyped, NEW w \in Workers, EndScan(w), failures' \in 0 .. MaxFailures
  PROVE  WorkersTyped'
BY DEF WorkersTyped, EndScan, Outcomes

\* A granted subscription has the types of its row.
LEMMA GrantTyped ==
  ASSUME TableTyped, NEW s \in Subs, NEW p \in Plans, grant_subscription(s, p)
  PROVE  /\ status' \in [Subs -> Statuses] /\ remaining' \in [Subs -> Nat]
         /\ end' \in [Subs -> Nat] /\ cancelAtEnd' \in [Subs -> BOOLEAN]
<1>1. now \in Nat
  BY BoundsAssumption DEF TableTyped
<1>2. initial_period_end(p) \in Nat
  BY <1>1, InitialEndType
<1> QED
  BY <1>2, PlansAssumption DEF TableTyped, grant_subscription, Statuses

\* The type invariant is kept by every step.
LEMMA TypeStep ==
  ASSUME TypeInv, [Next]_vars
  PROVE  TypeInv'
<1> USE PlansAssumption, BoundsAssumption, OrdersAssumption
<1> USE DEF TypeInv, TableTyped, CallsTyped, WorkersTyped, OrdersTyped, CallsTargeted,
            user, table, calls, workers, orderVars
<1>1. ASSUME NEW c \in Callers, NEW o \in {"subscribe", "renew"},
             NEW x \in Subs \union Plans, LoadUser(c, o, x), UNCHANGED orderVars
      PROVE  TypeInv'
  BY <1>1 DEF LoadUser, Ops
<1>2. ASSUME NEW c \in Callers, NEW o \in {"cancel", "cancelAtEnd", "resume"},
             NEW s \in Subs, LookOnly(c, o, s), UNCHANGED orderVars
      PROVE  TypeInv'
  BY <1>2 DEF LookOnly, Row, Statuses, Nothing, Ops
<1>3. ASSUME NEW c \in Callers, Look(c), UNCHANGED orderVars
      PROVE  TypeInv'
  BY <1>3 DEF Look, Row, Statuses, Nothing, Ops
<1>4. ASSUME NEW c \in Callers, Refuse(c) \/ Abort(c), UNCHANGED orderVars
      PROVE  TypeInv'
  <2>1. Return(c) /\ UNCHANGED <<user, now, table, workers>>
    BY <1>4 DEF Refuse, Abort
  <2>2. CallsTyped'
    BY <2>1, ReturnTyped
  <2> QED
    BY <1>4, <2>1, <2>2
<1>5. ASSUME NEW c \in Callers, subscribe_with_balance(c), UNCHANGED orderVars
      PROVE  TypeInv'
  <2>1. CallsTyped'
    BY <1>5, ReturnTyped DEF subscribe_with_balance
  <2>2. target[c] \in Plans
    BY <1>5 DEF subscribe_with_balance
  <2>3. PICK s \in Subs \ Bought : grant_subscription(s, target[c])
    BY <1>5 DEF subscribe_with_balance
  <2>4. wallet' \in Int
    BY <1>5, <2>2 DEF subscribe_with_balance, AddToWallet
  <2>5. TableTyped'
    BY <1>5, <2>2, <2>3, <2>4, GrantTyped DEF subscribe_with_balance
  <2> QED
    BY <1>5, <2>1, <2>5 DEF subscribe_with_balance
<1>6. ASSUME NEW c \in Callers, cancel_now(c), UNCHANGED orderVars
      PROVE  TypeInv'
  <2> DEFINE s == target[c]
             p == PlanOf[s]
             refund == IF Price[p] > 0 /\ PlanQuota[p] > 0
                         THEN (Price[p] * seen[c].remaining) \div PlanQuota[p]
                         ELSE 0
  <2>1. CallsTyped'
    BY <1>6, ReturnTyped DEF cancel_now
  <2>2. s \in Subs /\ p \in Plans
    BY <1>6 DEF cancel_now
  <2>3. seen[c].remaining \in Nat /\ seen[c].end \in Nat
    OBVIOUS
  <2>4. Price[p] * seen[c].remaining \in Nat
    BY <2>2, <2>3
  <2>5. refund \in Int
    BY <2>2, <2>4
  <2>6. wallet' \in Int
    <3>1. AddToWallet(IF refund > Price[p] THEN Price[p] ELSE refund)
      BY <1>6 DEF cancel_now
    <3> HIDE DEF refund
    <3> QED
      BY <2>2, <2>5, <3>1 DEF AddToWallet
  <2>7. /\ status' = [status EXCEPT ![s] = "canceled"]
        /\ cancelAtEnd' = [cancelAtEnd EXCEPT
                             ![s] = Flushed(@, seen[c].cancelAtEnd, TRUE)]
        /\ remaining' = [remaining EXCEPT ![s] = Flushed(@, seen[c].remaining, 0)]
        /\ end' = [end EXCEPT ![s] = Flushed(@, seen[c].end, now)]
        /\ UNCHANGED <<userActive, now, workers>>
    BY <1>6 DEF cancel_now
  <2> HIDE DEF s, p
  <2>8. TableTyped'
    <3>1. status' \in [Subs -> Statuses]
      BY <2>7 DEF Statuses
    <3>2. cancelAtEnd' \in [Subs -> BOOLEAN]
      <4>1. Flushed(cancelAtEnd[s], seen[c].cancelAtEnd, TRUE) \in BOOLEAN
        BY <2>2 DEF Flushed
      <4> QED
        BY <2>7, <4>1
    <3>3. remaining' \in [Subs -> Nat]
      BY <2>2, <2>7 DEF Flushed
    <3>4. end' \in [Subs -> Nat]
      BY <2>2, <2>7 DEF Flushed
    <3> QED
      BY <2>6, <2>7, <3>1, <3>2, <3>3, <3>4
  <2> QED
    BY <1>6, <2>1, <2>7, <2>8
<1>7. ASSUME NEW c \in Callers, cancel_at_period_end(c) \/ resume_subscription(c),
             UNCHANGED orderVars
      PROVE  TypeInv'
  <2>1. Return(c) /\ UNCHANGED <<user, now, status, remaining, end, workers>>
    BY <1>7 DEF cancel_at_period_end, resume_subscription, schedule_cancel
  <2>2. CallsTyped'
    BY <2>1, ReturnTyped
  <2>3. cancelAtEnd' \in [Subs -> BOOLEAN]
    BY <1>7 DEF cancel_at_period_end, resume_subscription, schedule_cancel
  <2> QED
    BY <1>7, <2>1, <2>2, <2>3
<1>8. ASSUME NEW c \in Callers, renew_now(c), UNCHANGED orderVars
      PROVE  TypeInv'
  <2> DEFINE s == target[c]
             o == renew_subscription(s, seen[c].cancelAtEnd, TRUE, affords[c])
  <2>1. CallsTyped'
    BY <1>8, ReturnTyped DEF renew_now
  <2>2. s \in Subs /\ PlanOf[s] \in Plans
    BY <1>8 DEF renew_now
  <2>3. seen[c].remaining \in Nat /\ seen[c].end \in Nat /\ seen[c].status \in Statuses
        /\ seen[c].cancelAtEnd \in BOOLEAN /\ affords[c] \in BOOLEAN
    OBVIOUS
  <2>4. o \in Outcomes
    BY DEF renew_subscription, Outcomes
  <2>5. /\ AddToWallet(IF o = "renewed" THEN -Price[PlanOf[s]] ELSE 0)
        /\ status' = [status EXCEPT ![s] = Flushed(@, seen[c].status, NewStatus(o))]
        /\ remaining' = [remaining EXCEPT ![s] =
                           Flushed(@, seen[c].remaining,
                                   NewRemaining(o, s, seen[c].remaining))]
        /\ end' = [end EXCEPT ![s] = Flushed(@, seen[c].end, NewEnd(o, seen[c].end))]
        /\ UNCHANGED <<userActive, now, cancelAtEnd, workers>>
    BY <1>8 DEF renew_now
  <2> HIDE DEF s, o
  <2>6. /\ NewStatus(o) \in Statuses
        /\ NewRemaining(o, s, seen[c].remaining) \in Nat
        /\ NewEnd(o, seen[c].end) \in Nat
    BY <2>2, <2>3, <2>4, NewRowTypes
  <2>7. TableTyped'
    BY <2>2, <2>3, <2>5, <2>6 DEF AddToWallet, Flushed
  <2> QED
    BY <1>8, <2>1, <2>5, <2>7
<1>9. ASSUME NEW w \in Workers, Scan(w), UNCHANGED orderVars
      PROVE  TypeInv'
  BY <1>9 DEF Scan
<1>10. ASSUME NEW w \in Workers, NEW s \in Subs, Decide(w, s), UNCHANGED orderVars
       PROVE  TypeInv'
  <2> DEFINE o == renew_subscription(s, cancelAtEnd[s], userActive,
                                     wallet - debit[w] >= Price[PlanOf[s]])
  <2>1. o \in Outcomes
    BY DEF renew_subscription, Outcomes
  <2>2. /\ batch' = [batch EXCEPT ![w] = @ \ {s}]
        /\ outcome' = [outcome EXCEPT ![w][s] = o]
        /\ due' = [due EXCEPT ![w] = IF o = "renewed" THEN Price[PlanOf[s]] ELSE 0]
        /\ UNCHANGED <<user, now, table, calls, rowLock, walletLock, debit, failures>>
    BY <1>10 DEF Decide
  <2> HIDE DEF o
  <2> QED
    BY <1>10, <2>1, <2>2
<1>11. ASSUME NEW w \in Workers, ChargeRenewal(w), UNCHANGED orderVars
       PROVE  TypeInv'
  BY <1>11 DEF ChargeRenewal
<1>12. ASSUME NEW w \in Workers, WorkerCommit(w), UNCHANGED orderVars
       PROVE  TypeInv'
  <2>1. WorkersTyped'
    BY <1>12, EndScanTyped DEF WorkerCommit
  <2>2. \A s \in Subs : outcome[w][s] \in Outcomes
    OBVIOUS
  <2>3. TableTyped'
    BY <1>12, <2>2, NewRowTypes DEF WorkerCommit
  <2> QED
    BY <1>12, <2>1, <2>3 DEF WorkerCommit
<1>13. ASSUME NEW w \in Workers, WorkerFails(w), UNCHANGED orderVars
       PROVE  TypeInv'
  BY <1>13, EndScanTyped DEF WorkerFails
<1>14. ASSUME charge_user \/ set_user_status \/ Tick, UNCHANGED orderVars
       PROVE  TypeInv'
  <2>1. CASE charge_user
    BY <1>14, <2>1 DEF charge_user
  <2>2. CASE set_user_status
    BY <1>14, <2>2 DEF set_user_status
  <2>3. CASE Tick
    BY <1>14, <2>3 DEF Tick
  <2> QED
    BY <1>14, <2>1, <2>2, <2>3
<1>15. ASSUME NEW o \in OrderIds, create_order(o) \/ Settle(o)
       PROVE  TypeInv'
  BY <1>15 DEF create_order, Settle, subVars
<1>16. ASSUME NEW k \in Callbacks, NEW o \in OrderIds, Deliver(k, o)
       PROVE  TypeInv'
  BY <1>16 DEF Deliver, subVars
<1>17. ASSUME NEW k \in Callbacks, payment_callback(k)
       PROVE  TypeInv'
  <2> DEFINE o == handling[k]
  <2>1. o \in OrderIds
    BY <1>17 DEF payment_callback
  <2>2. /\ orderStatus' = [orderStatus EXCEPT ![o] = "paid"]
        /\ credits' = [credits EXCEPT ![o] = @ + 1]
        /\ handling' = [handling EXCEPT ![k] = NoPlan]
        /\ UNCHANGED <<userActive, now, calls, workers, settled>>
    BY <1>17 DEF payment_callback
  <2>3. TableTyped'
    <3>1. CASE OrderPlan[o] \in Plans
      <4>1. PICK s \in Bought : grant_subscription(s, OrderPlan[o])
        BY <1>17, <3>1 DEF payment_callback
      <4>2. UNCHANGED wallet
        BY <1>17, <3>1 DEF payment_callback
      <4> QED
        BY <2>2, <3>1, <4>1, <4>2, GrantTyped
    <3>2. CASE OrderPlan[o] \notin Plans
      <4>1. topup_wallet
        BY <1>17, <3>2 DEF payment_callback
      <4> QED
        BY <2>2, <4>1 DEF topup_wallet, AddToWallet
    <3> QED
      BY <3>1, <3>2
  <2>4. OrdersTyped'
    BY <2>1, <2>2
  <2> QED
    BY <2>2, <2>3, <2>4
<1>18. ASSUME NEW k \in Callbacks, CallbackFails(k)
       PROVE  TypeInv'
  BY <1>18 DEF CallbackFails
<1>19. CASE UNCHANGED vars
  BY <1>19 DEF vars, subVars
<1> HIDE DEF TypeInv, orderVars
<1> QED
  BY <1>1, <1>2, <1>3, <1>4, <1>5, <1>6, <1>7, <1>8, <1>9, <1>10, <1>11, <1>12, <1>13,
     <1>14, <1>15, <1>16, <1>17, <1>18, <1>19
     DEF Next, SubsNext, OrdersNext, Call, WorkerStep

\* The type invariant holds in every reachable state.
LEMMA TypeInvariant == Spec => []TypeInv
<1>1. Init => TypeInv
  <2> SUFFICES ASSUME Init
               PROVE  TypeInv
    OBVIOUS
  <2>1. now \in Nat
    BY DEF Init, SubsInit
  <2> QED
    BY <2>1, InitialEndType, PlansAssumption, BoundsAssumption, OrdersAssumption
       DEF Init, SubsInit, TypeInv, TableTyped, CallsTyped, WorkersTyped, OrdersTyped,
           CallsTargeted, Statuses, Outcomes, Nothing
<1>2. TypeInv /\ [Next]_vars => TypeInv'
  BY TypeStep
<1> QED
  BY <1>1, <1>2, PTL DEF Spec

\* The columns and the locals of the calls keep their types: what a charge, a
\* renewal or a refund leaves in a subscription is a number of cents.
THEOREM TypeCorrect == Spec => []OrdersTypeOK
<1>1. TypeInv => OrdersTypeOK
  BY DEF TypeInv, TableTyped, CallsTyped, WorkersTyped, OrdersTyped, OrdersTypeOK,
         SubsTypeOK
<1> QED
  BY <1>1, TypeInvariant, PTL
-----------------------------------------------------------------------------
(***************************************************************************)
(* Quota stays within the plan's.                                          *)
(***************************************************************************)

\* A renewal either leaves a row as it is, fills it or empties it.
LEMMA NewRemainingBounds ==
  ASSUME NEW o \in Outcomes, NEW s \in Subs, NEW old \in 0 .. PlanQuota[PlanOf[s]]
  PROVE  NewRemaining(o, s, old) \in 0 .. PlanQuota[PlanOf[s]]
BY PlansAssumption DEF NewRemaining, Outcomes

\* The bound is kept by every step.
LEMMA BoundsStep ==
  ASSUME TypeInv, RemainingInBounds, [Next]_vars
  PROVE  RemainingInBounds'
<1> USE PlansAssumption, BoundsAssumption, OrdersAssumption
<1> USE DEF TypeInv, TableTyped, RemainingInBounds, user, table, calls, workers,
            orderVars
<1>1. ASSUME UNCHANGED remaining
      PROVE  RemainingInBounds'
  BY <1>1
<1>2. ASSUME NEW s \in Subs, NEW p \in Plans, grant_subscription(s, p)
      PROVE  RemainingInBounds'
  BY <1>2 DEF grant_subscription
<1>3. ASSUME NEW c \in Callers, Call(c)
      PROVE  RemainingInBounds'
  <2>1. CASE subscribe_with_balance(c)
    <3>1. target[c] \in Plans
      BY <2>1 DEF subscribe_with_balance, CallsTyped, CallsTargeted
    <3> QED
      BY <1>2, <2>1, <3>1 DEF subscribe_with_balance
  <2>2. CASE cancel_now(c)
    <3>1. remaining' = [remaining EXCEPT ![target[c]] =
                          Flushed(@, seen[c].remaining, 0)]
      BY <2>2 DEF cancel_now
    <3> QED
      BY <3>1 DEF Flushed
  <2>3. CASE renew_now(c)
    <3> DEFINE s == target[c]
               o == renew_subscription(s, seen[c].cancelAtEnd, TRUE, affords[c])
    <3>1. remaining' = [remaining EXCEPT ![s] =
                          Flushed(@, seen[c].remaining,
                                  NewRemaining(o, s, seen[c].remaining))]
      BY <2>3 DEF renew_now
    <3>2. o \in {"renewed", "closed", "past_due"}
      BY DEF renew_subscription
    <3>3. s \in Subs
      BY <2>3 DEF renew_now, CallsTyped, CallsTargeted
    <3> HIDE DEF s, o
    <3>4. NewRemaining(o, s, seen[c].remaining) \in 0 .. PlanQuota[PlanOf[s]]
      BY <3>2, <3>3 DEF NewRemaining
    <3> QED
      BY <3>1, <3>3, <3>4 DEF Flushed
  <2>4. CASE ~(subscribe_with_balance(c) \/ cancel_now(c) \/ renew_now(c))
    <3>1. UNCHANGED remaining
      BY <1>3, <2>4 DEF Call, LoadUser, LookOnly, Look, Refuse, Abort,
         cancel_at_period_end, resume_subscription, schedule_cancel
    <3> QED
      BY <1>1, <3>1
  <2> QED
    BY <2>1, <2>2, <2>3, <2>4
<1>4. ASSUME NEW w \in Workers, WorkerCommit(w)
      PROVE  RemainingInBounds'
  <2>1. \A s \in Subs : outcome[w][s] \in Outcomes
    BY DEF WorkersTyped
  <2>2. \A s \in Subs : remaining'[s] \in {remaining[s],
                                  NewRemaining(outcome[w][s], s, remaining[s])}
    BY <1>4 DEF WorkerCommit
  <2> QED
    BY <2>1, <2>2, NewRemainingBounds
<1>5. ASSUME NEW w \in Workers,
             Scan(w) \/ (\E s \in Subs : Decide(w, s)) \/ ChargeRenewal(w)
               \/ WorkerFails(w)
      PROVE  RemainingInBounds'
  BY <1>5 DEF Scan, Decide, ChargeRenewal, WorkerFails
<1>6. ASSUME charge_user
      PROVE  RemainingInBounds'
  BY <1>6 DEF charge_user
<1>7. ASSUME set_user_status \/ Tick
      PROVE  RemainingInBounds'
  BY <1>7 DEF set_user_status, Tick
<1>8. ASSUME NEW k \in Callbacks, payment_callback(k)
      PROVE  RemainingInBounds'
  <2>1. CASE OrderPlan[handling[k]] \in Plans
    BY <1>2, <1>8, <2>1 DEF payment_callback
  <2>2. CASE OrderPlan[handling[k]] \notin Plans
    BY <1>8, <2>2 DEF payment_callback, topup_wallet
  <2> QED
    BY <2>1, <2>2
<1>9. ASSUME OrdersNext, \A k \in Callbacks : ~payment_callback(k)
      PROVE  RemainingInBounds'
  BY <1>9 DEF OrdersNext, create_order, Settle, Deliver, CallbackFails, subVars
<1>10. CASE UNCHANGED vars
  BY <1>10 DEF vars, subVars
<1> HIDE DEF TypeInv, RemainingInBounds
<1> QED
  BY <1>3, <1>4, <1>5, <1>6, <1>7, <1>8, <1>9, <1>10
     DEF Next, SubsNext, OrdersNext, WorkerStep

\* However API calls with stale sessions, the renewal worker, charges and
\* callbacks interleave, remaining_cents stays between zero and the quota of the
\* subscription's plan: renewals replace it and never add to it, and a charge
\* takes only what the row still has.
THEOREM QuotaStaysInPlan == Spec => []RemainingInBounds
<1>1. Init => RemainingInBounds
  BY PlansAssumption DEF Init, SubsInit, RemainingInBounds
<1>2. TypeInv /\ RemainingInBounds /\ [Next]_vars => RemainingInBounds'
  BY BoundsStep
<1> QED
  BY <1>1, <1>2, TypeInvariant, PTL DEF Spec

-----------------------------------------------------------------------------
(***************************************************************************)
(* The locks of a scan protect what its decisions rest on.                 *)
(***************************************************************************)

\* Whoever leaves the locked rows, the batches and the decisions alone keeps
\* the invariant of the scans.
LEMMA ScanFrame ==
  ASSUME TypeInv, ScanInv, UNCHANGED <<rowLock, batch, outcome>>,
         now' \in Nat, now' >= now,
         \A s \in Subs : rowLock[s] # NoOne =>
           /\ status'[s] = status[s] /\ end'[s] = end[s]
           /\ cancelAtEnd'[s] = cancelAtEnd[s]
  PROVE  ScanInv'
<1> USE DEF ScanInv
<1>1. BatchLocked'
  BY DEF BatchLocked
<1>2. LockedIsLapsed'
  BY BoundsAssumption DEF LockedIsLapsed, Lapsed, TypeInv, TableTyped
<1>3. RenewedIsWanted'
  <2> SUFFICES ASSUME NEW w \in Workers, NEW s \in Subs, outcome[w][s] = "renewed"
               PROVE  ~cancelAtEnd'[s]
    BY DEF RenewedIsWanted
  <2>1. rowLock[s] = w
    BY DEF BatchLocked
  <2>2. ~cancelAtEnd[s] /\ rowLock[s] # NoOne
    BY <2>1, BoundsAssumption DEF RenewedIsWanted
  <2> QED
    BY <2>2
<1> QED
  BY <1>1, <1>2, <1>3

\* The invariant of the scans is kept by every step.
LEMMA ScanStep ==
  ASSUME TypeInv, ScanInv, [Next]_vars
  PROVE  ScanInv'
<1> USE DEF user, table, calls, workers, orderVars
<1>0. now \in Nat
  BY BoundsAssumption DEF TypeInv, TableTyped
<1>1. ASSUME UNCHANGED <<rowLock, batch, outcome, now, status, end, cancelAtEnd>>
      PROVE  ScanInv'
  BY <1>0, <1>1, ScanFrame
<1>2. ASSUME NEW s \in Subs, NEW p \in Plans, grant_subscription(s, p),
             UNCHANGED <<now, workers>>
      PROVE  ScanInv'
  <2>1. rowLock[s] = NoOne
    BY <1>2 DEF grant_subscription, ScanInv, LockedIsLapsed, Lapsed
  <2> QED
    BY <1>0, <1>2, <2>1, ScanFrame DEF grant_subscription, TypeInv, TableTyped
<1>3. ASSUME NEW c \in Callers, Call(c)
      PROVE  ScanInv'
  <2>1. CASE subscribe_with_balance(c)
    <3>1. target[c] \in Plans
      BY <2>1 DEF subscribe_with_balance, TypeInv, CallsTyped, CallsTargeted
    <3> QED
      BY <1>2, <2>1, <3>1 DEF subscribe_with_balance
  <2>2. CASE cancel_now(c)
    <3> DEFINE t == target[c]
    <3>1. /\ rowLock[t] = NoOne
          /\ \E a, b, d : /\ status' = [status EXCEPT ![t] = a]
                         /\ end' = [end EXCEPT ![t] = b]
                         /\ cancelAtEnd' = [cancelAtEnd EXCEPT ![t] = d]
          /\ UNCHANGED <<now, workers>>
      BY <2>2 DEF cancel_now
    <3> QED
      BY <1>0, <3>1, ScanFrame DEF TypeInv, TableTyped
  <2>3. CASE cancel_at_period_end(c) \/ resume_subscription(c)
    BY <1>0, <2>3, ScanFrame
       DEF cancel_at_period_end, resume_subscription, schedule_cancel, TypeInv, TableTyped
  <2>4. CASE renew_now(c)
    <3> DEFINE t == target[c]
    <3>1. /\ rowLock[t] = NoOne
          /\ \E a, b : /\ status' = [status EXCEPT ![t] = a]
                      /\ end' = [end EXCEPT ![t] = b]
          /\ UNCHANGED <<now, cancelAtEnd, workers>>
      BY <2>4 DEF renew_now
    <3> QED
      BY <1>0, <3>1, ScanFrame DEF TypeInv, TableTyped
  <2>5. CASE ~(subscribe_with_balance(c) \/ cancel_now(c) \/ renew_now(c)
                 \/ cancel_at_period_end(c) \/ resume_subscription(c))
    <3>1. UNCHANGED <<rowLock, batch, outcome, now, status, end, cancelAtEnd>>
      BY <1>3, <2>5 DEF Call, LoadUser, LookOnly, Look, Refuse, Abort
    <3> QED
      BY <1>1, <3>1
  <2> QED
    BY <2>1, <2>2, <2>3, <2>4, <2>5
<1>4. ASSUME NEW w \in Workers, Scan(w)
      PROVE  ScanInv'
  <2> USE BoundsAssumption
      DEF TypeInv, TableTyped, WorkersTyped, ScanInv, Scan
  <2>1. BatchLocked'
    BY <1>4 DEF BatchLocked, Idle
  <2>2. LockedIsLapsed'
    BY <1>4 DEF LockedIsLapsed, Lapsed
  <2>3. RenewedIsWanted'
    BY <1>4 DEF RenewedIsWanted
  <2> QED
    BY <2>1, <2>2, <2>3
<1>5. ASSUME NEW w \in Workers, NEW s \in Subs, Decide(w, s)
      PROVE  ScanInv'
  <2> USE BoundsAssumption DEF TypeInv, TableTyped, WorkersTyped, ScanInv
  <2> DEFINE o == renew_subscription(s, cancelAtEnd[s], userActive,
                                     wallet - debit[w] >= Price[PlanOf[s]])
  <2>1. /\ s \in batch[w]
        /\ batch' = [batch EXCEPT ![w] = @ \ {s}]
        /\ outcome' = [outcome EXCEPT ![w][s] = o]
        /\ UNCHANGED <<now, table, rowLock>>
    BY <1>5 DEF Decide
  <2>2. o = "renewed" => ~cancelAtEnd[s]
    BY DEF renew_subscription
  <2> HIDE DEF o
  <2>3. \A v \in Workers, t \in Subs :
          /\ batch'[v] \subseteq batch[v]
          /\ outcome'[v][t] = IF v = w /\ t = s THEN o ELSE outcome[v][t]
    BY <2>1
  <2>4. BatchLocked'
    BY <2>1, <2>3 DEF BatchLocked
  <2>5. LockedIsLapsed'
    BY <2>1 DEF LockedIsLapsed, Lapsed
  <2>6. RenewedIsWanted'
    BY <2>1, <2>2, <2>3 DEF RenewedIsWanted
  <2> QED
    BY <2>4, <2>5, <2>6
<1>6. ASSUME NEW w \in Workers, EndScan(w), UNCHANGED <<now, cancelAtEnd>>,
             \A s \in Subs : rowLock[s] # w =>
               status'[s] = status[s] /\ end'[s] = end[s]
      PROVE  ScanInv'
  <2> USE BoundsAssumption DEF TypeInv, TableTyped, WorkersTyped, ScanInv, EndScan
  <2>1. BatchLocked'
    BY <1>6 DEF BatchLocked
  <2>2. LockedIsLapsed'
    BY <1>6 DEF LockedIsLapsed, Lapsed
  <2>3. RenewedIsWanted'
    BY <1>6 DEF RenewedIsWanted
  <2> QED
    BY <2>1, <2>2, <2>3
<1>7. ASSUME NEW w \in Workers, WorkerCommit(w)
      PROVE  ScanInv'
  <2>1. \A s \in Subs : rowLock[s] # w => outcome[w][s] = "none"
    BY DEF ScanInv, BatchLocked
  <2>2. \A s \in Subs : rowLock[s] # w => status'[s] = status[s] /\ end'[s] = end[s]
    BY <1>7, <2>1 DEF WorkerCommit
  <2> QED
    BY <1>6, <1>7, <2>2 DEF WorkerCommit
<1>8. ASSUME NEW w \in Workers, WorkerFails(w)
      PROVE  ScanInv'
  BY <1>6, <1>8 DEF WorkerFails
<1>9. ASSUME NEW w \in Workers, ChargeRenewal(w)
      PROVE  ScanInv'
  BY <1>1, <1>9 DEF ChargeRenewal
<1>10. ASSUME charge_user \/ set_user_status
       PROVE  ScanInv'
  BY <1>1, <1>10 DEF charge_user, set_user_status
<1>11. ASSUME Tick
       PROVE  ScanInv'
  BY <1>0, <1>11, ScanFrame DEF Tick
<1>12. ASSUME NEW k \in Callbacks, payment_callback(k)
       PROVE  ScanInv'
  <2>1. CASE OrderPlan[handling[k]] \in Plans
    BY <1>2, <1>12, <2>1, PlansAssumption DEF payment_callback
  <2>2. CASE OrderPlan[handling[k]] \notin Plans
    BY <1>1, <1>12, <2>2 DEF payment_callback, topup_wallet
  <2> QED
    BY <2>1, <2>2
<1>13. ASSUME OrdersNext, \A k \in Callbacks : ~payment_callback(k)
       PROVE  ScanInv'
  BY <1>1, <1>13 DEF OrdersNext, create_order, Settle, Deliver, CallbackFails, subVars
<1>14. CASE UNCHANGED vars
  BY <1>1, <1>14 DEF vars, subVars
<1> QED
  BY <1>3, <1>4, <1>5, <1>7, <1>8, <1>9, <1>10, <1>11, <1>12, <1>13, <1>14
     DEF Next, SubsNext, OrdersNext, WorkerStep

\* The invariant of the scans holds in every reachable state.
LEMMA ScanInvariant == Spec => []ScanInv
<1>1. Init => ScanInv
  BY DEF Init, SubsInit, ScanInv, BatchLocked, LockedIsLapsed, RenewedIsWanted
<1>2. TypeInv /\ ScanInv /\ [Next]_vars => ScanInv'
  BY ScanStep
<1> QED
  BY <1>1, <1>2, TypeInvariant, PTL DEF Spec

\* _scan_once decides row by row and commits once, at the end.  Any number of
\* workers, API calls, charges and callbacks may run in between: what it commits
\* is true of the rows still.
THEOREM WorkerIsCurrent == Spec => WorkerActsOnCurrentRows
<1>1. ScanInv => [\A w \in Workers : WorkerCommit(w) =>
                    \A s \in Subs :
                      /\ outcome[w][s] # "none" => Lapsed(s)
                      /\ outcome[w][s] = "renewed" => ~cancelAtEnd[s]]_subVars
  BY BoundsAssumption DEF ScanInv, BatchLocked, LockedIsLapsed, RenewedIsWanted
<1> QED
  BY <1>1, ScanInvariant, PTL DEF WorkerActsOnCurrentRows
=============================================================================
