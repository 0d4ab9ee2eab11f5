--------------------------- MODULE BillingProofs ---------------------------
(***************************************************************************)
(* Proofs about Billing, for every number of requests and subscriptions,   *)
(* all costs, quotas and period ends.                                      *)
(***************************************************************************)
EXTENDS Billing, TLAPS

-----------------------------------------------------------------------------
(***************************************************************************)
(* The inductive invariants.                                               *)
(***************************************************************************)

\* A row nobody has locked has no uncommitted version.
RowsClean ==
  \A row \in Rows : lock[row] = NoTx => heap[row] = committed[row]

\* Both versions of a subscription are within its quota.
VersionsInBounds ==
  \A s \in Subs : /\ 0 <= heap[s] /\ heap[s] <= Quota[s]
                  /\ 0 <= committed[s] /\ committed[s] <= Quota[s]

\* What a FOR UPDATE returned is locked ...
ReadsLocked ==
  \A r \in Requests : \A s \in Subs : read[r][s] > 0 => lock[s] = r

\* ... and, until the charge drains it, still the newest version.
ReadsFresh ==
  \A r \in Requests : \A s \in Subs :
    /\ read[r][s] > 0
    /\ pc[r] = "lockCharge" \/ (pc[r] = "drain" /\ s \in todo[r])
    => heap[s] = read[r][s]

\* The drain loop visits only rows that its query returned.
DrainsFetched ==
  \A r \in Requests : pc[r] = "drain" => \A s \in todo[r] : read[r][s] > 0

\* A share of a breakdown is still locked, and there is room to return it.
SharesCovered ==
  \A r \in Requests : \A s \in Subs :
    subPart[r][s] > 0 => lock[s] = r /\ heap[s] + subPart[r][s] <= Quota[s]

\* Only subscriptions that exist are visited or locked.
OnlyIssued ==
  /\ \A r \in Requests : todo[r] \subseteq issued
  /\ \A s \in Subs : lock[s] # NoTx => s \in issued

LockInv ==
  /\ RowsClean
  /\ VersionsInBounds
  /\ ReadsLocked
  /\ ReadsFresh
  /\ DrainsFetched
  /\ SharesCovered
  /\ OnlyIssued

\* The drain loop so far: the rows it has passed end no later than those it
\* has not, and all of them are empty while anything is left to charge.
DrainOrder ==
  \A r \in Requests :
    /\ pc[r] \in {"lockCharge", "drain"} => walletPart[r] = 0
    /\ pc[r] = "lockCharge" => \A s \in Subs : subPart[r][s] = 0
    /\ pc[r] = "drain" =>
         /\ \A s \in todo[r] : subPart[r][s] = 0
         /\ \A t \in Fetched(r) \ todo[r] :
              /\ heap[t] = 0 \/ left[r] = 0
              /\ \A s \in todo[r] : PeriodEnd[t] <= PeriodEnd[s]

DrainInv == DrainOrder /\ QuotaBeforeWallet

-----------------------------------------------------------------------------
(***************************************************************************)
(* Type correctness.                                                       *)
(***************************************************************************)

\* What charge_user and refund_to_sources assign keeps its type.
LEMMA ChargeCallType ==
  ASSUME TypeOK, NEW r \in Requests, NEW c \in Nat, NEW next \in Returns,
         charge_user(r, c, next)
  PROVE  CallTypeOK'
BY DEF TypeOK, DbTypeOK, CallTypeOK, charge_user, active_subscriptions, NoShare, Returns,
       Waiting, Charging

LEMMA RefundCallType ==
  ASSUME TypeOK, NEW r \in Requests, NEW amount \in Nat, NEW next \in Returns,
         refund_to_sources(r, amount, next)
  PROVE  CallTypeOK'
<1> DEFINE wallet == Lesser(walletPart[r], amount)
<1>1. wallet \in Nat /\ amount - wallet \in Nat
  BY DEF TypeOK, CallTypeOK, Lesser
<1>2. subPart' \in [Requests -> [Subs -> Nat]]
  BY DEF TypeOK, CallTypeOK, refund_to_sources, NoShare
<1> QED
  BY <1>1, <1>2 DEF TypeOK, DbTypeOK, CallTypeOK, refund_to_sources,
     active_subscriptions, NoShare, Refunding

\* The variables keep their types: in particular no amount that a charge or a
\* refund computes on the way (left, subPart, walletPart) is ever negative.
THEOREM TypeCorrect == Spec => []TypeOK
<1> USE RequestsAssumption, RowsAssumption, AmountsAssumption
<1> USE DEF Rows, NoShare, Waiting, Charging, Refunding, Final, Returns
<1>1. Init => TypeOK
  BY DEF Init, TypeOK, DbTypeOK, CallTypeOK, RelayTypeOK
<1>2. TypeOK /\ [Next]_vars => TypeOK'
  <2> SUFFICES ASSUME TypeOK, [Next]_vars
               PROVE  TypeOK'
    OBVIOUS
  <2> USE DEF TypeOK, DbTypeOK, CallTypeOK, RelayTypeOK, world, db, session,
              call, relay, Lesser, Positive
  <2>1. ASSUME NEW r \in Requests, Load(r)
        PROVE  TypeOK'
    BY <2>1 DEF Load
  <2>2. ASSUME NEW r \in Requests, Gate(r)
        PROVE  TypeOK'
    BY <2>2 DEF Gate
  <2>3. ASSUME NEW r \in Requests, NEW c \in Costs, ChatAnswered(r, c)
        PROVE  TypeOK'
    BY <2>3 DEF ChatAnswered, charge_user, active_subscriptions
  <2>4. ASSUME NEW r \in Requests, NEW outcome \in Final, Rollback(r, outcome)
        PROVE  TypeOK'
    BY <2>4 DEF Rollback, EndTx, Return
  <2>5. ASSUME NEW r \in Requests, NEW c \in ClassifierCosts, Classify(r, c)
        PROVE  TypeOK'
    BY <2>5 DEF Classify, charge_user, active_subscriptions
  <2>6. ASSUME NEW r \in Requests, NEW e \in Costs, Quote(r, e)
        PROVE  TypeOK'
    BY <2>6 DEF Quote
  <2>6a. ASSUME NEW r \in Requests, Hold(r)
         PROVE  TypeOK'
    BY <2>6a DEF Hold, charge_user, active_subscriptions
  <2>7. ASSUME NEW r \in Requests, SkipCandidate(r)
        PROVE  TypeOK'
    BY <2>7 DEF SkipCandidate, AfterCandidate
  <2>8. ASSUME NEW r \in Requests, NEW a \in Costs, Generated(r, a)
        PROVE  TypeOK'
    BY <2>8, ChargeCallType, RefundCallType DEF Generated
  <2>9. ASSUME NEW r \in Requests, NEW status \in {200, 502},
               GenerateFailed(r, status)
        PROVE  TypeOK'
    <3>1. AfterCandidate(r, status) \in Returns
      BY DEF AfterCandidate
    <3>2. CASE estimate[r] > 0
      BY <2>9, <3>1, <3>2, RefundCallType DEF GenerateFailed
    <3>3. CASE ~(estimate[r] > 0)
      <4>1. pc' = [pc EXCEPT ![r] = AfterCandidate(r, status)] /\ UNCHANGED call
        BY <2>9, <3>3 DEF GenerateFailed
      <4>2. CallTypeOK'
        BY <3>1, <4>1
      <4>3. DbTypeOK' /\ RelayTypeOK'
        BY <2>9 DEF GenerateFailed
      <4> QED
        BY <4>2, <4>3
    <3> QED
      BY <3>2, <3>3
  <2>10. ASSUME NEW r \in Requests, NEW s \in Subs, LockSub(r, s)
         PROVE  TypeOK'
    BY <2>10 DEF LockSub
  <2>11. ASSUME NEW r \in Requests, StartDrain(r)
         PROVE  TypeOK'
    BY <2>11 DEF StartDrain, Fetched
  <2>12. ASSUME NEW r \in Requests, NEW s \in Subs, DrainSub(r, s)
         PROVE  TypeOK'
    BY <2>12 DEF DrainSub
  <2>13. ASSUME NEW r \in Requests, ChargeWallet(r)
         PROVE  TypeOK'
    BY <2>13 DEF ChargeWallet
  <2>14. ASSUME NEW r \in Requests, ChargeKey(r)
         PROVE  TypeOK'
    <3>1. UsedInRow(r, cost[r], Believed(r, cost[r]) + cost[r]) \in Int
      BY DEF UsedInRow, Flushed, Believed
    <3>2. Believed(r, cost[r]) + cost[r] \in Int
      BY DEF Believed
    <3>3. DbTypeOK' /\ RelayTypeOK'
      BY <2>14, <3>1, <3>2 DEF ChargeKey
    <3>4. CallTypeOK'
      BY <2>14 DEF ChargeKey, EndCall
    <3> QED
      BY <3>3, <3>4
  <2>15. ASSUME NEW r \in Requests, StartPlan(r)
         PROVE  TypeOK'
    BY <2>15 DEF StartPlan
  <2>16. ASSUME NEW r \in Requests, NEW s \in Subs, PlanSub(r, s)
         PROVE  TypeOK'
    <3>1. DbTypeOK' /\ RelayTypeOK'
      BY <2>16 DEF PlanSub
    <3>2. subPart' \in [Requests -> [Subs -> Nat]]
      BY <2>16 DEF PlanSub
    <3>3. walletPart' \in [Requests -> Nat]
      BY <2>16 DEF PlanSub
    <3> QED
      BY <2>16, <3>1, <3>2, <3>3 DEF PlanSub
  <2>17. ASSUME NEW r \in Requests, EndPlan(r)
         PROVE  TypeOK'
    BY <2>17 DEF EndPlan
  <2>18. ASSUME NEW r \in Requests, RefundWallet(r)
         PROVE  TypeOK'
    BY <2>18 DEF RefundWallet
  <2>19. ASSUME NEW r \in Requests, RefundSubs(r)
         PROVE  TypeOK'
    BY <2>19 DEF RefundSubs
  <2>20. ASSUME NEW r \in Requests, RefundKey(r)
         PROVE  TypeOK'
    <3> DEFINE total    == cost[r] - left[r]
               assigned == Positive(Believed(r, -total) - total)
    <3>1. assigned \in Int /\ UsedInRow(r, -total, assigned) \in Int
      BY DEF UsedInRow, Flushed, Believed
    <3>2. DbTypeOK' /\ RelayTypeOK'
      BY <2>20, <3>1 DEF RefundKey
    <3>3. CallTypeOK'
      BY <2>20 DEF RefundKey, EndCall
    <3> QED
      BY <3>2, <3>3
  <2>21. ASSUME NEW r \in Requests, Commit(r)
         PROVE  TypeOK'
    BY <2>21 DEF Commit, EndTx, Return
  <2>22. ASSUME topup_wallet
         PROVE  TypeOK'
    BY <2>22 DEF topup_wallet
  <2>23. ASSUME NEW s \in Subs, grant_subscription(s)
         PROVE  TypeOK'
    BY <2>23 DEF grant_subscription
  <2>24. ASSUME Tick
         PROVE  TypeOK'
    BY <2>24 DEF Tick
  <2> HIDE DEF TypeOK, DbTypeOK, CallTypeOK, RelayTypeOK, world, db, session,
               call, relay, Lesser, Positive
  <2>25. ASSUME NEW r \in Requests, Step(r)
         PROVE  TypeOK'
    BY <2>25, <2>2, <2>5, <2>6, <2>7, <2>8, <2>9, <2>10, <2>12, <2>16, <2>11, <2>13,
       <2>14, <2>15, <2>17, <2>18, <2>19, <2>20, <2>21, <2>6a, <2>4
       DEF Step,
       QuoteRefused, DeadlockVictim, Final
  <2>26. ASSUME NEW r \in Requests, Answer(r) \/ Abort(r)
         PROVE  TypeOK'
    BY <2>26, <2>3, <2>4 DEF Answer, ChatFailed, Abort, Final
  <2>27. CASE UNCHANGED vars
    BY <2>27 DEF vars, TypeOK, DbTypeOK, CallTypeOK, RelayTypeOK, world, db,
                 session, call, relay
  <2> QED
    BY <2>1, <2>22, <2>23, <2>24, <2>25, <2>26, <2>27 DEF Next, Served
<1> QED
  BY <1>1, <1>2, PTL DEF Spec

-----------------------------------------------------------------------------
(***************************************************************************)
(* Subscriptions stay within their quota.                                  *)
(***************************************************************************)

\* The invariant of the row locks is inductive.
LEMMA LockInvStep ==
  ASSUME TypeOK, TypeOK', LockInv, [Next]_vars
  PROVE  LockInv'
<1> USE RequestsAssumption, RowsAssumption, AmountsAssumption
<1> USE DEF Rows, NoShare, Final, Returns, LockInv, TypeOK, DbTypeOK, CallTypeOK,
            RowsClean, VersionsInBounds, ReadsLocked, ReadsFresh, DrainsFetched,
            SharesCovered, OnlyIssued,
            world, db, session, call, relay, Lesser, Positive
<1>1. ASSUME NEW r \in Requests, Load(r)
      PROVE  LockInv'
  BY <1>1 DEF Load
<1>2. ASSUME NEW r \in Requests, Gate(r)
      PROVE  LockInv'
  BY <1>2 DEF Gate
<1>3. ASSUME NEW r \in Requests, NEW c \in Costs, ChatAnswered(r, c)
      PROVE  LockInv'
  BY <1>3 DEF ChatAnswered, charge_user, active_subscriptions
<1>4. ASSUME NEW r \in Requests, NEW outcome \in Final, Rollback(r, outcome)
      PROVE  LockInv'
  BY <1>4 DEF Rollback, EndTx, Return
<1>5. ASSUME NEW r \in Requests, NEW c \in ClassifierCosts, Classify(r, c)
      PROVE  LockInv'
  BY <1>5 DEF Classify, charge_user, active_subscriptions
<1>6. ASSUME NEW r \in Requests, NEW e \in Costs, Quote(r, e)
      PROVE  LockInv'
  BY <1>6 DEF Quote
<1>6a. ASSUME NEW r \in Requests, Hold(r)
       PROVE  LockInv'
  BY <1>6a DEF Hold, charge_user, active_subscriptions
<1>7. ASSUME NEW r \in Requests, SkipCandidate(r)
      PROVE  LockInv'
  BY <1>7 DEF SkipCandidate, AfterCandidate
<1>8. ASSUME NEW r \in Requests, NEW a \in Costs, Generated(r, a)
      PROVE  LockInv'
  <2>1. CASE a < estimate[r]
    <3>1. refund_to_sources(r, estimate[r] - a, "classify") /\ UNCHANGED db
      BY <1>8, <2>1 DEF Generated
    <3> QED
      BY <3>1 DEF refund_to_sources, active_subscriptions
  <2>2. CASE ~(a < estimate[r])
    <3>1. charge_user(r, a - estimate[r], "classify") /\ UNCHANGED db
      BY <1>8, <2>2 DEF Generated
    <3> QED
      BY <3>1 DEF charge_user, active_subscriptions
  <2> QED
    BY <2>1, <2>2
<1>9. ASSUME NEW r \in Requests, NEW status \in {200, 502},
             GenerateFailed(r, status)
      PROVE  LockInv'
  <2> DEFINE next == AfterCandidate(r, status)
  <2>1. next \in Returns
    BY DEF AfterCandidate
  <2> HIDE DEF next
  <2>2. CASE estimate[r] > 0
    <3>1. refund_to_sources(r, estimate[r], next) /\ UNCHANGED db
      BY <1>9, <2>2 DEF GenerateFailed, next
    <3> QED
      BY <3>1 DEF refund_to_sources, active_subscriptions
  <2>3. CASE ~(estimate[r] > 0)
    <3>1. pc' = [pc EXCEPT ![r] = next] /\ UNCHANGED <<db, call>>
      BY <1>9, <2>3 DEF GenerateFailed, next
    <3> QED
      BY <2>1, <3>1
  <2> QED
    BY <2>2, <2>3
<1>10. ASSUME NEW r \in Requests, NEW s \in Subs, LockSub(r, s)
       PROVE  LockInv'
  BY <1>10 DEF LockSub, Soonest, MayLock
<1>11. ASSUME NEW r \in Requests, StartDrain(r)
       PROVE  LockInv'
  BY <1>11 DEF StartDrain, Fetched
<1>12. ASSUME NEW r \in Requests, NEW s \in Subs, DrainSub(r, s)
       PROVE  LockInv'
  BY <1>12 DEF DrainSub, Soonest, MayLock
<1>13. ASSUME NEW r \in Requests, ChargeWallet(r)
       PROVE  LockInv'
  <2>1. /\ pc' = [pc EXCEPT ![r] = "chargeKey"]
        /\ UNCHANGED <<committed, world, todo, read, subPart>>
    BY <1>13 DEF ChargeWallet
  <2>2. \A s \in Subs : heap'[s] = heap[s] /\ lock'[s] = lock[s]
    BY <1>13 DEF ChargeWallet
  <2>3. RowsClean'
    BY <1>13 DEF ChargeWallet
  <2> QED
    BY <2>1, <2>2, <2>3
<1>14. ASSUME NEW r \in Requests, ChargeKey(r)
       PROVE  LockInv'
  BY <1>14 DEF ChargeKey, EndCall, MayLock
<1>15. ASSUME NEW r \in Requests, StartPlan(r)
       PROVE  LockInv'
  BY <1>15 DEF StartPlan
<1>16. ASSUME NEW r \in Requests, NEW s \in Subs, PlanSub(r, s)
       PROVE  LockInv'
  BY <1>16 DEF PlanSub, Soonest
<1>17. ASSUME NEW r \in Requests, EndPlan(r)
       PROVE  LockInv'
  BY <1>17 DEF EndPlan
<1>18. ASSUME NEW r \in Requests, RefundWallet(r)
       PROVE  LockInv'
  <2>1. /\ pc' = [pc EXCEPT ![r] = "refundSubs"]
        /\ UNCHANGED <<committed, world, todo, read, subPart>>
    BY <1>18 DEF RefundWallet
  <2>2. \A s \in Subs : heap'[s] = heap[s] /\ lock'[s] = lock[s]
    BY <1>18 DEF RefundWallet
  <2>3. RowsClean'
    BY <1>18 DEF RefundWallet
  <2> QED
    BY <2>1, <2>2, <2>3
<1>19. ASSUME NEW r \in Requests, RefundSubs(r)
       PROVE  LockInv'
  <2>1. \A s \in Subs : heap'[s] = heap[s] + subPart[r][s]
    BY <1>19 DEF RefundSubs
  <2>2. \A row \in Rows : row \notin Subs => heap'[row] = heap[row]
    BY <1>19 DEF RefundSubs
  <2>3. /\ pc' = [pc EXCEPT ![r] = "refundKey"]
        /\ subPart' = [subPart EXCEPT ![r] = NoShare]
        /\ UNCHANGED <<committed, lock, world, todo, read>>
    BY <1>19 DEF RefundSubs
  <2>4. \A s \in Subs : subPart[r][s] = 0 \/ lock[s] = r
    OBVIOUS
  <2>5. RowsClean'
    <3> SUFFICES ASSUME NEW row \in Rows, lock[row] = NoTx
                 PROVE  heap'[row] = committed[row]
      BY <2>3
    <3>1. CASE row \in Subs
      <4>1. subPart[r][row] = 0
        BY <2>4, <3>1
      <4>2. heap[row] \in Int /\ heap[row] = committed[row]
        BY <3>1
      <4> QED
        BY <2>1, <3>1, <4>1, <4>2
    <3>2. CASE row \notin Subs
      BY <2>2, <3>2
    <3> QED
      BY <3>1, <3>2
  <2>6. VersionsInBounds'
    <3> SUFFICES ASSUME NEW s \in Subs
                 PROVE  /\ 0 <= heap'[s] /\ heap'[s] <= Quota[s]
                        /\ 0 <= committed[s] /\ committed[s] <= Quota[s]
      BY <2>3
    <3>1. CASE subPart[r][s] = 0
      BY <2>1, <3>1
    <3>2. CASE subPart[r][s] > 0
      BY <2>1, <3>2
    <3> QED
      BY <3>1, <3>2
  <2>7. ReadsLocked' /\ DrainsFetched' /\ OnlyIssued'
    BY <2>3
  <2>8. ReadsFresh'
    BY <2>1, <2>3, <2>4
  <2>9. SharesCovered'
    BY <2>1, <2>3, <2>4
  <2> QED
    BY <2>5, <2>6, <2>7, <2>8, <2>9
<1>20. ASSUME NEW r \in Requests, RefundKey(r)
       PROVE  LockInv'
  <2>1. /\ pc' = [pc EXCEPT ![r] = ret[r]]
        /\ EndCall(r, TRUE)
        /\ UNCHANGED <<committed, world>>
    BY <1>20 DEF RefundKey
  <2>2. \A s \in Subs : heap'[s] = heap[s] /\ lock'[s] = lock[s]
    BY <1>20 DEF RefundKey
  <2>3. RowsClean'
    BY <1>20 DEF RefundKey
  <2> QED
    BY <2>1, <2>2, <2>3 DEF EndCall
<1>21. ASSUME NEW r \in Requests, Commit(r)
       PROVE  LockInv'
  BY <1>21 DEF Commit, EndTx, Return
<1>22. ASSUME topup_wallet
       PROVE  LockInv'
  BY <1>22 DEF topup_wallet
<1>23. ASSUME NEW s \in Subs, grant_subscription(s)
       PROVE  LockInv'
  BY <1>23 DEF grant_subscription
<1>24. ASSUME Tick
       PROVE  LockInv'
  BY <1>24 DEF Tick
<1> HIDE DEF LockInv
<1>25. ASSUME NEW r \in Requests, Step(r)
       PROVE  LockInv'
  BY <1>25, <1>2, <1>4, <1>5, <1>6, <1>7, <1>8, <1>9, <1>10, <1>11, <1>12, <1>13,
     <1>14, <1>15, <1>16, <1>17, <1>18, <1>19, <1>20, <1>21, <1>6a
     DEF Step, QuoteRefused, DeadlockVictim
<1>26. ASSUME NEW r \in Requests, Answer(r) \/ Abort(r)
       PROVE  LockInv'
  BY <1>26, <1>3, <1>4 DEF Answer, ChatFailed, Abort
<1>27. CASE UNCHANGED vars
  BY <1>27 DEF vars, LockInv
<1> QED
  BY <1>1, <1>22, <1>23, <1>24, <1>25, <1>26, <1>27 DEF Next, Served

\* LockInv holds in every reachable state.
LEMMA LockInvariant == Spec => []LockInv
<1>1. Init => LockInv
  BY RequestsAssumption, RowsAssumption
     DEF Init, LockInv, RowsClean, VersionsInBounds, ReadsLocked, ReadsFresh,
         DrainsFetched, SharesCovered, OnlyIssued, Rows, NoShare
<1>2. TypeOK /\ TypeOK' /\ LockInv /\ [Next]_vars => LockInv'
  BY LockInvStep
<1> QED
  BY <1>1, <1>2, TypeCorrect, PTL DEF Spec

\* No interleaving of charges, holds, refunds, rollbacks, grants and top-ups
\* of charge_user, refund_to_sources and their callers overdraws a
\* subscription or fills it above its plan's quota.
THEOREM SubsStayInBounds == Spec => []SubsInBounds
<1>1. TypeOK /\ LockInv => SubsInBounds
  BY RowsAssumption
     DEF TypeOK, DbTypeOK, LockInv, VersionsInBounds, SubsInBounds, Rows
<1> QED
  BY <1>1, TypeCorrect, LockInvariant, PTL

-----------------------------------------------------------------------------
(***************************************************************************)
(* Quota is spent before the wallet, nearest period end first.             *)
(***************************************************************************)

\* The invariant of the drain loop is inductive.
LEMMA DrainOrderStep ==
  ASSUME TypeOK, TypeOK', LockInv, DrainInv, [Next]_vars
  PROVE  DrainInv'
<1> USE RequestsAssumption, RowsAssumption, AmountsAssumption
<1> USE DEF Rows, NoShare, Final, Returns, TypeOK, DbTypeOK, CallTypeOK,
            LockInv, RowsClean, ReadsLocked, ReadsFresh, DrainsFetched,
            SharesCovered, OnlyIssued,
            DrainInv, DrainOrder, QuotaBeforeWallet, Fetched,
            world, db, session, call, relay, Lesser
<1>1. ASSUME NEW r \in Requests, Load(r)
      PROVE  DrainInv'
  BY <1>1 DEF Load
<1>2. ASSUME NEW r \in Requests, Gate(r)
      PROVE  DrainInv'
  BY <1>2 DEF Gate
<1>3. ASSUME NEW r \in Requests, NEW c \in Costs, ChatAnswered(r, c)
      PROVE  DrainInv'
  BY <1>3 DEF ChatAnswered, charge_user, active_subscriptions
<1>4. ASSUME NEW r \in Requests, NEW outcome \in Final, Rollback(r, outcome)
      PROVE  DrainInv'
  BY <1>4 DEF Rollback, EndTx, Return
<1>5. ASSUME NEW r \in Requests, NEW c \in ClassifierCosts, Classify(r, c)
      PROVE  DrainInv'
  BY <1>5 DEF Classify, charge_user, active_subscriptions
<1>6. ASSUME NEW r \in Requests, NEW e \in Costs, Quote(r, e)
      PROVE  DrainInv'
  BY <1>6 DEF Quote
<1>6a. ASSUME NEW r \in Requests, Hold(r)
       PROVE  DrainInv'
  BY <1>6a DEF Hold, charge_user, active_subscriptions
<1>7. ASSUME NEW r \in Requests, SkipCandidate(r)
      PROVE  DrainInv'
  BY <1>7 DEF SkipCandidate, AfterCandidate
<1>8. ASSUME NEW r \in Requests, NEW a \in Costs, Generated(r, a)
      PROVE  DrainInv'
  <2>1. CASE a < estimate[r]
    <3>1. refund_to_sources(r, estimate[r] - a, "classify") /\ UNCHANGED db
      BY <1>8, <2>1 DEF Generated
    <3> QED
      BY <3>1 DEF refund_to_sources, active_subscriptions
  <2>2. CASE ~(a < estimate[r])
    <3>1. charge_user(r, a - estimate[r], "classify") /\ UNCHANGED db
      BY <1>8, <2>2 DEF Generated
    <3> QED
      BY <3>1 DEF charge_user, active_subscriptions
  <2> QED
    BY <2>1, <2>2
<1>9. ASSUME NEW r \in Requests, NEW status \in {200, 502},
             GenerateFailed(r, status)
      PROVE  DrainInv'
  <2> DEFINE next == AfterCandidate(r, status)
  <2>1. next \in Returns
    BY DEF AfterCandidate
  <2> HIDE DEF next
  <2>2. CASE estimate[r] > 0
    <3>1. refund_to_sources(r, estimate[r], next) /\ UNCHANGED db
      BY <1>9, <2>2 DEF GenerateFailed, next
    <3> QED
      BY <3>1 DEF refund_to_sources, active_subscriptions
  <2>3. CASE ~(estimate[r] > 0)
    <3>1. pc' = [pc EXCEPT ![r] = next] /\ UNCHANGED <<db, call>>
      BY <1>9, <2>3 DEF GenerateFailed, next
    <3> QED
      BY <2>1, <3>1
  <2> QED
    BY <2>2, <2>3
<1>10. ASSUME NEW r \in Requests, NEW s \in Subs, LockSub(r, s)
       PROVE  DrainInv'
  BY <1>10 DEF LockSub, Soonest, MayLock
<1>11. ASSUME NEW r \in Requests, StartDrain(r)
       PROVE  DrainInv'
  BY <1>11 DEF StartDrain, Fetched
<1>12. ASSUME NEW r \in Requests, NEW s \in Subs, DrainSub(r, s)
       PROVE  DrainInv'
  BY <1>12 DEF DrainSub, Soonest, MayLock
<1>13. ASSUME NEW r \in Requests, ChargeWallet(r)
       PROVE  DrainInv'
  BY <1>13 DEF ChargeWallet, MayLock
<1>14. ASSUME NEW r \in Requests, ChargeKey(r)
       PROVE  DrainInv'
  BY <1>14 DEF ChargeKey, EndCall, MayLock
<1>15. ASSUME NEW r \in Requests, StartPlan(r)
       PROVE  DrainInv'
  BY <1>15 DEF StartPlan
<1>16. ASSUME NEW r \in Requests, NEW s \in Subs, PlanSub(r, s)
       PROVE  DrainInv'
  BY <1>16 DEF PlanSub, Soonest
<1>17. ASSUME NEW r \in Requests, EndPlan(r)
       PROVE  DrainInv'
  BY <1>17 DEF EndPlan
<1>18. ASSUME NEW r \in Requests, RefundWallet(r)
       PROVE  DrainInv'
  BY <1>18 DEF RefundWallet, MayLock
<1>19. ASSUME NEW r \in Requests, RefundSubs(r)
       PROVE  DrainInv'
  BY <1>19 DEF RefundSubs
<1>20. ASSUME NEW r \in Requests, RefundKey(r)
       PROVE  DrainInv'
  BY <1>20 DEF RefundKey, EndCall, MayLock
<1>21. ASSUME NEW r \in Requests, Commit(r)
       PROVE  DrainInv'
  BY <1>21 DEF Commit, EndTx, Return
<1>22. ASSUME topup_wallet
       PROVE  DrainInv'
  BY <1>22 DEF topup_wallet
<1>23. ASSUME NEW s \in Subs, grant_subscription(s)
       PROVE  DrainInv'
  BY <1>23 DEF grant_subscription
<1>24. ASSUME Tick
       PROVE  DrainInv'
  BY <1>24 DEF Tick
<1> HIDE DEF DrainInv
<1>25. ASSUME NEW r \in Requests, Step(r)
       PROVE  DrainInv'
  BY <1>25, <1>2, <1>4, <1>5, <1>6, <1>7, <1>8, <1>9, <1>10, <1>11, <1>12, <1>13,
     <1>14, <1>15, <1>16, <1>17, <1>18, <1>19, <1>20, <1>21, <1>6a
     DEF Step, QuoteRefused, DeadlockVictim
<1>26. ASSUME NEW r \in Requests, Answer(r) \/ Abort(r)
       PROVE  DrainInv'
  BY <1>26, <1>3, <1>4 DEF Answer, ChatFailed, Abort
<1>27. CASE UNCHANGED vars
  BY <1>27 DEF vars, DrainInv
<1> QED
  BY <1>1, <1>22, <1>23, <1>24, <1>25, <1>26, <1>27 DEF Next, Served

\* DrainInv holds in every reachable state.
LEMMA DrainInvariant == Spec => []DrainInv
<1>1. Init => DrainInv
  BY DEF Init, DrainInv, DrainOrder, QuotaBeforeWallet
<1>2. TypeOK /\ TypeOK' /\ LockInv /\ DrainInv /\ [Next]_vars => DrainInv'
  BY DrainOrderStep
<1> QED
  BY <1>1, <1>2, TypeCorrect, LockInvariant, PTL DEF Spec

\* charge_user spends the quota of the subscriptions it fetched in the order
\* of their period ends and before the wallet, whatever else is under way.
THEOREM QuotaFirst == Spec => []QuotaBeforeWallet
<1>1. DrainInv => QuotaBeforeWallet
  BY DEF DrainInv
<1> QED
  BY <1>1, DrainInvariant, PTL

=============================================================================
