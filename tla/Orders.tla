------------------------------- MODULE Orders -------------------------------
(***************************************************************************)
(* Paying for a plan or a top-up through a payment provider                *)
(* (api/v1/orders.py), next to everything Subscriptions does with the same *)
(* wallet and the same subscriptions table.                                *)
(*                                                                         *)
(* The provider confirms a payment by calling back.  It may call several   *)
(* times, and the handlers of two calls may overlap: each reads the order  *)
(* without a lock and writes later.                                        *)
(***************************************************************************)
EXTENDS Subscriptions

CONSTANTS
  OrderIds,     \* the orders the user places
  NoPlan,       \* the plan_id of a wallet top-up
  OrderPlan,    \* order.plan_id
  TopupAmount,  \* order.amount_cents of a top-up
  Callbacks     \* callback requests that may be under way at once

ASSUME OrdersAssumption ==
  /\ OrderPlan \in [OrderIds -> Plans \union {NoPlan}]
  /\ NoPlan \notin Plans
  /\ TopupAmount \in Nat \ {0}

VARIABLES
  orderStatus,  \* orders.status, "none" before the order exists
  credits,      \* BalanceTx rows (topup or grant) with ref_id of the order
  settled,      \* the orders the customer has paid at the provider
  handling      \* [Callbacks -> OrderIds \union {NoPlan}]: the order whose
                \* credit a callback request is about to write

orderVars == <<orderStatus, credits, settled, handling>>
vars      == <<subVars, orderVars>>

OrdersTypeOK ==
  /\ SubsTypeOK
  /\ orderStatus \in [OrderIds -> {"none", "pending", "paid"}]
  /\ credits \in [OrderIds -> Nat]
  /\ settled \subseteq OrderIds
  /\ handling \in [Callbacks -> OrderIds \union {NoPlan}]

Init ==
  /\ SubsInit
  /\ orderStatus = [o \in OrderIds |-> "none"]
  /\ credits = [o \in OrderIds |-> 0]
  /\ settled = {}
  /\ handling = [k \in Callbacks |-> NoPlan]

-----------------------------------------------------------------------------

\* An order is refused for a plan that is free: its amount must be positive.
create_order(o) ==
  /\ orderStatus[o] = "none"
  /\ userActive
  /\ OrderPlan[o] \in Plans => Price[OrderPlan[o]] > 0
  /\ orderStatus' = [orderStatus EXCEPT ![o] = "pending"]
  /\ UNCHANGED <<subVars, credits, settled, handling>>

\* The customer pays at the provider.
Settle(o) ==
  /\ orderStatus[o] = "pending"
  /\ settled' = settled \union {o}
  /\ UNCHANGED <<subVars, orderStatus, credits, handling>>

\* The provider calls back, and the handler reads the order: one that is
\* paid is acknowledged at once.
Deliver(k, o) ==
  /\ handling[k] = NoPlan
  /\ o \in settled
  /\ orderStatus[o] # "paid"
  /\ handling' = [handling EXCEPT ![k] = o]
  /\ UNCHANGED <<subVars, orderStatus, credits, settled>>

topup_wallet ==
  /\ AddToWallet(TopupAmount)
  /\ UNCHANGED table

\* Mutant: the status is committed, the credit left to a second transaction
\* that never comes.
payment_callback_split(k) ==
  LET o == handling[k] IN
  /\ o # NoPlan
  /\ orderStatus' = [orderStatus EXCEPT ![o] = "paid"]
  /\ handling' = [handling EXCEPT ![k] = NoPlan]
  /\ UNCHANGED <<subVars, credits, settled>>

\* The rest of the handler, in one transaction: the order is paid, and the
\* plan is granted or the wallet topped up.
payment_callback(k) ==
  LET o == handling[k] IN
  /\ o # NoPlan
  /\ orderStatus' = [orderStatus EXCEPT ![o] = "paid"]
  /\ IF OrderPlan[o] \in Plans
       THEN /\ \E s \in Bought : grant_subscription(s, OrderPlan[o])
            /\ UNCHANGED wallet
       ELSE topup_wallet
  /\ credits' = [credits EXCEPT ![o] = @ + 1]
  /\ handling' = [handling EXCEPT ![k] = NoPlan]
  /\ UNCHANGED <<userActive, now, calls, workers, settled>>

\* The handler fails: the provider will call again.
CallbackFails(k) ==
  /\ handling[k] # NoPlan
  /\ failures < MaxFailures
  /\ failures' = failures + 1
  /\ handling' = [handling EXCEPT ![k] = NoPlan]
  /\ UNCHANGED <<user, now, table, calls, rowLock, walletLock, batch, outcome,
                 due, debit, orderStatus, credits, settled>>

-----------------------------------------------------------------------------

OrdersNext ==
  \/ \E o \in OrderIds : create_order(o) \/ Settle(o)
  \/ \E k \in Callbacks :
       \/ \E o \in OrderIds : Deliver(k, o)
       \/ payment_callback(k)
       \/ CallbackFails(k)

Next ==
  \/ SubsNext /\ UNCHANGED orderVars
  \/ OrdersNext

\* The worker's loop runs for ever, a provider repeats a callback until it
\* is answered, and a handler that started goes on.
Fairness ==
  /\ \A w \in Workers : WF_vars(WorkerStep(w) /\ UNCHANGED orderVars)
  /\ \A k \in Callbacks : WF_vars(\E o \in OrderIds : Deliver(k, o))
  /\ \A k \in Callbacks : WF_vars(payment_callback(k))

Spec == Init /\ [][Next]_vars /\ Fairness

-----------------------------------------------------------------------------
(***************************************************************************)
(* Properties.                                                             *)
(***************************************************************************)

\* What the customer paid at the provider is credited in the end.
PaymentArrives ==
  \A o \in OrderIds : o \in settled ~> credits[o] > 0

\* "A paid order should not top up or grant quota twice if the provider
\* retries the callback."
CreditedOnce == \A o \in OrderIds : credits[o] <= 1
=============================================================================
