----------------------------- MODULE MCOrders -----------------------------
(***************************************************************************)
(* Instances of Orders, with Subscriptions, for TLC: a recurring plan and  *)
(* a one-time plan, one subscription of each; a top-up and an order of the *)
(* one-time plan.                                                          *)
(***************************************************************************)
EXTENDS Orders, TLC

CONSTANTS monthly, once, s1, s2, topup, buy

MCPrice     == monthly :> 1 @@ once :> 1
MCPlanQuota == monthly :> 1 @@ once :> 1
MCPlanOf    == s1 :> monthly @@ s2 :> once
MCOrderPlan == topup :> NoPlan @@ buy :> once
=============================================================================
