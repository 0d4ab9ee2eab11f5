----------------------------- MODULE MCBilling -----------------------------
(***************************************************************************)
(* Instances of Billing for TLC: two subscriptions, the second of which    *)
(* may be granted while requests are under way.                            *)
(***************************************************************************)
EXTENDS Billing, TLC

CONSTANTS s1, s2

MCPeriodEnd == s1 :> 1 @@ s2 :> 2
MCQuota     == s1 :> 1 @@ s2 :> 2
=============================================================================
