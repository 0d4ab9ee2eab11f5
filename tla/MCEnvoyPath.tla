---------------------------- MODULE MCEnvoyPath ----------------------------
(***************************************************************************)
(* Instances of EnvoyPath for TLC: a weighted route with a fallback, a     *)
(* round-robin route, and smart routes with a classifier and with rules.   *)
(***************************************************************************)
EXTENDS EnvoyPath, TLC

CONSTANTS small, large

MCPrice == small :> 1 @@ large :> 2

Target(m, w, l) == [model |-> m, weight |-> w, label |-> l]
Policy(s, ts, f, e, rs) ==
  [strategy |-> s, targets |-> ts, fallback |-> f, embedding |-> e, rules |-> rs]

MCPolicies ==
  { Policy("weighted", <<Target(small, 1, "default")>>, large, FALSE, <<>>),
    Policy("round_robin", <<Target(small, 1, "default"), Target(large, 1, "default")>>,
           NoModel, FALSE, <<>>),
    Policy("smart", <<Target(small, 0, "default")>>, NoModel, TRUE, <<>>),
    Policy("smart", <<Target(large, 1, "code"), Target(small, 1, "default")>>,
           NoModel, FALSE, <<{"code", "long"}>>) }

MCEdits == {<<small, "off">>, <<large, "severed">>}
=============================================================================
