------------------------------- MODULE Ledger -------------------------------
(***************************************************************************)
(* What billing promises: one account per user.  Money enters it through   *)
(* top-ups and grants and leaves it through bills; a bill takes its amount *)
(* in one step, and a request is billed at most once.                      *)
(***************************************************************************)
EXTENDS Integers

CONSTANT Requests

VARIABLES
  funds,     \* what the user can still spend: wallet and quota
  credited,  \* what was ever credited
  bill       \* [Requests -> Int]: what each request was billed, -1 before

vars == <<funds, credited, bill>>

Init ==
  /\ funds = credited
  /\ bill = [r \in Requests |-> -1]

Credit ==
  /\ credited' > credited
  /\ funds' - funds = credited' - credited
  /\ UNCHANGED bill

Bill(r) ==
  /\ bill[r] = -1
  /\ \E c \in {bill'[r]} :
       /\ c >= 0
       /\ bill' = [bill EXCEPT ![r] = c]
       /\ funds' = funds - c
  /\ UNCHANGED credited

Next == Credit \/ \E r \in Requests : Bill(r)

Spec == Init /\ [][Next]_vars
=============================================================================
