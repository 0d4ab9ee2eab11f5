---------------------------- MODULE LedgerProofs ----------------------------
(***************************************************************************)
(* Proof that Billing implements Ledger: whatever charges, holds and       *)
(* refunds overlap, a commit takes exactly the logged costs of its request *)
(* from the user's wallet and quota, and nothing else takes any.           *)
(***************************************************************************)
EXTENDS BillingProofs, FiniteSetTheorems

-----------------------------------------------------------------------------
(***************************************************************************)
(* Sums over finite sets.                                                  *)
(***************************************************************************)

\* Every nonempty set of subsets of a finite set has a minimal one: what stands
\* in for induction over finite sets.
LEMMA SmallestSubset ==
  ASSUME NEW S, IsFiniteSet(S), NEW T, T \subseteq SUBSET S, T # {}
  PROVE  \E A \in T : \A a \in A : A \ {a} \notin T
<1>1. IsWellFoundedOn(StrictSubsetOrdering(S), FiniteSubsetsOf(S))
  BY FS_StrictSubsetOrderingWellFounded
<1>2. T \subseteq FiniteSubsetsOf(S)
  BY FS_FiniteSubsetsOfFinite
<1>3. PICK A \in T : \A B \in T : ~(<<B, A>> \in StrictSubsetOrdering(S))
  BY <1>1, <1>2, WFMin
<1>4. ASSUME NEW a \in A, A \ {a} \in T
      PROVE  FALSE
  <2>1. <<A \ {a}, A>> \in StrictSubsetOrdering(S)
    BY <1>4 DEF StrictSubsetOrdering
  <2> QED
    BY <1>3, <1>4, <2>1
<1> QED
  BY <1>4

\* h gives every subset of S the sum of f over it.
Additive(f, S, h) ==
  /\ h \in [SUBSET S -> Int]
  /\ h[{}] = 0
  /\ \A A \in SUBSET S : \A a \in A : h[A] = f[a] + h[A \ {a}]

\* There is one, whatever the summands.
LEMMA AdditiveExists ==
  ASSUME NEW S, IsFiniteSet(S), NEW f, \A x \in S : f[x] \in Int
  PROVE  \E h : Additive(f, S, h)
<1> DEFINE T == {A \in SUBSET S : ~ \E h : Additive(f, A, h)}
<1> SUFFICES ASSUME T # {}
             PROVE  FALSE
  OBVIOUS
<1>1. PICK A \in T : \A a \in A : A \ {a} \notin T
  BY SmallestSubset
<1>2. A # {}
  <2> DEFINE z == [B \in SUBSET {} |-> 0]
  <2>1. Additive(f, {}, z)
    BY DEF Additive
  <2> QED
    BY <2>1
<1>3. PICK a \in A : A \ {a} \notin T
  BY <1>1, <1>2
<1>4. PICK g : Additive(f, A \ {a}, g)
  BY <1>3
<1> DEFINE h == [B \in SUBSET A |-> g[B \ {a}] + IF a \in B THEN f[a] ELSE 0]
<1>5. \A B \in SUBSET A : B \ {a} \in SUBSET (A \ {a}) /\ g[B \ {a}] \in Int
  BY <1>4 DEF Additive
<1>6. f[a] \in Int
  OBVIOUS
<1>7. h \in [SUBSET A -> Int]
  <2>1. \A B \in SUBSET A : g[B \ {a}] + (IF a \in B THEN f[a] ELSE 0) \in Int
    BY <1>5, <1>6
  <2> QED
    BY <2>1
<1>8. h[{}] = 0
  <2>1. h[{}] = g[{} \ {a}] + 0
    OBVIOUS
  <2>2. {} \ {a} = {} /\ g[{}] = 0
    BY <1>4 DEF Additive
  <2> QED
    BY <2>1, <2>2
<1>9. ASSUME NEW B \in SUBSET A, NEW b \in B
      PROVE  h[B] = f[b] + h[B \ {b}]
  <2>1. h[B] = g[B \ {a}] + IF a \in B THEN f[a] ELSE 0
    OBVIOUS
  <2>2. h[B \ {b}] = g[(B \ {b}) \ {a}] + IF a \in B \ {b} THEN f[a] ELSE 0
    OBVIOUS
  <2>3. f[b] \in Int /\ g[B \ {a}] \in Int /\ g[(B \ {b}) \ {a}] \in Int
    BY <1>5
  <2> HIDE DEF h
  <2>4. CASE b = a
    <3>1. (B \ {b}) \ {a} = B \ {a} /\ a \in B /\ a \notin B \ {b}
      BY <2>4
    <3>2. h[B] = g[B \ {a}] + f[a]
      BY <2>1, <3>1
    <3>3. h[B \ {b}] = g[B \ {a}] + 0
      BY <2>2, <3>1
    <3> QED
      BY <2>3, <2>4, <3>2, <3>3
  <2>5. CASE b # a
    <3>1. (B \ {b}) \ {a} = (B \ {a}) \ {b} /\ b \in B \ {a}
      BY <2>5
    <3>2. g[B \ {a}] = f[b] + g[(B \ {a}) \ {b}]
      BY <1>4, <3>1 DEF Additive
    <3>3. a \in B <=> a \in B \ {b}
      BY <2>5
    <3> QED
      BY <1>6, <2>1, <2>2, <2>3, <3>1, <3>2, <3>3
  <2> QED
    BY <2>4, <2>5
<1>10. Additive(f, A, h)
  BY <1>7, <1>8, <1>9 DEF Additive
<1> QED
  BY <1>10

\* MapThenSumSet, which takes the summands in the order of a CHOOSE, computes it.
LEMMA SumIsAdditive ==
  ASSUME NEW S, IsFiniteSet(S), NEW f, \A x \in S : f[x] \in Int
  PROVE  \E h : Additive(f, S, h) /\ SumOver(f, S) = h[S]
<1> DEFINE pick(A) == CHOOSE x \in A : TRUE
           step(g) == [A \in SUBSET S |-> IF A = {} THEN 0 ELSE f[pick(A)] + g[A \ {pick(A)}]]
           iter == CHOOSE g : g = step(g)
<1>1. SumOver(f, S) = iter[S]
  BY DEF SumOver, MapThenSumSet, MapThenFoldSet
<1>2. PICK h : Additive(f, S, h)
  BY AdditiveExists
<1>3. \A A \in SUBSET S : A # {} => pick(A) \in A
  OBVIOUS
<1> HIDE DEF pick
<1>4. h = step(h)
  <2>1. \A A \in SUBSET S : A # {} => h[A] = f[pick(A)] + h[A \ {pick(A)}]
    BY <1>2, <1>3 DEF Additive
  <2>2. h[{}] = 0 /\ h \in [SUBSET S -> Int]
    BY <1>2 DEF Additive
  <2>3. \A A \in SUBSET S : h[A] = IF A = {} THEN 0 ELSE f[pick(A)] + h[A \ {pick(A)}]
    BY <2>1, <2>2
  <2> QED
    BY <2>2, <2>3
<1>5. iter = step(iter)
  <2> HIDE DEF step
  <2> QED
    BY <1>4
<1>6. \A A \in SUBSET S : iter[A] = h[A]
  <2> DEFINE T == {A \in SUBSET S : iter[A] # h[A]}
  <2> SUFFICES ASSUME T # {}
               PROVE  FALSE
    OBVIOUS
  <2>1. PICK A \in T : \A a \in A : A \ {a} \notin T
    BY SmallestSubset
  <2> HIDE DEF iter
  <2>2. iter[A] = IF A = {} THEN 0 ELSE f[pick(A)] + iter[A \ {pick(A)}]
    BY <1>5
  <2>3. CASE A = {}
    BY <1>2, <2>2, <2>3 DEF Additive
  <2>4. CASE A # {}
    <3>1. pick(A) \in A /\ A \ {pick(A)} \in SUBSET S
      BY <1>3, <2>4
    <3>2. iter[A \ {pick(A)}] = h[A \ {pick(A)}]
      BY <2>1, <3>1
    <3>3. h[A] = f[pick(A)] + h[A \ {pick(A)}]
      BY <1>2, <3>1 DEF Additive
    <3> QED
      BY <2>2, <2>4, <3>2, <3>3
  <2> QED
    BY <2>3, <2>4
<1> QED
  BY <1>1, <1>2, <1>6

\* The value of a sum does not depend on the order in which it is taken: on
\* the subsets of a finite set, SumOver is the additive function.
LEMMA SumRule ==
  ASSUME NEW S, IsFiniteSet(S), NEW f, \A x \in S : f[x] \in Int
  PROVE  /\ SumOver(f, {}) = 0
         /\ SumOver(f, S) \in Int
         /\ \A a \in S : SumOver(f, S) = f[a] + SumOver(f, S \ {a})
<1>1. PICK h : Additive(f, S, h) /\ SumOver(f, S) = h[S]
  BY SumIsAdditive
<1>2. SumOver(f, {}) = 0
  <2>1. IsFiniteSet({})
    BY FS_EmptySet
  <2>2. \A x \in {} : f[x] \in Int
    OBVIOUS
  <2>3. PICK g : Additive(f, {}, g) /\ SumOver(f, {}) = g[{}]
    BY <2>1, <2>2, SumIsAdditive
  <2> QED
    BY <2>3 DEF Additive
<1>3. ASSUME NEW a \in S
      PROVE  SumOver(f, S) = f[a] + SumOver(f, S \ {a})
  <2> DEFINE R == S \ {a}
  <2>1. IsFiniteSet(R) /\ \A x \in R : f[x] \in Int
    BY FS_Subset
  <2>2. PICK g : Additive(f, R, g) /\ SumOver(f, R) = g[R]
    BY <2>1, SumIsAdditive
  <2>3. \A B \in SUBSET R : g[B] = h[B]
    <3> DEFINE T == {B \in SUBSET R : g[B] # h[B]}
    <3> SUFFICES ASSUME T # {}
                 PROVE  FALSE
      OBVIOUS
    <3>0. T \subseteq SUBSET R
      OBVIOUS
    <3>1. PICK B \in T : \A b \in B : B \ {b} \notin T
      <4> HIDE DEF T, R
      <4> QED
        BY <2>1, <3>0, SmallestSubset
    <3>2. CASE B = {}
      BY <1>1, <2>2, <3>1, <3>2 DEF Additive
    <3>3. CASE B # {}
      <4>1. PICK b \in B : TRUE
        BY <3>3
      <4>2. g[B \ {b}] = h[B \ {b}]
        BY <3>1
      <4>3. g[B] = f[b] + g[B \ {b}]
        BY <2>2 DEF Additive
      <4>4. h[B] = f[b] + h[B \ {b}]
        BY <1>1 DEF Additive
      <4> QED
        BY <4>2, <4>3, <4>4
    <3> QED
      BY <3>2, <3>3
  <2>4. h[S] = f[a] + h[R]
    BY <1>1 DEF Additive
  <2> QED
    BY <1>1, <2>2, <2>3, <2>4
<1>4. SumOver(f, S) \in Int
  BY <1>1 DEF Additive
<1> QED
  BY <1>2, <1>3, <1>4

\* A sum is taken term by term.
LEMMA SumPlus ==
  ASSUME NEW S, IsFiniteSet(S), NEW f, NEW g, NEW h,
         \A x \in S : f[x] \in Int /\ g[x] \in Int /\ h[x] = f[x] + g[x]
  PROVE  SumOver(h, S) = SumOver(f, S) + SumOver(g, S)
<1> DEFINE T == {A \in SUBSET S : SumOver(h, A) # SumOver(f, A) + SumOver(g, A)}
<1> SUFFICES ASSUME T # {}
             PROVE  FALSE
  OBVIOUS
<1>1. PICK A \in T : \A a \in A : A \ {a} \notin T
  BY SmallestSubset
<1>2. IsFiniteSet(A) /\ \A x \in A : f[x] \in Int /\ g[x] \in Int /\ h[x] \in Int
  BY FS_Subset
<1>3. /\ \A x \in A : f[x] \in Int
      /\ \A x \in A : g[x] \in Int
      /\ \A x \in A : h[x] \in Int
  BY <1>2
<1>4. CASE A = {}
  BY <1>1, <1>2, <1>3, <1>4, SumRule
<1>5. CASE A # {}
  <2>1. PICK a \in A : TRUE
    BY <1>5
  <2>2. SumOver(h, A \ {a}) = SumOver(f, A \ {a}) + SumOver(g, A \ {a})
    BY <1>1
  <2>3. SumOver(h, A) = h[a] + SumOver(h, A \ {a})
    BY <1>2, <1>3, SumRule
  <2>4. SumOver(f, A) = f[a] + SumOver(f, A \ {a})
    BY <1>2, <1>3, SumRule
  <2>5. SumOver(g, A) = g[a] + SumOver(g, A \ {a})
    BY <1>2, <1>3, SumRule
  <2>6. IsFiniteSet(A \ {a})
    BY <1>2, FS_Subset
  <2>7. SumOver(f, A \ {a}) \in Int
    BY <1>3, <2>6, SumRule
  <2>8. SumOver(g, A \ {a}) \in Int
    BY <1>3, <2>6, SumRule
  <2> QED
    BY <1>1, <1>2, <2>2, <2>3, <2>4, <2>5, <2>7, <2>8
<1> QED
  BY <1>4, <1>5

\* The sum of zeros is zero ...
LEMMA SumZero ==
  ASSUME NEW S, IsFiniteSet(S), NEW f, \A x \in S : f[x] = 0
  PROVE  SumOver(f, S) = 0
<1>1. \A x \in S : f[x] \in Int /\ f[x] = f[x] + f[x]
  OBVIOUS
<1>2. SumOver(f, S) = SumOver(f, S) + SumOver(f, S)
  BY <1>1, SumPlus
<1>3. SumOver(f, S) \in Int
  BY <1>1, SumRule
<1>4. \A n \in Int : n = n + n => n = 0
  OBVIOUS
<1> QED
  BY <1>2, <1>3, <1>4

\* ... and that of naturals a natural.
LEMMA SumNatural ==
  ASSUME NEW S, IsFiniteSet(S), NEW f, \A x \in S : f[x] \in Nat
  PROVE  SumOver(f, S) \in Nat
<1> DEFINE T == {A \in SUBSET S : SumOver(f, A) \notin Nat}
<1> SUFFICES ASSUME T # {}
             PROVE  FALSE
  OBVIOUS
<1>1. PICK A \in T : \A a \in A : A \ {a} \notin T
  BY SmallestSubset
<1>2. IsFiniteSet(A) /\ \A x \in A : f[x] \in Int
  BY FS_Subset
<1>3. CASE A = {}
  BY <1>1, <1>2, <1>3, SumRule
<1>4. CASE A # {}
  <2>1. PICK a \in A : TRUE
    BY <1>4
  <2>2. SumOver(f, A \ {a}) \in Nat
    BY <1>1
  <2>3. SumOver(f, A) = f[a] + SumOver(f, A \ {a})
    BY <1>2, SumRule
  <2> QED
    BY <1>1, <2>2, <2>3
<1> QED
  BY <1>3, <1>4

\* Functions that agree on a set have the same sum over it.
LEMMA SumSame ==
  ASSUME NEW S, IsFiniteSet(S), NEW f, NEW g,
         \A x \in S : f[x] \in Int /\ g[x] = f[x]
  PROVE  SumOver(g, S) = SumOver(f, S)
<1> DEFINE z == [x \in S |-> 0]
<1>1. \A x \in S : f[x] \in Int /\ z[x] \in Int /\ g[x] = f[x] + z[x]
  OBVIOUS
<1>2. \A x \in S : z[x] = 0
  OBVIOUS
<1> HIDE DEF z
<1>3. SumOver(g, S) = SumOver(f, S) + SumOver(z, S)
  BY <1>1, SumPlus
<1>4. SumOver(z, S) = 0
  BY <1>2, SumZero
<1>5. SumOver(f, S) \in Int
  BY <1>1, SumRule
<1> QED
  BY <1>3, <1>4, <1>5

\* Functions that differ in one point have sums that differ as much.
LEMMA SumPoint ==
  ASSUME NEW S, IsFiniteSet(S), NEW f, NEW g, NEW a \in S,
         \A x \in S : f[x] \in Int /\ g[x] \in Int,
         \A x \in S \ {a} : g[x] = f[x]
  PROVE  SumOver(g, S) = SumOver(f, S) + (g[a] - f[a])
<1>1. IsFiniteSet(S \ {a}) /\ (\A x \in S : f[x] \in Int) /\ (\A x \in S : g[x] \in Int)
  BY FS_Subset
<1>2. SumOver(f, S) = f[a] + SumOver(f, S \ {a})
  BY <1>1, SumRule
<1>3. SumOver(g, S) = g[a] + SumOver(g, S \ {a})
  BY <1>1, SumRule
<1>4. SumOver(g, S \ {a}) = SumOver(f, S \ {a})
  BY <1>1, SumSame
<1>5. SumOver(f, S \ {a}) \in Int
  BY <1>1, SumRule
<1> QED
  BY <1>1, <1>2, <1>3, <1>4, <1>5

\* The sum over a set is that over a part of it and that over the rest.
LEMMA SumSplit ==
  ASSUME NEW S, IsFiniteSet(S), NEW A \in SUBSET S, NEW f,
         \A x \in S : f[x] \in Int
  PROVE  SumOver(f, S) = SumOver(f, A) + SumOver(f, S \ A)
<1> DEFINE T == {B \in SUBSET A :
                   SumOver(f, (S \ A) \union B) # SumOver(f, B) + SumOver(f, S \ A)}
<1>0. (S \ A) \union A = S
  OBVIOUS
<1> SUFFICES ASSUME T # {}
             PROVE  FALSE
  BY <1>0
<1>1. PICK B \in T : \A b \in B : B \ {b} \notin T
  BY FS_Subset, SmallestSubset
<1> DEFINE R == S \ A
           U == R \union B
<1>2. /\ IsFiniteSet(B) /\ \A x \in B : f[x] \in Int
      /\ IsFiniteSet(R) /\ \A x \in R : f[x] \in Int
      /\ IsFiniteSet(U) /\ \A x \in U : f[x] \in Int
  BY FS_Subset
<1>3. SumOver(f, R) \in Int
  BY <1>2, SumRule
<1>4. CASE B = {}
  <2>1. U = R
    BY <1>4
  <2>2. SumOver(f, B) = 0
    BY <1>2, <1>4, SumRule
  <2> QED
    BY <1>1, <1>3, <2>1, <2>2
<1>5. CASE B # {}
  <2>1. PICK b \in B : TRUE
    BY <1>5
  <2>2. SumOver(f, R \union (B \ {b})) = SumOver(f, B \ {b}) + SumOver(f, R)
    BY <1>1
  <2>3. SumOver(f, B) = f[b] + SumOver(f, B \ {b})
    BY <1>2, SumRule
  <2>4. U \ {b} = R \union (B \ {b})
    OBVIOUS
  <2>5. SumOver(f, U) = f[b] + SumOver(f, U \ {b})
    BY <1>2, SumRule
  <2>6. IsFiniteSet(B \ {b})
    BY <1>2, FS_Subset
  <2>7. SumOver(f, B \ {b}) \in Int
    BY <1>2, <2>6, SumRule
  <2>8. SumOver(f, U) # SumOver(f, B) + SumOver(f, R)
    BY <1>1
  <2>9. f[b] \in Int
    BY <1>2
  <2> HIDE DEF R, U, T
  <2>10. SumOver(f, U) = f[b] + SumOver(f, R \union (B \ {b}))
    BY <2>4, <2>5
  <2>11. SumOver(f, U) = f[b] + (SumOver(f, B \ {b}) + SumOver(f, R))
    BY <2>2, <2>10
  <2> QED
    BY <1>3, <2>3, <2>7, <2>8, <2>9, <2>11
<1> QED
  BY <1>4, <1>5

-----------------------------------------------------------------------------
(***************************************************************************)
(* The inductive invariant.                                                *)
(***************************************************************************)

\* The rows that hold money.
Money == Rows \ {Key}

\* What r's transaction has taken from each of them, and from all.
Net(r) ==
  [row \in Money |-> IF lock[row] = r THEN committed[row] - heap[row] ELSE 0]
Debit(r) == SumOver(Net(r), Money)

\* The subscriptions' shares of r's breakdown.
InSubs(r) == SumOver(subPart[r], Subs)

\* Between its calls, a request has taken what it has logged; a hold is taken
\* before it is logged, and its breakdown accounts for it.
BetweenCalls(r) ==
  /\ pc[r] \in {"idle", "gate", "upstream", "quote", "hold"} =>
       Debit(r) = 0 /\ logged[r] = 0
  /\ pc[r] = "generate" =>
       /\ logged[r] = 0
       /\ Debit(r) = estimate[r]
       /\ InSubs(r) + walletPart[r] = estimate[r]
  /\ pc[r] \in {"classify", "commit"} => Debit(r) = logged[r]

\* During charge_user, all but what is left of the charge has been taken.
InCharge(r) ==
  /\ pc[r] \in Charging =>
       /\ ret[r] # "quote"
       /\ ret[r] = "generate" =>
            /\ logged[r] = 0
            /\ Debit(r) = estimate[r] - left[r]
            /\ InSubs(r) + walletPart[r] = estimate[r] - left[r]
       /\ ret[r] # "generate" => Debit(r) = logged[r] - left[r]
  /\ pc[r] = "chargeKey" => left[r] = 0

\* During refund_to_sources, what is still to be given back has been taken on
\* top of what is logged: the plan keeps the shares' sum equal to the refund.
InRefund(r) ==
  /\ pc[r] \in Refunding =>
       ret[r] # "generate" /\ (ret[r] = "quote" => logged[r] = 0)
  /\ pc[r] = "lockRefund" =>
       /\ Debit(r) = logged[r] + cost[r]
       /\ cost[r] = left[r] + walletPart[r]
       /\ left[r] <= InSubs(r)
  /\ pc[r] = "plan" =>
       /\ Debit(r) = logged[r] + cost[r]
       /\ cost[r] = left[r] + walletPart[r] + SumOver(subPart[r], Subs \ todo[r])
       /\ left[r] <= SumOver(subPart[r], todo[r])
  /\ pc[r] = "refundWallet" =>
       Debit(r) = logged[r] + cost[r] /\ cost[r] = walletPart[r] + InSubs(r)
  /\ pc[r] = "refundSubs" => Debit(r) = logged[r] + InSubs(r)
  /\ pc[r] = "refundKey" => Debit(r) = logged[r]

Balance(r) == BetweenCalls(r) /\ InCharge(r) /\ InRefund(r)

Balanced == \A r \in Requests : Balance(r)

\* A subscription that does not exist yet holds no money.
NotYet == \A s \in Subs \ issued : committed[s] = 0

LedgerInv == Balanced /\ NotYet

-----------------------------------------------------------------------------
(***************************************************************************)
(* How a step changes what a transaction has taken.                        *)
(***************************************************************************)

\* The money is in the wallet and in finitely many subscriptions ...
LEMMA MoneyRows == Money = Subs \union {Wallet} /\ Subs = Money \ {Wallet}
BY RowsAssumption DEF Money, Rows

\* ... so their sums are defined.
LEMMA MoneyFinite == IsFiniteSet(Money)
BY MoneyRows, RowsAssumption, FS_AddElement

\* What was taken is a number, for each row and in all.
LEMMA NetType ==
  ASSUME TypeOK, NEW r \in Requests
  PROVE  /\ \A row \in Money : Net(r)[row] \in Int
         /\ \A row \in Money :
              Net(r)[row] = IF lock[row] = r THEN committed[row] - heap[row] ELSE 0
         /\ Debit(r) \in Int
<1>1. \A row \in Money : committed[row] \in Int /\ heap[row] \in Int
  BY DEF TypeOK, DbTypeOK, Money
<1>2. \A row \in Money :
        Net(r)[row] = IF lock[row] = r THEN committed[row] - heap[row] ELSE 0
  BY DEF Net
<1>3. \A row \in Money : Net(r)[row] \in Int
  BY <1>1, <1>2
<1>4. Debit(r) \in Int
  BY <1>3, MoneyFinite, SumRule DEF Debit
<1> QED
  BY <1>2, <1>3, <1>4

\* A step that leaves a transaction's rows alone leaves its debit alone.
LEMMA DebitSame ==
  ASSUME TypeOK, NEW r \in Requests, \A row \in Money : Net(r)'[row] = Net(r)[row]
  PROVE  Debit(r)' = Debit(r)
<1>1. \A row \in Money : Net(r)[row] \in Int /\ Net(r)'[row] = Net(r)[row]
  BY NetType
<1>2. SumOver(Net(r)', Money) = SumOver(Net(r), Money)
  BY <1>1, MoneyFinite, SumSame
<1> QED
  BY <1>2 DEF Debit, Money, Rows

\* SumPoint for the rows that hold money.
LEMMA MoneyPoint ==
  ASSUME NEW f, NEW g, NEW a \in Money,
         \A row \in Money : f[row] \in Int /\ g[row] \in Int,
         \A row \in Money \ {a} : g[row] = f[row]
  PROVE  SumOver(g, Money) = SumOver(f, Money) + (g[a] - f[a])
BY MoneyFinite, SumPoint

\* A step that changes one row of it changes its debit by as much.
LEMMA DebitRow ==
  ASSUME TypeOK, TypeOK', NEW r \in Requests, NEW a \in Money, NEW d \in Int,
         \A row \in Money \ {a} : Net(r)'[row] = Net(r)[row],
         Net(r)'[a] = Net(r)[a] + d
  PROVE  Debit(r)' = Debit(r) + d
<1>1. PICK f, g : f = Net(r) /\ g = Net(r)'
  OBVIOUS
<1>2. \A row \in Money : f[row] \in Int
  BY <1>1, NetType
<1>3. \A row \in Money \ {a} : g[row] = f[row]
  BY <1>1
<1>4. g[a] = f[a] + d
  BY <1>1
<1>5. \A row \in Money : f[row] \in Int /\ g[row] \in Int
  BY <1>2, <1>3, <1>4
<1>6. SumOver(g, Money) = SumOver(f, Money) + (g[a] - f[a])
  BY <1>3, <1>5, MoneyPoint
<1>7. g[a] - f[a] = d
  BY <1>4, <1>5
<1> QED
  BY <1>1, <1>6, <1>7 DEF Debit, Money, Rows

\* A request that is not part of a step keeps its balance.
LEMMA BalanceFrame ==
  ASSUME TypeOK, NEW q \in Requests, Balance(q), Debit(q)' = Debit(q),
         pc'[q] = pc[q], ret'[q] = ret[q], todo'[q] = todo[q], cost'[q] = cost[q],
         left'[q] = left[q], subPart'[q] = subPart[q],
         walletPart'[q] = walletPart[q], estimate'[q] = estimate[q],
         logged'[q] = logged[q]
  PROVE  Balance(q)'
<1>1. InSubs(q)' = InSubs(q)
  BY DEF InSubs
<1>2. BetweenCalls(q)'
  BY <1>1 DEF Balance, BetweenCalls
<1>3. InCharge(q)'
  BY <1>1 DEF Balance, InCharge
<1>4. InRefund(q)'
  BY <1>1 DEF Balance, InRefund
<1> QED
  BY <1>2, <1>3, <1>4 DEF Balance
\* A step of r leaves alone what the others have locked, and their locals.
OthersKept(r) ==
  \A q \in Requests \ {r} : \A row \in Money :
    /\ lock'[row] = q <=> lock[row] = q
    /\ lock[row] = q => heap'[row] = heap[row] /\ committed'[row] = committed[row]

LocalsKept(r) ==
  \A q \in Requests \ {r} :
    /\ pc'[q] = pc[q] /\ ret'[q] = ret[q] /\ todo'[q] = todo[q]
    /\ cost'[q] = cost[q] /\ left'[q] = left[q]
    /\ subPart'[q] = subPart[q] /\ walletPart'[q] = walletPart[q]
    /\ estimate'[q] = estimate[q] /\ logged'[q] = logged[q]

\* So it is the balance of r alone that a step of r has to restore.
LEMMA OwnBalance ==
  ASSUME TypeOK, Balanced, NEW r \in Requests, OthersKept(r), LocalsKept(r),
         Balance(r)'
  PROVE  Balanced'
<1> SUFFICES ASSUME NEW q \in Requests \ {r}
             PROVE  Balance(q)'
  BY DEF Balanced
<1>1. \A row \in Money : Net(q)'[row] = Net(q)[row]
  <2> SUFFICES ASSUME NEW row \in Money
               PROVE  Net(q)'[row] = Net(q)[row]
    OBVIOUS
  <2>1. Net(q)'[row] = IF lock'[row] = q THEN committed'[row] - heap'[row] ELSE 0
    BY DEF Net, Money, Rows
  <2>2. Net(q)[row] = IF lock[row] = q THEN committed[row] - heap[row] ELSE 0
    BY DEF Net
  <2>3. /\ lock'[row] = q <=> lock[row] = q
        /\ lock[row] = q => heap'[row] = heap[row] /\ committed'[row] = committed[row]
    BY DEF OthersKept
  <2> QED
    BY <2>1, <2>2, <2>3
<1>2. Debit(q)' = Debit(q)
  BY <1>1, DebitSame
<1>3. Balance(q)
  BY DEF Balanced
<1> QED
  BY <1>2, <1>3, BalanceFrame DEF LocalsKept

\* The call of charge_user, with the amount c already logged or, as a hold,
\* quoted: nothing has been taken of it yet.
LEMMA ChargeStarts ==
  ASSUME TypeOK, NEW r \in Requests, NEW c \in Nat, NEW next \in Returns,
         charge_user(r, c, next), Debit(r)' = Debit(r), next # "quote",
         next = "generate" => logged'[r] = 0 /\ Debit(r) = 0 /\ estimate'[r] = c,
         next # "generate" => logged'[r] \in Int /\ Debit(r) = logged'[r] - c
  PROVE  Balance(r)'
<1>1. /\ pc'[r] = IF c <= 0 THEN next ELSE "lockCharge"
      /\ ret'[r] = next /\ left'[r] = c
      /\ subPart'[r] = NoShare /\ walletPart'[r] = 0
  BY DEF charge_user, TypeOK, CallTypeOK
<1>2. InSubs(r)' = 0
  <2>1. SumOver(NoShare, Subs) = 0
    BY RowsAssumption, SumZero DEF NoShare
  <2> QED
    BY <1>1, <2>1 DEF InSubs
<1>3. CASE c = 0
  <2>1. pc'[r] = next
    BY <1>1, <1>3
  <2> QED
    BY <1>1, <1>2, <1>3, <2>1
       DEF Balance, BetweenCalls, InCharge, InRefund, Charging, Refunding, Returns
<1>4. CASE c # 0
  <2>1. pc'[r] = "lockCharge"
    BY <1>1, <1>4
  <2> QED
    BY <1>1, <1>2, <1>4, <2>1
       DEF Balance, BetweenCalls, InCharge, InRefund, Charging, Refunding
<1> QED
  BY <1>3, <1>4

\* The call of refund_to_sources, with the breakdown of a hold that covers the
\* amount, which has been taken on top of what is logged.
LEMMA RefundStarts ==
  ASSUME TypeOK, NEW r \in Requests, NEW amount \in Nat \ {0},
         NEW next \in Returns \ {"generate"}, refund_to_sources(r, amount, next),
         logged'[r] \in Nat, next = "quote" => logged'[r] = 0,
         Debit(r)' = Debit(r), Debit(r) = logged'[r] + amount,
         amount <= InSubs(r) + walletPart[r]
  PROVE  Balance(r)'
<1> DEFINE wallet == Lesser(walletPart[r], amount)
<1>1. /\ pc'[r] = IF amount > wallet THEN "lockRefund" ELSE "refundWallet"
      /\ ret'[r] = next /\ cost'[r] = amount /\ left'[r] = amount - wallet
      /\ walletPart'[r] = wallet
      /\ subPart'[r] = IF amount > wallet THEN subPart[r] ELSE NoShare
  BY DEF refund_to_sources, TypeOK, CallTypeOK
<1>2. /\ wallet \in Nat /\ wallet <= amount
      /\ amount > wallet => wallet = walletPart[r]
  BY DEF Lesser, TypeOK, CallTypeOK
<1>3. InSubs(r) \in Int
  BY RowsAssumption, SumRule DEF InSubs, TypeOK, CallTypeOK
<1> HIDE DEF wallet
<1>4. CASE amount > wallet
  <2>1. InSubs(r)' = InSubs(r)
    BY <1>1, <1>4 DEF InSubs
  <2>2. pc'[r] = "lockRefund"
    BY <1>1, <1>4
  <2>3. left'[r] <= InSubs(r)'
    BY <1>1, <1>2, <1>3, <1>4, <2>1
  <2> QED
    BY <1>1, <1>2, <1>4, <2>2, <2>3
       DEF Balance, BetweenCalls, InCharge, InRefund, Charging, Refunding
<1>5. CASE ~(amount > wallet)
  <2>1. InSubs(r)' = 0
    <3>1. SumOver(NoShare, Subs) = 0
      BY RowsAssumption, SumZero DEF NoShare
    <3> QED
      BY <1>1, <1>5, <3>1 DEF InSubs
  <2>2. pc'[r] = "refundWallet" /\ wallet = amount
    BY <1>1, <1>2, <1>5
  <2> QED
    BY <1>1, <2>1, <2>2
       DEF Balance, BetweenCalls, InCharge, InRefund, Charging, Refunding
<1> QED
  BY <1>4, <1>5

\* A step that writes no row of the user's money keeps every debit.
LEMMA KeyWrite ==
  ASSUME TypeOK, NEW r \in Requests,
         \A row \in Money : /\ lock'[row] = lock[row] /\ heap'[row] = heap[row]
                            /\ committed'[row] = committed[row]
  PROVE  OthersKept(r) /\ Debit(r)' = Debit(r)
<1>1. OthersKept(r)
  BY DEF OthersKept
<1>2. \A row \in Money : Net(r)'[row] = Net(r)[row]
  BY DEF Net, Money, Rows
<1>3. Debit(r)' = Debit(r)
  BY <1>2, DebitSame
<1> QED
  BY <1>1, <1>3

\* The handler's own steps: they call charge_user or refund_to_sources, or
\* move on without either.
LEMMA HandlerBalanced ==
  ASSUME TypeOK, TypeOK', Balanced, NEW r \in Requests,
         \/ Load(r) \/ Gate(r) \/ SkipCandidate(r) \/ Hold(r)
         \/ \E c \in Costs : \/ ChatAnswered(r, c) \/ Quote(r, c)
                             \/ Generated(r, c)
         \/ \E c \in ClassifierCosts : Classify(r, c)
         \/ \E status \in {200, 502} : GenerateFailed(r, status)
  PROVE  Balanced'
<1> USE AmountsAssumption
<1> USE DEF db, world, session, call, relay
<1>0. Balance(r) /\ Debit(r) \in Int
  BY NetType DEF Balanced
<1>1. UNCHANGED <<committed, heap, lock>>
  BY DEF Load, Gate, SkipCandidate, Hold, ChatAnswered, Quote, Generated, Classify,
         GenerateFailed
<1>2. OthersKept(r) /\ Debit(r)' = Debit(r)
  BY <1>1, KeyWrite
<1>3. LocalsKept(r)
  BY DEF Load, Gate, SkipCandidate, Hold, ChatAnswered, Quote, Generated, Classify,
         GenerateFailed, charge_user, refund_to_sources, LocalsKept, TypeOK,
         CallTypeOK, RelayTypeOK
<1> SUFFICES Balance(r)'
  BY <1>2, <1>3, OwnBalance
<1>4. CASE Load(r) \/ Gate(r) \/ SkipCandidate(r)
  <2>1. /\ pc[r] \in {"idle", "gate", "quote"}
        /\ pc'[r] \in {"gate", "denied", "quote", "upstream", "commit"}
        /\ logged'[r] = logged[r]
    BY <1>4 DEF Load, Gate, SkipCandidate, AfterCandidate, TypeOK, CallTypeOK
  <2> QED
    BY <1>0, <1>2, <2>1
       DEF Balance, BetweenCalls, InCharge, InRefund, Charging, Refunding
<1>5. CASE Hold(r)
  <2>1. /\ pc[r] = "hold" /\ charge_user(r, estimate[r], "generate")
        /\ logged'[r] = logged[r] /\ estimate'[r] = estimate[r]
    BY <1>5 DEF Hold
  <2>2. Debit(r) = 0 /\ logged'[r] = 0 /\ estimate[r] \in Nat
    BY <1>0, <2>1 DEF Balance, BetweenCalls, TypeOK, RelayTypeOK
  <2> QED
    BY <1>2, <2>1, <2>2, ChargeStarts DEF Returns
<1>6. ASSUME NEW c \in Costs, ChatAnswered(r, c)
      PROVE  Balance(r)'
  <2>1. pc[r] = "upstream" /\ charge_user(r, c, "classify") /\ logged'[r] = c
    BY <1>6 DEF ChatAnswered, TypeOK, RelayTypeOK
  <2>2. c \in Nat
    OBVIOUS
  <2>3. Debit(r) = 0
    BY <1>0, <2>1 DEF Balance, BetweenCalls
  <2>4. Debit(r) = c - c
    BY <2>2, <2>3
  <2> QED
    BY <1>2, <2>1, <2>2, <2>4, ChargeStarts DEF Returns
<1>7. ASSUME NEW c \in ClassifierCosts, Classify(r, c)
      PROVE  Balance(r)'
  <2>1. /\ pc[r] = "classify" /\ charge_user(r, c, "commit")
        /\ logged'[r] = logged[r] + c /\ logged[r] \in Nat
    BY <1>7 DEF Classify, TypeOK, RelayTypeOK
  <2>2. Debit(r) = logged[r] /\ c \in Nat
    BY <1>0, <2>1 DEF Balance, BetweenCalls
  <2>3. logged'[r] \in Int /\ Debit(r) = logged'[r] - c
    BY <2>1, <2>2
  <2> QED
    BY <1>2, <2>1, <2>2, <2>3, ChargeStarts DEF Returns
<1>8. ASSUME NEW c \in Costs, Quote(r, c)
      PROVE  Balance(r)'
  <2>1. pc[r] = "quote" /\ pc'[r] = "hold" /\ logged'[r] = logged[r]
    BY <1>8 DEF Quote, TypeOK, CallTypeOK
  <2> QED
    BY <1>0, <1>2, <2>1
       DEF Balance, BetweenCalls, InCharge, InRefund, Charging, Refunding
<1>9. ASSUME NEW a \in Costs, Generated(r, a)
      PROVE  Balance(r)'
  <2>1. /\ pc[r] = "generate" /\ logged'[r] = a /\ a \in Nat
        /\ estimate[r] \in Nat /\ walletPart[r] \in Nat
    BY <1>9 DEF Generated, TypeOK, CallTypeOK, RelayTypeOK
  <2>2. Debit(r) = estimate[r] /\ InSubs(r) + walletPart[r] = estimate[r]
    BY <1>0, <2>1 DEF Balance, BetweenCalls
  <2>3. CASE a < estimate[r]
    <3>1. refund_to_sources(r, estimate[r] - a, "classify")
      BY <1>9, <2>3 DEF Generated
    <3>2. /\ estimate[r] - a \in Nat \ {0}
          /\ Debit(r) = logged'[r] + (estimate[r] - a)
          /\ estimate[r] - a <= InSubs(r) + walletPart[r]
      BY <2>1, <2>2, <2>3
    <3> QED
      BY <1>2, <2>1, <3>1, <3>2, RefundStarts DEF Returns
  <2>4. CASE ~(a < estimate[r])
    <3>1. charge_user(r, a - estimate[r], "classify")
      BY <1>9, <2>4 DEF Generated
    <3>2. a - estimate[r] \in Nat /\ Debit(r) = logged'[r] - (a - estimate[r])
      BY <2>1, <2>2, <2>4
    <3> QED
      BY <1>2, <2>1, <3>1, <3>2, ChargeStarts DEF Returns
  <2> QED
    BY <2>3, <2>4
<1>10. ASSUME NEW status \in {200, 502}, GenerateFailed(r, status)
       PROVE  Balance(r)'
  <2> DEFINE next == AfterCandidate(r, status)
  <2>1. next \in {"quote", "classify", "commit"}
    BY DEF AfterCandidate
  <2>2. /\ pc[r] = "generate" /\ logged'[r] = logged[r] /\ logged[r] \in Nat
        /\ estimate[r] \in Nat /\ walletPart[r] \in Nat
    BY <1>10 DEF GenerateFailed, TypeOK, CallTypeOK, RelayTypeOK
  <2>3. /\ Debit(r) = estimate[r] /\ InSubs(r) + walletPart[r] = estimate[r]
        /\ logged[r] = 0
    BY <1>0, <2>2 DEF Balance, BetweenCalls
  <2>4. CASE estimate[r] > 0
    <3>1. refund_to_sources(r, estimate[r], next)
      BY <1>10, <2>4 DEF GenerateFailed
    <3>2. /\ estimate[r] \in Nat \ {0} /\ Debit(r) = logged'[r] + estimate[r]
          /\ estimate[r] <= InSubs(r) + walletPart[r]
          /\ next \in Returns \ {"generate"}
      BY <2>1, <2>2, <2>3, <2>4 DEF Returns
    <3> HIDE DEF next
    <3> QED
      BY <1>2, <2>2, <2>3, <3>1, <3>2, RefundStarts
  <2>5. CASE ~(estimate[r] > 0)
    <3>1. pc'[r] = next /\ Debit(r) = 0
      BY <1>10, <2>2, <2>3, <2>5 DEF GenerateFailed, TypeOK, CallTypeOK
    <3> HIDE DEF next
    <3> QED
      BY <1>2, <2>1, <2>2, <2>3, <3>1
         DEF Balance, BetweenCalls, InCharge, InRefund, Charging, Refunding
  <2> QED
    BY <2>4, <2>5
<1> QED
  BY <1>4, <1>5, <1>6, <1>7, <1>8, <1>9, <1>10

\* FOR UPDATE takes no money: a row nobody has locked has no uncommitted
\* version.
LEMMA LockBalanced ==
  ASSUME TypeOK, TypeOK', LockInv, Balanced, NEW r \in Requests, NEW s \in Subs,
         LockSub(r, s)
  PROVE  Balanced'
<1> USE RequestsAssumption, RowsAssumption
<1>1. /\ pc[r] \in {"lockCharge", "lockRefund"}
      /\ lock[s] \in {NoTx, r} /\ lock' = [lock EXCEPT ![s] = r]
      /\ UNCHANGED <<committed, heap, pc, ret, cost, left, subPart, walletPart,
                     estimate, logged>>
      /\ \A q \in Requests \ {r} : todo'[q] = todo[q]
  BY DEF LockSub, MayLock, TypeOK, CallTypeOK, relay
<1>2. OthersKept(r)
  BY <1>1 DEF OthersKept, TypeOK, DbTypeOK, Money, Rows
<1>3. LocalsKept(r)
  BY <1>1 DEF LocalsKept
<1>4. Debit(r)' = Debit(r)
  <2>1. \A row \in Money : committed[row] \in Int /\ heap[row] \in Int
    BY DEF TypeOK, DbTypeOK, Money
  <2>2. \A row \in Money \ {s} : Net(r)'[row] = Net(r)[row]
    BY <1>1 DEF Net, Money, Rows, TypeOK, DbTypeOK
  <2>3. Net(r)'[s] = committed[s] - heap[s]
    BY <1>1 DEF Net, Money, Rows, TypeOK, DbTypeOK
  <2>4. Net(r)[s] = IF lock[s] = r THEN committed[s] - heap[s] ELSE 0
    BY DEF Net, Money, Rows
  <2>5. lock[s] = NoTx => committed[s] - heap[s] = 0
    BY <2>1 DEF LockInv, RowsClean, Rows, Money
  <2>6. Net(r)'[s] = Net(r)[s]
    BY <1>1, <2>3, <2>4, <2>5
  <2>7. \A row \in Money : Net(r)'[row] = Net(r)[row]
    BY <2>2, <2>6
  <2> QED
    BY <2>7, DebitSame
<1>5. Balance(r)'
  <2>1. InSubs(r)' = InSubs(r)
    BY <1>1 DEF InSubs
  <2> QED
    BY <1>1, <1>4, <2>1
       DEF Balanced, Balance, BetweenCalls, InCharge, InRefund, Charging, Refunding
<1> QED
  BY <1>2, <1>3, <1>5, OwnBalance

\* A breakdown in which one share changes.
LEMMA InSubsRow ==
  ASSUME NEW f \in [Subs -> Nat], NEW s \in Subs, NEW d \in Nat
  PROVE  SumOver([f EXCEPT ![s] = d], Subs) = SumOver(f, Subs) + (d - f[s])
<1>1. PICK g : g = [f EXCEPT ![s] = d]
  OBVIOUS
<1>2. (\A t \in Subs : f[t] \in Int /\ g[t] \in Int) /\ g[s] = d
  BY <1>1
<1>3. \A t \in Subs \ {s} : g[t] = f[t]
  BY <1>1
<1>4. IsFiniteSet(Subs)
  BY RowsAssumption
<1>5. SumOver(g, Subs) = SumOver(f, Subs) + (g[s] - f[s])
  BY <1>2, <1>3, <1>4, SumPoint
<1> QED
  BY <1>1, <1>2, <1>5

\* Draining a row moves its share into the breakdown.
LEMMA DrainBalanced ==
  ASSUME TypeOK, TypeOK', LockInv, DrainInv, Balanced,
         NEW r \in Requests, NEW s \in Subs, DrainSub(r, s)
  PROVE  Balanced'
<1> USE RequestsAssumption, RowsAssumption
<1> DEFINE take == Lesser(read[r][s], left[r])
<1>1. /\ pc[r] = "drain" /\ s \in todo[r]
      /\ heap' = [heap EXCEPT ![s] = heap[s] - take]
      /\ left' = [left EXCEPT ![r] = left[r] - take]
      /\ subPart' = [subPart EXCEPT ![r][s] = take]
      /\ lock' = [lock EXCEPT ![s] = r]
      /\ UNCHANGED <<committed, pc, ret, cost, walletPart, estimate, logged>>
      /\ \A q \in Requests \ {r} : todo'[q] = todo[q]
  BY DEF DrainSub, Soonest, TypeOK, DbTypeOK, CallTypeOK, Rows, relay
<1>2. take \in Nat
  BY DEF Lesser, TypeOK, CallTypeOK
<1> HIDE DEF take
<1>3. lock[s] = r
  BY <1>1 DEF LockInv, DrainsFetched, ReadsLocked
<1>4. subPart[r][s] = 0
  BY <1>1 DEF DrainInv, DrainOrder
<1>5. OthersKept(r)
  BY <1>1, <1>3 DEF OthersKept, TypeOK, DbTypeOK, Money, Rows
<1>6. LocalsKept(r)
  BY <1>1 DEF LocalsKept, TypeOK, CallTypeOK
<1>7. Debit(r)' = Debit(r) + take
  <2>1. s \in Money /\ committed[s] \in Int /\ heap[s] \in Int
    BY DEF TypeOK, DbTypeOK, Money, Rows
  <2>2. \A row \in Money \ {s} : Net(r)'[row] = Net(r)[row]
    BY <1>1 DEF Net, Money, Rows, TypeOK, DbTypeOK
  <2>3. Net(r)'[s] = committed[s] - (heap[s] - take)
    BY <1>1 DEF Net, Money, Rows, TypeOK, DbTypeOK
  <2>4. Net(r)[s] = committed[s] - heap[s]
    BY <1>3, <2>1 DEF Net
  <2>5. Net(r)'[s] = Net(r)[s] + take
    BY <1>2, <2>1, <2>3, <2>4
  <2> QED
    BY <1>2, <2>1, <2>2, <2>5, DebitRow
<1>8. InSubs(r)' = InSubs(r) + take
  <2>1. subPart[r] \in [Subs -> Nat] /\ subPart'[r] = [subPart[r] EXCEPT ![s] = take]
    BY <1>1 DEF TypeOK, CallTypeOK
  <2>2. InSubs(r)' = InSubs(r) + (take - subPart[r][s])
    BY <1>2, <2>1, InSubsRow DEF InSubs
  <2> QED
    BY <1>2, <1>4, <2>2
<1>9. Balance(r)'
  <2>1. Debit(r) \in Int /\ InSubs(r) \in Int
    BY NetType, SumRule DEF InSubs, TypeOK, CallTypeOK
  <2>2. /\ pc'[r] = "drain" /\ ret'[r] = ret[r] /\ left'[r] = left[r] - take
        /\ logged'[r] = logged[r] /\ estimate'[r] = estimate[r]
        /\ walletPart'[r] = walletPart[r]
        /\ left[r] \in Nat /\ logged[r] \in Nat /\ estimate[r] \in Nat
        /\ walletPart[r] \in Nat
    BY <1>1 DEF TypeOK, CallTypeOK, RelayTypeOK
  <2>3. /\ ret[r] # "quote"
        /\ ret[r] = "generate" =>
             /\ logged[r] = 0
             /\ Debit(r) = estimate[r] - left[r]
             /\ InSubs(r) + walletPart[r] = estimate[r] - left[r]
        /\ ret[r] # "generate" => Debit(r) = logged[r] - left[r]
    BY <1>1 DEF Balanced, Balance, InCharge, Charging
  <2>4. InCharge(r)'
    BY <1>2, <1>7, <1>8, <2>1, <2>2, <2>3 DEF InCharge, Charging
  <2> QED
    BY <2>2, <2>4 DEF Balance, BetweenCalls, InRefund, Refunding
<1> QED
  BY <1>5, <1>6, <1>9, OwnBalance

\* An UPDATE of the wallet by -d adds d to the debit of its transaction.
LEMMA WalletWrite ==
  ASSUME TypeOK, TypeOK', LockInv, NEW r \in Requests, NEW d \in Int,
         MayLock(r, Wallet), lock' = [lock EXCEPT ![Wallet] = r],
         heap' = [heap EXCEPT ![Wallet] = heap[Wallet] - d], committed' = committed
  PROVE  OthersKept(r) /\ Debit(r)' = Debit(r) + d
<1> USE RequestsAssumption, RowsAssumption
<1>1. OthersKept(r)
  BY DEF OthersKept, MayLock, TypeOK, DbTypeOK, Money, Rows
<1>2. Wallet \in Money /\ committed[Wallet] \in Int /\ heap[Wallet] \in Int
  BY DEF TypeOK, DbTypeOK, Money, Rows
<1>3. \A row \in Money \ {Wallet} : Net(r)'[row] = Net(r)[row]
  BY DEF Net, Money, Rows, TypeOK, DbTypeOK
<1>4. Net(r)'[Wallet] = committed[Wallet] - (heap[Wallet] - d)
  BY DEF Net, Money, Rows, TypeOK, DbTypeOK
<1>5. Net(r)[Wallet] = committed[Wallet] - heap[Wallet]
  <2>1. Net(r)[Wallet] = IF lock[Wallet] = r THEN committed[Wallet] - heap[Wallet] ELSE 0
    BY <1>2 DEF Net
  <2>2. lock[Wallet] = NoTx => committed[Wallet] - heap[Wallet] = 0
    BY <1>2 DEF LockInv, RowsClean, Money
  <2> QED
    BY <2>1, <2>2 DEF MayLock
<1>6. Net(r)'[Wallet] = Net(r)[Wallet] + d
  BY <1>2, <1>4, <1>5
<1>7. Debit(r)' = Debit(r) + d
  BY <1>2, <1>3, <1>6, DebitRow
<1> QED
  BY <1>1, <1>7

\* What is left of a charge is taken from the wallet.
LEMMA ChargeWalletBalanced ==
  ASSUME TypeOK, TypeOK', LockInv, DrainInv, Balanced, NEW r \in Requests,
         ChargeWallet(r)
  PROVE  Balanced'
<1>1. /\ pc[r] = "drain" /\ pc'[r] = "chargeKey" /\ ret'[r] = ret[r]
      /\ left'[r] = 0 /\ walletPart'[r] = left[r] /\ subPart'[r] = subPart[r]
      /\ logged'[r] = logged[r] /\ estimate'[r] = estimate[r]
      /\ left[r] \in Nat /\ logged[r] \in Nat /\ estimate[r] \in Nat
  BY DEF ChargeWallet, TypeOK, CallTypeOK, RelayTypeOK, relay
<1>2. LocalsKept(r)
  BY DEF ChargeWallet, LocalsKept, TypeOK, CallTypeOK, relay
<1>3. OthersKept(r) /\ Debit(r)' = Debit(r) + left[r]
  <2>1. CASE left[r] > 0
    BY <1>1, <2>1, WalletWrite DEF ChargeWallet
  <2>2. CASE left[r] = 0
    <3>1. UNCHANGED <<committed, heap, lock>>
      BY <2>2 DEF ChargeWallet
    <3>2. OthersKept(r) /\ Debit(r)' = Debit(r) /\ Debit(r) \in Int
      BY <3>1, KeyWrite, NetType
    <3> QED
      BY <2>2, <3>2
  <2> QED
    BY <1>1, <2>1, <2>2
<1>4. walletPart[r] = 0
  BY <1>1 DEF DrainInv, DrainOrder
<1>5. InSubs(r)' = InSubs(r)
  BY <1>1 DEF InSubs
<1>6. Debit(r) \in Int /\ InSubs(r) \in Int
  BY NetType, RowsAssumption, SumRule DEF InSubs, TypeOK, CallTypeOK
<1>7. /\ ret[r] # "quote"
      /\ ret[r] = "generate" =>
           /\ logged[r] = 0
           /\ Debit(r) = estimate[r] - left[r]
           /\ InSubs(r) + walletPart[r] = estimate[r] - left[r]
      /\ ret[r] # "generate" => Debit(r) = logged[r] - left[r]
  BY <1>1 DEF Balanced, Balance, InCharge, Charging
<1>8. InCharge(r)'
  BY <1>1, <1>3, <1>4, <1>5, <1>6, <1>7 DEF InCharge, Charging
<1>9. Balance(r)'
  BY <1>1, <1>8 DEF Balance, BetweenCalls, InRefund, Refunding
<1> QED
  BY <1>2, <1>3, <1>9, OwnBalance

\* The key's counter is no money, and the call that ends with it has taken
\* its whole charge.
LEMMA ChargeKeyBalanced ==
  ASSUME TypeOK, TypeOK', Balanced, NEW r \in Requests, ChargeKey(r)
  PROVE  Balanced'
<1>1. /\ pc[r] = "chargeKey" /\ pc'[r] = ret[r] /\ ret[r] \in Returns
      /\ ret[r] = "generate" =>
           subPart'[r] = subPart[r] /\ walletPart'[r] = walletPart[r]
      /\ logged'[r] = logged[r] /\ estimate'[r] = estimate[r]
      /\ logged[r] \in Nat /\ estimate[r] \in Nat
  BY DEF ChargeKey, EndCall, TypeOK, CallTypeOK, RelayTypeOK, relay
<1>2. LocalsKept(r)
  BY DEF ChargeKey, EndCall, LocalsKept, TypeOK, CallTypeOK, relay
<1>3. \A row \in Money : /\ lock'[row] = lock[row] /\ heap'[row] = heap[row]
                         /\ committed'[row] = committed[row]
  BY DEF ChargeKey, TypeOK, DbTypeOK, Money
<1>4. OthersKept(r) /\ Debit(r)' = Debit(r)
  BY <1>3, KeyWrite
<1>5. ret[r] = "generate" => InSubs(r)' = InSubs(r)
  BY <1>1 DEF InSubs
<1>6. /\ ret[r] # "quote"
      /\ ret[r] = "generate" =>
           /\ logged[r] = 0
           /\ Debit(r) = estimate[r]
           /\ InSubs(r) + walletPart[r] = estimate[r]
      /\ ret[r] # "generate" => Debit(r) = logged[r]
  BY <1>1 DEF Balanced, Balance, InCharge, Charging
<1>7. Balance(r)'
  BY <1>1, <1>4, <1>5, <1>6
     DEF Balance, BetweenCalls, InCharge, InRefund, Charging, Refunding, Returns
<1> QED
  BY <1>2, <1>4, <1>7, OwnBalance

\* The steps of the two loops that only move their cursor.
LEMMA CursorBalanced ==
  ASSUME TypeOK, TypeOK', Balanced, NEW r \in Requests,
         StartDrain(r) \/ StartPlan(r) \/ EndPlan(r)
  PROVE  Balanced'
<1>1. /\ UNCHANGED <<committed, heap, lock>>
      /\ UNCHANGED <<ret, cost, left, subPart, walletPart, estimate, logged>>
  BY DEF StartDrain, StartPlan, EndPlan, db, call, relay
<1>2. LocalsKept(r)
  BY <1>1 DEF StartDrain, StartPlan, EndPlan, LocalsKept, TypeOK, CallTypeOK, call
<1>3. OthersKept(r) /\ Debit(r)' = Debit(r)
  BY <1>1, KeyWrite
<1>4. subPart[r] \in [Subs -> Nat] /\ InSubs(r)' = InSubs(r)
  BY <1>1 DEF InSubs, TypeOK, CallTypeOK
<1>5. Balance(r)
  BY DEF Balanced
<1>6. CASE StartDrain(r)
  <2>1. pc[r] = "lockCharge" /\ pc'[r] = "drain"
    BY <1>6 DEF StartDrain, TypeOK, CallTypeOK
  <2>2. Balance(r)'
    BY <1>1, <1>3, <1>4, <1>5, <2>1
       DEF Balance, BetweenCalls, InCharge, InRefund, Charging, Refunding
  <2> QED
    BY <1>2, <1>3, <2>2, OwnBalance
<1>7. CASE StartPlan(r)
  <2> DEFINE shared == {s \in Subs : subPart[r][s] > 0}
             f == subPart[r]
  <2>1. pc[r] = "lockRefund" /\ pc'[r] = "plan" /\ todo'[r] = shared
    BY <1>7 DEF StartPlan, TypeOK, CallTypeOK
  <2>2. shared \in SUBSET Subs /\ IsFiniteSet(Subs \ shared)
    BY RowsAssumption, FS_Subset
  <2>3. \A s \in Subs \ shared : f[s] = 0
    BY <1>4
  <2>4. \A s \in Subs : f[s] \in Int
    BY <1>4
  <2> HIDE DEF shared
  <2>5. SumOver(f, Subs \ shared) = 0
    BY <2>2, <2>3, SumZero
  <2>6. IsFiniteSet(Subs)
    BY RowsAssumption
  <2>7. SumOver(f, Subs) = SumOver(f, shared) + SumOver(f, Subs \ shared)
    BY <2>2, <2>4, <2>6, SumSplit
  <2>8. IsFiniteSet(shared) /\ \A s \in shared : f[s] \in Int
    BY <2>2, <2>4, <2>6, FS_Subset
  <2>9. SumOver(f, shared) \in Int
    BY <2>8, SumRule
  <2>10. SumOver(f, shared) = InSubs(r)
    BY <2>5, <2>7, <2>9 DEF InSubs
  <2>11. /\ Debit(r) = logged[r] + cost[r] /\ cost[r] = left[r] + walletPart[r]
         /\ left[r] <= InSubs(r)
         /\ ret[r] # "generate" /\ (ret[r] = "quote" => logged[r] = 0)
    BY <1>5, <2>1 DEF Balance, InRefund, Refunding
  <2>12. left[r] \in Nat /\ walletPart[r] \in Nat
    BY DEF TypeOK, CallTypeOK
  <2>13. cost[r] = left[r] + walletPart[r] + 0
    BY <2>11, <2>12
  <2>14. InRefund(r)'
    BY <1>1, <1>3, <2>1, <2>5, <2>10, <2>11, <2>13 DEF InRefund, Refunding
  <2>15. Balance(r)'
    BY <2>1, <2>14 DEF Balance, BetweenCalls, InCharge, Charging
  <2> QED
    BY <1>2, <1>3, <2>15, OwnBalance
<1>8. CASE EndPlan(r)
  <2>1. pc[r] = "plan" /\ pc'[r] = "refundWallet" /\ todo[r] = {}
    BY <1>8 DEF EndPlan, TypeOK, CallTypeOK
  <2>2. Subs \ todo[r] = Subs
    BY <2>1
  <2>3. /\ Debit(r) = logged[r] + cost[r]
        /\ cost[r] = left[r] + walletPart[r] + SumOver(subPart[r], Subs \ todo[r])
        /\ left[r] <= SumOver(subPart[r], todo[r])
        /\ ret[r] # "generate" /\ (ret[r] = "quote" => logged[r] = 0)
    BY <1>5, <2>1 DEF Balance, InRefund, Refunding
  <2>4. SumOver(subPart[r], {}) = 0 /\ InSubs(r) \in Int
    BY <1>4, RowsAssumption, SumRule DEF InSubs
  <2>5. left[r] \in Nat /\ walletPart[r] \in Nat
    BY DEF TypeOK, CallTypeOK
  <2>6. left[r] = 0
    BY <2>1, <2>3, <2>4, <2>5
  <2>7. SumOver(subPart[r], Subs \ todo[r]) = InSubs(r)
    BY <2>2 DEF InSubs
  <2>8. cost[r] = walletPart[r] + InSubs(r)
    BY <2>3, <2>4, <2>5, <2>6, <2>7
  <2>9. Balance(r)'
    BY <1>1, <1>3, <1>4, <2>1, <2>3, <2>8
       DEF Balance, BetweenCalls, InCharge, InRefund, Charging, Refunding
  <2> QED
    BY <1>2, <1>3, <2>9, OwnBalance
<1> QED
  BY <1>6, <1>7, <1>8

\* One entry of the plan: what it takes off `left' it adds to the shares of
\* the subscriptions that were visited, or to the wallet's.
LEMMA PlanBalanced ==
  ASSUME TypeOK, TypeOK', Balanced, NEW r \in Requests, NEW s \in Subs,
         PlanSub(r, s)
  PROVE  Balanced'
<1> DEFINE give  == Lesser(subPart[r][s], left[r])
           share == IF s \in Fetched(r) THEN give ELSE 0
           f     == subPart[r]
           g     == subPart'[r]
           rest  == Subs \ todo[r]
<1>1. /\ pc[r] = "plan" /\ pc'[r] = "plan" /\ s \in todo[r]
      /\ todo'[r] = todo[r] \ {s}
      /\ left'[r] = left[r] - give
      /\ g = [f EXCEPT ![s] = share]
      /\ walletPart'[r] = walletPart[r] + (give - share)
      /\ ret'[r] = ret[r] /\ cost'[r] = cost[r] /\ logged'[r] = logged[r]
  BY DEF PlanSub, Soonest, TypeOK, CallTypeOK, relay, Lesser
<1>2. /\ f \in [Subs -> Nat] /\ g \in [Subs -> Nat] /\ todo[r] \subseteq Subs
      /\ left[r] \in Nat /\ walletPart[r] \in Nat
      /\ give \in Nat /\ give <= f[s] /\ (give = f[s] \/ give = left[r])
      /\ share \in Nat
  BY DEF TypeOK, CallTypeOK, Lesser
<1>3. LocalsKept(r)
  BY DEF PlanSub, LocalsKept, TypeOK, CallTypeOK, relay
<1>4. UNCHANGED <<committed, heap, lock>>
  BY DEF PlanSub, db
<1>5. OthersKept(r) /\ Debit(r)' = Debit(r)
  BY <1>4, KeyWrite
<1>6. /\ Debit(r) = logged[r] + cost[r]
      /\ cost[r] = left[r] + walletPart[r] + SumOver(f, rest)
      /\ left[r] <= SumOver(f, todo[r])
      /\ ret[r] # "generate" /\ (ret[r] = "quote" => logged[r] = 0)
  BY <1>1 DEF Balanced, Balance, InRefund, Refunding
<1> HIDE DEF give, share, f, g
<1>7. SumOver(g, Subs \ todo'[r]) = share + SumOver(f, rest) /\ SumOver(f, rest) \in Int
  <2>1. Subs \ todo'[r] = rest \union {s}
    BY <1>1, <1>2
  <2>2. (rest \union {s}) \ {s} = rest
    BY <1>1
  <2>3. IsFiniteSet(rest) /\ IsFiniteSet(rest \union {s})
    BY RowsAssumption, FS_Subset
  <2>4. g[s] = share /\ \A t \in rest : f[t] \in Int /\ g[t] = f[t]
    BY <1>1, <1>2
  <2>5. \A t \in rest \union {s} : g[t] \in Int
    BY <1>2
  <2>6. SumOver(g, rest \union {s}) = g[s] + SumOver(g, (rest \union {s}) \ {s})
    BY <2>3, <2>5, SumRule
  <2> HIDE DEF rest
  <2>7. SumOver(g, rest) = SumOver(f, rest)
    BY <2>3, <2>4, SumSame
  <2>8. SumOver(f, rest) \in Int
    BY <2>3, <2>4, SumRule
  <2> QED
    BY <2>1, <2>2, <2>4, <2>6, <2>7, <2>8
<1>8. /\ SumOver(g, todo'[r]) = SumOver(f, todo[r]) - f[s]
      /\ SumOver(g, todo'[r]) \in Nat
      /\ SumOver(f, todo[r]) \in Int
  <2> DEFINE T == todo[r]
             R == T \ {s}
  <2>1. IsFiniteSet(T) /\ IsFiniteSet(R)
    BY <1>2, RowsAssumption, FS_Subset
  <2>2. s \in T /\ f[s] \in Int /\ (\A t \in T : f[t] \in Int)
    BY <1>1, <1>2
  <2>3. \A t \in R : f[t] \in Int /\ g[t] = f[t]
    BY <1>1, <1>2
  <2>3a. \A t \in R : f[t] \in Nat
    BY <1>2
  <2> HIDE DEF T
  <2>4. SumOver(f, T) = f[s] + SumOver(f, R)
    BY <2>1, <2>2, SumRule
  <2> HIDE DEF R
  <2>5. SumOver(g, R) = SumOver(f, R)
    BY <2>1, <2>3, SumSame
  <2>6. SumOver(f, R) \in Nat
    BY <2>1, <2>3a, SumNatural
  <2>7. SumOver(g, R) = SumOver(f, T) - f[s] /\ SumOver(f, T) \in Int
    BY <2>2, <2>4, <2>5, <2>6
  <2> QED
    BY <1>1, <2>5, <2>6, <2>7 DEF R, T
<1> HIDE DEF rest
<1>9. cost[r] = left'[r] + walletPart'[r] + SumOver(g, Subs \ todo'[r])
  BY <1>1, <1>2, <1>6, <1>7
<1>10. left'[r] <= SumOver(g, todo'[r])
  BY <1>1, <1>2, <1>6, <1>8
<1>11. InRefund(r)'
  BY <1>1, <1>5, <1>6, <1>9, <1>10 DEF InRefund, Refunding, g
<1>12. Balance(r)'
  BY <1>1, <1>11 DEF Balance, BetweenCalls, InCharge, Charging
<1> QED
  BY <1>3, <1>5, <1>12, OwnBalance

\* The refund's first UPDATE gives the wallet its share ...
LEMMA RefundWalletBalanced ==
  ASSUME TypeOK, TypeOK', LockInv, Balanced, NEW r \in Requests, RefundWallet(r)
  PROVE  Balanced'
<1>1. /\ pc[r] = "refundWallet" /\ pc'[r] = "refundSubs" /\ ret'[r] = ret[r]
      /\ subPart'[r] = subPart[r] /\ logged'[r] = logged[r]
      /\ walletPart[r] \in Nat /\ logged[r] \in Nat
  BY DEF RefundWallet, TypeOK, CallTypeOK, RelayTypeOK, call, relay
<1>2. LocalsKept(r)
  BY DEF RefundWallet, LocalsKept, TypeOK, CallTypeOK, call, relay
<1>3. OthersKept(r) /\ Debit(r)' = Debit(r) + (-walletPart[r])
  <2>1. CASE walletPart[r] > 0
    <3>1. heap[Wallet] + walletPart[r] = heap[Wallet] - (-walletPart[r])
      BY <1>1 DEF TypeOK, DbTypeOK, Rows
    <3>2. heap' = [heap EXCEPT ![Wallet] = heap[Wallet] - (-walletPart[r])]
      BY <2>1, <3>1 DEF RefundWallet
    <3>3. -walletPart[r] \in Int
      BY <1>1
    <3> QED
      BY <2>1, <3>2, <3>3, WalletWrite DEF RefundWallet
  <2>2. CASE walletPart[r] = 0
    <3>1. UNCHANGED <<committed, heap, lock>>
      BY <2>2 DEF RefundWallet
    <3>2. OthersKept(r) /\ Debit(r)' = Debit(r) /\ Debit(r) \in Int
      BY <3>1, KeyWrite, NetType
    <3> QED
      BY <2>2, <3>2
  <2> QED
    BY <1>1, <2>1, <2>2
<1>4. InSubs(r)' = InSubs(r)
  BY <1>1 DEF InSubs
<1>5. InSubs(r) \in Int
  BY RowsAssumption, SumRule DEF InSubs, TypeOK, CallTypeOK
<1>6. /\ Debit(r) = logged[r] + cost[r] /\ cost[r] = walletPart[r] + InSubs(r)
      /\ ret[r] # "generate" /\ (ret[r] = "quote" => logged[r] = 0)
  BY <1>1 DEF Balanced, Balance, InRefund, Refunding
<1>7. Debit(r)' = logged[r] + InSubs(r)
  BY <1>1, <1>3, <1>5, <1>6
<1>8. Balance(r)'
  BY <1>1, <1>4, <1>6, <1>7
     DEF Balance, BetweenCalls, InCharge, InRefund, Charging, Refunding
<1> QED
  BY <1>2, <1>3, <1>8, OwnBalance

\* ... the next ones give the subscriptions theirs ...
LEMMA RefundSubsBalanced ==
  ASSUME TypeOK, TypeOK', LockInv, Balanced, NEW r \in Requests, RefundSubs(r)
  PROVE  Balanced'
<1>1. /\ pc[r] = "refundSubs" /\ pc'[r] = "refundKey" /\ ret'[r] = ret[r]
      /\ logged'[r] = logged[r] /\ logged[r] \in Nat
      /\ UNCHANGED <<committed, lock>>
  BY DEF RefundSubs, TypeOK, CallTypeOK, RelayTypeOK, relay
<1>2. LocalsKept(r)
  BY DEF RefundSubs, LocalsKept, TypeOK, CallTypeOK, relay
<1>3. \A row \in Money :
        heap'[row] = IF row \in Subs THEN heap[row] + subPart[r][row] ELSE heap[row]
  BY DEF RefundSubs, Money
<1>4. \A s \in Subs : /\ subPart[r][s] \in Nat /\ heap[s] \in Int /\ committed[s] \in Int
                      /\ subPart[r][s] = 0 \/ lock[s] = r
  BY DEF LockInv, SharesCovered, TypeOK, DbTypeOK, CallTypeOK, Rows
<1>5. OthersKept(r)
  <2> SUFFICES ASSUME NEW q \in Requests \ {r}, NEW row \in Money, lock[row] = q
               PROVE  heap'[row] = heap[row]
    BY <1>1 DEF OthersKept
  <2>1. CASE row \in Subs
    <3>1. subPart[r][row] = 0
      BY <1>4, <2>1
    <3> QED
      BY <1>3, <1>4, <2>1, <3>1
  <2>2. CASE row \notin Subs
    BY <1>3, <2>2
  <2> QED
    BY <2>1, <2>2
<1>6. Debit(r) = Debit(r)' + InSubs(r)
  <2>1. PICK f, g : f = Net(r) /\ g = Net(r)'
    OBVIOUS
  <2> DEFINE h == [row \in Money |-> IF row \in Subs THEN subPart[r][row] ELSE 0]
  <2>2. \A row \in Money : f[row] \in Int
    BY <2>1, NetType
  <2>3. \A row \in Money : h[row] \in Int
    BY <1>4
  <2>4. \A row \in Money : g[row] \in Int /\ h[row] \in Int /\ f[row] = g[row] + h[row]
    <3> SUFFICES ASSUME NEW row \in Money
                 PROVE  g[row] \in Int /\ h[row] \in Int /\ f[row] = g[row] + h[row]
      OBVIOUS
    <3>1. f[row] = IF lock[row] = r THEN committed[row] - heap[row] ELSE 0
      BY <2>1 DEF Net
    <3>2. g[row] = IF lock[row] = r THEN committed[row] - heap'[row] ELSE 0
      BY <1>1, <2>1 DEF Net, Money, Rows
    <3>3. CASE row \in Subs
      <4>1. heap'[row] = heap[row] + subPart[r][row] /\ h[row] = subPart[r][row]
        BY <1>3, <3>3
      <4> QED
        BY <1>4, <3>1, <3>2, <3>3, <4>1
    <3>4. CASE row \notin Subs
      <4>1. heap'[row] = heap[row] /\ h[row] = 0
        BY <1>3, <3>4
      <4> QED
        BY <2>2, <3>1, <3>2, <4>1
    <3> QED
      BY <3>3, <3>4
  <2>5. SumOver(h, Money) = InSubs(r)
    <3>1. Wallet \in Money /\ h[Wallet] = 0
      BY MoneyRows, RowsAssumption
    <3>2. \A s \in Subs : subPart[r][s] \in Int /\ h[s] = subPart[r][s]
      BY <1>4, MoneyRows
    <3> HIDE DEF h
    <3>3. SumOver(h, Money) = h[Wallet] + SumOver(h, Money \ {Wallet})
      BY <2>3, <3>1, MoneyFinite, SumRule
    <3>4. Money \ {Wallet} = Subs /\ IsFiniteSet(Subs)
      BY MoneyRows, RowsAssumption
    <3>5. SumOver(h, Subs) = SumOver(subPart[r], Subs)
      BY <3>2, <3>4, SumSame
    <3>6. SumOver(subPart[r], Subs) \in Int
      BY <3>2, <3>4, SumRule
    <3> QED
      BY <3>1, <3>3, <3>4, <3>5, <3>6 DEF InSubs
  <2> HIDE DEF h
  <2>6. SumOver(f, Money) = SumOver(g, Money) + SumOver(h, Money)
    BY <2>4, MoneyFinite, SumPlus
  <2> QED
    BY <2>1, <2>5, <2>6 DEF Debit, Money, Rows
<1>7. Debit(r)' \in Int /\ InSubs(r) \in Int
  <2>1. \A row \in Money : Net(r)'[row] \in Int
    BY DEF Net, Money, Rows, TypeOK, DbTypeOK
  <2>2. SumOver(Net(r)', Money) \in Int
    BY <2>1, MoneyFinite, SumRule
  <2>3. Debit(r)' \in Int
    BY <2>2 DEF Debit, Money, Rows
  <2> QED
    BY <1>4, <2>3, RowsAssumption, SumRule DEF InSubs
<1>8. /\ Debit(r) = logged[r] + InSubs(r)
      /\ ret[r] # "generate" /\ (ret[r] = "quote" => logged[r] = 0)
  BY <1>1 DEF Balanced, Balance, InRefund, Refunding
<1>9. Debit(r)' = logged[r]
  BY <1>1, <1>6, <1>7, <1>8
<1>10. Balance(r)'
  BY <1>1, <1>8, <1>9
     DEF Balance, BetweenCalls, InCharge, InRefund, Charging, Refunding
<1> QED
  BY <1>2, <1>5, <1>10, OwnBalance

\* ... and the last one the key's counter, after which the call returns.
LEMMA RefundKeyBalanced ==
  ASSUME TypeOK, TypeOK', Balanced, NEW r \in Requests, RefundKey(r)
  PROVE  Balanced'
<1>1. /\ pc[r] = "refundKey" /\ pc'[r] = ret[r] /\ ret[r] \in Returns
      /\ logged'[r] = logged[r]
  BY DEF RefundKey, EndCall, TypeOK, CallTypeOK, relay
<1>2. LocalsKept(r)
  BY DEF RefundKey, EndCall, LocalsKept, TypeOK, CallTypeOK, relay
<1>3. \A row \in Money : /\ lock'[row] = lock[row] /\ heap'[row] = heap[row]
                         /\ committed'[row] = committed[row]
  BY DEF RefundKey, TypeOK, DbTypeOK, Money
<1>4. OthersKept(r) /\ Debit(r)' = Debit(r)
  BY <1>3, KeyWrite
<1>5. Debit(r) = logged[r] /\ ret[r] # "generate" /\ (ret[r] = "quote" => logged[r] = 0)
  BY <1>1 DEF Balanced, Balance, InRefund, Refunding
<1>6. Balance(r)'
  BY <1>1, <1>4, <1>5
     DEF Balance, BetweenCalls, InCharge, InRefund, Charging, Refunding, Returns
<1> QED
  BY <1>2, <1>4, <1>6, OwnBalance

\* The end of a transaction: what it had locked is its own, and its request
\* has no balance to keep any more.
LEMMA EndBalanced ==
  ASSUME TypeOK, TypeOK', Balanced, NEW r \in Requests, NEW outcome \in Final,
         NEW versions, EndTx(r, versions), Return(r, outcome),
         \A q \in Requests \ {r} : logged'[q] = logged[q]
  PROVE  Balanced'
<1>1. pc'[r] = outcome
  BY DEF Return, TypeOK, CallTypeOK
<1>2. LocalsKept(r)
  BY DEF Return, LocalsKept, TypeOK, CallTypeOK, RelayTypeOK
<1>3. OthersKept(r)
  BY RequestsAssumption DEF EndTx, OthersKept, TypeOK, DbTypeOK, Money
<1>4. Balance(r)'
  BY <1>1
     DEF Balance, BetweenCalls, InCharge, InRefund, Charging, Refunding, Final
<1> QED
  BY <1>2, <1>3, <1>4, OwnBalance

\* The rest of the system writes only rows that nobody has locked.
LEMMA WorldBalanced ==
  ASSUME TypeOK, TypeOK', LockInv, Balanced,
         topup_wallet \/ Tick \/ \E s \in Subs : grant_subscription(s)
  PROVE  Balanced'
<1> SUFFICES ASSUME NEW q \in Requests
             PROVE  Balance(q)'
  BY DEF Balanced
<1>1. UNCHANGED <<lock, pc, ret, todo, cost, left, subPart, walletPart, estimate, logged>>
  BY DEF topup_wallet, Tick, grant_subscription, call, relay
<1>2. \A row \in Money : lock[row] # NoTx =>
        heap'[row] = heap[row] /\ committed'[row] = committed[row]
  <2>1. CASE topup_wallet
    BY <2>1 DEF topup_wallet, TypeOK, DbTypeOK, Money
  <2>2. CASE Tick
    BY <2>2 DEF Tick
  <2>3. ASSUME NEW s \in Subs, grant_subscription(s)
        PROVE  \A row \in Money : lock[row] # NoTx =>
                 heap'[row] = heap[row] /\ committed'[row] = committed[row]
    BY <2>3 DEF grant_subscription, LockInv, OnlyIssued, TypeOK, DbTypeOK, Money
  <2> QED
    BY <2>1, <2>2, <2>3
<1>3. \A row \in Money : Net(q)'[row] = Net(q)[row]
  BY <1>1, <1>2, RequestsAssumption DEF Net, Money, Rows
<1>4. Debit(q)' = Debit(q)
  BY <1>3, DebitSame
<1>5. Balance(q)
  BY DEF Balanced
<1> QED
  BY <1>1, <1>4, <1>5, BalanceFrame

\* The balance of every request is inductive.
LEMMA BalancedStep ==
  ASSUME TypeOK, TypeOK', LockInv, DrainInv, Balanced, [Next]_vars
  PROVE  Balanced'
<1>1. ASSUME NEW r \in Requests, NEW outcome \in Final, Rollback(r, outcome)
      PROVE  Balanced'
  <2>1. EndTx(r, committed) /\ Return(r, outcome)
    BY <1>1 DEF Rollback
  <2>2. \A q \in Requests \ {r} : logged'[q] = logged[q]
    BY <1>1 DEF Rollback, TypeOK, RelayTypeOK
  <2> QED
    BY <2>1, <2>2, EndBalanced
<1>2. ASSUME NEW r \in Requests, Commit(r)
      PROVE  Balanced'
  <2>1. EndTx(r, heap) /\ Return(r, "done") /\ logged' = logged
    BY <1>2 DEF Commit
  <2> QED
    BY <2>1, EndBalanced DEF Final
<1>3. ASSUME NEW r \in Requests, Step(r)
      PROVE  Balanced'
  BY <1>1, <1>2, <1>3, HandlerBalanced, LockBalanced, DrainBalanced, PlanBalanced,
     CursorBalanced, ChargeWalletBalanced, ChargeKeyBalanced, RefundWalletBalanced,
     RefundSubsBalanced, RefundKeyBalanced
     DEF Step, QuoteRefused, DeadlockVictim, Final
<1>4. ASSUME NEW r \in Requests, Load(r) \/ Answer(r) \/ Abort(r)
      PROVE  Balanced'
  BY <1>1, <1>4, HandlerBalanced DEF Answer, ChatFailed, Abort, Final
<1>5. CASE UNCHANGED vars
  <2> SUFFICES ASSUME NEW q \in Requests
               PROVE  Balance(q)'
    BY DEF Balanced
  <2>1. UNCHANGED <<committed, heap, lock, pc, ret, todo, cost, left, subPart,
                    walletPart, estimate, logged>>
    BY <1>5 DEF vars, db, call, relay
  <2>2. Debit(q)' = Debit(q)
    BY <2>1, KeyWrite
  <2>3. Balance(q)
    BY DEF Balanced
  <2> QED
    BY <2>1, <2>2, <2>3, BalanceFrame
<1> QED
  BY <1>3, <1>4, <1>5, WorldBalanced DEF Next, Served

\* Only a grant writes the row of a subscription that does not exist, and it
\* makes it exist.
LEMMA NotYetStep ==
  ASSUME TypeOK, LockInv, NotYet, [Next]_vars
  PROVE  NotYet'
<1> USE RowsAssumption
<1> USE DEF NotYet, Rows, TypeOK, DbTypeOK
<1>1. ASSUME NEW r \in Requests, Commit(r)
      PROVE  NotYet'
  BY <1>1, RequestsAssumption DEF Commit, EndTx, LockInv, OnlyIssued, world
<1>2. ASSUME NEW s \in Subs, grant_subscription(s)
      PROVE  NotYet'
  BY <1>2 DEF grant_subscription
<1>3. ASSUME topup_wallet
      PROVE  NotYet'
  BY <1>3 DEF topup_wallet
<1>4. ASSUME NEW r \in Requests, NEW outcome, Rollback(r, outcome)
      PROVE  NotYet'
  BY <1>4 DEF Rollback, EndTx, world
<1>5. ASSUME UNCHANGED <<committed, issued>>
      PROVE  NotYet'
  BY <1>5
<1>6. ASSUME NEW r \in Requests, Step(r), ~Commit(r)
      PROVE  NotYet'
  <2>1. CASE DeadlockVictim(r) \/ \E e \in Costs : QuoteRefused(r, e)
    BY <1>4, <2>1 DEF DeadlockVictim, QuoteRefused
  <2>2. CASE ~(DeadlockVictim(r) \/ \E e \in Costs : QuoteRefused(r, e))
    <3>1. UNCHANGED <<committed, issued>>
      BY <1>6, <2>2
         DEF Step, Gate, Classify, Quote, Hold, SkipCandidate, Generated,
             GenerateFailed, LockSub, DrainSub, PlanSub, StartDrain, ChargeWallet,
             ChargeKey, StartPlan, EndPlan, RefundWallet, RefundSubs, RefundKey,
             db, world
    <3> QED
      BY <1>5, <3>1
  <2> QED
    BY <2>1, <2>2
<1>7. ASSUME NEW r \in Requests, Load(r) \/ Answer(r) \/ Abort(r)
      PROVE  NotYet'
  BY <1>4, <1>5, <1>7 DEF Load, Answer, ChatAnswered, ChatFailed, Abort, db, world
<1>8. CASE Tick \/ UNCHANGED vars
  BY <1>5, <1>8 DEF Tick, vars, db, world
<1> QED
  BY <1>1, <1>2, <1>3, <1>6, <1>7, <1>8 DEF Next, Served

\* LedgerInv holds in every reachable state.
LEMMA LedgerInvariant == Spec => []LedgerInv
<1>1. Init => LedgerInv
  <2> SUFFICES ASSUME Init
               PROVE  LedgerInv
    OBVIOUS
  <2>1. NotYet
    BY RowsAssumption DEF Init, NotYet, Rows
  <2>2. ASSUME NEW r \in Requests
        PROVE  Balance(r)
    <3>1. pc[r] = "idle" /\ logged[r] = 0
      BY DEF Init
    <3>2. \A row \in Money : Net(r)[row] = 0
      BY RequestsAssumption DEF Init, Net, Money
    <3>3. Debit(r) = 0
      BY <3>2, MoneyFinite, SumZero DEF Debit
    <3> QED
      BY <3>1, <3>3
         DEF Balance, BetweenCalls, InCharge, InRefund, Charging, Refunding
  <2> QED
    BY <2>1, <2>2 DEF LedgerInv, Balanced
<1>2. TypeOK /\ TypeOK' /\ LockInv /\ DrainInv /\ LedgerInv /\ [Next]_vars => LedgerInv'
  BY BalancedStep, NotYetStep DEF LedgerInv
<1> QED
  BY <1>1, <1>2, TypeCorrect, LockInvariant, DrainInvariant, PTL DEF Spec

-----------------------------------------------------------------------------
(***************************************************************************)
(* The refinement.                                                         *)
(***************************************************************************)

\* What the steps map to.
Funds    == SumOver(committed, Rows \ {Key})
Credited == InitialBalance + topups * TopupAmount + SumOver(Quota, issued)
Billed   == [r \in Requests |-> IF pc[r] = "done" THEN logged[r] ELSE -1]

\* At the start the user has what was granted, and no request is billed.
LEMMA LedgerStarts == Init => L!Init
<1> SUFFICES ASSUME Init
             PROVE  L!Init
  OBVIOUS
<1>1. \A row \in Money : committed[row] \in Int
  BY RowsAssumption, AmountsAssumption DEF Init, Money, Rows
<1>2. \A s \in InitialSubs : Quota[s] \in Int /\ committed[s] = Quota[s]
  BY RowsAssumption DEF Init, Rows
<1>3. \A s \in Subs \ InitialSubs : committed[s] = 0
  BY RowsAssumption DEF Init, Rows
<1>4. committed[Wallet] = InitialBalance /\ topups = 0 /\ issued = InitialSubs
  BY DEF Init, Rows
<1>5. Wallet \in Money /\ Subs = Money \ {Wallet}
  BY MoneyRows
<1>6. SumOver(committed, Money) = InitialBalance + SumOver(committed, Subs)
  BY <1>1, <1>4, <1>5, MoneyFinite, SumRule
<1>7. /\ IsFiniteSet(Subs) /\ InitialSubs \in SUBSET Subs
      /\ IsFiniteSet(InitialSubs) /\ IsFiniteSet(Subs \ InitialSubs)
  BY RowsAssumption, FS_Subset
<1>8. \A s \in Subs : committed[s] \in Int
  BY <1>1, <1>5
<1>9. SumOver(committed, Subs)
        = SumOver(committed, InitialSubs) + SumOver(committed, Subs \ InitialSubs)
  BY <1>7, <1>8, SumSplit
<1>10. SumOver(committed, Subs \ InitialSubs) = 0
  BY <1>3, <1>7, SumZero
<1>11. SumOver(committed, InitialSubs) = SumOver(Quota, InitialSubs)
  BY <1>2, <1>7, SumSame
<1>12. SumOver(Quota, InitialSubs) \in Int
  BY <1>2, <1>7, SumRule
<1>13. SumOver(committed, Money) = InitialBalance + 0 * TopupAmount + SumOver(Quota, InitialSubs)
  BY <1>6, <1>9, <1>10, <1>11, <1>12, AmountsAssumption
<1>14. Funds = Credited
  BY <1>4, <1>13 DEF Funds, Credited, Money
<1>15. Billed = [r \in Requests |-> -1]
  BY DEF Init, Billed
<1> QED
  BY <1>14, <1>15 DEF L!Init, Funds, Credited, Billed

\* A commit takes what its request has logged, and bills it.
LEMMA CommitBills ==
  ASSUME TypeOK, TypeOK', LedgerInv, NEW r \in Requests, Commit(r)
  PROVE  L!Bill(r)
<1>1. /\ pc[r] = "commit" /\ pc' = [pc EXCEPT ![r] = "done"] /\ logged' = logged
      /\ logged[r] \in Nat /\ UNCHANGED <<topups, issued>>
  BY DEF Commit, Return, TypeOK, CallTypeOK, RelayTypeOK, world
<1>2. Debit(r) = logged[r]
  BY <1>1 DEF LedgerInv, Balanced, Balance, BetweenCalls
<1>3. SumOver(committed, Money) = SumOver(committed', Money) + Debit(r)
  <2>1. PICK f : f = Net(r)
    OBVIOUS
  <2>2. \A row \in Money : f[row] = IF lock[row] = r THEN committed[row] - heap[row] ELSE 0
    BY <2>1, NetType
  <2>3. \A row \in Money : committed'[row] = IF lock[row] = r THEN heap[row] ELSE committed[row]
    BY DEF Commit, EndTx, Money
  <2>4. \A row \in Money : committed[row] \in Int /\ heap[row] \in Int
    BY DEF TypeOK, DbTypeOK, Money
  <2>5. \A row \in Money : /\ committed'[row] \in Int /\ f[row] \in Int
                           /\ committed[row] = committed'[row] + f[row]
    BY <2>2, <2>3, <2>4
  <2>6. SumOver(committed, Money) = SumOver(committed', Money) + SumOver(f, Money)
    BY <2>5, MoneyFinite, SumPlus
  <2> QED
    BY <2>1, <2>6 DEF Debit
<1>4. SumOver(committed', Money) \in Int
  <2>1. \A row \in Money : committed'[row] \in Int
    BY DEF TypeOK, DbTypeOK, Money, Rows
  <2> QED
    BY <2>1, MoneyFinite, SumRule
<1>5. Funds' = Funds - logged[r]
  <2>1. Funds = SumOver(committed, Money) /\ Funds' = SumOver(committed', Money)
    BY DEF Funds, Money, Rows
  <2> QED
    BY <1>1, <1>2, <1>3, <1>4, <2>1
<1>6. Credited' = Credited
  BY <1>1 DEF Credited
<1>7. /\ Billed[r] = -1 /\ Billed'[r] = logged[r]
      /\ Billed' = [Billed EXCEPT ![r] = logged[r]]
  BY <1>1 DEF Billed, TypeOK, CallTypeOK
<1>8. L!Bill(r) <=> /\ Billed[r] = -1
                    /\ \E c \in {Billed'[r]} :
                         /\ c >= 0
                         /\ Billed' = [Billed EXCEPT ![r] = c]
                         /\ Funds' = Funds - c
                    /\ Credited' = Credited
  BY DEF L!Bill, Funds, Credited, Billed
<1>9. logged[r] >= 0
  BY <1>1
<1> QED
  BY <1>5, <1>6, <1>7, <1>8, <1>9

\* A top-up or a grant credits what it adds.
LEMMA TopupCredits ==
  ASSUME TypeOK, TypeOK', topup_wallet
  PROVE  L!Credit \/ UNCHANGED L!vars
<1> USE AmountsAssumption
<1>1. /\ committed' = [committed EXCEPT ![Wallet] = committed[Wallet] + TopupAmount]
      /\ topups' = topups + 1 /\ UNCHANGED <<issued, pc, logged>>
      /\ topups \in Nat
  BY DEF topup_wallet, TypeOK, DbTypeOK, Rows, relay
<1>2. Funds' = Funds + TopupAmount /\ Funds \in Int
  <2>1. \A row \in Money : committed[row] \in Int /\ committed'[row] \in Int
    BY DEF TypeOK, DbTypeOK, Money, Rows
  <2>2. \A row \in Money \ {Wallet} : committed'[row] = committed[row]
    BY <1>1 DEF TypeOK, DbTypeOK, Money
  <2>3. Wallet \in Money
    BY MoneyRows
  <2>4. SumOver(committed', Money)
          = SumOver(committed, Money) + (committed'[Wallet] - committed[Wallet])
    BY <2>1, <2>2, <2>3, MoneyFinite, SumPoint
  <2>5. committed'[Wallet] - committed[Wallet] = TopupAmount
    BY <1>1, <2>1, <2>3 DEF TypeOK, DbTypeOK, Money
  <2>6. SumOver(committed, Money) \in Int
    BY <2>1, MoneyFinite, SumRule
  <2>7. Funds = SumOver(committed, Money) /\ Funds' = SumOver(committed', Money)
    BY DEF Funds, Money, Rows
  <2> QED
    BY <2>4, <2>5, <2>6, <2>7
<1>3. Credited' = Credited + TopupAmount /\ Credited \in Int
  <2>1. SumOver(Quota, issued) \in Int
    <3>1. IsFiniteSet(issued) /\ \A s \in issued : Quota[s] \in Int
      BY RowsAssumption, FS_Subset DEF TypeOK, DbTypeOK
    <3> QED
      BY <3>1, SumRule
  <2>2. Credited' = InitialBalance + topups' * TopupAmount + SumOver(Quota, issued)
    BY <1>1 DEF Credited
  <2>3. (topups + 1) * TopupAmount = topups * TopupAmount + TopupAmount
    BY <1>1
  <2>4. topups * TopupAmount \in Int
    BY <1>1
  <2>5. Credited = InitialBalance + topups * TopupAmount + SumOver(Quota, issued)
    BY DEF Credited
  <2> QED
    BY <1>1, <2>1, <2>2, <2>3, <2>4, <2>5
<1>4. Billed' = Billed
  BY <1>1 DEF Billed
<1>5. L!Credit <=> /\ Credited' > Credited
                   /\ Funds' - Funds = Credited' - Credited
                   /\ Billed' = Billed
  BY DEF L!Credit, Funds, Credited, Billed
<1>6. (UNCHANGED L!vars) <=> Funds' = Funds /\ Credited' = Credited /\ Billed' = Billed
  BY DEF L!vars, Funds, Credited, Billed
<1>7. CASE TopupAmount = 0
  BY <1>2, <1>3, <1>4, <1>6, <1>7
<1>8. CASE TopupAmount > 0
  BY <1>2, <1>3, <1>4, <1>5, <1>8
<1> QED
  BY <1>7, <1>8

\* The row of a grant held nothing before.
LEMMA GrantCredits ==
  ASSUME TypeOK, TypeOK', LedgerInv, NEW s \in Subs, grant_subscription(s)
  PROVE  L!Credit \/ UNCHANGED L!vars
<1>1. /\ committed' = [committed EXCEPT ![s] = Quota[s]]
      /\ issued' = issued \union {s} /\ s \notin issued
      /\ UNCHANGED <<topups, pc, logged>>
      /\ Quota[s] \in Nat /\ topups \in Nat
  BY RowsAssumption DEF grant_subscription, TypeOK, DbTypeOK, Rows, relay
<1>2. Funds' = Funds + Quota[s] /\ Funds \in Int
  <2>1. \A row \in Money : committed[row] \in Int /\ committed'[row] \in Int
    BY DEF TypeOK, DbTypeOK, Money, Rows
  <2>2. \A row \in Money \ {s} : committed'[row] = committed[row]
    BY <1>1 DEF TypeOK, DbTypeOK, Money
  <2>3. s \in Money
    BY MoneyRows
  <2>4. SumOver(committed', Money)
          = SumOver(committed, Money) + (committed'[s] - committed[s])
    <3>1. PICK f, g : f = committed /\ g = committed'
      OBVIOUS
    <3>2. /\ \A row \in Money : f[row] \in Int /\ g[row] \in Int
          /\ \A row \in Money \ {s} : g[row] = f[row]
      BY <2>1, <2>2, <3>1
    <3>3. SumOver(g, Money) = SumOver(f, Money) + (g[s] - f[s])
      BY <2>3, <3>2, MoneyPoint
    <3> QED
      BY <3>1, <3>3
  <2>5. committed'[s] = Quota[s] /\ committed[s] = 0
    BY <1>1, <2>3 DEF LedgerInv, NotYet, TypeOK, DbTypeOK, Money
  <2>6. SumOver(committed, Money) \in Int
    BY <2>1, MoneyFinite, SumRule
  <2>7. Funds = SumOver(committed, Money) /\ Funds' = SumOver(committed', Money)
    BY DEF Funds, Money, Rows
  <2> QED
    BY <1>1, <2>4, <2>5, <2>6, <2>7
<1>3. Credited' = Credited + Quota[s] /\ Credited \in Int
  <2>1. /\ IsFiniteSet(issued) /\ \A t \in issued : Quota[t] \in Int
        /\ IsFiniteSet(issued \union {s})
        /\ \A t \in issued \union {s} : Quota[t] \in Int
    BY RowsAssumption, FS_Subset, FS_AddElement DEF TypeOK, DbTypeOK
  <2>2. SumOver(Quota, issued) \in Int
    BY <2>1, SumRule
  <2>3. (issued \union {s}) \ {s} = issued
    BY <1>1
  <2>4. SumOver(Quota, issued \union {s})
          = Quota[s] + SumOver(Quota, (issued \union {s}) \ {s})
    BY <2>1, SumRule
  <2>5. SumOver(Quota, issued \union {s}) = Quota[s] + SumOver(Quota, issued)
    BY <2>3, <2>4
  <2>6. Credited' = InitialBalance + topups * TopupAmount + SumOver(Quota, issued \union {s})
    BY <1>1 DEF Credited
  <2>7. Credited = InitialBalance + topups * TopupAmount + SumOver(Quota, issued)
    BY DEF Credited
  <2>8. InitialBalance + topups * TopupAmount \in Int
    BY <1>1, AmountsAssumption
  <2> QED
    BY <1>1, <2>2, <2>5, <2>6, <2>7, <2>8
<1>4. Billed' = Billed
  BY <1>1 DEF Billed
<1>5. L!Credit <=> /\ Credited' > Credited
                   /\ Funds' - Funds = Credited' - Credited
                   /\ Billed' = Billed
  BY DEF L!Credit, Funds, Credited, Billed
<1>6. (UNCHANGED L!vars) <=> Funds' = Funds /\ Credited' = Credited /\ Billed' = Billed
  BY DEF L!vars, Funds, Credited, Billed
<1>7. CASE Quota[s] = 0
  BY <1>2, <1>3, <1>4, <1>6, <1>7
<1>8. CASE Quota[s] > 0
  BY <1>1, <1>2, <1>3, <1>4, <1>5, <1>8
<1> QED
  BY <1>1, <1>7, <1>8

\* Every other step leaves the account alone: it commits no row, and it
\* neither starts nor ends in "done".
LEMMA OthersStutter ==
  ASSUME TypeOK, NEW r \in Requests, UNCHANGED <<committed, topups, issued>>,
         pc[r] # "done", pc'[r] # "done",
         \A q \in Requests \ {r} : pc'[q] = pc[q] /\ logged'[q] = logged[q]
  PROVE  UNCHANGED L!vars
<1>1. \A q \in Requests :
        (IF pc'[q] = "done" THEN logged'[q] ELSE -1) = (IF pc[q] = "done" THEN logged[q] ELSE -1)
  OBVIOUS
<1>2. Billed' = Billed
  BY <1>1 DEF Billed
<1>3. Funds' = Funds /\ Credited' = Credited
  BY DEF Funds, Credited, Rows
<1>4. (UNCHANGED L!vars) <=> Funds' = Funds /\ Credited' = Credited /\ Billed' = Billed
  BY DEF L!vars, Funds, Credited, Billed
<1> QED
  BY <1>2, <1>3, <1>4

\* In particular a rollback, whatever its transaction had written.
LEMMA RollbackStutters ==
  ASSUME TypeOK, NEW r \in Requests, NEW outcome \in Final \ {"done"},
         Rollback(r, outcome), pc[r] # "done"
  PROVE  UNCHANGED L!vars
<1>1. UNCHANGED <<committed, topups, issued>>
  BY DEF Rollback, EndTx, TypeOK, DbTypeOK, world
<1>2. /\ pc'[r] # "done"
      /\ \A q \in Requests \ {r} : pc'[q] = pc[q] /\ logged'[q] = logged[q]
  BY DEF Rollback, Return, TypeOK, CallTypeOK, RelayTypeOK
<1> QED
  BY <1>1, <1>2, OthersStutter

\* Every step of the billing code is a bill, a credit or a stutter.
LEMMA LedgerStep ==
  ASSUME TypeOK, TypeOK', LockInv, LedgerInv, [Next]_vars
  PROVE  [L!Next]_(L!vars)
<1> USE DEF db, world, session, call, relay
<1>1. ASSUME NEW r \in Requests,
             \/ Load(r) \/ \E c \in Costs : ChatAnswered(r, c)
             \/ Gate(r) \/ (\E c \in ClassifierCosts : Classify(r, c))
             \/ (\E e \in Costs : Quote(r, e)) \/ Hold(r) \/ SkipCandidate(r)
             \/ (\E a \in Costs : Generated(r, a))
             \/ (\E status \in {200, 502} : GenerateFailed(r, status))
      PROVE  UNCHANGED L!vars
  <2>1. /\ UNCHANGED <<committed, topups, issued>>
        /\ \A q \in Requests \ {r} : pc'[q] = pc[q] /\ logged'[q] = logged[q]
        /\ pc[r] # "done" /\ pc'[r] # "done"
    BY <1>1 DEF Load, ChatAnswered, Gate, Classify, Quote, Hold, SkipCandidate,
         Generated, GenerateFailed, AfterCandidate, charge_user, refund_to_sources,
         TypeOK, CallTypeOK, RelayTypeOK
  <2> QED
    BY <2>1, OthersStutter
<1>2. ASSUME NEW r \in Requests,
             \/ \E s \in Subs : LockSub(r, s) \/ DrainSub(r, s) \/ PlanSub(r, s)
             \/ StartDrain(r) \/ ChargeWallet(r) \/ ChargeKey(r)
             \/ StartPlan(r) \/ EndPlan(r)
             \/ RefundWallet(r) \/ RefundSubs(r) \/ RefundKey(r)
      PROVE  UNCHANGED L!vars
  <2>1. /\ UNCHANGED <<committed, topups, issued>>
        /\ \A q \in Requests \ {r} : pc'[q] = pc[q] /\ logged'[q] = logged[q]
        /\ pc[r] # "done" /\ pc'[r] # "done"
    BY <1>2 DEF LockSub, DrainSub, PlanSub, StartDrain, ChargeWallet, ChargeKey,
         StartPlan, EndPlan, RefundWallet, RefundSubs, RefundKey,
         TypeOK, CallTypeOK, Returns
  <2> QED
    BY <2>1, OthersStutter
<1>3. ASSUME NEW r \in Requests,
             \/ ChatFailed(r) \/ Abort(r) \/ DeadlockVictim(r)
             \/ \E e \in Costs : QuoteRefused(r, e)
      PROVE  UNCHANGED L!vars
  <2>1. pc[r] # "done"
    <3>1. ASSUME DeadlockVictim(r)
          PROVE  pc[r] # "done"
      <4>1. PICK w \in WaitsFor(r) : TRUE
        BY <3>1 DEF DeadlockVictim
      <4>2. Wanted(r) # {}
        BY <4>1 DEF WaitsFor
      <4> QED
        BY <4>2 DEF Wanted
    <3> QED
      BY <1>3, <3>1 DEF ChatFailed, Abort, QuoteRefused, Final
  <2>2. PICK outcome \in Final \ {"done"} : Rollback(r, outcome)
    BY <1>3 DEF ChatFailed, Abort, DeadlockVictim, QuoteRefused, Final
  <2> QED
    BY <2>1, <2>2, RollbackStutters
<1>4. ASSUME Tick \/ UNCHANGED vars
      PROVE  UNCHANGED L!vars
  <2>1. UNCHANGED <<committed, topups, issued, pc, logged>>
    BY <1>4 DEF Tick, vars
  <2>2. Funds' = Funds /\ Credited' = Credited /\ Billed' = Billed
    BY <2>1 DEF Funds, Credited, Billed, Rows
  <2> QED
    BY <2>2 DEF L!vars, Funds, Credited, Billed
<1>5. ASSUME NEW r \in Requests, Step(r)
      PROVE  L!Bill(r) \/ UNCHANGED L!vars
  BY <1>1, <1>2, <1>3, <1>5, CommitBills DEF Step
<1>6. ASSUME NEW r \in Requests, Load(r) \/ Answer(r) \/ Abort(r)
      PROVE  UNCHANGED L!vars
  BY <1>1, <1>3, <1>6 DEF Answer
<1> QED
  BY <1>4, <1>5, <1>6, TopupCredits, GrantCredits DEF Next, Served, L!Next

\* Every behaviour of the billing code is one of the one-step account of
\* module Ledger: each commit takes exactly what the request logged from
\* wallet and quota, and a request that is refused, fails, is aborted or
\* chosen as a deadlock victim takes nothing.
THEOREM BillingImplementsLedger == Spec => ImplementsLedger
<1>1. Init => L!Init
  BY LedgerStarts
<1>2. TypeOK /\ TypeOK' /\ LockInv /\ LedgerInv /\ [Next]_vars => [L!Next]_(L!vars)
  BY LedgerStep
<1> QED
  BY <1>1, <1>2, TypeCorrect, LockInvariant, LedgerInvariant, PTL
     DEF Spec, ImplementsLedger, L!Spec
=============================================================================
