--------------------------- MODULE KeyCacheProofs ---------------------------
(***************************************************************************)
(* Proofs about KeyCache, for any number of api processes and requests,    *)
(* every TTL and latency, all expiry dates.                                *)
(***************************************************************************)
EXTENDS KeyCache, TLAPS

-----------------------------------------------------------------------------
(***************************************************************************)
(* Type correctness.                                                       *)
(***************************************************************************)

\* The type invariant, by owner.
StoreTyped == row \in Rows /\ user \in UserStates /\ now \in 0..MaxTime
HistoryTyped == keyLive \in 0..MaxTime /\ userLive \in 0..MaxTime
CachesTyped ==
  /\ keys \in [Workers -> [snap : Rows, until : 0..(MaxTime + TTL)]]
  /\ users \in [Workers -> [status : UserStates, until : 0..(MaxTime + TTL)]]
  /\ listening \in [Workers -> BOOLEAN]
  /\ inflight \in [Workers -> 0..MaxInFlight]
  /\ raced \in [Workers -> BOOLEAN]
CallsTyped ==
  /\ call \in [op : Ops, stage : {"none", "commit", "publish"}, seen : Rows,
               expires : Expiries \union {Never}]
  /\ direct \in Rows /\ sweeping \in BOOLEAN
  /\ changes \in 0..MaxChanges
LocalsTyped ==
  /\ pc \in [Requests -> Stages] /\ at \in [Requests -> 0..MaxTime]
  /\ snap \in [Requests -> Rows] /\ asof \in [Requests -> 0..MaxTime]
  /\ owner \in [Requests -> UserStates]
  /\ worker \in [Requests -> Workers]
FaultsTyped == faults \in 0..MaxFaults

LEMMA TypeParts ==
  TypeOK <=> /\ StoreTyped /\ HistoryTyped /\ CachesTyped /\ CallsTyped
             /\ LocalsTyped /\ FaultsTyped
BY DEF TypeOK, StoreTyped, HistoryTyped, CachesTyped, CallsTyped, LocalsTyped,
       FaultsTyped

LEMMA GoneTyped == Gone \in Rows
BY DEF Gone, Rows, Statuses

LEMMA NoEntriesTyped ==
  /\ NoKey \in [snap : Rows, until : 0..(MaxTime + TTL)]
  /\ NoUser \in [status : UserStates, until : 0..(MaxTime + TTL)]
BY GoneTyped, TimeAssumption DEF NoKey, NoUser, UserStates

\* publish drops local entries and adds messages, within the bounds.
LEMMA PublishTyped ==
  ASSUME CachesTyped, FaultsTyped, NEW w, NEW up \in BOOLEAN, publish(w, up)
  PROVE  CachesTyped' /\ FaultsTyped'
<1> USE TimeAssumption
<1>1. keys' \in [Workers -> [snap : Rows, until : 0..(MaxTime + TTL)]]
  BY NoEntriesTyped DEF publish, CachesTyped
<1>2. inflight' \in [Workers -> 0..MaxInFlight]
  BY DEF publish, CachesTyped
<1>3. raced' \in [Workers -> BOOLEAN]
  BY DEF publish, CachesTyped
<1>4. UNCHANGED <<users, listening>>
  BY DEF publish
<1>5. FaultsTyped'
  BY DEF publish, FaultsTyped
<1> QED
  BY <1>1, <1>2, <1>3, <1>4, <1>5 DEF CachesTyped

\* The gates send a request to a stage there is.
LEMMA UserGateStage ==
  ASSUME NEW r, NEW w, UserGate(r, w)
  PROVE  \E stage \in {"rest", "denied", "readUser"} : Goto(r, stage)
BY DEF UserGate

LEMMA StatusGateStage ==
  ASSUME NEW r, NEW w, NEW k, StatusGate(r, w, k)
  PROVE  \E stage \in {"rest", "denied", "readUser"} : Goto(r, stage)
BY UserGateStage DEF StatusGate

LEMMA JudgeTyped ==
  ASSUME StoreTyped, LocalsTyped, NEW r \in Requests, NEW w, NEW k \in Rows,
         Judge(r, w, k)
  PROVE  /\ pc' \in [Requests -> Stages]
         /\ snap' \in [Requests -> Rows]
         /\ asof' \in [Requests -> 0..MaxTime]
<1>1. \E stage \in {"rest", "denied", "readUser", "enforce"} : Goto(r, stage)
  BY StatusGateStage DEF Judge
<1>2. pc' \in [Requests -> Stages]
  BY <1>1 DEF Goto, LocalsTyped, Stages
<1> QED
  BY <1>2, GoneTyped DEF Judge, StoreTyped, LocalsTyped

\* Every step keeps the types of all but the history variables.
LEMMA StepTyped ==
  ASSUME TypeOK, Step
  PROVE  StoreTyped' /\ CachesTyped' /\ CallsTyped' /\ LocalsTyped' /\ FaultsTyped'
<1> DEFINE Goal == StoreTyped /\ CachesTyped /\ CallsTyped /\ LocalsTyped /\ FaultsTyped
<1> USE TypeParts, TimeAssumption, NoEntriesTyped, GoneTyped
<1> USE DEF store, caches, calls, locals
<1>1. ASSUME NEW w \in Workers, Deliver(w)
      PROVE  Goal'
  BY <1>1 DEF Deliver, StoreTyped, CachesTyped, CallsTyped, LocalsTyped, FaultsTyped
<1>2. ASSUME NEW w \in Workers, ListenerDies(w)
      PROVE  Goal'
  BY <1>2 DEF ListenerDies, StoreTyped, CachesTyped, CallsTyped, LocalsTyped, FaultsTyped
<1>3. ASSUME NEW w \in Workers, Crowded(w)
      PROVE  Goal'
  BY <1>3 DEF Crowded, StoreTyped, CachesTyped, CallsTyped, LocalsTyped, FaultsTyped
<1>4. ASSUME NEW w \in Workers, Restart(w)
      PROVE  Goal'
  <2>1. pc' \in [Requests -> Stages]
    BY <1>4 DEF Restart, LocalsTyped, Stages
  <2>2. CachesTyped' /\ FaultsTyped'
    BY <1>4 DEF Restart, CachesTyped, FaultsTyped
  <2> QED
    BY <1>4, <2>1, <2>2 DEF Restart, StoreTyped, CallsTyped, LocalsTyped
<1>5. ASSUME NEW o \in Ops, NEW e \in Expiries \union {Never}, Load(o, e)
      PROVE  Goal'
  BY <1>5 DEF Load, StoreTyped, CachesTyped, CallsTyped, LocalsTyped, FaultsTyped
<1>6. ASSUME CommitCall
      PROVE  Goal'
  <2>1. row' \in Rows
    BY <1>6 DEF CommitCall, update_key, disable_key, enable_key, delete_key, Changed,
                StoreTyped, CallsTyped, Rows, Statuses, Ops
  <2>2. NoCall \in [op : Ops, stage : {"none", "commit", "publish"}, seen : Rows,
                    expires : Expiries \union {Never}]
    BY DEF NoCall, Ops
  <2>3. CallsTyped'
    BY <1>6, <2>2 DEF CommitCall, CallsTyped
  <2> QED
    BY <1>6, <2>1, <2>3 DEF CommitCall, StoreTyped, CachesTyped, LocalsTyped, FaultsTyped
<1>7. ASSUME NEW w, NEW up \in BOOLEAN,
             invalidate_apikey(w, up) \/ SweepPublish(w, up)
      PROVE  Goal'
  <2>1. publish(w, up)
    BY <1>7 DEF invalidate_apikey, SweepPublish
  <2>2. CachesTyped' /\ FaultsTyped'
    BY <2>1, PublishTyped
  <2>3. NoCall \in [op : Ops, stage : {"none", "commit", "publish"}, seen : Rows,
                    expires : Expiries \union {Never}]
    BY DEF NoCall, Ops
  <2>4. CallsTyped'
    BY <1>7, <2>3 DEF invalidate_apikey, SweepPublish, CallsTyped
  <2> QED
    BY <1>7, <2>2, <2>4 DEF invalidate_apikey, SweepPublish, StoreTyped, LocalsTyped
<1>8. ASSUME _scan_once
      PROVE  Goal'
  BY <1>8 DEF _scan_once, StoreTyped, CachesTyped, CallsTyped, LocalsTyped, FaultsTyped,
              Rows, Statuses
<1>9. ASSUME disable_user
      PROVE  Goal'
  BY <1>9 DEF disable_user, StoreTyped, CachesTyped, CallsTyped, LocalsTyped,
              FaultsTyped, UserStates
<1>10. ASSUME NEW r \in Requests, NEW w \in Workers, Arrive(r, w)
       PROVE  Goal'
  <2>1. LocalsTyped'
    <3>1. CASE Cached(keys[w])
      <4>1. keys[w].snap \in Rows
        BY DEF CachesTyped
      <4>2. Judge(r, w, keys[w].snap)
        BY <1>10, <3>1 DEF Arrive
      <4> QED
        BY <1>10, <4>1, <4>2, JudgeTyped DEF Arrive, LocalsTyped, StoreTyped
    <3>2. CASE ~Cached(keys[w])
      BY <1>10, <3>2 DEF Arrive, Goto, LocalsTyped, StoreTyped, Stages
    <3> QED
      BY <3>1, <3>2
  <2> QED
    BY <1>10, <2>1 DEF Arrive, StoreTyped, CachesTyped, CallsTyped, FaultsTyped
<1>11. ASSUME NEW r \in Requests, ReadKey(r) \/ ReadUser(r) \/ _decide(r)
       PROVE  Goal'
  <2>1. \E stage \in Stages : Goto(r, stage)
    BY <1>11 DEF ReadKey, ReadUser, _decide, Stages
  <2>2. pc' \in [Requests -> Stages]
    BY <2>1 DEF Goto, LocalsTyped
  <2>3. LocalsTyped'
    BY <1>11, <2>2 DEF ReadKey, ReadUser, _decide, LocalsTyped, StoreTyped
  <2> QED
    BY <1>11, <2>3 DEF ReadKey, ReadUser, _decide, StoreTyped, CachesTyped, CallsTyped,
                       FaultsTyped
<1>12. ASSUME NEW r \in Requests, FillKey(r)
       PROVE  Goal'
  <2>1. LocalsTyped'
    <3>1. CASE snap[r].status = "deleted"
      BY <1>12, <3>1 DEF FillKey, Goto, LocalsTyped, Stages
    <3>2. CASE snap[r].status # "deleted"
      <4>1. Judge(r, worker[r], snap[r]) /\ snap[r] \in Rows
        BY <1>12, <3>2 DEF FillKey, LocalsTyped
      <4> QED
        BY <1>12, <4>1, JudgeTyped DEF FillKey, LocalsTyped
    <3> QED
      BY <3>1, <3>2
  <2>2. CachesTyped'
    BY <1>12 DEF FillKey, Fill, Entry, CachesTyped, LocalsTyped, StoreTyped
  <2> QED
    BY <1>12, <2>1, <2>2 DEF FillKey, StoreTyped, CallsTyped, FaultsTyped
<1>13. ASSUME NEW r \in Requests, EnforceRead(r) \/ EnforceExpire(r)
       PROVE  Goal'
  <2>1. StoreTyped'
    BY <1>13 DEF EnforceRead, EnforceExpire, StoreTyped, Rows, Statuses
  <2>2. \E stage \in {"denied", "expire", "announce"} : Goto(r, stage)
    BY <1>13 DEF EnforceRead, EnforceExpire
  <2>3. pc' \in [Requests -> Stages]
    BY <2>2 DEF Goto, LocalsTyped, Stages
  <2>4. snap' \in [Requests -> Rows]
    <3>1. [snap[r] EXCEPT !.status = "expired"] \in Rows
      BY DEF LocalsTyped, Rows, Statuses
    <3> QED
      BY <1>13, <3>1 DEF EnforceRead, EnforceExpire, LocalsTyped, StoreTyped
  <2>5. asof' \in [Requests -> 0..MaxTime]
    BY <1>13 DEF EnforceRead, EnforceExpire, LocalsTyped
  <2> QED
    BY <1>13, <2>1, <2>3, <2>4, <2>5
       DEF EnforceRead, EnforceExpire, CachesTyped, CallsTyped, LocalsTyped, FaultsTyped
<1>14. ASSUME NEW r \in Requests, NEW up \in BOOLEAN, EnforcePublish(r, up)
       PROVE  Goal'
  <2>1. CachesTyped' /\ FaultsTyped'
    BY <1>14, PublishTyped DEF EnforcePublish
  <2>2. \E stage \in {"rest", "denied", "readUser"} : Goto(r, stage)
    BY <1>14, StatusGateStage DEF EnforcePublish
  <2>3. LocalsTyped'
    BY <1>14, <2>2 DEF EnforcePublish, Goto, LocalsTyped, Stages
  <2> QED
    BY <1>14, <2>1, <2>3 DEF EnforcePublish, StoreTyped, CallsTyped
<1>15. ASSUME NEW r \in Requests, FillUser(r)
       PROVE  Goal'
  <2>1. LocalsTyped'
    BY <1>15 DEF FillUser, Goto, LocalsTyped, Stages
  <2>2. CachesTyped'
    BY <1>15 DEF FillUser, CachesTyped, LocalsTyped, StoreTyped
  <2> QED
    BY <1>15, <2>1, <2>2 DEF FillUser, StoreTyped, CallsTyped, FaultsTyped
<1>16. ASSUME NEW r \in Requests, Answer(r)
       PROVE  Goal'
  <2>1. Home \in Workers
    BY DEF Home, LocalsTyped
  <2>2. LocalsTyped'
    BY <1>16, <2>1 DEF Answer, Goto, LocalsTyped, Stages, UserStates
  <2> QED
    BY <1>16, <2>2 DEF Answer, StoreTyped, CachesTyped, CallsTyped, FaultsTyped
<1>17. ASSUME Tick
       PROVE  Goal'
  <2>1. CachesTyped'
    BY <1>17 DEF Tick, CachesTyped
  <2> QED
    BY <1>17, <2>1 DEF Tick, StoreTyped, CallsTyped, LocalsTyped, FaultsTyped
<1>18. ASSUME PublisherDies
       PROVE  Goal'
  <2>1. NoCall \in [op : Ops, stage : {"none", "commit", "publish"}, seen : Rows,
                    expires : Expiries \union {Never}]
    BY DEF NoCall, Ops
  <2>2. call' \in {call, NoCall} /\ sweeping' \in {sweeping, FALSE}
    BY <1>18 DEF PublisherDies
  <2>3. CallsTyped'
    BY <1>18, <2>1, <2>2 DEF PublisherDies, CallsTyped
  <2> QED
    BY <1>18, <2>3 DEF PublisherDies, StoreTyped, CachesTyped, LocalsTyped, FaultsTyped
<1>19. ASSUME DirectLoad
       PROVE  Goal'
  BY <1>19 DEF DirectLoad, StoreTyped, CachesTyped, CallsTyped, LocalsTyped, FaultsTyped
<1>20. ASSUME enforce_key_state
       PROVE  Goal'
  <2>1. StoreTyped'
    BY <1>20 DEF enforce_key_state, StoreTyped, Rows, Statuses
  <2>2. CachesTyped'
    BY <1>20 DEF enforce_key_state, CachesTyped
  <2> QED
    BY <1>20, <2>1, <2>2
       DEF enforce_key_state, CallsTyped, LocalsTyped, FaultsTyped
<1> HIDE DEF Goal
<1>21. Goal'
  BY <1>1, <1>2, <1>3, <1>4, <1>5, <1>6, <1>7, <1>8, <1>9, <1>10, <1>11, <1>12, <1>13,
     <1>14, <1>15, <1>16, <1>17, <1>18, <1>19, <1>20 DEF Step
<1> QED
  BY <1>21 DEF Goal

LEMMA FollowTyped ==
  ASSUME HistoryTyped, StoreTyped', Follow
  PROVE  HistoryTyped'
<1> DEFINE granted == IF row'.expires > now' THEN now' ELSE row'.expires - 1
<1>1. /\ now' \in 0..MaxTime /\ row'.expires \in Nat
      /\ keyLive \in 0..MaxTime /\ userLive \in 0..MaxTime
  BY TimeAssumption DEF HistoryTyped, StoreTyped, Rows
<1>2. granted \in Int /\ granted <= MaxTime
  BY <1>1, TimeAssumption
<1>3. \/ keyLive' = keyLive
      \/ keyLive' = granted /\ granted > keyLive
  BY DEF Follow
<1>4. userLive' = now' \/ userLive' = userLive
  BY DEF Follow
<1> HIDE DEF granted
<1> QED
  BY <1>1, <1>2, <1>3, <1>4, TimeAssumption DEF HistoryTyped

\* Rows, cache entries, deadlines and the locals of the decisions keep their
\* types, and no counter leaves its bound.
THEOREM TypeCorrect == Spec => []TypeOK
<1>1. Init => TypeOK
  <2> SUFFICES ASSUME Init
               PROVE  TypeOK
    OBVIOUS
  <2>1. PICK w \in Workers, e \in Expiries \union {Never} : create_key(w, e)
    BY DEF Init
  <2>2. Home \in Workers
    BY <2>1 DEF Home
  <2>3. StoreTyped /\ HistoryTyped /\ FaultsTyped
    BY <2>1, TimeAssumption
       DEF Init, create_key, StoreTyped, HistoryTyped, FaultsTyped, Rows, Statuses,
           UserStates
  <2>4. CachesTyped
    <3>1. [snap |-> row, until |-> TTL] \in [snap : Rows, until : 0..(MaxTime + TTL)]
      BY <2>3, TimeAssumption DEF StoreTyped
    <3>2. keys \in [Workers -> [snap : Rows, until : 0..(MaxTime + TTL)]]
      BY <2>1, <3>1, NoEntriesTyped DEF create_key
    <3> QED
      BY <3>2, NoEntriesTyped, TimeAssumption DEF Init, CachesTyped
  <2>5. CallsTyped
    <3>1. NoCall \in [op : Ops, stage : {"none", "commit", "publish"}, seen : Rows,
                      expires : Expiries \union {Never}]
      BY GoneTyped DEF NoCall, Ops
    <3>2. sweeping \in BOOLEAN /\ direct \in Rows
      BY GoneTyped DEF Init
    <3>3. changes \in 0..MaxChanges
      BY TimeAssumption DEF Init
    <3>4. call = NoCall
      BY DEF Init
    <3> QED
      BY <3>1, <3>2, <3>3, <3>4 DEF CallsTyped
  <2>6. LocalsTyped
    BY <2>2, GoneTyped, TimeAssumption DEF Init, LocalsTyped, Stages, UserStates
  <2> QED
    BY <2>3, <2>4, <2>5, <2>6, TypeParts
<1>2. TypeOK /\ [Next]_vars => TypeOK'
  <2> SUFFICES ASSUME TypeOK, [Next]_vars
               PROVE  TypeOK'
    OBVIOUS
  <2>1. CASE Step /\ Follow
    <3>1. StoreTyped' /\ CachesTyped' /\ CallsTyped' /\ LocalsTyped' /\ FaultsTyped'
      BY <2>1, StepTyped
    <3>2. HistoryTyped'
      BY <2>1, <3>1, FollowTyped, TypeParts
    <3> QED
      BY <3>1, <3>2 DEF TypeOK, StoreTyped, HistoryTyped, CachesTyped, CallsTyped,
                        LocalsTyped, FaultsTyped
  <2>2. CASE UNCHANGED vars
    BY <2>2 DEF vars, store, history, caches, calls, locals, TypeOK
  <2> QED
    BY <2>1, <2>2 DEF Next
<1> QED
  BY <1>1, <1>2, PTL DEF Spec

-----------------------------------------------------------------------------
(***************************************************************************)
(* StaleOnlyByRace: inductive, given the types and that the row a direct   *)
(* request is about to expire was active and past due.                     *)
(***************************************************************************)

\* A dropped entry serves no request.
LEMMA NoKeyIsNotCached == ASSUME now \in Nat PROVE ~Cached(NoKey)
BY DEF Cached, Alive, NoKey

\* What accounts for an entry of worker w that differs from the row.
Excused(w) ==
  \/ raced[w] \/ inflight[w] > 0 \/ sweeping \/ call.stage = "publish"
  \/ \E r \in Requests : pc[r] = "announce"
  \/ SilentlyExpired(keys[w].snap)

\* What a direct request has loaded.
DirectPastDue == direct # Gone => direct.status = "active" /\ PastDue(direct)

LEMMA DirectInductive == Spec => []DirectPastDue
<1>1. Init => DirectPastDue
  BY DEF Init, DirectPastDue
<1>2. TypeOK /\ DirectPastDue /\ [Next]_vars => DirectPastDue'
  <2> SUFFICES ASSUME TypeOK, DirectPastDue, [Next]_vars
               PROVE  DirectPastDue'
    OBVIOUS
  <2>1. /\ now \in Nat
        /\ \A k \in Rows : k.expires \in Nat
    <3>1. now \in Nat
      BY TimeAssumption DEF TypeOK
    <3>2. \A k \in Rows : k.expires \in Nat
      BY TimeAssumption DEF Rows
    <3> QED
      BY <3>1, <3>2
  <2>2. direct \in Rows
    BY DEF TypeOK
  <2> USE DEF store, caches, calls, locals
  <2>3. \/ direct' = direct /\ now' \in {now, now + 1}
        \/ direct' = Gone
        \/ direct' = row /\ now' = now /\ row.status = "active" /\ PastDue(row)
    <3>1. CASE Step
      BY <3>1
         DEF Step, Deliver, ListenerDies, Crowded, Restart, Load, CommitCall,
             invalidate_apikey, SweepPublish, _scan_once, PublisherDies, DirectLoad,
             enforce_key_state, disable_user, Arrive, ReadKey, FillKey, EnforceRead,
             EnforceExpire, EnforcePublish, ReadUser, FillUser, _decide, Answer, Tick
    <3>2. CASE UNCHANGED vars
      BY <3>2 DEF vars
    <3> QED
      BY <3>1, <3>2 DEF Next
  <2> QED
    BY <2>1, <2>2, <2>3 DEF DirectPastDue, PastDue
<1> QED
  BY <1>1, <1>2, TypeCorrect, PTL DEF Spec

\* A publication drops, reaches or gives up each worker.
LEMMA PublishExcuses ==
  ASSUME TypeOK, NEW w, NEW up \in BOOLEAN, publish(w, up), now' = now
  PROVE  \A v \in Workers : ~Cached(keys[v])' \/ raced'[v] \/ inflight'[v] > 0
<1> SUFFICES ASSUME NEW v \in Workers
             PROVE  ~Cached(keys[v])' \/ raced'[v] \/ inflight'[v] > 0
  OBVIOUS
<1> DEFINE local   == {w} \intersect Workers
           reached == {u \in Workers \ {w} :
                         up /\ listening[u] /\ inflight[u] < MaxInFlight}
<1>1. /\ keys' = [u \in Workers |-> IF u \in local THEN NoKey ELSE keys[u]]
      /\ inflight' = [u \in Workers |->
                        IF u \in reached THEN inflight[u] + 1 ELSE inflight[u]]
      /\ raced' = [u \in Workers |-> raced[u] \/ u \notin reached \union local]
  BY DEF publish
<1>2. now \in Nat /\ inflight[v] \in Nat
  BY TimeAssumption DEF TypeOK
<1> HIDE DEF local, reached
<1>3. CASE v \in local
  BY <1>1, <1>2, <1>3 DEF Cached, Alive, NoKey
<1>4. CASE v \in reached
  BY <1>1, <1>2, <1>4
<1>5. CASE v \notin reached \union local
  BY <1>1, <1>5
<1> QED
  BY <1>3, <1>4, <1>5

\* A committed change of the key reaches every cache, or leaves there an entry
\* that a lost message, a raced fill or an overwritten change accounts for, or
\* one the direct relay has expired and that admits nobody.
THEOREM StaleByRaceOnly == Spec => []StaleOnlyByRace
<1>1. Init => StaleOnlyByRace
  BY TimeAssumption DEF Init, create_key, StaleOnlyByRace, Cached, Alive, NoKey
<1>2. TypeOK /\ TypeOK' /\ DirectPastDue /\ StaleOnlyByRace /\ [Next]_vars
      => StaleOnlyByRace'
  <2> SUFFICES ASSUME TypeOK, TypeOK', DirectPastDue, StaleOnlyByRace, [Next]_vars
               PROVE  StaleOnlyByRace'
    OBVIOUS
  <2> USE DEF store, caches, calls, locals
  <2>1. ASSUME \A v \in Workers : ~Cached(keys[v])' \/ raced'[v] \/ inflight'[v] > 0
        PROVE  StaleOnlyByRace'
    BY <2>1 DEF StaleOnlyByRace
  <2>2. ASSUME \/ sweeping' \/ call'.stage = "publish"
               \/ \E r \in Requests : pc'[r] = "announce"
        PROVE  StaleOnlyByRace'
    BY <2>2 DEF StaleOnlyByRace
  <2>3. ASSUME NEW v \in Workers, Cached(keys[v]), keys[v].snap # row
        PROVE  Excused(v)
    BY <2>3 DEF StaleOnlyByRace, Excused
  <2>4. ASSUME \A v \in Workers :
                 Cached(keys[v])' /\ keys'[v].snap # row' => Excused(v)'
        PROVE  StaleOnlyByRace'
    BY <2>4 DEF StaleOnlyByRace, Excused
  <2>5. ASSUME NEW v \in Workers, keys'[v] = keys[v], row' = row, Excused(v),
               now' \in {now, now + 1},
               raced[v] => raced'[v], inflight'[v] = inflight[v] \/ raced'[v],
               sweeping' = sweeping, call' = call,
               (\E r \in Requests : pc[r] = "announce")
                 => (\E r \in Requests : pc'[r] = "announce") \/ raced'[v]
        PROVE  Excused(v)'
    <3>1. now \in Nat /\ keys[v].snap.expires \in Nat
      <4>1. \A k \in Rows : k.expires \in Nat
        BY TimeAssumption DEF Rows
      <4> QED
        BY <4>1, TimeAssumption DEF TypeOK
    <3>2. SilentlyExpired(keys[v].snap) => SilentlyExpired(keys[v].snap)'
      BY <2>5, <3>1 DEF SilentlyExpired, PastDue
    <3> QED
      BY <2>5, <3>2 DEF Excused
  \* Steps that leave the entries, and what accounts for them, alone.
  <2>6. ASSUME UNCHANGED <<row, now, keys, inflight, raced, call, sweeping>>,
               \A r \in Requests : pc[r] = "announce" => pc'[r] = "announce"
        PROVE  StaleOnlyByRace'
    BY <2>3, <2>4, <2>5, <2>6 DEF Cached, Alive
  <2>7. ASSUME NEW w \in Workers, Deliver(w) \/ Crowded(w)
        PROVE  StaleOnlyByRace'
    <3> SUFFICES ASSUME NEW v \in Workers, Cached(keys[v])', keys'[v].snap # row'
                 PROVE  Excused(v)'
      BY <2>4
    <3>1. UNCHANGED <<now, row, raced, call, sweeping, pc>>
      BY <2>7 DEF Deliver, Crowded
    <3>2. keys' = [keys EXCEPT ![w] = NoKey]
      BY <2>7 DEF Deliver, Crowded
    <3>3. v # w
      BY <3>1, <3>2, NoKeyIsNotCached DEF TypeOK, Cached, Alive
    <3>4. keys'[v] = keys[v] /\ inflight'[v] = inflight[v]
      BY <2>7, <3>2, <3>3 DEF TypeOK, Deliver, Crowded
    <3>5. Excused(v)
      BY <2>3, <3>1, <3>4 DEF Cached, Alive
    <3> QED
      BY <2>5, <3>1, <3>4, <3>5
  <2>8. ASSUME NEW w \in Workers, Restart(w)
        PROVE  StaleOnlyByRace'
    <3> SUFFICES ASSUME NEW v \in Workers, Cached(keys[v])', keys'[v].snap # row'
                 PROVE  Excused(v)'
      BY <2>4
    <3>1. UNCHANGED <<now, row, call, sweeping>>
      BY <2>8 DEF Restart
    <3>2. keys' = [keys EXCEPT ![w] = NoKey]
      BY <2>8 DEF Restart
    <3>3. v # w
      BY <3>1, <3>2, NoKeyIsNotCached DEF TypeOK, Cached, Alive
    <3>4. keys'[v] = keys[v] /\ inflight'[v] = inflight[v]
      BY <2>8, <3>2, <3>3 DEF TypeOK, Restart
    <3>5. Excused(v)
      BY <2>3, <3>1, <3>4 DEF Cached, Alive
    <3>6. /\ raced[v] => raced'[v]
          /\ \A r \in Requests : pc[r] = "announce" => pc'[r] = "announce" \/ raced'[v]
      BY <2>8, <3>3 DEF Restart
    <3> QED
      BY <2>5, <3>1, <3>4, <3>5, <3>6
  <2>9. ASSUME NEW w \in Workers, ListenerDies(w)
        PROVE  StaleOnlyByRace'
    <3> SUFFICES ASSUME NEW v \in Workers, Cached(keys[v])', keys'[v].snap # row'
                 PROVE  Excused(v)'
      BY <2>4
    <3>1. UNCHANGED <<now, row, keys, call, sweeping, pc>>
      BY <2>9 DEF ListenerDies
    <3>2. Excused(v)
      BY <2>3, <3>1 DEF Cached, Alive
    <3>3. /\ raced[v] => raced'[v]
          /\ inflight'[v] = inflight[v] \/ raced'[v] \/ inflight[v] = 0
      BY <2>9, TimeAssumption DEF ListenerDies, TypeOK
    <3>4. inflight[v] = 0 => inflight'[v] = 0
      BY <2>9 DEF ListenerDies, TypeOK
    <3> QED
      BY <2>5, <3>1, <3>2, <3>3, <3>4
  <2>10. ASSUME NEW o \in Ops, NEW e \in Expiries \union {Never}, Load(o, e)
         PROVE  StaleOnlyByRace'
    <3>1. UNCHANGED <<row, now, keys, inflight, raced, sweeping, pc>>
      BY <2>10 DEF Load
    <3>2. call.stage # "publish"
      BY <2>10 DEF Load, NoCall
    <3> SUFFICES ASSUME NEW v \in Workers, Cached(keys[v])', keys'[v].snap # row'
                 PROVE  Excused(v)'
      BY <2>4
    <3>3. Excused(v)
      BY <2>3, <3>1 DEF Cached, Alive
    <3> QED
      BY <3>1, <3>2, <3>3 DEF Excused, SilentlyExpired, PastDue
  <2>11. ASSUME CommitCall \/ _scan_once
         PROVE  StaleOnlyByRace'
    BY <2>2, <2>11 DEF CommitCall, _scan_once, NoCall
  <2>12. ASSUME NEW w, NEW up \in BOOLEAN,
                invalidate_apikey(w, up) \/ SweepPublish(w, up)
         PROVE  StaleOnlyByRace'
    BY <2>1, <2>12, PublishExcuses DEF invalidate_apikey, SweepPublish
  <2>13. ASSUME PublisherDies
         PROVE  StaleOnlyByRace'
    BY <2>1, <2>13 DEF PublisherDies
  <2>14. ASSUME DirectLoad \/ disable_user
         PROVE  StaleOnlyByRace'
    BY <2>6, <2>14 DEF DirectLoad, disable_user
  <2>15. ASSUME enforce_key_state
         PROVE  StaleOnlyByRace'
    <3> SUFFICES ASSUME NEW v \in Workers, Cached(keys[v])', keys'[v].snap # row'
                 PROVE  Excused(v)'
      BY <2>4
    <3>1. UNCHANGED <<now, keys, inflight, call, sweeping, pc>>
      BY <2>15 DEF enforce_key_state
    <3>2. raced'[v] = (raced[v] \/ row \notin {direct, row'})
      BY <2>15 DEF enforce_key_state
    <3>3. Cached(keys[v])
      BY <3>1 DEF Cached, Alive
    <3>4. CASE row' = row
      BY <2>3, <2>5, <3>1, <3>2, <3>3, <3>4
    <3>5. CASE row' # row /\ row # direct
      BY <3>2, <3>5 DEF Excused
    <3>6. CASE row' # row /\ row = direct
      <4>1. row' = [row EXCEPT !.status = "expired"] /\ direct # Gone
        BY <2>15, <3>6 DEF enforce_key_state
      <4>2. CASE keys[v].snap = row
        BY <3>1, <3>6, <4>1, <4>2 DEF Excused, SilentlyExpired, DirectPastDue, PastDue
      <4>3. CASE keys[v].snap # row
        <5>1. Excused(v)
          BY <2>3, <3>3, <4>3
        <5>2. ~SilentlyExpired(keys[v].snap)
          BY <3>6, <4>1 DEF SilentlyExpired, DirectPastDue
        <5> QED
          BY <3>1, <3>2, <5>1, <5>2 DEF Excused
      <4> QED
        BY <4>2, <4>3
    <3> QED
      BY <3>4, <3>5, <3>6
  <2>16. ASSUME NEW r \in Requests,
                \/ \E w \in Workers : Arrive(r, w)
                \/ ReadKey(r) \/ EnforceRead(r) \/ ReadUser(r) \/ FillUser(r)
                \/ _decide(r) \/ Answer(r)
         PROVE  StaleOnlyByRace'
    <3>1. UNCHANGED <<row, now, keys, inflight, raced, call, sweeping>>
      BY <2>16 DEF Arrive, ReadKey, EnforceRead, ReadUser, FillUser, _decide, Answer
    <3>2. pc[r] # "announce"
      BY <2>16 DEF Arrive, ReadKey, EnforceRead, ReadUser, FillUser, _decide, Answer
    <3>3. \A q \in Requests \ {r} : pc'[q] = pc[q]
      <4>1. \E stage : Goto(r, stage)
        BY <2>16, StatusGateStage
           DEF Arrive, Judge, ReadKey, EnforceRead, ReadUser, FillUser, _decide, Answer
      <4> QED
        BY <4>1 DEF Goto, TypeOK
    <3> QED
      BY <2>6, <3>1, <3>2, <3>3
  <2>17. ASSUME NEW r \in Requests, FillKey(r)
         PROVE  StaleOnlyByRace'
    <3> SUFFICES ASSUME NEW v \in Workers, Cached(keys[v])', keys'[v].snap # row'
                 PROVE  Excused(v)'
      BY <2>4
    <3>1. UNCHANGED <<row, now, inflight, call, sweeping>>
      BY <2>17 DEF FillKey
    <3>2. /\ keys' = [keys EXCEPT ![worker[r]] = Entry(snap[r])]
          /\ raced' = [raced EXCEPT ![worker[r]] = @ \/ snap[r] # row']
      BY <2>17 DEF FillKey, Fill
    <3>3. CASE v = worker[r]
      BY <3>2, <3>3 DEF TypeOK, Excused, Entry
    <3>4. CASE v # worker[r]
      <4>1. keys'[v] = keys[v] /\ raced'[v] = raced[v]
        BY <3>2, <3>4 DEF TypeOK
      <4>2. Excused(v)
        BY <2>3, <3>1, <4>1 DEF Cached, Alive
      <4>3. \E stage : Goto(r, stage)
        BY <2>17, StatusGateStage DEF FillKey, Judge
      <4>4. \A q \in Requests : pc[q] = "announce" => pc'[q] = "announce"
        BY <2>17, <4>3 DEF FillKey, Goto, TypeOK
      <4> QED
        BY <2>5, <3>1, <4>1, <4>2, <4>4
    <3> QED
      BY <3>3, <3>4
  <2>18. ASSUME NEW r \in Requests, EnforceExpire(r)
         PROVE  StaleOnlyByRace'
    <3>1. CASE row.status = "deleted"
      BY <2>6, <2>18, <3>1 DEF EnforceExpire, Goto, TypeOK
    <3>2. CASE row.status # "deleted"
      BY <2>2, <2>18, <3>2 DEF EnforceExpire, Goto, TypeOK
    <3> QED
      BY <3>1, <3>2
  <2>19. ASSUME NEW r \in Requests, NEW up \in BOOLEAN, EnforcePublish(r, up)
         PROVE  StaleOnlyByRace'
    BY <2>1, <2>19, PublishExcuses DEF EnforcePublish
  <2>20. ASSUME Tick
         PROVE  StaleOnlyByRace'
    <3> SUFFICES ASSUME NEW v \in Workers, Cached(keys[v])', keys'[v].snap # row'
                 PROVE  Excused(v)'
      BY <2>4
    <3>1. /\ UNCHANGED <<row, inflight, raced, call, sweeping, pc>>
          /\ now' = now + 1 /\ now \in Nat /\ now' \in Nat
      BY <2>20 DEF Tick, TypeOK
    <3>2. keys'[v] = keys[v]
      BY <2>20, <3>1, NoKeyIsNotCached DEF Tick, Cached, Alive, NoKey
    <3>3. Cached(keys[v])
      BY <3>1, <3>2, TimeAssumption DEF Cached, Alive, TypeOK
    <3> QED
      BY <2>3, <2>5, <3>1, <3>2, <3>3
  <2>21. CASE UNCHANGED vars
    BY <2>6, <2>21 DEF vars
  <2> HIDE DEF store, caches, calls, locals
  <2> QED
    BY <2>7, <2>8, <2>9, <2>10, <2>11, <2>12, <2>13, <2>14, <2>15, <2>16, <2>17, <2>18,
       <2>19, <2>20, <2>21 DEF Next, Step
<1> QED
  BY <1>1, <1>2, TypeCorrect, DirectInductive, PTL DEF Spec

-----------------------------------------------------------------------------
(***************************************************************************)
(* AdmissionIsFresh.  Every copy of a permission, in a row, a session, a   *)
(* cache or a decision, is tied to the instant the history last granted    *)
(* it; a copy loses at most Latency when it is stored late, and TTL while  *)
(* it is kept.                                                             *)
(***************************************************************************)

\* The rows themselves: the history has followed them.
HistoryPast == userLive <= now
RowGrants ==
  row.status = "active" =>
    keyLive >= IF row.expires > now THEN now ELSE row.expires - 1
OwnerGrants == user = "active" => userLive >= now

\* The cache entries: each dies one TTL and one decision after the grant.
KeyEntryGrants ==
  \A w \in Workers :
    Cached(keys[w]) /\ Live(keys[w].snap) => keyLive + TTL + Latency >= keys[w].until
UserEntryGrants ==
  \A w \in Workers :
    Cached(users[w]) /\ users[w].status = "active" =>
      userLive + TTL + Latency >= users[w].until

\* A decision: its age, what it has read, what it has judged.
Timely(r) ==
  pc[r] # "idle" =>
    /\ at[r] <= now /\ now <= at[r] + Latency
    /\ pc[r] = "enforce" => at[r] <= asof[r]
ReadGrants(r) ==
  /\ pc[r] = "fillKey" /\ Live(snap[r]) => keyLive >= at[r]
  /\ pc[r] = "announce" /\ snap[r].status = "active" => keyLive + TTL + Latency > at[r]
  /\ pc[r] = "fillUser" /\ owner[r] = "active" => userLive >= at[r]
JudgedFresh(r) ==
  /\ pc[r] \in {"readUser", "fillUser", "rest"} => keyLive + TTL + Latency > at[r]
  /\ pc[r] = "rest" => userLive + TTL + Latency > at[r]
DecisionFresh(r) == Timely(r) /\ ReadGrants(r) /\ JudgedFresh(r)

RowsFresh == HistoryPast /\ RowGrants /\ OwnerGrants
FreshInv == /\ RowsFresh /\ KeyEntryGrants /\ UserEntryGrants
            /\ \A r \in Requests : DecisionFresh(r)

\* The numbers the arithmetic below is about.
LEMMA Numbers ==
  ASSUME TypeOK
  PROVE  /\ now \in Nat /\ keyLive \in Nat /\ userLive \in Nat
         /\ TTL \in Nat /\ TTL > 0 /\ Latency \in Nat /\ Latency > 0
         /\ row.expires \in Nat
         /\ \A w \in Workers : /\ keys[w].until \in Nat /\ keys[w].snap.expires \in Nat
                               /\ users[w].until \in Nat
         /\ \A r \in Requests : at[r] \in Nat /\ asof[r] \in Nat /\ snap[r].expires \in Nat
<1>1. \A k \in Rows : k.expires \in Nat
  BY TimeAssumption DEF Rows
<1> QED
  BY <1>1, TimeAssumption DEF TypeOK

\* The history never goes back, and keeps up with the rows.
LEMMA FollowGrants ==
  ASSUME TypeOK, TypeOK', HistoryPast, Follow, now <= now'
  PROVE  keyLive <= keyLive' /\ userLive <= userLive' /\ RowsFresh'
<1> DEFINE granted == IF row'.expires > now' THEN now' ELSE row'.expires - 1
<1>1. /\ now' \in Nat /\ row'.expires \in Nat /\ keyLive \in Nat
      /\ userLive \in Nat /\ now \in Nat
  <2>1. \A k \in Rows : k.expires \in Nat
    BY TimeAssumption DEF Rows
  <2> QED
    BY <2>1 DEF TypeOK
<1>2. granted \in Int
  BY <1>1
<1>3. keyLive' = IF row'.status = "active" /\ granted > keyLive THEN granted ELSE keyLive
  BY DEF Follow
<1>4. userLive' = IF user' = "active" THEN now' ELSE userLive
  BY DEF Follow
<1>5. RowGrants' <=> (row'.status = "active" => keyLive' >= granted)
  BY DEF RowGrants
<1> HIDE DEF granted
<1>6. keyLive <= keyLive' /\ RowGrants'
  BY <1>1, <1>2, <1>3, <1>5
<1>7. userLive <= userLive' /\ HistoryPast' /\ OwnerGrants'
  BY <1>1, <1>4 DEF HistoryPast, OwnerGrants
<1> QED
  BY <1>6, <1>7 DEF RowsFresh

\* Entries that are kept or dropped stay covered while the history grows.
LEMMA KeysKept ==
  ASSUME TypeOK, TypeOK', KeyEntryGrants, keyLive <= keyLive', now <= now',
         \A w \in Workers : keys'[w] = keys[w] \/ keys'[w] = NoKey
  PROVE  KeyEntryGrants'
<1> SUFFICES ASSUME NEW w \in Workers, Cached(keys[w])', Live(keys[w].snap)'
             PROVE  keyLive' + TTL + Latency >= keys'[w].until
  BY DEF KeyEntryGrants
<1>1. /\ now \in Nat /\ now' \in Nat /\ keyLive \in Nat /\ keyLive' \in Nat
      /\ TTL \in Nat /\ Latency \in Nat
      /\ keys[w].until \in Nat /\ keys[w].snap.expires \in Nat
  BY Numbers, TimeAssumption DEF TypeOK
<1>2. keys'[w] = keys[w]
  BY <1>1 DEF Cached, Alive, NoKey
<1>3. Cached(keys[w]) /\ Live(keys[w].snap)
  BY <1>1, <1>2 DEF Cached, Alive, Live, PastDue
<1> QED
  BY <1>1, <1>2, <1>3 DEF KeyEntryGrants

LEMMA UsersKept ==
  ASSUME TypeOK, TypeOK', UserEntryGrants, userLive <= userLive', now <= now',
         \A w \in Workers : users'[w] = users[w] \/ users'[w] = NoUser
  PROVE  UserEntryGrants'
<1> SUFFICES ASSUME NEW w \in Workers, Cached(users[w])', users'[w].status = "active"
             PROVE  userLive' + TTL + Latency >= users'[w].until
  BY DEF UserEntryGrants
<1>1. /\ now \in Nat /\ now' \in Nat /\ userLive \in Nat /\ userLive' \in Nat
      /\ TTL \in Nat /\ Latency \in Nat /\ users[w].until \in Nat
  BY Numbers, TimeAssumption DEF TypeOK
<1>2. users'[w] = users[w]
  BY <1>1 DEF Cached, Alive, NoUser
<1>3. Cached(users[w])
  BY <1>1, <1>2 DEF Cached, Alive
<1> QED
  BY <1>1, <1>2, <1>3 DEF UserEntryGrants

\* A decision that the step leaves alone, or that a restart ends, stays fresh.
LEMMA DecisionKept ==
  ASSUME TypeOK, TypeOK', NEW r \in Requests, DecisionFresh(r),
         keyLive <= keyLive', userLive <= userLive', now <= now',
         pc[r] # "idle" => now' <= at[r] + Latency,
         pc'[r] = pc[r] \/ (pc[r] # "idle" /\ pc'[r] = "denied"),
         at'[r] = at[r], asof'[r] = asof[r], snap'[r] = snap[r], owner'[r] = owner[r]
  PROVE  DecisionFresh(r)'
<1>1. /\ now \in Nat /\ now' \in Nat /\ keyLive \in Nat /\ keyLive' \in Nat
      /\ userLive \in Nat /\ userLive' \in Nat
      /\ TTL \in Nat /\ Latency \in Nat
      /\ at[r] \in Nat /\ asof[r] \in Nat /\ snap[r].expires \in Nat
  BY Numbers DEF TypeOK
<1>2. Timely(r)'
  BY <1>1 DEF DecisionFresh, Timely
<1>3. ReadGrants(r)'
  BY <1>1 DEF DecisionFresh, ReadGrants, Live, PastDue
<1>4. JudgedFresh(r)'
  BY <1>1 DEF DecisionFresh, JudgedFresh
<1> QED
  BY <1>2, <1>3, <1>4 DEF DecisionFresh

\* Past the gates: the snapshot was active, and so was the owner, if known.
LEMMA GatePassed ==
  ASSUME TypeOK, UserEntryGrants, NEW r \in Requests, NEW w \in Workers, NEW k,
         StatusGate(r, w, k)
  PROVE  /\ pc' = [pc EXCEPT ![r] = pc'[r]]
         /\ pc'[r] \in {"denied", "readUser", "rest"}
         /\ pc'[r] # "denied" => k.status = "active"
         /\ pc'[r] = "rest" => userLive + TTL + Latency > now
<1>1. /\ now \in Nat /\ userLive \in Nat /\ TTL \in Nat /\ Latency \in Nat
      /\ users[w].until \in Nat
  BY Numbers
<1>2. pc \in [Requests -> Stages]
  BY DEF TypeOK
<1>3. CASE k.status # "active"
  BY <1>2, <1>3 DEF StatusGate, Goto
<1>4. CASE k.status = "active" /\ ~Cached(users[w])
  BY <1>2, <1>4 DEF StatusGate, UserGate, Goto
<1>5. CASE k.status = "active" /\ Cached(users[w]) /\ users[w].status # "active"
  BY <1>2, <1>5 DEF StatusGate, UserGate, Goto
<1>6. CASE k.status = "active" /\ Cached(users[w]) /\ users[w].status = "active"
  <2>1. userLive + TTL + Latency > now
    BY <1>1, <1>6 DEF UserEntryGrants, Cached, Alive
  <2> QED
    BY <1>2, <1>6, <2>1 DEF StatusGate, UserGate, Goto
<1> QED
  BY <1>3, <1>4, <1>5, <1>6

\* A decision that has just left a gate is fresh if the key was granted.
LEMMA DecisionGated ==
  ASSUME TypeOK, TypeOK', NEW r \in Requests,
         keyLive <= keyLive', userLive <= userLive', now' = now,
         at'[r] <= now, now <= at'[r] + Latency,
         pc'[r] \in {"denied", "readUser", "rest"},
         pc'[r] # "denied" => keyLive + TTL + Latency > at'[r],
         pc'[r] = "rest" => userLive + TTL + Latency > now
  PROVE  DecisionFresh(r)'
<1>1. /\ now \in Nat /\ keyLive \in Nat /\ keyLive' \in Nat
      /\ userLive \in Nat /\ userLive' \in Nat
      /\ TTL \in Nat /\ Latency \in Nat /\ at'[r] \in Nat
  BY Numbers DEF TypeOK
<1>2. Timely(r)'
  BY <1>1 DEF Timely
<1>3. ReadGrants(r)'
  BY <1>1 DEF ReadGrants
<1>4. JudgedFresh(r)'
  BY <1>1 DEF JudgedFresh
<1> QED
  BY <1>2, <1>3, <1>4 DEF DecisionFresh

\* Judging a snapshot that, if live, the history covers.
LEMMA JudgeFresh ==
  ASSUME TypeOK, TypeOK', UserEntryGrants, NEW r \in Requests, NEW w \in Workers,
         NEW k \in Rows, Judge(r, w, k),
         keyLive <= keyLive', userLive <= userLive', now' = now,
         at'[r] <= now, now <= at'[r] + Latency,
         Live(k) => keyLive + TTL + Latency > at'[r]
  PROVE  DecisionFresh(r)' /\ pc' = [pc EXCEPT ![r] = pc'[r]]
<1>1. CASE k.status = "active" /\ PastDue(k)
  <2>1. pc' = [pc EXCEPT ![r] = "enforce"] /\ asof' = [asof EXCEPT ![r] = now]
    BY <1>1 DEF Judge, Goto
  <2>2. pc'[r] = "enforce" /\ asof'[r] = now
    BY <2>1 DEF TypeOK
  <2> QED
    BY <2>1, <2>2 DEF DecisionFresh, Timely, ReadGrants, JudgedFresh
<1>2. CASE ~(k.status = "active" /\ PastDue(k))
  <2>1. StatusGate(r, w, k)
    BY <1>2 DEF Judge
  <2>2. pc'[r] # "denied" => Live(k)
    BY <1>2, <2>1, GatePassed DEF Live
  <2> QED
    BY <2>1, <2>2, GatePassed, DecisionGated
<1> QED
  BY <1>1, <1>2

\* Every step keeps the copies within reach of the grants.
LEMMA FreshStep ==
  ASSUME TypeOK, TypeOK', FreshInv, Step, Follow
  PROVE  FreshInv'
<1> USE DEF store, caches, calls, locals
<1>1. now <= now' /\ (now' = now \/ Tick)
  <2>1. now \in Nat
    BY Numbers
  <2>2. now' = now \/ Tick
    BY DEF Step, Deliver, ListenerDies, Crowded, Restart, Load, CommitCall,
           invalidate_apikey, SweepPublish, _scan_once, disable_user, Arrive, ReadKey,
           FillKey, EnforceRead, EnforceExpire, EnforcePublish, ReadUser, FillUser,
           _decide, Answer, PublisherDies, DirectLoad, enforce_key_state
  <2> QED
    BY <2>1, <2>2 DEF Tick
<1>2. keyLive <= keyLive' /\ userLive <= userLive' /\ RowsFresh'
  BY <1>1, FollowGrants DEF FreshInv, RowsFresh
<1> DEFINE Rest == /\ KeyEntryGrants' /\ UserEntryGrants'
                   /\ \A r \in Requests : DecisionFresh(r)'
<1>3. ASSUME \A w \in Workers : keys'[w] = keys[w] \/ keys'[w] = NoKey
      PROVE  KeyEntryGrants'
  BY <1>1, <1>2, <1>3, KeysKept DEF FreshInv
<1>4. ASSUME \A w \in Workers : users'[w] = users[w] \/ users'[w] = NoUser
      PROVE  UserEntryGrants'
  BY <1>1, <1>2, <1>4, UsersKept DEF FreshInv
<1>5. ASSUME NEW r \in Requests,
             pc[r] # "idle" => now' <= at[r] + Latency,
             pc'[r] = pc[r] \/ (pc[r] # "idle" /\ pc'[r] = "denied"),
             at'[r] = at[r], asof'[r] = asof[r], snap'[r] = snap[r], owner'[r] = owner[r]
      PROVE  DecisionFresh(r)'
  BY <1>1, <1>2, <1>5, DecisionKept DEF FreshInv
<1>6. \A r \in Requests : pc[r] # "idle" => at[r] <= now /\ now <= at[r] + Latency
  BY DEF FreshInv, DecisionFresh, Timely
<1>7. ASSUME UNCHANGED <<now, locals>>
      PROVE  \A r \in Requests : DecisionFresh(r)'
  BY <1>5, <1>6, <1>7
<1>8. ASSUME NEW w \in Workers, Deliver(w) \/ Crowded(w) \/ ListenerDies(w)
      PROVE  Rest
  <2>1. UNCHANGED <<now, users, locals>>
    BY <1>8 DEF Deliver, Crowded, ListenerDies
  <2>2. \A v \in Workers : keys'[v] = keys[v] \/ keys'[v] = NoKey
    BY <1>8 DEF Deliver, Crowded, ListenerDies, TypeOK
  <2> QED
    BY <1>3, <1>4, <1>7, <2>1, <2>2
<1>9. ASSUME NEW w \in Workers, Restart(w)
      PROVE  Rest
  <2>1. /\ \A v \in Workers : keys'[v] = keys[v] \/ keys'[v] = NoKey
        /\ \A v \in Workers : users'[v] = users[v] \/ users'[v] = NoUser
    BY <1>9 DEF Restart, TypeOK
  <2>2. \A r \in Requests : pc'[r] = pc[r] \/ (pc[r] # "idle" /\ pc'[r] = "denied")
    BY <1>9 DEF Restart
  <2>3. UNCHANGED <<now, at, asof, snap, owner>>
    BY <1>9 DEF Restart
  <2>4. \A r \in Requests : DecisionFresh(r)'
    BY <1>5, <1>6, <2>2, <2>3
  <2> QED
    BY <1>3, <1>4, <2>1, <2>4
<1>10. ASSUME UNCHANGED <<now, keys, users, locals>>
       PROVE  Rest
  BY <1>3, <1>4, <1>7, <1>10
<1>11. ASSUME NEW w, NEW up \in BOOLEAN, publish(w, up)
       PROVE  KeyEntryGrants' /\ UserEntryGrants'
  <2>1. /\ \A v \in Workers : keys'[v] = keys[v] \/ keys'[v] = NoKey
        /\ users' = users
    BY <1>11 DEF publish
  <2> QED
    BY <1>3, <1>4, <2>1
<1>12. ASSUME NEW w, NEW up \in BOOLEAN,
              invalidate_apikey(w, up) \/ SweepPublish(w, up)
       PROVE  Rest
  <2>1. publish(w, up) /\ UNCHANGED <<now, locals>>
    BY <1>12 DEF invalidate_apikey, SweepPublish
  <2> QED
    BY <1>7, <1>11, <2>1
<1>13. ASSUME NEW r \in Requests, DecisionFresh(r)', now' = now,
              \A q \in Requests \ {r} :
                UNCHANGED <<pc[q], at[q], asof[q], snap[q], owner[q]>>
       PROVE  \A q \in Requests : DecisionFresh(q)'
  <2> SUFFICES ASSUME NEW q \in Requests, q # r
               PROVE  DecisionFresh(q)'
    BY <1>13
  <2> QED
    BY <1>5, <1>6, <1>13
<1>14. ASSUME NEW r \in Requests, NEW w \in Workers, Arrive(r, w)
       PROVE  Rest
  <2>1. UNCHANGED <<now, keys, users, owner>> /\ at' = [at EXCEPT ![r] = now]
    BY <1>14 DEF Arrive
  <2>2. at'[r] <= now /\ now <= at'[r] + Latency /\ at'[r] = now
    BY <2>1, Numbers DEF TypeOK
  <2>3. /\ DecisionFresh(r)'
        /\ \A q \in Requests \ {r} : UNCHANGED <<pc[q], asof[q], snap[q]>>
    <3>1. CASE Cached(keys[w])
      <4> DEFINE k == keys[w].snap
      <4>1. Judge(r, w, k) /\ k \in Rows
        BY <1>14, <3>1 DEF Arrive, TypeOK
      <4>2. Live(k) => keyLive + TTL + Latency > at'[r]
        BY <2>2, <3>1, Numbers DEF FreshInv, KeyEntryGrants, Cached, Alive
      <4>3. DecisionFresh(r)' /\ pc' = [pc EXCEPT ![r] = pc'[r]]
        BY <1>2, <2>1, <2>2, <4>1, <4>2, JudgeFresh DEF FreshInv
      <4>4. \A q \in Requests \ {r} : UNCHANGED <<asof[q], snap[q]>>
        BY <4>1 DEF Judge, TypeOK
      <4> QED
        BY <4>3, <4>4 DEF TypeOK
    <3>2. CASE ~Cached(keys[w])
      <4>1. pc' = [pc EXCEPT ![r] = "readKey"] /\ UNCHANGED <<snap, asof>>
        BY <1>14, <3>2 DEF Arrive, Goto
      <4>2. pc'[r] = "readKey"
        BY <4>1 DEF TypeOK
      <4> QED
        BY <2>1, <2>2, <4>1, <4>2
           DEF TypeOK, DecisionFresh, Timely, ReadGrants, JudgedFresh
    <3> QED
      BY <3>1, <3>2
  <2>4. \A q \in Requests \ {r} : UNCHANGED <<at[q], owner[q]>>
    BY <2>1 DEF TypeOK
  <2> QED
    BY <1>3, <1>4, <1>13, <2>1, <2>3, <2>4
<1>15. ASSUME NEW r \in Requests, ReadKey(r)
       PROVE  Rest
  <2>1. /\ UNCHANGED <<now, keys, users, at, asof, owner>>
        /\ snap' = [snap EXCEPT ![r] = row] /\ pc' = [pc EXCEPT ![r] = "fillKey"]
    BY <1>15 DEF ReadKey, Goto
  <2>2. pc'[r] = "fillKey" /\ snap'[r] = row
    BY <2>1 DEF TypeOK
  <2>3. Live(row) => keyLive' >= at'[r]
    BY <1>2, <1>6, <1>15, <2>1, Numbers
       DEF ReadKey, FreshInv, RowsFresh, RowGrants, Live, PastDue, TypeOK
  <2>4. DecisionFresh(r)'
    BY <1>6, <1>15, <2>1, <2>2, <2>3
       DEF ReadKey, DecisionFresh, Timely, ReadGrants, JudgedFresh, Live, PastDue
  <2>5. \A q \in Requests \ {r} : UNCHANGED <<pc[q], at[q], asof[q], snap[q], owner[q]>>
    BY <2>1 DEF TypeOK
  <2> QED
    BY <1>3, <1>4, <1>13, <2>1, <2>4, <2>5
<1>16. ASSUME NEW r \in Requests, FillKey(r)
       PROVE  Rest
  <2> DEFINE w == worker[r]
             k == snap[r]
  <2>1. /\ pc[r] = "fillKey" /\ w \in Workers /\ k \in Rows
        /\ UNCHANGED <<now, users, at, owner>>
        /\ keys' = [keys EXCEPT ![w] = Entry(k)]
    BY <1>16 DEF FillKey, Fill, TypeOK
  <2>2. Live(k) => keyLive >= at[r]
    BY <2>1 DEF FreshInv, DecisionFresh, ReadGrants
  <2>3. at'[r] = at[r] /\ at[r] <= now /\ now <= at[r] + Latency
    BY <1>6, <2>1
  <2>4. KeyEntryGrants'
    <3> SUFFICES ASSUME NEW v \in Workers, Cached(keys[v])', Live(keys[v].snap)'
                 PROVE  keyLive' + TTL + Latency >= keys'[v].until
      BY DEF KeyEntryGrants
    <3>1. keyLive \in Nat /\ keyLive' \in Nat
      BY DEF TypeOK
    <3>2. CASE v = w
      <4>1. keys'[v] = [snap |-> k, until |-> now + TTL]
        BY <2>1, <3>2 DEF Entry, TypeOK
      <4>2. keyLive >= at[r]
        BY <2>1, <2>2, <4>1 DEF Live, PastDue
      <4> QED
        BY <1>2, <2>3, <3>1, <4>1, <4>2, Numbers
    <3>3. CASE v # w
      <4>1. keys'[v] = keys[v]
        BY <2>1, <3>3 DEF TypeOK
      <4>2. keyLive + TTL + Latency >= keys[v].until
        BY <2>1, <4>1 DEF FreshInv, KeyEntryGrants, Cached, Alive, Live, PastDue
      <4> QED
        BY <1>2, <3>1, <4>1, <4>2, Numbers
    <3> QED
      BY <3>2, <3>3
  <2>5. /\ DecisionFresh(r)'
        /\ \A q \in Requests \ {r} : UNCHANGED <<pc[q], asof[q], snap[q]>>
    <3>1. CASE k.status = "deleted"
      <4>1. pc' = [pc EXCEPT ![r] = "denied"] /\ UNCHANGED <<snap, asof>>
        BY <1>16, <3>1 DEF FillKey, Goto
      <4>2. pc'[r] = "denied"
        BY <4>1 DEF TypeOK
      <4> QED
        BY <2>1, <2>3, <4>1, <4>2
           DEF TypeOK, DecisionFresh, Timely, ReadGrants, JudgedFresh
    <3>2. CASE k.status # "deleted"
      <4>1. Judge(r, w, k)
        BY <1>16, <3>2 DEF FillKey
      <4>2. Live(k) => keyLive + TTL + Latency > at'[r]
        BY <2>2, <2>3, Numbers
      <4>3. DecisionFresh(r)' /\ pc' = [pc EXCEPT ![r] = pc'[r]]
        BY <1>2, <2>1, <2>3, <4>1, <4>2, JudgeFresh DEF FreshInv
      <4>4. \A q \in Requests \ {r} : UNCHANGED <<asof[q], snap[q]>>
        BY <4>1 DEF Judge, TypeOK
      <4> QED
        BY <4>3, <4>4 DEF TypeOK
    <3> QED
      BY <3>1, <3>2
  <2> QED
    BY <1>4, <1>13, <2>1, <2>4, <2>5
<1>17. ASSUME NEW r \in Requests, EnforceRead(r)
       PROVE  Rest
  <2>1. /\ pc[r] = "enforce"
        /\ UNCHANGED <<row, now, keys, users, at, owner>>
        /\ snap' = [snap EXCEPT ![r] = row] /\ asof' = [asof EXCEPT ![r] = 0]
    BY <1>17 DEF EnforceRead
  <2>2. at'[r] = at[r] /\ at[r] <= now /\ now <= at[r] + Latency /\ at[r] <= asof[r]
    BY <2>1 DEF FreshInv, DecisionFresh, Timely
  <2>3. snap'[r] = row
    BY <2>1 DEF TypeOK
  <2>4. /\ pc' = [pc EXCEPT ![r] = pc'[r]]
        /\ pc'[r] \in {"expire", "announce"}
        /\ pc'[r] = "announce" => ~(row.status = "active" /\ row.expires <= asof[r])
    BY <1>17 DEF EnforceRead, Goto, TypeOK
  <2>5. pc'[r] = "announce" /\ row.status = "active" => keyLive' + TTL + Latency > at'[r]
    <3>1. keyLive' \in Nat
      BY DEF TypeOK
    <3> QED
      BY <1>2, <2>2, <2>4, <3>1, Numbers DEF FreshInv, RowsFresh, RowGrants
  <2>6. DecisionFresh(r)'
    BY <2>1, <2>2, <2>3, <2>4, <2>5 DEF DecisionFresh, Timely, ReadGrants, JudgedFresh
  <2>7. \A q \in Requests \ {r} : UNCHANGED <<pc[q], at[q], asof[q], snap[q], owner[q]>>
    BY <2>1, <2>4 DEF TypeOK
  <2> QED
    BY <1>3, <1>4, <1>13, <2>1, <2>6, <2>7
<1>18. ASSUME NEW r \in Requests, EnforceExpire(r)
       PROVE  Rest
  <2>1. /\ pc[r] = "expire" /\ UNCHANGED <<now, keys, users, at, asof, owner>>
        /\ pc' = [pc EXCEPT ![r] = pc'[r]]
        /\ \A q \in Requests \ {r} : snap'[q] = snap[q]
        /\ \/ pc'[r] = "denied"
           \/ pc'[r] = "announce" /\ snap'[r].status = "expired"
    BY <1>18 DEF EnforceExpire, Goto, TypeOK, Rows
  <2>2. DecisionFresh(r)'
    BY <1>6, <2>1 DEF DecisionFresh, Timely, ReadGrants, JudgedFresh
  <2>3. \A q \in Requests \ {r} : UNCHANGED <<pc[q], at[q], asof[q], snap[q], owner[q]>>
    BY <2>1 DEF TypeOK
  <2> QED
    BY <1>3, <1>4, <1>13, <2>1, <2>2, <2>3
<1>18a. ASSUME NEW r \in Requests, NEW up \in BOOLEAN, EnforcePublish(r, up)
       PROVE  Rest
  <2>1. /\ pc[r] = "announce" /\ worker[r] \in Workers
        /\ UNCHANGED <<now, at, asof, owner>>
        /\ snap' = [snap EXCEPT ![r] = Gone]
        /\ publish(worker[r], up) /\ StatusGate(r, worker[r], snap[r])
    BY <1>18a DEF EnforcePublish, TypeOK
  <2>2. at'[r] = at[r] /\ at[r] <= now /\ now <= at[r] + Latency
    BY <1>6, <2>1
  <2>3. /\ pc' = [pc EXCEPT ![r] = pc'[r]]
        /\ pc'[r] \in {"denied", "readUser", "rest"}
        /\ pc'[r] # "denied" => snap[r].status = "active"
        /\ pc'[r] = "rest" => userLive + TTL + Latency > now
    BY <2>1, GatePassed DEF FreshInv
  <2>4. pc'[r] # "denied" => keyLive + TTL + Latency > at'[r]
    BY <2>1, <2>2, <2>3 DEF FreshInv, DecisionFresh, ReadGrants
  <2>5. DecisionFresh(r)'
    BY <1>2, <2>1, <2>2, <2>3, <2>4, DecisionGated
  <2>6. \A q \in Requests \ {r} : UNCHANGED <<pc[q], at[q], asof[q], snap[q], owner[q]>>
    BY <2>1, <2>3 DEF TypeOK
  <2> QED
    BY <1>11, <1>13, <2>1, <2>5, <2>6
<1>19. ASSUME NEW r \in Requests, ReadUser(r)
       PROVE  Rest
  <2>1. /\ pc[r] = "readUser" /\ UNCHANGED <<now, keys, users, at, asof, snap>>
        /\ owner' = [owner EXCEPT ![r] = user] /\ pc' = [pc EXCEPT ![r] = "fillUser"]
    BY <1>19 DEF ReadUser, Goto
  <2>2. pc'[r] = "fillUser" /\ owner'[r] = user
    BY <2>1 DEF TypeOK
  <2>3. user = "active" => userLive' >= at'[r]
    <3>1. at'[r] = at[r] /\ at[r] <= now
      BY <1>6, <2>1
    <3>2. user = "active" => userLive >= now
      BY DEF FreshInv, RowsFresh, OwnerGrants
    <3>3. userLive' \in Nat
      BY DEF TypeOK
    <3> QED
      BY <1>2, <3>1, <3>2, <3>3, Numbers
  <2>4. keyLive' + TTL + Latency > at'[r]
    <3>1. keyLive + TTL + Latency > at[r]
      BY <2>1 DEF FreshInv, DecisionFresh, JudgedFresh
    <3> QED
      BY <1>2, <2>1, <3>1, Numbers DEF TypeOK
  <2>5. DecisionFresh(r)'
    BY <1>6, <2>1, <2>2, <2>3, <2>4
       DEF DecisionFresh, Timely, ReadGrants, JudgedFresh
  <2>6. \A q \in Requests \ {r} : UNCHANGED <<pc[q], at[q], asof[q], snap[q], owner[q]>>
    BY <2>1 DEF TypeOK
  <2> QED
    BY <1>3, <1>4, <1>13, <2>1, <2>5, <2>6
<1>20. ASSUME NEW r \in Requests, FillUser(r)
       PROVE  Rest
  <2> DEFINE w == worker[r]
             stage == IF owner[r] = "active" THEN "rest" ELSE "denied"
  <2>1. /\ pc[r] = "fillUser" /\ UNCHANGED <<now, keys, at, asof, snap, owner>>
        /\ users' = [users EXCEPT ![w] = [status |-> owner[r], until |-> now + TTL]]
        /\ pc' = [pc EXCEPT ![r] = stage]
    BY <1>20 DEF FillUser, Goto
  <2>2. at'[r] = at[r] /\ at[r] <= now /\ now <= at[r] + Latency
    BY <1>6, <2>1
  <2>3. /\ owner[r] = "active" => userLive >= at[r]
        /\ keyLive + TTL + Latency > at[r]
    BY <2>1 DEF FreshInv, DecisionFresh, ReadGrants, JudgedFresh
  <2>4. UserEntryGrants'
    <3> SUFFICES ASSUME NEW v \in Workers, Cached(users[v])', users'[v].status = "active"
                 PROVE  userLive' + TTL + Latency >= users'[v].until
      BY DEF UserEntryGrants
    <3>1. userLive \in Nat /\ userLive' \in Nat
      BY DEF TypeOK
    <3>2. CASE v = w
      <4>1. users'[v] = [status |-> owner[r], until |-> now + TTL]
        BY <2>1, <3>2 DEF TypeOK
      <4>2. userLive >= at[r]
        BY <2>3, <4>1
      <4> QED
        BY <1>2, <2>2, <3>1, <4>1, <4>2, Numbers
    <3>3. CASE v # w
      <4>1. users'[v] = users[v]
        BY <2>1, <3>3 DEF TypeOK
      <4>2. userLive + TTL + Latency >= users[v].until
        BY <2>1, <4>1 DEF FreshInv, UserEntryGrants, Cached, Alive
      <4> QED
        BY <1>2, <3>1, <4>1, <4>2, Numbers
    <3> QED
      BY <3>2, <3>3
  <2>5. pc'[r] = stage
    BY <2>1 DEF TypeOK
  <2>6. pc'[r] = "rest" => userLive + TTL + Latency > now
    BY <2>2, <2>3, <2>5, Numbers
  <2>7. DecisionFresh(r)'
    BY <1>2, <2>1, <2>2, <2>3, <2>5, <2>6, DecisionGated
  <2>8. \A q \in Requests \ {r} : UNCHANGED <<pc[q], at[q], asof[q], snap[q], owner[q]>>
    BY <2>1 DEF TypeOK
  <2> QED
    BY <1>3, <1>13, <2>1, <2>4, <2>7, <2>8
<1>21. ASSUME NEW r \in Requests, _decide(r)
       PROVE  Rest
  <2>1. PICK stage \in {"admitted", "denied"} : pc' = [pc EXCEPT ![r] = stage]
    BY <1>21 DEF _decide, Goto
  <2>2. pc[r] = "rest" /\ UNCHANGED <<now, keys, users, at, asof, snap, owner>>
    BY <1>21 DEF _decide
  <2>3. pc'[r] = stage
    BY <2>1 DEF TypeOK
  <2>4. DecisionFresh(r)'
    BY <1>6, <2>2, <2>3 DEF DecisionFresh, Timely, ReadGrants, JudgedFresh
  <2>5. \A q \in Requests \ {r} : UNCHANGED <<pc[q], at[q], asof[q], snap[q], owner[q]>>
    BY <2>1, <2>2 DEF TypeOK
  <2> QED
    BY <1>3, <1>4, <1>13, <2>2, <2>4, <2>5
<1>22. ASSUME NEW r \in Requests, Answer(r)
       PROVE  Rest
  <2>1. UNCHANGED <<now, keys, users>> /\ pc'[r] = "idle"
    BY <1>22 DEF Answer, Goto, TypeOK
  <2>2. DecisionFresh(r)'
    BY <2>1 DEF DecisionFresh, Timely, ReadGrants, JudgedFresh
  <2>3. \A q \in Requests \ {r} : UNCHANGED <<pc[q], at[q], asof[q], snap[q], owner[q]>>
    BY <1>22 DEF Answer, Goto, TypeOK
  <2> QED
    BY <1>3, <1>4, <1>13, <2>1, <2>2, <2>3
<1>23. ASSUME Tick
       PROVE  Rest
  <2>1. /\ \A w \in Workers : keys'[w] = keys[w] \/ keys'[w] = NoKey
        /\ \A w \in Workers : users'[w] = users[w] \/ users'[w] = NoUser
        /\ UNCHANGED locals
    BY <1>23 DEF Tick
  <2>2. \A r \in Requests : pc[r] # "idle" => now' <= at[r] + Latency
    BY <1>23, Numbers DEF Tick
  <2>3. \A r \in Requests : DecisionFresh(r)'
    BY <1>5, <2>1, <2>2
  <2> QED
    BY <1>3, <1>4, <2>1, <2>3
<1>24. ASSUME \/ \E o \in Ops, e \in Expiries \union {Never} : Load(o, e)
              \/ CommitCall \/ _scan_once \/ disable_user
              \/ PublisherDies \/ DirectLoad \/ enforce_key_state
       PROVE  Rest
  BY <1>10, <1>24 DEF Load, CommitCall, _scan_once, disable_user, PublisherDies,
                      DirectLoad, enforce_key_state
<1> HIDE DEF Rest, store, caches, calls, locals
<1>25. Rest
  BY <1>8, <1>9, <1>12, <1>14, <1>15, <1>16, <1>17, <1>18, <1>19, <1>20, <1>21, <1>22,
     <1>23, <1>24, <1>18a DEF Step
<1> QED
  BY <1>2, <1>25 DEF Rest, FreshInv

LEMMA FreshInductive == Spec => []FreshInv
<1>1. Init => FreshInv
  <2> SUFFICES ASSUME Init
               PROVE  FreshInv
    OBVIOUS
  <2>1. PICK w \in Workers, e \in Expiries \union {Never} : create_key(w, e)
    BY DEF Init
  <2>2. RowsFresh
    BY <2>1, TimeAssumption
       DEF Init, create_key, RowsFresh, HistoryPast, RowGrants, OwnerGrants
  <2>3. KeyEntryGrants
    BY <2>1, TimeAssumption DEF Init, create_key, KeyEntryGrants, Cached, Alive, NoKey
  <2>4. UserEntryGrants
    BY DEF Init, UserEntryGrants, NoUser
  <2>5. \A r \in Requests : DecisionFresh(r)
    BY DEF Init, DecisionFresh, Timely, ReadGrants, JudgedFresh
  <2> QED
    BY <2>2, <2>3, <2>4, <2>5 DEF FreshInv
<1>2. TypeOK /\ TypeOK' /\ FreshInv /\ [Next]_vars => FreshInv'
  <2>1. FreshInv /\ UNCHANGED vars => FreshInv'
    BY DEF vars, store, history, caches, locals, FreshInv, RowsFresh, HistoryPast,
           RowGrants, OwnerGrants, KeyEntryGrants, UserEntryGrants, DecisionFresh, Timely,
           ReadGrants, JudgedFresh, Cached, Alive, Live, PastDue
  <2> QED
    BY <2>1, FreshStep DEF Next
<1> QED
  BY <1>1, <1>2, TypeCorrect, PTL DEF Spec

\* Only _decide admits, and what it has judged is fresh: whatever is disabled,
\* deleted, shortened, lost or raced, a request passes the external processor
\* only if its key and its owner were good at most TTL + 2 * Latency ago.
THEOREM AdmissionsAreFresh == Spec => AdmissionIsFresh
<1>1. ASSUME TypeOK, FreshInv, [Next]_vars, NEW r \in Requests,
             pc[r] # "admitted", pc'[r] = "admitted"
      PROVE  Fresh(keyLive) /\ Fresh(userLive)
  <2>1. pc \in [Requests -> Stages]
    BY <1>1 DEF TypeOK
  <2>2. ASSUME NEW q \in Requests, NEW stage \in Stages \ {"admitted"}, Goto(q, stage)
        PROVE  FALSE
    BY <1>1, <2>1, <2>2 DEF Goto
  <2>3. pc[r] = "rest"
    <3>1. pc' # pc
      BY <1>1
    <3>2. ASSUME NEW w \in Workers, Restart(w)
          PROVE  FALSE
      BY <1>1, <3>2 DEF Restart
    <3>3. ASSUME NEW q \in Requests, NEW w, NEW k, Judge(q, w, k) \/ StatusGate(q, w, k)
          PROVE  FALSE
      BY <2>2, <3>3, StatusGateStage DEF Judge, Stages
    <3>4. ASSUME NEW q \in Requests,
                 \/ \E w \in Workers : Arrive(q, w)
                 \/ ReadKey(q) \/ FillKey(q) \/ ReadUser(q) \/ FillUser(q) \/ Answer(q)
                 \/ EnforceRead(q) \/ EnforceExpire(q)
                 \/ \E up \in BOOLEAN : EnforcePublish(q, up)
          PROVE  FALSE
      BY <2>2, <3>3, <3>4
         DEF Arrive, ReadKey, FillKey, ReadUser, FillUser, Answer, EnforceRead,
             EnforceExpire, EnforcePublish, Stages
    <3>5. ASSUME NEW q \in Requests, _decide(q)
          PROVE  pc[r] = "rest"
      BY <1>1, <2>1, <3>5 DEF _decide, Goto
    <3>6. Step
      BY <1>1, <3>1 DEF Next, vars, locals
    <3> QED
      BY <3>1, <3>2, <3>4, <3>5, <3>6
         DEF Step, Deliver, ListenerDies, Crowded, Load, CommitCall, invalidate_apikey,
             SweepPublish, _scan_once, disable_user, PublisherDies, DirectLoad,
             enforce_key_state, Tick, locals
  <2>4. /\ keyLive + TTL + Latency > at[r] /\ userLive + TTL + Latency > at[r]
        /\ now <= at[r] + Latency
    BY <1>1, <2>3 DEF FreshInv, DecisionFresh, JudgedFresh, Timely
  <2> QED
    BY <1>1, <2>4, Numbers DEF Fresh
<1>2. TypeOK /\ FreshInv /\ [Next]_vars
      => [\A r \in Requests : pc[r] # "admitted" /\ pc'[r] = "admitted"
            => Fresh(keyLive) /\ Fresh(userLive)]_vars
  BY <1>1
<1> QED
  BY <1>2, TypeCorrect, FreshInductive, PTL DEF Spec, AdmissionIsFresh
=============================================================================
