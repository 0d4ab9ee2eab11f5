----------------------------- MODULE KeyCache -----------------------------
(***************************************************************************)
(* Who may pass the external processor: the life of one API key and its    *)
(* owner in PostgreSQL (api/v1/api_keys.py, api/v1/admin/users.py, the     *)
(* expiry sweeper, the direct relay's own expiry check in services/        *)
(* api_key.py), the per-process snapshot caches in front of them           *)
(* (services/api_key_cache.py on core/ttl_cache.py), the Redis pub/sub     *)
(* that evicts them (core/cache_invalidate.py), and the first half of      *)
(* ext_proc_server._decide, which judges a request by those snapshots.     *)
(* Quota, rate and route, the second half, are in module EnvoyPath.        *)
(*                                                                         *)
(* Every await of the code is a step boundary, and code between two awaits *)
(* is one action.  A row that does not exist has status "deleted"; the     *)
(* snapshot of such a row is the negative cache entry _MISSING.            *)
(***************************************************************************)
EXTENDS Integers, FiniteSets

CONSTANTS
  Workers,      \* api processes whose caches are followed
  Elsewhere,    \* an api process whose caches are not: it only publishes
  Requests,     \* requests the external processors are deciding
  Expiries,     \* values of expires_at the owner may choose
  Never,        \* expires_at IS NULL: later than any instant of the clock
  TTL,          \* _APIKEY_TTL and _USER_TTL
  Latency,      \* the longest a decision takes, in ticks
  MaxTime,      \* bound: the last instant of the clock
  MaxInFlight,  \* bound: invalidations on their way to one worker
  MaxChanges,   \* bound: calls of the owner and of the administrator
  MaxFaults     \* bound: Redis errors, dying publishers and worker restarts

ASSUME TimeAssumption ==
  /\ TTL \in Nat \ {0} /\ Latency \in Nat \ {0} /\ MaxTime \in Nat
  /\ Never \in Nat /\ Never > MaxTime /\ Expiries \subseteq Nat
  /\ MaxInFlight \in Nat \ {0} /\ MaxFaults \in Nat /\ MaxChanges \in Nat

VARIABLES
  row,        \* the api_keys row
  user,       \* users.status of its owner
  now,        \* the clock
  keyLive,    \* history: the last instant for which an active row granted access
  userLive,   \* history: the last instant the owner was active
  keys,       \* [Workers -> _apikey_cache entry of this key]
  users,      \* [Workers -> _user_cache entry of its owner]
  listening,  \* [Workers -> BOOLEAN]: the pub/sub task is alive
  inflight,   \* [Workers -> Nat]: invalidations published, not yet handled
  raced,      \* history: the worker lost an invalidation, or cached a row
              \* that had changed while it was being read, or the direct
              \* relay wrote over a change of the owner's
  call,       \* the owner's API call in progress
  direct,     \* the past-due row a direct request has loaded, or Gone
  sweeping,   \* the sweeper has committed and has still to publish
  pc, at,     \* where a request is, and when its decision began
  snap,       \* the row its session loaded, until it is judged
  asof,       \* the instant enforce_key_state_cached compares with
  owner,      \* users.status as it read it
  worker,     \* the process that decides it
  changes,    \* how many calls the owner and the administrator have made
  faults      \* how many faults have happened

store   == <<row, user>>
history == <<keyLive, userLive>>
calls   == <<call, direct, sweeping, changes>>
caches  == <<keys, users, listening, inflight, raced>>
locals  == <<pc, at, snap, asof, owner, worker>>
vars    == <<store, now, history, caches, calls, locals, faults>>

Statuses  == {"active", "disabled", "expired", "deleted"}
Rows      == [status : Statuses, expires : Expiries \union {Never}]
Gone      == [status |-> "deleted", expires |-> Never]
UserStates == {"active", "disabled"}
Ops       == {"update", "disable", "enable", "delete"}
Stages    == {"idle", "readKey", "fillKey", "enforce", "expire", "announce",
              "readUser", "fillUser", "rest", "admitted", "denied"}

Home   == CHOOSE w \in Workers : TRUE   \* the worker of an idle request
NoCall == [op |-> "update", stage |-> "none", seen |-> Gone, expires |-> Never]
NoKey  == [snap |-> Gone, until |-> 0]
NoUser == [status |-> "disabled", until |-> 0]

\* The variables have the shape the data model and the caches give them.
TypeOK ==
  /\ row \in Rows /\ user \in UserStates
  /\ now \in 0..MaxTime /\ keyLive \in 0..MaxTime /\ userLive \in 0..MaxTime
  /\ keys \in [Workers -> [snap : Rows, until : 0..(MaxTime + TTL)]]
  /\ users \in [Workers -> [status : UserStates, until : 0..(MaxTime + TTL)]]
  /\ listening \in [Workers -> BOOLEAN]
  /\ inflight \in [Workers -> 0..MaxInFlight]
  /\ raced \in [Workers -> BOOLEAN]
  /\ call \in [op : Ops, stage : {"none", "commit", "publish"}, seen : Rows,
               expires : Expiries \union {Never}]
  /\ direct \in Rows /\ sweeping \in BOOLEAN
  /\ pc \in [Requests -> Stages] /\ at \in [Requests -> 0..MaxTime]
  /\ snap \in [Requests -> Rows] /\ asof \in [Requests -> 0..MaxTime]
  /\ owner \in [Requests -> UserStates]
  /\ worker \in [Requests -> Workers]
  /\ changes \in 0..MaxChanges /\ faults \in 0..MaxFaults

\* create_key has just returned on some worker: it commits the row, seeds its
\* own cache and publishes nothing, since nobody has used the key yet.
create_key(w, e) ==
  /\ row = [status |-> "active", expires |-> e]
  /\ keys = [v \in Workers |-> IF v = w THEN [snap |-> row, until |-> TTL]
                                        ELSE NoKey]

Init ==
  /\ \E w \in Workers, e \in Expiries \union {Never} : create_key(w, e)
  /\ user = "active"
  /\ now = 0 /\ keyLive = 0 /\ userLive = 0
  /\ users = [w \in Workers |-> NoUser]
  /\ listening = [w \in Workers |-> TRUE]
  /\ inflight = [w \in Workers |-> 0]
  /\ raced = [w \in Workers |-> FALSE]
  /\ call = NoCall /\ direct = Gone /\ sweeping = FALSE
  /\ pc = [r \in Requests |-> "idle"]
  /\ at = [r \in Requests |-> 0]
  /\ snap = [r \in Requests |-> Gone]
  /\ asof = [r \in Requests |-> 0]
  /\ owner = [r \in Requests |-> "disabled"]
  /\ worker = [r \in Requests |-> Home]
  /\ changes = 0 /\ faults = 0

PastDue(k) == k.expires <= now
Live(k)    == k.status = "active" /\ ~PastDue(k)

(***************************************************************************)
(* core/ttl_cache.py and core/cache_invalidate.py.                         *)
(***************************************************************************)

\* TTLCache.get finds an entry only while its deadline lies ahead.
Immortal(entry, t) == entry.until > 0
Alive(entry, t) == entry.until > t
Cached(entry)   == Alive(entry, now)

\* TTLCache.set starts a whole TTL whatever the age of the value.
Entry(v) == [snap |-> v, until |-> now + TTL]

\* A fill stores what a SELECT returned earlier: the row may have changed.
Fill(w, v) ==
  /\ keys' = [keys EXCEPT ![w] = Entry(v)]
  /\ raced' = [raced EXCEPT ![w] = @ \/ v # row']

\* publish: the local handler runs first, then Redis fans out to the workers
\* that still listen.  `up' is whether Redis takes the message; when it does
\* not, the error is swallowed.  update_apikey_snapshot, called just before,
\* seeds the entry that the local handler drops at once.
publish(w, up) ==
  LET local   == {w} \intersect Workers
      reached == {v \in Workers \ {w} :
                    up /\ listening[v] /\ inflight[v] < MaxInFlight}
  IN /\ up \/ faults < MaxFaults
     /\ faults' = IF up THEN faults ELSE faults + 1
     /\ keys' = [v \in Workers |-> IF v \in local THEN NoKey ELSE keys[v]]
     /\ inflight' = [v \in Workers |->
                       IF v \in reached THEN inflight[v] + 1 ELSE inflight[v]]
     /\ raced' = [v \in Workers |-> raced[v] \/ v \notin reached \union local]
     /\ UNCHANGED <<users, listening>>

DeliverUnsent(w) ==
  /\ inflight' = [inflight EXCEPT ![w] = @ - 1]
  /\ keys' = [keys EXCEPT ![w] = NoKey]
  /\ UNCHANGED <<store, now, users, listening, raced, calls, locals, faults>>

\* The listener of a worker handles one invalidation.
Deliver(w) ==
  /\ listening[w] /\ inflight[w] > 0
  /\ inflight' = [inflight EXCEPT ![w] = @ - 1]
  /\ keys' = [keys EXCEPT ![w] = NoKey]
  /\ UNCHANGED <<store, now, users, listening, raced, calls, locals, faults>>

\* A Redis error ends the listener task: nothing restarts it, and what was
\* on its way is lost.
ListenerDies(w) ==
  /\ listening[w] /\ faults < MaxFaults
  /\ listening' = [listening EXCEPT ![w] = FALSE]
  /\ inflight' = [inflight EXCEPT ![w] = 0]
  /\ raced' = [raced EXCEPT ![w] = @ \/ inflight[w] > 0]
  /\ faults' = faults + 1
  /\ UNCHANGED <<store, now, keys, users, calls, locals>>

\* More than maxsize other keys were used since: the oldest entry goes.
Crowded(w) ==
  /\ keys[w] # NoKey
  /\ keys' = [keys EXCEPT ![w] = NoKey]
  /\ UNCHANGED <<store, now, users, listening, inflight, raced, calls, locals,
                 faults>>

(***************************************************************************)
(* The owner's calls: each loads the row, commits, and publishes.  SQLAl-  *)
(* chemy writes an attribute only when it differs from the loaded value.   *)
(***************************************************************************)

\* db.get(ApiKey, key_id); enable_key refuses a key that is past due.
Load(op, e) ==
  /\ call = NoCall /\ row.status # "deleted"
  /\ changes < MaxChanges /\ changes' = changes + 1
  /\ op = "enable" => ~PastDue(row)
  /\ op # "update" => e = Never
  /\ call' = [op |-> op, stage |-> "commit", seen |-> row, expires |-> e]
  /\ UNCHANGED <<store, now, caches, direct, sweeping, locals, faults>>

Changed(old, new, current) == IF old = new THEN current ELSE new

update_key(c) ==
  [row EXCEPT !.expires = Changed(c.seen.expires, c.expires, @)]

disable_key(c) ==
  [row EXCEPT !.status = Changed(c.seen.status, "disabled", @)]

enable_key(c) ==
  [row EXCEPT !.status = Changed(c.seen.status, "active", @)]

delete_key(c) == Gone

\* The commit, and the refresh that follows it.
CommitCall ==
  /\ call.stage = "commit"
  /\ row' = CASE call.op = "update"  -> update_key(call)
              [] call.op = "disable" -> disable_key(call)
              [] call.op = "enable"  -> enable_key(call)
              [] call.op = "delete"  -> delete_key(call)
  /\ call' = [NoCall EXCEPT !.stage = "publish"]
  /\ UNCHANGED <<user, now, caches, direct, sweeping, changes, locals, faults>>

ForgetToPublish(w, up) ==
  /\ call.stage = "publish" /\ call' = NoCall
  /\ UNCHANGED <<store, now, caches, direct, sweeping, changes, locals, faults>>

\* The end of each call: invalidate_apikey(row.key_hash).
invalidate_apikey(w, up) ==
  /\ call.stage = "publish"
  /\ publish(w, up)
  /\ call' = NoCall
  /\ UNCHANGED <<store, now, direct, sweeping, changes, locals>>

SweepTooLate ==
  /\ ~sweeping
  /\ row.status = "active" /\ row.expires < now
  /\ row' = [row EXCEPT !.status = "expired"]
  /\ sweeping' = TRUE
  /\ UNCHANGED <<user, now, caches, call, direct, changes, locals, faults>>

\* The sweeper's UPDATE tests status and expires_at in the database itself.
_scan_once ==
  /\ ~sweeping
  /\ row.status = "active" /\ PastDue(row)
  /\ row' = [row EXCEPT !.status = "expired"]
  /\ sweeping' = TRUE
  /\ UNCHANGED <<user, now, caches, call, direct, changes, locals, faults>>

SweepPublish(w, up) ==
  /\ sweeping /\ publish(w, up)
  /\ sweeping' = FALSE
  /\ UNCHANGED <<store, now, call, direct, changes, locals>>

\* The process of a call, or of the sweeper, ends between the commit and the
\* publication: nobody is told.
PublisherDies ==
  /\ faults < MaxFaults /\ faults' = faults + 1
  /\ \/ call.stage = "publish" /\ call' = NoCall /\ UNCHANGED sweeping
     \/ sweeping /\ sweeping' = FALSE /\ UNCHANGED call
  /\ raced' = [w \in Workers |-> TRUE]
  /\ UNCHANGED <<store, now, keys, users, listening, inflight, direct, changes,
                 locals>>

(***************************************************************************)
(* The direct relay (core/deps.py) judges the row itself.                  *)
(***************************************************************************)

\* _load_api_key_from_plain loads a key that is active and past due.  (Any
\* other key is judged without a write.)
DirectLoad ==
  /\ direct = Gone /\ row.status = "active" /\ PastDue(row)
  /\ direct' = row
  /\ UNCHANGED <<store, now, caches, call, sweeping, changes, locals, faults>>

\* enforce_key_state commits status=expired over whatever the row has become
\* (a row deleted meanwhile makes the flush fail) and tells no cache.
enforce_key_state ==
  /\ direct # Gone /\ direct' = Gone
  /\ row' = IF row.status = "deleted" THEN row ELSE [row EXCEPT !.status = "expired"]
  /\ raced' = [w \in Workers |-> raced[w] \/ row \notin {direct, row'}]
  /\ UNCHANGED <<user, now, keys, users, listening, inflight, call, sweeping,
                 changes, locals, faults>>

\* disable_user and enable_user of the admin API do not touch the caches.
disable_user ==
  /\ changes < MaxChanges /\ changes' = changes + 1
  /\ user' = IF user = "active" THEN "disabled" ELSE "active"
  /\ UNCHANGED <<row, now, caches, call, direct, sweeping, locals, faults>>

(***************************************************************************)
(* The decision about one request.                                         *)
(***************************************************************************)

Goto(r, stage) == pc' = [pc EXCEPT ![r] = stage]

\* The status of the owner, from the cache or from PostgreSQL.
UserGate(r, w) ==
  IF Cached(users[w])
  THEN Goto(r, IF users[w].status = "active" THEN "rest" ELSE "denied")
  ELSE Goto(r, "readUser")

\* The status check, on the snapshot that enforce_key_state_cached returned.
StatusGate(r, w, k) ==
  IF k.status # "active" THEN Goto(r, "denied") ELSE UserGate(r, w)

\* enforce_key_state_cached returns the snapshot as it is, unless it shows an
\* active key past due: then the row itself is read.
Judge(r, w, k) ==
  /\ snap' = [snap EXCEPT ![r] = Gone]
  /\ IF k.status = "active" /\ PastDue(k)
     THEN Goto(r, "enforce") /\ asof' = [asof EXCEPT ![r] = now]
     ELSE StatusGate(r, w, k) /\ UNCHANGED asof

\* The request arrives at worker w; get_apikey_snapshot looks in the cache.
Arrive(r, w) ==
  /\ pc[r] = "idle"
  /\ at' = [at EXCEPT ![r] = now]
  /\ worker' = [worker EXCEPT ![r] = w]
  /\ IF Cached(keys[w]) THEN Judge(r, w, keys[w].snap)
     ELSE Goto(r, "readKey") /\ UNCHANGED <<snap, asof>>
  /\ UNCHANGED <<store, now, caches, calls, owner, faults>>

\* PostgreSQL answers the SELECT of the key.
ReadKey(r) ==
  /\ pc[r] = "readKey"
  /\ snap' = [snap EXCEPT ![r] = row]
  /\ Goto(r, "fillKey")
  /\ UNCHANGED <<store, now, caches, calls, at, asof, owner, worker, faults>>

\* The answer is cached, _MISSING when there was no row, and judged.
FillKey(r) ==
  /\ pc[r] = "fillKey"
  /\ row' = row
  /\ Fill(worker[r], snap[r])
  /\ IF snap[r].status = "deleted" THEN Goto(r, "denied") /\ UNCHANGED <<snap, asof>>
     ELSE Judge(r, worker[r], snap[r])
  /\ UNCHANGED <<user, now, users, listening, inflight, calls, at, owner,
                 worker, faults>>

\* enforce_key_state_cached loads the row of a key its snapshot calls past
\* due.  One that is still active and past due is about to be written; any
\* other one, or its absence, is only announced.
EnforceRead(r) ==
  /\ pc[r] = "enforce"
  /\ Goto(r, IF row.status = "active" /\ row.expires <= asof[r]
             THEN "expire" ELSE "announce")
  /\ snap' = [snap EXCEPT ![r] = row]
  /\ asof' = [asof EXCEPT ![r] = 0]
  /\ UNCHANGED <<store, now, caches, calls, at, owner, worker, faults>>

\* It commits status=expired over whatever the row has become; a row deleted
\* meanwhile makes the flush fail, and the request with it.
EnforceExpire(r) ==
  /\ pc[r] = "expire"
  /\ IF row.status = "deleted" THEN Goto(r, "denied") /\ UNCHANGED <<row, snap>>
     ELSE /\ row' = [row EXCEPT !.status = "expired"]
          /\ snap' = [snap EXCEPT ![r].status = "expired"]
          /\ Goto(r, "announce")
  /\ UNCHANGED <<user, now, caches, calls, at, asof, owner, worker, faults>>

\* It publishes, then refuses a key that is gone or expired; any other row is
\* the snapshot the status check goes on with.
EnforcePublish(r, up) ==
  /\ pc[r] = "announce"
  /\ publish(worker[r], up)
  /\ StatusGate(r, worker[r], snap[r])
  /\ snap' = [snap EXCEPT ![r] = Gone]
  /\ UNCHANGED <<store, now, calls, at, asof, owner, worker>>

\* get_user_snapshot: PostgreSQL answers, _resolve_plan_rpm awaits once more,
\* then the snapshot is cached and judged.
ReadUser(r) ==
  /\ pc[r] = "readUser"
  /\ owner' = [owner EXCEPT ![r] = user]
  /\ Goto(r, "fillUser")
  /\ UNCHANGED <<store, now, caches, calls, at, snap, asof, worker, faults>>

FillUser(r) ==
  /\ pc[r] = "fillUser"
  /\ users' = [users EXCEPT ![worker[r]] =
                 [status |-> owner[r], until |-> now + TTL]]
  /\ Goto(r, IF owner[r] = "active" THEN "rest" ELSE "denied")
  /\ UNCHANGED <<store, now, keys, listening, inflight, raced, calls, at, snap, asof,
                 owner, worker, faults>>

\* Quota, rate limit and route refuse the request or let it through.
_decide(r) ==
  /\ pc[r] = "rest"
  /\ \/ Goto(r, "admitted")
     \/ Goto(r, "denied")
  /\ UNCHANGED <<store, now, caches, calls, at, snap, asof, owner, worker, faults>>

\* The answer is sent, and the client may come again.
Answer(r) ==
  /\ pc[r] \in {"admitted", "denied"}
  /\ Goto(r, "idle")
  /\ snap' = [snap EXCEPT ![r] = Gone]
  /\ owner' = [owner EXCEPT ![r] = "disabled"]
  /\ at' = [at EXCEPT ![r] = 0] /\ asof' = [asof EXCEPT ![r] = 0]
  /\ worker' = [worker EXCEPT ![r] = Home]
  /\ UNCHANGED <<store, now, caches, calls, faults>>

\* A worker stops and starts again: its caches and its requests are gone, and
\* the pub/sub task is created anew.  What one of them was about to announce,
\* the other workers never hear.
Restart(w) ==
  LET lost == {r \in Requests : worker[r] = w /\ pc[r] # "idle"}
  IN /\ faults < MaxFaults
     /\ faults' = faults + 1
     /\ keys' = [keys EXCEPT ![w] = NoKey]
     /\ users' = [users EXCEPT ![w] = NoUser]
     /\ listening' = [listening EXCEPT ![w] = TRUE]
     /\ inflight' = [inflight EXCEPT ![w] = 0]
     /\ raced' = [v \in Workers |->
                    raced[v] \/ (v # w /\ \E r \in lost : pc[r] = "announce")]
     /\ pc' = [r \in Requests |-> IF r \in lost THEN "denied" ELSE pc[r]]
     /\ UNCHANGED <<store, now, calls, at, snap, asof, owner, worker>>

\* Time passes while no decision is older than Latency.  An entry whose
\* deadline is reached is dropped here; the code drops it at the next get,
\* which no other step can tell from this.
Tick ==
  /\ now < MaxTime
  /\ \A r \in Requests : pc[r] # "idle" => now < at[r] + Latency
  /\ now' = now + 1
  /\ keys' = [w \in Workers |-> IF Alive(keys[w], now') THEN keys[w] ELSE NoKey]
  /\ users' = [w \in Workers |-> IF Alive(users[w], now') THEN users[w] ELSE NoUser]
  /\ UNCHANGED <<store, listening, inflight, raced, calls, locals, faults>>

Step ==
  \/ \E w \in Workers : Deliver(w) \/ ListenerDies(w) \/ Crowded(w) \/ Restart(w)
  \/ \E op \in Ops, e \in Expiries \union {Never} : Load(op, e)
  \/ CommitCall
  \/ \E w \in Workers \union {Elsewhere}, up \in BOOLEAN :
       invalidate_apikey(w, up) \/ SweepPublish(w, up)
  \/ _scan_once \/ PublisherDies
  \/ DirectLoad \/ enforce_key_state
  \/ disable_user
  \/ \E r \in Requests :
       \/ \E w \in Workers : Arrive(r, w)
       \/ EnforceRead(r) \/ EnforceExpire(r)
       \/ \E up \in BOOLEAN : EnforcePublish(r, up)
       \/ ReadKey(r) \/ FillKey(r) \/ ReadUser(r) \/ FillUser(r)
       \/ _decide(r) \/ Answer(r)
  \/ Tick

\* The history variables follow the rows and the clock.  An active row grants
\* every instant before expires_at; update_key takes one that has passed, too.
Follow ==
  /\ LET granted == IF row'.expires > now' THEN now' ELSE row'.expires - 1
     IN keyLive' = IF row'.status = "active" /\ granted > keyLive
                   THEN granted ELSE keyLive
  /\ userLive' = IF user' = "active" THEN now' ELSE userLive

Next == Step /\ Follow

\* The sweeper scans every five minutes for as long as the process lives and
\* then publishes what it flipped.
Spec == /\ Init /\ [][Next]_vars
        /\ WF_vars(_scan_once /\ Follow)
        /\ WF_vars((\E w \in Workers \union {Elsewhere} : SweepPublish(w, TRUE)) /\ Follow)

(***************************************************************************)
(* Properties.                                                             *)
(***************************************************************************)

\* "A 30s TTL caps the staleness even if pub/sub drops a message": a request
\* is let through only if an active row granted its key access, and its owner
\* was active, at most one TTL and two decisions ago, whatever was disabled,
\* deleted, shortened, lost or read too early in between.  Two decisions: the
\* one that filled the cache late, and the one that used the entry.
Fresh(last) == now - last < TTL + 2 * Latency
AdmissionIsFresh ==
  [][\A r \in Requests : pc[r] # "admitted" /\ pc'[r] = "admitted"
       => Fresh(keyLive) /\ Fresh(userLive)]_vars

\* The direct relay's expiry, which nobody announces: the entry is the row as
\* it was, active and past due, and a request that meets it reads the row.
SilentlyExpired(k) ==
  k.status = "active" /\ PastDue(k) /\ row = [k EXCEPT !.status = "expired"]

\* A committed change of the key reaches every cache: a worker holds an entry
\* that differs from the row only while an invalidation is still to be
\* published or handled, or after one was lost, a fill raced the commit or the
\* direct relay wrote over the owner's change.  The one change that is never
\* announced, the direct relay's expiry, leaves an entry that admits nobody.
StaleOnlyByRace ==
  \A w \in Workers :
    Cached(keys[w]) /\ keys[w].snap # row =>
      \/ raced[w] \/ inflight[w] > 0 \/ sweeping \/ call.stage = "publish"
      \/ \E r \in Requests : pc[r] = "announce"
      \/ SilentlyExpired(keys[w].snap)

\* The sweeper is the safety net of idle keys: a key past due does not stay
\* active, whether or not a request ever comes for it.
PastDueIsFlipped ==
  (row.status = "active" /\ PastDue(row)) ~> ~(row.status = "active" /\ PastDue(row))
=============================================================================
