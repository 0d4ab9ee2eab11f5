-------------------------------- MODULE Ads --------------------------------
(***************************************************************************)
(* How a configuration change reaches a running Envoy: the ADS stream of   *)
(* services/envoy/xds_server.py, its wake-up by notify_node and the Redis  *)
(* channel between the api processes, and the administration calls that    *)
(* change what is rendered (channels.py, config.regenerate_all_running,    *)
(* runtime.reload, update_instance, delete_instance).                      *)
(*                                                                         *)
(* One Envoy node is followed: nodes share nothing but the rendered data.  *)
(* CDS depends on the channels and LDS on the port in the node's row; RDS  *)
(* never changes, and all three are empty once the row is deleted.         *)
(* A stream whose connection broke is "stale" until its process notices:   *)
(* its pushes go nowhere, and the one thing left for it to do is the       *)
(* `finally' that unregisters the node.  config_version, last_seen_at and  *)
(* last_xds_version are shown to operators and read by no code: left out.  *)
(***************************************************************************)
EXTENDS Integers, FiniteSets, Sequences

CONSTANTS
  Procs,       \* api processes, each with an ADS server
  Bad,         \* states of the channels table that no Envoy will run
  MaxChanges,  \* bound: calls of the administrator
  MaxFaults,   \* bound: broken connections, process crashes, Redis errors
  MaxBus,      \* bound: notifications on their way to one process
  MaxWire      \* bound: messages buffered on the stream in one direction

ASSUME AdsAssumption ==
  /\ Procs # {}
  /\ MaxChanges \in Nat /\ MaxFaults \in Nat
  /\ MaxBus \in Nat \ {0} /\ MaxWire \in Nat \ {0}
  /\ Bad \subseteq Nat

VARIABLES
  raises,    \* the bad states that make render_cds raise, a fact about the data
             \* that never changes; the others Envoy refuses (NACK)
  channels,  \* the channels table, as the number of changes made to it
  listen,    \* listen_port of the row, as the number of changes made to it
  known,     \* the envoy_instances row exists
  calls,     \* [Procs -> BOOLEAN]: a call has committed and has yet to notify
  reg,       \* [Procs -> which stream _node_events[node_id] belongs to]
  stale,     \* [Procs -> Nat]: broken streams that process has not closed yet
  bus,       \* [Procs -> Nat]: notifications on their way to that process
  up,        \* [Procs -> BOOLEAN]: its _pubsub_listener is subscribed
  live,      \* the stream Envoy is connected to
  down, ups, \* DiscoveryResponses and DiscoveryRequests on that stream
  conf,      \* the version of each type that Envoy runs
  missed,    \* history: a change was announced to nobody, or not for all types
  changes,   \* how many calls the administrator has made
  faults     \* how many faults have happened

admin == <<raises, channels, listen, known, calls, changes>>
wake  == <<reg, stale, bus, up>>
wire  == <<down, ups>>
vars  == <<admin, wake, live, wire, conf, missed, faults>>

Types == {"cds", "lds", "rds"}
None  == -2                      \* a type never pushed, or NACKed
Empty == -1                      \* no resources
Versions == {None, Empty} \union (0..MaxChanges)

\* Envoy asks for clusters first, for listeners once it has them, and for the
\* routes that a listener names.
Then(t) == CASE t = "cds" -> {"lds"} [] t = "lds" -> {"rds"} [] t = "rds" -> {}

Closed == [pc |-> "closed", at |-> CHOOSE p \in Procs : TRUE, evt |-> FALSE,
           subscribed |-> {}, pending |-> {}, todo |-> {},
           built |-> [t \in Types |-> None], sent |-> [t \in Types |-> None]]
Open == live.pc # "closed"

Streams   == [pc : {"closed", "wait", "build", "push"}, at : Procs, evt : BOOLEAN,
              subscribed : SUBSET Types, pending : SUBSET Types, todo : SUBSET Types,
              built : [Types -> Versions], sent : [Types -> Versions]]
Responses == [type : Types, version : Versions]
Asked     == [type : Types, nack : BOOLEAN]

\* The variables have the shape the code gives them.
TypeOK ==
  /\ raises \subseteq Bad
  /\ channels \in 0..MaxChanges /\ listen \in 0..MaxChanges /\ known \in BOOLEAN
  /\ calls \in [Procs -> BOOLEAN]
  /\ reg \in [Procs -> {"none", "stale", "live"}]
  /\ stale \in [Procs -> 0..MaxFaults]
  /\ bus \in [Procs -> 0..MaxBus] /\ up \in [Procs -> BOOLEAN]
  /\ live \in Streams
  /\ down \in Seq(Responses) /\ ups \in Seq(Asked)
  /\ Len(down) <= MaxWire /\ Len(ups) <= MaxWire
  /\ conf \in [Types -> Versions]
  /\ missed \in BOOLEAN /\ changes \in 0..MaxChanges /\ faults \in 0..MaxFaults
  /\ live.todo \union live.pending \subseteq live.subscribed

Init ==
  /\ raises \in SUBSET Bad
  /\ channels = 0 /\ listen = 0 /\ known = TRUE
  /\ calls = [p \in Procs |-> FALSE]
  /\ reg = [p \in Procs |-> "none"] /\ stale = [p \in Procs |-> 0]
  /\ bus = [p \in Procs |-> 0] /\ up = [p \in Procs |-> TRUE]
  /\ live = Closed /\ down = <<>> /\ ups = <<>>
  /\ conf = [t \in Types |-> None]
  /\ missed = FALSE /\ changes = 0 /\ faults = 0

\* What render_cds, render_lds and render_rds produce from the rows now, as
\* the content hash that serves as version.
render_cds  == channels
_render_lds == listen
Rendered(t) ==
  IF ~known THEN Empty
  ELSE CASE t = "cds" -> render_cds [] t = "lds" -> _render_lds [] t = "rds" -> 0

Fault == faults < MaxFaults /\ faults' = faults + 1

(***************************************************************************)
(* Notification.                                                           *)
(***************************************************************************)

\* _local_notify in process p sets the event registered there.
Hears(p) == Open /\ live.at = p /\ reg[p] = "live"
_local_notify(p) == live' = [live EXCEPT !.evt = @ \/ Hears(p)]

\* notify_node in process p: the local event, then a publish, which reaches
\* every subscribed process, p too.  `redis' is whether the publish works.
notify_node(p, redis) ==
  /\ _local_notify(p)
  /\ \A q \in Procs : redis /\ up[q] => bus[q] < MaxBus
  /\ bus' = [q \in Procs |-> IF redis /\ up[q] THEN bus[q] + 1 ELSE bus[q]]
  /\ missed' = (missed \/ (Open /\ ~Hears(p) /\ ~(redis /\ up[live.at])))
  /\ IF redis THEN UNCHANGED faults ELSE Fault

\* One message of the Redis channel reaches the listener of p.
_pubsub_listener(p) ==
  /\ up[p] /\ bus[p] > 0
  /\ bus' = [bus EXCEPT ![p] = @ - 1]
  /\ _local_notify(p)
  /\ missed' = (missed \/ (Open /\ live.at = p /\ ~Hears(p)))
  /\ UNCHANGED <<admin, reg, stale, up, wire, conf, faults>>

\* A Redis error drops the subscription and what was on its way; the listener
\* retries, without end, after a backoff.
ListenerFails(p) ==
  /\ up[p] /\ Fault
  /\ up' = [up EXCEPT ![p] = FALSE]
  /\ bus' = [bus EXCEPT ![p] = 0]
  /\ missed' = (missed \/ (Open /\ live.at = p /\ bus[p] > 0))
  /\ UNCHANGED <<admin, reg, stale, live, wire, conf>>

Resubscribe(p) ==
  /\ ~up[p]
  /\ up' = [up EXCEPT ![p] = TRUE]
  /\ UNCHANGED <<admin, reg, stale, bus, live, wire, conf, missed, faults>>

(***************************************************************************)
(* The administrator.                                                      *)
(***************************************************************************)

Call == changes < MaxChanges /\ changes' = changes + 1

\* create_channel, update_channel, delete_channel: the change is committed
\* before regenerate_all_running announces it.
update_channel(p) ==
  /\ Call /\ ~calls[p]
  /\ channels' = channels + 1
  /\ calls' = [calls EXCEPT ![p] = TRUE]
  /\ UNCHANGED <<raises, listen, known, wake, live, wire, conf, missed, faults>>

\* regenerate_all_running: every row there is gets its notification.
regenerate_all_running(p, redis) ==
  /\ calls[p]
  /\ calls' = [calls EXCEPT ![p] = FALSE]
  /\ IF known THEN notify_node(p, redis)
     ELSE redis /\ UNCHANGED <<live, bus, missed, faults>>
  /\ UNCHANGED <<raises, channels, listen, known, changes, reg, stale, up, wire,
                 conf>>

\* runtime.reload: a notification with nothing changed.
reload(p, redis) ==
  /\ Call /\ known
  /\ notify_node(p, redis)
  /\ UNCHANGED <<raises, channels, listen, known, calls, reg, stale, up, wire, conf>>

\* Something is under way that makes the stream push.
Announced == live.evt \/ bus[live.at] > 0 \/ \E p \in Procs : calls[p]

\* update_instance changes the port of a local node whose row says "error" or
\* "starting" while its Envoy is connected, and tells the stream nothing.
update_instance ==
  /\ Call /\ known
  /\ listen' = listen + 1
  /\ missed' = (missed \/ (Open /\ "lds" \in live.subscribed /\ ~Announced))
  /\ UNCHANGED <<raises, channels, known, calls, wake, live, wire, conf, faults>>

\* delete_instance (of a remote node, or of a local one whose Envoy survives)
\* tells the stream nothing either.
delete_instance ==
  /\ Call /\ known
  /\ known' = FALSE
  /\ UNCHANGED <<raises, channels, listen, calls, wake, live, wire, conf, missed,
                 faults>>

(***************************************************************************)
(* StreamAggregatedResources.                                              *)
(***************************************************************************)

\* Envoy opens a stream to process p.  Its token is accepted, its node id is
\* looked up, its first request subscribes to clusters; the node's event is
\* registered over whatever was registered before.
StreamAggregatedResources(p) ==
  /\ ~Open /\ known
  /\ live' = [Closed EXCEPT !.pc = "wait", !.at = p, !.evt = TRUE,
                            !.subscribed = {"cds"}, !.pending = {"cds"}]
  /\ reg' = [reg EXCEPT ![p] = "live"]
  /\ missed' = FALSE
  /\ UNCHANGED <<admin, stale, bus, up, wire, conf, faults>>

\* The loop wakes.  Only the pending types are pushed, and all the subscribed
\* ones when none is pending: a notification that finds a type pending is not
\* answered for the others.  (The 20 s heartbeat only touches last_seen_at.)
Wake ==
  LET todo == IF live.pending = {} THEN live.subscribed ELSE live.pending
      masks == \E t \in live.subscribed \ todo : live.sent[t] # Rendered(t)
      announced == bus[live.at] > 0 \/ \E p \in Procs : calls[p]
  IN /\ live.pc = "wait" /\ live.evt
     /\ live' = [live EXCEPT !.pc = "build", !.evt = FALSE, !.pending = {},
                             !.todo = todo]
     /\ missed' = (todo # live.subscribed /\ (missed \/ (masks /\ ~announced)))
     /\ UNCHANGED <<admin, wake, wire, conf, faults>>

\* Everything is rendered in one session, whatever is to be pushed.
_build_resources ==
  /\ live.pc = "build" /\ (known => channels \notin raises)
  /\ live' = [live EXCEPT !.pc = "push", !.built = [t \in Types |-> Rendered(t)]]
  /\ UNCHANGED <<admin, wake, wire, conf, missed, faults>>

\* When the loop raises the stream ends, and its `finally' unregisters the node.
StreamEnds ==
  /\ live' = Closed /\ down' = <<>> /\ ups' = <<>>
  /\ reg' = [reg EXCEPT ![live.at] = "none"]
  /\ UNCHANGED <<admin, stale, bus, up, conf, missed>>

\* A channel cannot be rendered: urlparse refuses its port, which nothing did
\* before.
RenderRaises ==
  /\ live.pc = "build" /\ known /\ channels \in raises
  /\ StreamEnds /\ UNCHANGED faults

\* The database fails a rendering, or the touch of the row after a push or a
\* heartbeat.
StreamRaises ==
  /\ live.pc \in {"build", "wait"} /\ Fault
  /\ StreamEnds

ClearAfterPush(t) ==
  LET rest == live.todo \ {t}
  IN /\ live.pc = "push" /\ t \in live.todo /\ Len(down) < MaxWire
     /\ live' = [live EXCEPT !.todo = rest, !.sent[t] = live.built[t],
                             !.evt = @ /\ rest # {},
                             !.pc = IF rest = {} THEN "wait" ELSE "push"]
     /\ down' = IF live.sent[t] = live.built[t] THEN down
                ELSE Append(down, [type |-> t, version |-> live.built[t]])
     /\ UNCHANGED <<admin, wake, ups, conf, missed, faults>>

\* One type of the push: skipped when its content is what was sent last.  The
\* yield waits for the transport.  After the last one the row is touched and
\* the loop waits again.
Push(t) ==
  LET same == live.sent[t] = live.built[t]
      rest == live.todo \ {t}
  IN /\ live.pc = "push" /\ t \in live.todo
     /\ same \/ Len(down) < MaxWire
     /\ live' = [live EXCEPT !.todo = rest, !.sent[t] = live.built[t],
                             !.pc = IF rest = {} THEN "wait" ELSE "push",
                             !.built = IF rest = {} THEN Closed.built ELSE @]
     /\ down' = IF same THEN down
                ELSE Append(down, [type |-> t, version |-> live.built[t]])
     /\ UNCHANGED <<admin, wake, ups, conf, missed, faults>>

SubscribeSilently ==
  /\ ups # <<>>
  /\ ups' = Tail(ups)
  /\ LET t == Head(ups).type
         n == Head(ups).nack
     IN live' = [live EXCEPT !.subscribed = @ \union {t},
                             !.pending = @ \union {t}, !.evt = @ \/ n,
                             !.sent[t] = IF n THEN None ELSE @]
  /\ UNCHANGED <<admin, wake, down, conf, missed, faults>>

ForgetSubscription ==
  /\ ups # <<>>
  /\ ups' = Tail(ups)
  /\ live' = [live EXCEPT !.pending = @ \union {Head(ups).type}, !.evt = TRUE]
  /\ UNCHANGED <<admin, wake, down, conf, missed, faults>>

\* A new subscription and a NACK make the type pending and set the event; a
\* NACK also forgets what was sent, so that it is sent again, at once.  An ACK
\* changes nothing, whichever push it is for: Envoy's are not modelled.
_process_request ==
  /\ ups # <<>>
  /\ ups' = Tail(ups)
  /\ LET t == Head(ups).type
         n == Head(ups).nack
     IN live' = [live EXCEPT !.subscribed = @ \union {t},
                             !.pending = @ \union {t}, !.evt = TRUE,
                             !.sent[t] = IF n THEN None ELSE @]
  /\ UNCHANGED <<admin, wake, down, conf, missed, faults>>

\* The connection breaks: what was on it is lost, and the process goes on
\* serving it until it notices.
Break ==
  /\ Open /\ Fault
  /\ live' = Closed /\ down' = <<>> /\ ups' = <<>>
  /\ stale' = [stale EXCEPT ![live.at] = @ + 1]
  /\ reg' = [reg EXCEPT ![live.at] = IF @ = "live" THEN "stale" ELSE @]
  /\ UNCHANGED <<admin, bus, up, conf, missed>>

\* The `finally' of a broken stream: it pops the node's registration, whoever
\* registered it last.
CloseStale(p) ==
  /\ stale[p] > 0
  /\ stale' = [stale EXCEPT ![p] = @ - 1]
  /\ reg' = [reg EXCEPT ![p] = "none"]
  /\ UNCHANGED <<admin, bus, up, live, wire, conf, missed, faults>>

\* Process p dies and starts again: its streams, registrations, subscription
\* and unfinished calls are gone.
Crash(p) ==
  /\ Fault
  /\ stale' = [stale EXCEPT ![p] = 0]
  /\ reg' = [reg EXCEPT ![p] = "none"]
  /\ bus' = [bus EXCEPT ![p] = 0]
  /\ up' = [up EXCEPT ![p] = TRUE]
  /\ calls' = [calls EXCEPT ![p] = FALSE]
  /\ IF Open /\ live.at = p
     THEN live' = Closed /\ down' = <<>> /\ ups' = <<>> /\ UNCHANGED missed
     ELSE missed' = (missed \/ (Open /\ calls[p])) /\ UNCHANGED <<live, wire>>
  /\ UNCHANGED <<raises, channels, listen, known, changes, conf>>

\* Envoy takes the next response: it refuses content it cannot use, else runs
\* it, and subscribes to what that content refers to.
Receive ==
  LET m == Head(down)
      asked == {ups[i].type : i \in 1..Len(ups)} \union live.subscribed
      bad == m.type = "cds" /\ m.version \in Bad \ raises
      asks == IF bad THEN {m.type} ELSE Then(m.type) \ asked
  IN /\ down # <<>>
     /\ asks # {} => Len(ups) < MaxWire
     /\ down' = Tail(down)
     /\ conf' = IF bad THEN conf ELSE [conf EXCEPT ![m.type] = m.version]
     /\ ups' = IF asks = {} THEN ups
               ELSE Append(ups, [type |-> CHOOSE t \in asks : TRUE, nack |-> bad])
     /\ UNCHANGED <<admin, wake, live, missed, faults>>

Serve == Wake \/ _build_resources \/ RenderRaises \/ (\E t \in Types : Push(t))

Next ==
  \/ \E p \in Procs :
       \/ _pubsub_listener(p) \/ ListenerFails(p) \/ Resubscribe(p)
       \/ update_channel(p)
       \/ \E redis \in BOOLEAN : regenerate_all_running(p, redis) \/ reload(p, redis)
       \/ StreamAggregatedResources(p) \/ CloseStale(p) \/ Crash(p)
  \/ update_instance \/ delete_instance
  \/ Serve \/ StreamRaises
  \/ _process_request \/ Break \/ Receive

\* The event loops run, Redis and Envoy answer, Envoy reconnects, and a call
\* that has committed goes on to notify.
Fairness ==
  /\ WF_vars(Serve) /\ WF_vars(_process_request) /\ WF_vars(Receive)
  /\ WF_vars(\E p \in Procs : StreamAggregatedResources(p))
  /\ \A p \in Procs :
       /\ WF_vars(_pubsub_listener(p)) /\ WF_vars(Resubscribe(p))
       /\ WF_vars(CloseStale(p))
       /\ WF_vars(regenerate_all_running(p, TRUE))

Spec == Init /\ [][Next]_vars /\ Fairness

(***************************************************************************)
(* Properties.                                                             *)
(***************************************************************************)

\* A type that Envoy subscribed to is out of date on the stream only while
\* something is under way that will push it: a call that has still to notify,
\* a notification on its way, the event, or the push itself.  The exceptions
\* are the ways a change is announced to nobody: a crash or a Redis error
\* before the announcement, a registration popped by an older stream, a
\* notification that found another type pending, and a change of the port.
NoSilentGap ==
  Open /\ known /\ ~missed =>
    \A t \in live.subscribed : live.sent[t] # Rendered(t) =>
      \/ Announced
      \/ live.pc = "build" /\ t \in live.todo
      \/ live.pc = "push" /\ t \in live.todo /\ live.built[t] = Rendered(t)

\* "Push config to this envoy via ADS": unless a change went unannounced in
\* one of those ways, its row was deleted, or the content cannot be rendered or
\* is refused by Envoy, Envoy ends up running what the tables say, through NACKs,
\* reconnects, raising streams, crashes and Redis errors.
Converges ==
  <>[](missed \/ ~known \/ channels \in Bad
         \/ \A t \in Types : conf[t] = Rendered(t))
=============================================================================
