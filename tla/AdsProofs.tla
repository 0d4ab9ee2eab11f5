----------------------------- MODULE AdsProofs -----------------------------
(***************************************************************************)
(* Proofs about Ads, for any number of api processes and any bounds.       *)
(***************************************************************************)
EXTENDS Ads, SequenceTheorems, TLAPS

-----------------------------------------------------------------------------
(***************************************************************************)
(* Types, by owner.  Two counters bound the others: the tables have        *)
(* changed at most once per call, streams break at most once per fault.    *)
(***************************************************************************)

AdminTyped ==
  /\ changes \in 0..MaxChanges
  /\ raises \subseteq Bad
  /\ channels \in Nat /\ channels <= changes /\ listen \in Nat /\ listen <= changes
  /\ known \in BOOLEAN /\ calls \in [Procs -> BOOLEAN]
BusTyped   == bus \in [Procs -> 0..MaxBus] /\ up \in [Procs -> BOOLEAN]
RegTyped   ==
  /\ reg \in [Procs -> {"none", "stale", "live"}]
  /\ faults \in 0..MaxFaults /\ stale \in [Procs -> Nat]
  /\ \A p \in Procs : stale[p] <= faults
LiveTyped  == live \in Streams /\ live.todo \union live.pending \subseteq live.subscribed
WireTyped  ==
  /\ down \in Seq(Responses) /\ Len(down) <= MaxWire
  /\ ups \in Seq(Asked) /\ Len(ups) <= MaxWire
ConfTyped  == conf \in [Types -> Versions]
Typed      == /\ AdminTyped /\ BusTyped /\ RegTyped /\ LiveTyped /\ WireTyped
              /\ ConfTyped /\ missed \in BOOLEAN

LEMMA TypedIsTypeOK == Typed => TypeOK
<1> SUFFICES ASSUME Typed
             PROVE  TypeOK
  OBVIOUS
<1>1. channels \in 0..MaxChanges /\ listen \in 0..MaxChanges
  BY AdsAssumption DEF Typed, AdminTyped
<1>2. stale \in [Procs -> 0..MaxFaults]
  <2>1. \A p \in Procs : stale[p] \in 0..MaxFaults
    BY AdsAssumption DEF Typed, RegTyped
  <2> QED
    BY <2>1 DEF Typed, RegTyped
<1> QED
  BY <1>1, <1>2 DEF Typed, AdminTyped, BusTyped, RegTyped, LiveTyped, WireTyped, ConfTyped, TypeOK

LEMMA ClosedTyped ==
  Closed \in Streams /\ Closed.todo \union Closed.pending \subseteq Closed.subscribed
<1>1. (CHOOSE p \in Procs : TRUE) \in Procs
  BY AdsAssumption
<1>2. None \in Versions
  BY DEF Versions
<1> QED
  BY <1>1, <1>2 DEF Closed, Streams

LEMMA RenderedTyped ==
  ASSUME AdminTyped, NEW t \in Types
  PROVE  Rendered(t) \in Versions
BY AdsAssumption DEF AdminTyped, Rendered, render_cds, _render_lds, Versions, Empty, Types

-----------------------------------------------------------------------------
(***************************************************************************)
(* What the steps on the stream do to it, field by field.                  *)
(***************************************************************************)

Same(f) == live'[f] = live[f]

LEMMA EventSet ==
  ASSUME LiveTyped, NEW e, e \in BOOLEAN, live' = [live EXCEPT !.evt = e]
  PROVE  /\ LiveTyped' /\ live'.evt = e
         /\ Same("pc") /\ Same("at") /\ Same("subscribed") /\ Same("todo")
         /\ Same("built") /\ Same("sent")
BY DEF LiveTyped, Streams, Same

LEMMA NotifySets ==
  ASSUME LiveTyped, NEW p \in Procs, _local_notify(p)
  PROVE  /\ LiveTyped' /\ live'.evt = (live.evt \/ Hears(p))
         /\ Same("pc") /\ Same("at") /\ Same("subscribed") /\ Same("todo")
         /\ Same("built") /\ Same("sent")
<1> DEFINE e == (live.evt \/ Hears(p))
<1>1. live' = [live EXCEPT !.evt = e]
  BY DEF _local_notify
<1>2. e \in BOOLEAN
  OBVIOUS
<1> HIDE DEF e
<1>3. LiveTyped' /\ live'.evt = e
      /\ Same("pc") /\ Same("at") /\ Same("subscribed") /\ Same("todo")
      /\ Same("built") /\ Same("sent")
  BY <1>1, <1>2, EventSet
<1> QED
  BY <1>3 DEF e

LEMMA StreamOpens ==
  ASSUME NEW p \in Procs, StreamAggregatedResources(p)
  PROVE  LiveTyped' /\ live'.evt = TRUE
<1>1. live' = [Closed EXCEPT !.pc = "wait", !.at = p, !.evt = TRUE,
                             !.subscribed = {"cds"}, !.pending = {"cds"}]
  BY DEF StreamAggregatedResources
<1>2. Closed \in Streams /\ Closed.todo = {}
  BY ClosedTyped DEF Closed
<1> HIDE DEF Closed
<1> QED
  BY <1>1, <1>2 DEF LiveTyped, Streams, Types

LEMMA WakeTakes ==
  ASSUME LiveTyped, Wake
  PROVE  /\ LiveTyped' /\ live'.pc = "build" /\ Same("at") /\ Same("subscribed") /\ Same("sent")
         /\ live'.todo = IF live.pending = {} THEN live.subscribed ELSE live.pending
<1> DEFINE todo == IF live.pending = {} THEN live.subscribed ELSE live.pending
<1>1. live' = [live EXCEPT !.pc = "build", !.evt = FALSE, !.pending = {}, !.todo = todo]
  BY DEF Wake
<1>2. todo \in SUBSET Types /\ todo \subseteq live.subscribed
  BY DEF LiveTyped, Streams
<1> HIDE DEF todo
<1>3. /\ LiveTyped' /\ live'.pc = "build" /\ Same("at") /\ Same("subscribed") /\ Same("sent")
      /\ live'.todo = todo
  BY <1>1, <1>2 DEF LiveTyped, Streams, Same
<1> QED
  BY <1>3 DEF todo

LEMMA BuildFills ==
  ASSUME LiveTyped, AdminTyped, _build_resources
  PROVE  /\ LiveTyped' /\ live'.pc = "push" /\ live'.built = [t \in Types |-> Rendered(t)]
         /\ Same("at") /\ Same("subscribed") /\ Same("sent") /\ Same("evt") /\ Same("todo")
<1> DEFINE b == [t \in Types |-> Rendered(t)]
<1>1. live' = [live EXCEPT !.pc = "push", !.built = b]
  BY DEF _build_resources
<1>2. b \in [Types -> Versions]
  BY RenderedTyped
<1> HIDE DEF b
<1>3. /\ LiveTyped' /\ live'.pc = "push" /\ live'.built = b
      /\ Same("at") /\ Same("subscribed") /\ Same("sent") /\ Same("evt") /\ Same("todo")
  BY <1>1, <1>2 DEF LiveTyped, Streams, Same
<1> QED
  BY <1>3 DEF b

LEMMA PushSends ==
  ASSUME LiveTyped, NEW t \in Types, Push(t)
  PROVE  /\ LiveTyped' /\ Same("at") /\ Same("subscribed") /\ Same("evt")
         /\ live'.todo = live.todo \ {t}
         /\ live'.sent = [live.sent EXCEPT ![t] = live.built[t]]
         /\ live'.todo # {} => live'.pc = "push" /\ Same("built")
         /\ live'.todo = {} => live'.pc = "wait"
<1> DEFINE rest == live.todo \ {t}
           sent == [live.sent EXCEPT ![t] = live.built[t]]
           pc == IF rest = {} THEN "wait" ELSE "push"
           built == IF rest = {} THEN Closed.built ELSE live.built
<1>1. live' = [live EXCEPT !.todo = rest, !.sent[t] = live.built[t], !.pc = pc, !.built = built]
  BY DEF Push
<1>2. live' = [live EXCEPT !.todo = rest, !.sent = sent, !.pc = pc, !.built = built]
  BY <1>1 DEF LiveTyped, Streams
<1>3. sent \in [Types -> Versions] /\ built \in [Types -> Versions]
  BY ClosedTyped DEF LiveTyped, Streams
<1>4. rest \subseteq Types /\ rest \subseteq live.subscribed /\ pc \in {"wait", "push"}
  BY DEF LiveTyped, Streams
<1> HIDE DEF rest, sent, pc, built
<1>5. /\ live' \in Streams /\ live'.todo = rest /\ live'.sent = sent /\ live'.pc = pc
      /\ live'.built = built /\ live'.pending = live.pending
      /\ Same("at") /\ Same("subscribed") /\ Same("evt")
  BY <1>2, <1>3, <1>4 DEF LiveTyped, Streams, Same
<1>6. LiveTyped'
  BY <1>4, <1>5 DEF LiveTyped, Same
<1> QED
  BY <1>5, <1>6 DEF rest, sent, pc, built, Same

LEMMA RequestMarks ==
  ASSUME LiveTyped, WireTyped, _process_request
  PROVE  LiveTyped' /\ live'.evt = TRUE
<1> DEFINE t == Head(ups).type
           n == Head(ups).nack
           s == [live.sent EXCEPT ![t] = IF n THEN None ELSE @]
<1>1. Head(ups) \in Asked
  BY HeadTailProperties DEF WireTyped, _process_request
<1>2. t \in Types
  BY <1>1 DEF Asked
<1>3. live' = [live EXCEPT !.subscribed = @ \union {t}, !.pending = @ \union {t}, !.evt = TRUE,
                           !.sent[t] = IF n THEN None ELSE @]
  BY DEF _process_request
<1>4. live' = [live EXCEPT !.subscribed = @ \union {t}, !.pending = @ \union {t}, !.evt = TRUE,
                           !.sent = s]
  BY <1>3 DEF LiveTyped, Streams
<1>5. s \in [Types -> Versions]
  BY <1>2 DEF LiveTyped, Streams, Versions
<1> HIDE DEF t, n, s
<1> QED
  BY <1>2, <1>4, <1>5 DEF LiveTyped, Streams

-----------------------------------------------------------------------------
(***************************************************************************)
(* Type correctness, one owner at a time.                                  *)
(***************************************************************************)

LEMMA AdminKept ==
  ASSUME AdminTyped, [Next]_vars
  PROVE  AdminTyped'
<1> USE DEF admin
<1>1. ASSUME NEW p \in Procs, update_channel(p)
      PROVE  AdminTyped'
  <2>1. /\ channels' = channels + 1 /\ changes' = changes + 1 /\ changes < MaxChanges
        /\ UNCHANGED <<raises, listen, known>>
    BY <1>1 DEF update_channel, Call
  <2>2. calls' = [calls EXCEPT ![p] = TRUE]
    BY <1>1 DEF update_channel
  <2>3. calls' \in [Procs -> BOOLEAN]
    BY <2>2 DEF AdminTyped
  <2>4. /\ changes' \in 0..MaxChanges /\ channels' \in Nat /\ channels' <= changes'
        /\ listen' \in Nat /\ listen' <= changes'
    BY <2>1, AdsAssumption DEF AdminTyped
  <2> QED
    BY <2>1, <2>3, <2>4 DEF AdminTyped
<1>2. ASSUME NEW p \in Procs, NEW redis \in BOOLEAN, regenerate_all_running(p, redis)
      PROVE  AdminTyped'
  <2>1. calls' = [calls EXCEPT ![p] = FALSE] /\ UNCHANGED <<raises, channels, listen, known, changes>>
    BY <1>2 DEF regenerate_all_running
  <2>2. calls' \in [Procs -> BOOLEAN]
    BY <2>1 DEF AdminTyped
  <2> QED
    BY <2>1, <2>2 DEF AdminTyped
<1>3. ASSUME NEW p \in Procs, NEW redis \in BOOLEAN, reload(p, redis)
      PROVE  AdminTyped'
  <2>1. /\ changes' = changes + 1 /\ changes < MaxChanges
        /\ UNCHANGED <<raises, channels, listen, known, calls>>
    BY <1>3 DEF reload, Call
  <2> QED
    BY <2>1, AdsAssumption DEF AdminTyped
<1>4. ASSUME delete_instance
      PROVE  AdminTyped'
  <2>1. changes' = changes + 1 /\ changes < MaxChanges /\ UNCHANGED <<raises, channels, listen, calls>>
    BY <1>4 DEF delete_instance, Call
  <2>2. known' \in BOOLEAN
    BY <1>4 DEF delete_instance
  <2> QED
    BY <2>1, <2>2, AdsAssumption DEF AdminTyped
<1>5. ASSUME NEW p \in Procs, Crash(p)
      PROVE  AdminTyped'
  <2>1. calls' = [calls EXCEPT ![p] = FALSE] /\ UNCHANGED <<raises, channels, listen, known, changes>>
    BY <1>5 DEF Crash
  <2>2. calls' \in [Procs -> BOOLEAN]
    BY <2>1 DEF AdminTyped
  <2> QED
    BY <2>1, <2>2 DEF AdminTyped
<1>7. ASSUME update_instance
      PROVE  AdminTyped'
  <2>1. /\ changes' = changes + 1 /\ changes < MaxChanges /\ listen' = listen + 1
        /\ UNCHANGED <<raises, channels, known, calls>>
    BY <1>7 DEF update_instance, Call
  <2> QED
    BY <2>1, AdsAssumption DEF AdminTyped
<1>6. ASSUME \/ \E p \in Procs : \/ _pubsub_listener(p) \/ ListenerFails(p) \/ Resubscribe(p)
                                 \/ StreamAggregatedResources(p) \/ CloseStale(p)
             \/ Wake \/ _build_resources \/ (\E t \in Types : Push(t))
             \/ StreamEnds \/ _process_request \/ Break \/ Receive \/ UNCHANGED vars
      PROVE  AdminTyped'
  <2>1. UNCHANGED admin
    BY <1>6 DEF _pubsub_listener, ListenerFails, Resubscribe, StreamAggregatedResources,
         CloseStale, Wake, _build_resources, Push, StreamEnds, _process_request, Break,
         Receive, vars
  <2> QED
    BY <2>1 DEF AdminTyped
<1> QED
  BY <1>1, <1>2, <1>3, <1>4, <1>5, <1>6, <1>7 DEF Next, Serve, RenderRaises, StreamRaises

\* What notify_node does, by part.
LEMMA NotifyTyped ==
  ASSUME BusTyped, LiveTyped, RegTyped, NEW p \in Procs, NEW redis \in BOOLEAN,
         notify_node(p, redis), UNCHANGED <<up, reg, stale>>
  PROVE  BusTyped' /\ LiveTyped' /\ RegTyped' /\ missed' \in BOOLEAN
<1>1. LiveTyped'
  BY NotifySets DEF notify_node
<1>2. missed' \in BOOLEAN
  BY DEF notify_node
<1>3. BusTyped'
  <2>1. bus' = [q \in Procs |-> IF redis /\ up[q] THEN bus[q] + 1 ELSE bus[q]]
        /\ \A q \in Procs : redis /\ up[q] => bus[q] < MaxBus
    BY DEF notify_node
  <2>2. \A q \in Procs : bus'[q] \in 0..MaxBus
    BY <2>1, AdsAssumption DEF BusTyped
  <2> QED
    BY <2>1, <2>2 DEF BusTyped
<1>4. RegTyped'
  <2>1. UNCHANGED faults \/ (faults < MaxFaults /\ faults' = faults + 1)
    BY DEF notify_node, Fault
  <2> QED
    BY <2>1, AdsAssumption DEF RegTyped
<1> QED
  BY <1>1, <1>2, <1>3, <1>4

LEMMA RegKept ==
  ASSUME Typed, [Next]_vars
  PROVE  RegTyped'
<1> USE DEF wake
<1>0. BusTyped /\ LiveTyped /\ RegTyped
  BY DEF Typed
<1>1. ASSUME UNCHANGED <<reg, stale, faults>>
      PROVE  RegTyped'
  BY <1>0, <1>1 DEF RegTyped
<1>2. ASSUME Fault, UNCHANGED <<reg, stale>>
      PROVE  RegTyped'
  BY <1>0, <1>2, AdsAssumption DEF RegTyped, Fault
<1>3. ASSUME NEW p \in Procs, NEW redis \in BOOLEAN,
             regenerate_all_running(p, redis) \/ reload(p, redis)
      PROVE  RegTyped'
  <2>1. UNCHANGED <<reg, stale>> /\ (UNCHANGED faults \/ Fault)
    BY <1>3 DEF regenerate_all_running, reload, notify_node
  <2> QED
    BY <1>1, <1>2, <2>1
<1>4. ASSUME NEW p \in Procs, ListenerFails(p)
      PROVE  RegTyped'
  BY <1>2, <1>4 DEF ListenerFails
<1>5. ASSUME NEW p \in Procs, StreamAggregatedResources(p)
      PROVE  RegTyped'
  <2>1. reg' = [reg EXCEPT ![p] = "live"] /\ UNCHANGED <<stale, faults>>
    BY <1>5 DEF StreamAggregatedResources
  <2> QED
    BY <1>0, <2>1 DEF RegTyped
<1>6. ASSUME NEW p \in Procs, CloseStale(p)
      PROVE  RegTyped'
  <2>1. /\ stale[p] > 0 /\ stale' = [stale EXCEPT ![p] = @ - 1]
        /\ reg' = [reg EXCEPT ![p] = "none"] /\ UNCHANGED faults
    BY <1>6 DEF CloseStale
  <2>2. \A r \in Procs : stale'[r] \in Nat /\ stale'[r] <= faults
    BY <1>0, <2>1, AdsAssumption DEF RegTyped
  <2> QED
    BY <1>0, <2>1, <2>2 DEF RegTyped
<1>7. ASSUME NEW p \in Procs, Crash(p)
      PROVE  RegTyped'
  <2>1. /\ stale' = [stale EXCEPT ![p] = 0] /\ reg' = [reg EXCEPT ![p] = "none"]
        /\ faults < MaxFaults /\ faults' = faults + 1
    BY <1>7 DEF Crash, Fault
  <2>2. \A r \in Procs : stale'[r] \in Nat /\ stale'[r] <= faults'
    BY <1>0, <2>1, AdsAssumption DEF RegTyped
  <2> QED
    BY <1>0, <2>1, <2>2, AdsAssumption DEF RegTyped
<1>8. ASSUME Break
      PROVE  RegTyped'
  <2>1. live.at \in Procs
    BY <1>0 DEF LiveTyped, Streams
  <2>2. PICK p \in Procs : p = live.at
    BY <2>1
  <2>3. /\ stale' = [stale EXCEPT ![p] = @ + 1]
        /\ reg' = [reg EXCEPT ![p] = IF @ = "live" THEN "stale" ELSE @]
        /\ faults < MaxFaults /\ faults' = faults + 1
    BY <1>8, <2>2 DEF Break, Fault
  <2>4. \A r \in Procs : stale'[r] \in Nat /\ stale'[r] <= faults'
    BY <1>0, <2>3, AdsAssumption DEF RegTyped
  <2>5. reg' \in [Procs -> {"none", "stale", "live"}]
    BY <1>0, <2>3 DEF RegTyped
  <2> QED
    BY <1>0, <2>3, <2>4, <2>5, AdsAssumption DEF RegTyped
<1>10. ASSUME StreamEnds, UNCHANGED faults \/ Fault
       PROVE  RegTyped'
  <2>1. reg' = [reg EXCEPT ![live.at] = "none"] /\ UNCHANGED stale
    BY <1>10 DEF StreamEnds
  <2>2. reg' \in [Procs -> {"none", "stale", "live"}]
    BY <1>0, <2>1 DEF RegTyped
  <2> QED
    BY <1>0, <1>10, <2>1, <2>2, AdsAssumption DEF RegTyped, Fault
<1>9. ASSUME \/ \E p \in Procs : _pubsub_listener(p) \/ Resubscribe(p) \/ update_channel(p)
             \/ update_instance
             \/ delete_instance \/ Wake \/ _build_resources \/ (\E t \in Types : Push(t))
             \/ _process_request \/ Receive \/ UNCHANGED vars
      PROVE  RegTyped'
  <2>1. UNCHANGED <<reg, stale, faults>>
    BY <1>9 DEF _pubsub_listener, Resubscribe, update_channel, update_instance, delete_instance,
         Wake, _build_resources, Push, _process_request, Receive, vars
  <2> QED
    BY <1>1, <2>1
<1> QED
  BY <1>3, <1>4, <1>5, <1>6, <1>7, <1>8, <1>9, <1>10
     DEF Next, Serve, RenderRaises, StreamRaises

LEMMA BusKept ==
  ASSUME Typed, [Next]_vars
  PROVE  BusTyped'
<1> USE DEF wake
<1>0. BusTyped /\ LiveTyped /\ RegTyped
  BY DEF Typed
<1>1. ASSUME UNCHANGED <<bus, up>>
      PROVE  BusTyped'
  BY <1>0, <1>1 DEF BusTyped
<1>2. ASSUME NEW p \in Procs, NEW redis \in BOOLEAN,
             regenerate_all_running(p, redis) \/ reload(p, redis)
      PROVE  BusTyped'
  <2>1. UNCHANGED <<reg, stale, up>> /\ (UNCHANGED bus \/ notify_node(p, redis))
    BY <1>2 DEF regenerate_all_running, reload
  <2> QED
    BY <1>0, <1>1, <2>1, NotifyTyped
<1>3. ASSUME NEW p \in Procs, _pubsub_listener(p)
      PROVE  BusTyped'
  <2>1. bus[p] > 0 /\ bus' = [bus EXCEPT ![p] = @ - 1] /\ UNCHANGED up
    BY <1>3 DEF _pubsub_listener
  <2>2. bus[p] \in 0..MaxBus
    BY <1>0 DEF BusTyped
  <2> QED
    BY <1>0, <2>1, <2>2, AdsAssumption DEF BusTyped
<1>4. ASSUME NEW p \in Procs, ListenerFails(p) \/ Crash(p)
      PROVE  BusTyped'
  <2>1. bus' = [bus EXCEPT ![p] = 0] /\ \E b \in BOOLEAN : up' = [up EXCEPT ![p] = b]
    BY <1>4 DEF ListenerFails, Crash
  <2>2. up' \in [Procs -> BOOLEAN]
    BY <1>0, <2>1 DEF BusTyped
  <2> QED
    BY <1>0, <2>1, <2>2, AdsAssumption DEF BusTyped
<1>5. ASSUME NEW p \in Procs, Resubscribe(p)
      PROVE  BusTyped'
  <2>1. up' = [up EXCEPT ![p] = TRUE] /\ UNCHANGED bus
    BY <1>5 DEF Resubscribe
  <2>2. up' \in [Procs -> BOOLEAN]
    BY <1>0, <2>1 DEF BusTyped
  <2> QED
    BY <1>0, <2>1, <2>2 DEF BusTyped
<1>6. ASSUME \/ \E p \in Procs : update_channel(p) \/ StreamAggregatedResources(p) \/ CloseStale(p)
             \/ update_instance \/ delete_instance
             \/ Wake \/ _build_resources \/ (\E t \in Types : Push(t)) \/ StreamEnds
             \/ _process_request \/ Break \/ Receive \/ UNCHANGED vars
      PROVE  BusTyped'
  <2>1. UNCHANGED <<bus, up>>
    BY <1>6 DEF update_channel, StreamAggregatedResources, CloseStale, update_instance,
         delete_instance, Wake, _build_resources, Push, StreamEnds, _process_request, Break, Receive, vars
  <2> QED
    BY <1>1, <2>1
<1> QED
  BY <1>2, <1>3, <1>4, <1>5, <1>6 DEF Next, Serve, RenderRaises, StreamRaises

LEMMA LiveKept ==
  ASSUME Typed, [Next]_vars
  PROVE  LiveTyped'
<1>0. BusTyped /\ LiveTyped /\ RegTyped /\ AdminTyped /\ WireTyped
  BY DEF Typed
<1>1. ASSUME UNCHANGED live
      PROVE  LiveTyped'
  BY <1>0, <1>1 DEF LiveTyped
<1>2. ASSUME live' = Closed
      PROVE  LiveTyped'
  BY <1>2, ClosedTyped DEF LiveTyped
<1>3. ASSUME NEW p \in Procs, NEW redis \in BOOLEAN,
             regenerate_all_running(p, redis) \/ reload(p, redis)
      PROVE  LiveTyped'
  <2>1. UNCHANGED live \/ _local_notify(p)
    BY <1>3 DEF regenerate_all_running, reload, notify_node
  <2> QED
    BY <1>0, <1>1, <2>1, NotifySets
<1>4. ASSUME NEW p \in Procs, _pubsub_listener(p)
      PROVE  LiveTyped'
  BY <1>0, <1>4, NotifySets DEF _pubsub_listener
<1>5. ASSUME NEW p \in Procs, Crash(p)
      PROVE  LiveTyped'
  BY <1>1, <1>2, <1>5 DEF Crash
<1>6. ASSUME Break \/ StreamEnds
      PROVE  LiveTyped'
  BY <1>2, <1>6 DEF Break, StreamEnds
<1>7. ASSUME \/ \E p \in Procs : ListenerFails(p) \/ Resubscribe(p) \/ update_channel(p)
                                 \/ CloseStale(p)
             \/ update_instance \/ delete_instance \/ Receive \/ UNCHANGED vars
      PROVE  LiveTyped'
  <2>1. UNCHANGED live
    BY <1>7 DEF ListenerFails, Resubscribe, update_channel, CloseStale, update_instance,
         delete_instance,
         Receive, vars
  <2> QED
    BY <1>1, <2>1
<1> QED
  BY <1>0, <1>3, <1>4, <1>5, <1>6, <1>7, StreamOpens, WakeTakes, BuildFills, PushSends,
     RequestMarks DEF Next, Serve, RenderRaises, StreamRaises

LEMMA WireKept ==
  ASSUME Typed, [Next]_vars
  PROVE  WireTyped'
<1> USE DEF wire
<1>0. LiveTyped /\ WireTyped
  BY DEF Typed
<1>1. ASSUME UNCHANGED wire
      PROVE  WireTyped'
  BY <1>0, <1>1 DEF WireTyped
<1>2. ASSUME down' = <<>>, ups' = <<>>
      PROVE  WireTyped'
  BY <1>2, AdsAssumption DEF WireTyped
<1>3. ASSUME NEW t \in Types, Push(t)
      PROVE  WireTyped'
  <2> DEFINE m == [type |-> t, version |-> live.built[t]]
  <2>1. ups' = ups /\ (down' = down \/ (Len(down) < MaxWire /\ down' = Append(down, m)))
    BY <1>3 DEF Push
  <2>2. m \in Responses
    BY <1>0 DEF LiveTyped, Streams, Responses
  <2> HIDE DEF m
  <2>3. Append(down, m) \in Seq(Responses) /\ Len(Append(down, m)) = Len(down) + 1
    BY <1>0, <2>2, AppendProperties DEF WireTyped
  <2>4. Len(down) \in Nat
    BY <1>0, LenProperties DEF WireTyped
  <2> QED
    BY <1>0, <2>1, <2>3, <2>4, AdsAssumption DEF WireTyped
<1>4. ASSUME _process_request
      PROVE  WireTyped'
  <2>1. ups # <<>> /\ ups' = Tail(ups) /\ down' = down
    BY <1>4 DEF _process_request
  <2>2. Tail(ups) \in Seq(Asked) /\ Len(Tail(ups)) = Len(ups) - 1 /\ Len(ups) \in Nat
    BY <1>0, <2>1, HeadTailProperties, LenProperties DEF WireTyped
  <2> QED
    BY <1>0, <2>1, <2>2, AdsAssumption DEF WireTyped
<1>5. ASSUME Receive
      PROVE  WireTyped'
  <2> DEFINE h == Head(down)
             asked == {ups[i].type : i \in 1..Len(ups)} \union live.subscribed
             bad == h.type = "cds" /\ h.version \in Bad \ raises
             asks == IF bad THEN {h.type} ELSE Then(h.type) \ asked
             a == [type |-> CHOOSE t \in asks : TRUE, nack |-> bad]
  <2>1. /\ down # <<>> /\ down' = Tail(down) /\ (asks # {} => Len(ups) < MaxWire)
        /\ ups' = IF asks = {} THEN ups ELSE Append(ups, a)
    BY <1>5 DEF Receive
  <2>2. h \in Responses
    BY <1>0, <2>1, HeadTailProperties DEF WireTyped
  <2>3. asks \subseteq Types
    BY <2>2 DEF Responses, Then, Types
  <2>4. bad \in BOOLEAN
    OBVIOUS
  <2> HIDE DEF bad, asks
  <2>5. asks # {} => a \in Asked
    BY <2>3, <2>4 DEF Asked
  <2> HIDE DEF a, h
  <2>6. Tail(down) \in Seq(Responses) /\ Len(Tail(down)) = Len(down) - 1 /\ Len(down) \in Nat
    BY <1>0, <2>1, HeadTailProperties, LenProperties DEF WireTyped
  <2>7. a \in Asked => Append(ups, a) \in Seq(Asked) /\ Len(Append(ups, a)) = Len(ups) + 1
    BY <1>0, AppendProperties DEF WireTyped
  <2>8. Len(ups) \in Nat
    BY <1>0, LenProperties DEF WireTyped
  <2>9. down' \in Seq(Responses) /\ Len(down') <= MaxWire
    BY <1>0, <2>1, <2>6, AdsAssumption DEF WireTyped
  <2>10. ups' \in Seq(Asked) /\ Len(ups') <= MaxWire
    BY <1>0, <2>1, <2>5, <2>7, <2>8, AdsAssumption DEF WireTyped
  <2> QED
    BY <2>9, <2>10 DEF WireTyped
<1>6. ASSUME NEW p \in Procs, Crash(p)
      PROVE  WireTyped'
  BY <1>1, <1>2, <1>6 DEF Crash
<1>7. ASSUME Break \/ StreamEnds
      PROVE  WireTyped'
  BY <1>2, <1>7 DEF Break, StreamEnds
<1>8. ASSUME \/ \E p \in Procs :
                  \/ _pubsub_listener(p) \/ ListenerFails(p) \/ Resubscribe(p)
                  \/ update_channel(p)
                  \/ \E redis \in BOOLEAN : regenerate_all_running(p, redis) \/ reload(p, redis)
                  \/ StreamAggregatedResources(p) \/ CloseStale(p)
             \/ update_instance \/ delete_instance
             \/ Wake \/ _build_resources \/ UNCHANGED vars
      PROVE  WireTyped'
  <2>1. UNCHANGED wire
    BY <1>8 DEF _pubsub_listener, ListenerFails, Resubscribe, update_channel,
         regenerate_all_running, reload, StreamAggregatedResources, CloseStale,
         update_instance, delete_instance, Wake, _build_resources, vars
  <2> QED
    BY <1>1, <2>1
<1> QED
  BY <1>3, <1>4, <1>5, <1>6, <1>7, <1>8 DEF Next, Serve, RenderRaises, StreamRaises

LEMMA ConfKept ==
  ASSUME Typed, [Next]_vars
  PROVE  ConfTyped'
<1>1. CASE UNCHANGED conf
  BY <1>1 DEF Typed, ConfTyped
<1>2. CASE Receive
  <2>1. Head(down) \in Responses
    BY <1>2, HeadTailProperties DEF Receive, Typed, WireTyped
  <2> DEFINE m == Head(down)
  <2>2. m.type \in Types /\ m.version \in Versions
    BY <2>1 DEF Responses
  <2>3. conf' = conf \/ conf' = [conf EXCEPT ![m.type] = m.version]
    BY <1>2 DEF Receive
  <2> HIDE DEF m
  <2> QED
    BY <2>2, <2>3 DEF Typed, ConfTyped
<1>3. ASSUME Next, ~Receive
      PROVE  UNCHANGED conf
  BY <1>3 DEF Next, Serve, _pubsub_listener, ListenerFails, Resubscribe, update_channel,
       regenerate_all_running, reload, StreamAggregatedResources, CloseStale, Crash,
       update_instance, delete_instance, Wake, _build_resources, Push, RenderRaises,
       StreamRaises, StreamEnds, _process_request, Break
<1> QED
  BY <1>1, <1>2, <1>3 DEF vars

LEMMA MissedKept ==
  ASSUME Typed, [Next]_vars
  PROVE  missed' \in BOOLEAN
<1>0. missed \in BOOLEAN
  BY DEF Typed
<1>1. ASSUME UNCHANGED missed
      PROVE  missed' \in BOOLEAN
  BY <1>0, <1>1
<1>2. ASSUME NEW p \in Procs, \E redis \in BOOLEAN : regenerate_all_running(p, redis) \/ reload(p, redis)
      PROVE  missed' \in BOOLEAN
  BY <1>1, <1>2 DEF regenerate_all_running, reload, notify_node
<1>3. ASSUME NEW p \in Procs, _pubsub_listener(p) \/ ListenerFails(p)
                              \/ StreamAggregatedResources(p)
      PROVE  missed' \in BOOLEAN
  BY <1>3 DEF _pubsub_listener, ListenerFails, StreamAggregatedResources
<1>4. ASSUME NEW p \in Procs, Crash(p)
      PROVE  missed' \in BOOLEAN
  BY <1>1, <1>4 DEF Crash
<1>5. ASSUME Wake \/ update_instance
      PROVE  missed' \in BOOLEAN
  BY <1>5 DEF Wake, update_instance
<1>6. ASSUME \/ \E p \in Procs : Resubscribe(p) \/ update_channel(p) \/ CloseStale(p)
             \/ delete_instance \/ _build_resources \/ (\E t \in Types : Push(t)) \/ StreamEnds
             \/ _process_request \/ Break \/ Receive \/ UNCHANGED vars
      PROVE  missed' \in BOOLEAN
  <2>1. UNCHANGED missed
    BY <1>6 DEF Resubscribe, update_channel, CloseStale, delete_instance, _build_resources,
         Push, StreamEnds, _process_request, Break, Receive, vars
  <2> QED
    BY <1>1, <2>1
<1> QED
  BY <1>2, <1>3, <1>4, <1>5, <1>6 DEF Next, Serve, RenderRaises, StreamRaises

LEMMA TypedKept ==
  ASSUME Typed, [Next]_vars
  PROVE  Typed'
BY AdminKept, BusKept, RegKept, LiveKept, WireKept, ConfKept, MissedKept DEF Typed

-----------------------------------------------------------------------------
(***************************************************************************)
(* The gap.  NoSilentGap alone is not inductive: a push sends what was     *)
(* rendered when it began, and if the tables changed since, the type it    *)
(* sends is out of date again.  BuiltCovered says that a change after the  *)
(* rendering has been or will be announced.                                *)
(***************************************************************************)

BuiltCovered ==
  Open /\ known /\ ~missed /\ live.pc = "push" =>
    \A t \in live.todo : live.built[t] # Rendered(t) => Announced

GapInv == NoSilentGap /\ BuiltCovered

\* A step that leaves the stream where it is, and hands every announcement on or
\* owns up to having lost one.
Steady ==
  /\ UNCHANGED <<channels, listen, known>>
  /\ Same("pc") /\ Same("at") /\ Same("subscribed") /\ Same("todo")
  /\ Same("built") /\ Same("sent")
  /\ Open /\ known /\ ~missed' => ~missed /\ (Announced => Announced')

LEMMA SteadyKeeps ==
  ASSUME GapInv, Steady
  PROVE  GapInv'
<1>1. \A t : Rendered(t)' = Rendered(t)
  BY DEF Steady, Rendered, render_cds, _render_lds
<1>2. Open' = Open /\ known' = known
  BY DEF Steady, Same, Open
<1>3. ASSUME Open', known', ~missed'
      PROVE  ~missed /\ Open /\ known /\ (Announced => Announced')
  BY <1>2, <1>3 DEF Steady
<1>4. BuiltCovered'
  <2> SUFFICES ASSUME Open', known', ~missed', live'.pc = "push",
                      NEW t \in live'.todo, live'.built[t] # Rendered(t)'
               PROVE  Announced'
    BY DEF BuiltCovered
  <2>1. live.pc = "push" /\ t \in live.todo /\ live.built[t] # Rendered(t)
    BY <1>1 DEF Steady, Same
  <2> QED
    BY <1>3, <2>1 DEF GapInv, BuiltCovered
<1>5. NoSilentGap'
  <2> SUFFICES ASSUME Open', known', ~missed', NEW t \in live'.subscribed,
                      live'.sent[t] # Rendered(t)'
               PROVE  \/ Announced' \/ (live'.pc = "build" /\ t \in live'.todo)
                      \/ (live'.pc = "push" /\ t \in live'.todo /\ live'.built[t] = Rendered(t)')
    BY DEF NoSilentGap, Announced
  <2>1. t \in live.subscribed /\ live.sent[t] # Rendered(t)
    BY <1>1 DEF Steady, Same
  <2>2. \/ Announced \/ (live.pc = "build" /\ t \in live.todo)
        \/ (live.pc = "push" /\ t \in live.todo /\ live.built[t] = Rendered(t))
    BY <1>3, <2>1 DEF GapInv, NoSilentGap, Announced
  <2> QED
    BY <1>1, <1>3, <2>2 DEF Steady, Same
<1> QED
  BY <1>4, <1>5 DEF GapInv

LEMMA AnnouncedKeeps ==
  ASSUME Announced'
  PROVE  GapInv'
BY DEF Announced, GapInv, NoSilentGap, BuiltCovered

\* notify_node reaches the stream through the event or the bus, or is missed.
LEMMA NotifyReaches ==
  ASSUME Typed, NEW p \in Procs, NEW redis \in BOOLEAN, notify_node(p, redis), Open, ~missed'
  PROVE  ~missed /\ Announced'
<1>1. live'.evt = (live.evt \/ Hears(p)) /\ live'.at = live.at /\ live.at \in Procs
  BY NotifySets DEF notify_node, Typed, Same, LiveTyped, Streams
<1>2. missed' = (missed \/ (Open /\ ~Hears(p) /\ ~(redis /\ up[live.at])))
  BY DEF notify_node
<1>3. ~missed /\ (Hears(p) \/ (redis /\ up[live.at]))
  BY <1>2
<1>4. bus' = [r \in Procs |-> IF redis /\ up[r] THEN bus[r] + 1 ELSE bus[r]]
  BY DEF notify_node
<1>5. redis /\ up[live.at] => bus'[live'.at] > 0
  <2>1. bus[live.at] \in Nat
    BY <1>1, AdsAssumption DEF Typed, BusTyped
  <2> QED
    BY <1>1, <1>4, <2>1
<1> QED
  BY <1>1, <1>3, <1>5 DEF Announced

LEMMA SameLive ==
  ASSUME UNCHANGED live
  PROVE  /\ Same("pc") /\ Same("at") /\ Same("subscribed") /\ Same("todo")
         /\ Same("built") /\ Same("sent")
BY DEF Same

LEMMA GapKept ==
  ASSUME Typed, GapInv, [Next]_vars
  PROVE  GapInv'
<1> USE DEF admin, wake
<1>0. /\ LiveTyped /\ live.at \in Procs /\ bus \in [Procs -> Nat] /\ calls \in [Procs -> BOOLEAN]
      /\ bus[live.at] \in Nat
  BY AdsAssumption DEF Typed, LiveTyped, Streams, BusTyped, AdminTyped
<1>1. ASSUME NEW p \in Procs, _pubsub_listener(p)
      PROVE  GapInv'
  <2>1. /\ live'.evt = (live.evt \/ Hears(p)) /\ live'.at = live.at
        /\ Same("pc") /\ Same("at") /\ Same("subscribed") /\ Same("todo")
        /\ Same("built") /\ Same("sent")
    BY <1>0, <1>1, NotifySets DEF _pubsub_listener, Same
  <2>2. /\ missed' = (missed \/ (Open /\ live.at = p /\ ~Hears(p)))
        /\ bus' = [bus EXCEPT ![p] = @ - 1] /\ UNCHANGED <<channels, listen, known, calls>>
    BY <1>1 DEF _pubsub_listener
  <2>3. ASSUME Open, known, ~missed', Announced
        PROVE  Announced'
    <3>1. CASE live.at = p
      BY <2>1, <2>2, <2>3, <3>1 DEF Announced
    <3>2. CASE live.at # p
      <4>1. bus'[live.at] = bus[live.at]
        BY <1>0, <2>2, <3>2
      <4> QED
        BY <2>1, <2>2, <2>3, <4>1 DEF Announced
    <3> QED
      BY <3>1, <3>2
  <2>4. Steady
    BY <2>1, <2>2, <2>3 DEF Steady
  <2> QED
    BY <2>4, SteadyKeeps
<1>2. ASSUME NEW p \in Procs, ListenerFails(p)
      PROVE  GapInv'
  <2>1. /\ missed' = (missed \/ (Open /\ live.at = p /\ bus[p] > 0))
        /\ bus' = [bus EXCEPT ![p] = 0] /\ UNCHANGED <<channels, listen, known, calls, live>>
    BY <1>2 DEF ListenerFails
  <2>2. ASSUME Open, known, ~missed', Announced
        PROVE  Announced'
    <3>1. live.at # p => bus'[live.at] = bus[live.at]
      BY <1>0, <2>1
    <3> QED
      BY <2>1, <2>2, <3>1 DEF Announced
  <2>3. Steady
    BY <2>1, <2>2, SameLive DEF Steady
  <2> QED
    BY <2>3, SteadyKeeps
<1>3. ASSUME NEW p \in Procs, NEW redis \in BOOLEAN,
             regenerate_all_running(p, redis) \/ reload(p, redis)
      PROVE  GapInv'
  <2>1. UNCHANGED <<channels, listen, known>> /\ (known => notify_node(p, redis))
    BY <1>3 DEF regenerate_all_running, reload
  <2>2. CASE ~known
    BY <2>1, <2>2 DEF GapInv, NoSilentGap, BuiltCovered
  <2>3. CASE known
    <3>1. notify_node(p, redis)
      BY <2>1, <2>3
    <3>2. /\ Same("pc") /\ Same("at") /\ Same("subscribed") /\ Same("todo")
          /\ Same("built") /\ Same("sent")
      BY <1>0, <3>1, NotifySets DEF notify_node
    <3>3. Open /\ known /\ ~missed' => ~missed /\ Announced'
      BY <3>1, NotifyReaches
    <3>4. Steady
      BY <2>1, <3>2, <3>3 DEF Steady
    <3> QED
      BY <3>4, SteadyKeeps
  <2> QED
    BY <2>2, <2>3
<1>4. ASSUME NEW p \in Procs, update_channel(p)
      PROVE  GapInv'
  <2>1. calls' = [calls EXCEPT ![p] = TRUE]
    BY <1>4 DEF update_channel
  <2>2. calls'[p] = TRUE
    BY <1>0, <2>1
  <2>3. Announced'
    BY <2>2 DEF Announced
  <2> QED
    BY <2>3, AnnouncedKeeps
<1>5. ASSUME NEW p \in Procs, StreamAggregatedResources(p)
      PROVE  GapInv'
  <2>1. live'.evt
    BY <1>5, StreamOpens
  <2>2. Announced'
    BY <2>1 DEF Announced
  <2> QED
    BY <2>2, AnnouncedKeeps
<1>6. ASSUME _process_request
      PROVE  GapInv'
  <2>1. live'.evt
    BY <1>6, RequestMarks DEF Typed
  <2>2. Announced'
    BY <2>1 DEF Announced
  <2> QED
    BY <2>2, AnnouncedKeeps
<1>7. ASSUME live' = Closed
      PROVE  GapInv'
  <2>1. ~Open'
    BY <1>7 DEF Open, Closed
  <2> QED
    BY <2>1 DEF GapInv, NoSilentGap, BuiltCovered
<1>8. ASSUME NEW p \in Procs, Crash(p)
      PROVE  GapInv'
  <2>1. CASE Open /\ live.at = p
    BY <1>7, <1>8, <2>1 DEF Crash
  <2>2. CASE ~(Open /\ live.at = p)
    <3>1. /\ missed' = (missed \/ (Open /\ calls[p])) /\ bus' = [bus EXCEPT ![p] = 0]
          /\ calls' = [calls EXCEPT ![p] = FALSE] /\ UNCHANGED <<live, channels, listen, known>>
      BY <1>8, <2>2 DEF Crash
    <3>2. ASSUME Open, known, ~missed', Announced
          PROVE  Announced'
      <4>1. live.at # p /\ ~calls[p]
        BY <2>2, <3>1, <3>2
      <4>2. bus'[live'.at] = bus[live.at] /\ live'.evt = live.evt
        BY <1>0, <3>1, <4>1
      <4>3. \A r \in Procs : calls[r] => calls'[r]
        BY <1>0, <3>1, <4>1
      <4> QED
        BY <3>2, <4>2, <4>3 DEF Announced
    <3>3. Steady
      BY <3>1, <3>2, SameLive DEF Steady
    <3> QED
      BY <3>3, SteadyKeeps
  <2> QED
    BY <2>1, <2>2
<1>9. ASSUME Wake
      PROVE  GapInv'
  <2> DEFINE todo == IF live.pending = {} THEN live.subscribed ELSE live.pending
             masks == \E t \in live.subscribed \ todo : live.sent[t] # Rendered(t)
             announced == bus[live.at] > 0 \/ \E p \in Procs : calls[p]
  <2>1. /\ live'.pc = "build" /\ live'.todo = todo /\ live'.at = live.at
        /\ live'.subscribed = live.subscribed /\ live'.sent = live.sent
    BY <1>0, <1>9, WakeTakes DEF Same
  <2>2. missed' = (todo # live.subscribed /\ (missed \/ (masks /\ ~announced)))
    BY <1>9 DEF Wake
  <2>3. UNCHANGED <<channels, listen, known, calls, bus>>
    BY <1>9 DEF Wake
  <2>4. \A t : Rendered(t)' = Rendered(t)
    BY <2>3 DEF Rendered, render_cds, _render_lds
  <2>5. announced => Announced'
    BY <2>1, <2>3 DEF Announced
  <2> HIDE DEF announced
  <2>6. NoSilentGap'
    <3> SUFFICES ASSUME ~missed', NEW t \in live'.subscribed, live'.sent[t] # Rendered(t)',
                        t \notin live'.todo
                 PROVE  Announced'
      BY <2>1 DEF NoSilentGap, Announced
    <3>1. t \in live.subscribed \ todo /\ live.sent[t] # Rendered(t)
      BY <2>1, <2>4
    <3> HIDE DEF todo
    <3>2. masks /\ todo # live.subscribed
      BY <3>1
    <3> QED
      BY <2>2, <2>5, <3>2
  <2>7. BuiltCovered'
    BY <2>1 DEF BuiltCovered
  <2> QED
    BY <2>6, <2>7 DEF GapInv
<1>10. ASSUME _build_resources
       PROVE  GapInv'
  <2>1. /\ live'.pc = "push" /\ live'.built = [t \in Types |-> Rendered(t)] /\ live'.todo = live.todo
        /\ live'.at = live.at /\ live'.subscribed = live.subscribed
        /\ live'.sent = live.sent /\ live'.evt = live.evt
    BY <1>0, <1>10, BuildFills DEF Typed, Same
  <2>2. UNCHANGED <<channels, listen, known, calls, bus, missed>> /\ live.pc = "build"
    BY <1>10 DEF _build_resources
  <2>3. \A t : Rendered(t)' = Rendered(t)
    BY <2>2 DEF Rendered, render_cds, _render_lds
  <2>4. Announced => Announced'
    BY <2>1, <2>2 DEF Announced
  <2>5. live.todo \subseteq Types
    BY <1>0 DEF LiveTyped, Streams
  <2>6. \A t \in live'.todo : live'.built[t] = Rendered(t)'
    BY <2>1, <2>3, <2>5
  <2>7. BuiltCovered'
    BY <2>6 DEF BuiltCovered
  <2>8. NoSilentGap'
    <3> SUFFICES ASSUME known', ~missed', NEW t \in live'.subscribed,
                        live'.sent[t] # Rendered(t)', t \notin live'.todo
                 PROVE  Announced'
      BY <2>1, <2>6 DEF NoSilentGap, Announced
    <3>1. Open /\ known /\ ~missed /\ t \in live.subscribed /\ live.sent[t] # Rendered(t)
          /\ t \notin live.todo
      BY <2>1, <2>2, <2>3 DEF Open
    <3>2. Announced
      BY <2>2, <3>1 DEF GapInv, NoSilentGap, Announced
    <3> QED
      BY <2>4, <3>2
  <2> QED
    BY <2>7, <2>8 DEF GapInv
<1>11. ASSUME NEW t \in Types, Push(t)
       PROVE  GapInv'
  <2>1. /\ live'.at = live.at /\ live'.subscribed = live.subscribed /\ live'.evt = live.evt
        /\ live'.todo = live.todo \ {t}
        /\ live'.sent = [live.sent EXCEPT ![t] = live.built[t]]
        /\ live'.todo # {} => live'.pc = "push" /\ live'.built = live.built
    BY <1>0, <1>11, PushSends DEF Same
  <2>2. UNCHANGED <<channels, listen, known, calls, bus, missed>> /\ live.pc = "push" /\ t \in live.todo
    BY <1>11 DEF Push
  <2>3. \A u : Rendered(u)' = Rendered(u)
    BY <2>2 DEF Rendered, render_cds, _render_lds
  <2>4. Announced => Announced'
    BY <2>1, <2>2 DEF Announced
  <2>5. live.sent \in [Types -> Versions] /\ live.subscribed \subseteq Types
    BY <1>0 DEF LiveTyped, Streams
  <2>6. Open
    BY <2>2 DEF Open
  <2>7. BuiltCovered'
    <3> SUFFICES ASSUME known', ~missed', NEW u \in live'.todo, live'.built[u] # Rendered(u)'
                 PROVE  Announced'
      BY DEF BuiltCovered
    <3>1. u \in live.todo /\ live.built[u] # Rendered(u)
      BY <2>1, <2>3
    <3> QED
      BY <2>2, <2>4, <2>6, <3>1 DEF GapInv, BuiltCovered
  <2>8. NoSilentGap'
    <3> SUFFICES ASSUME known', ~missed', NEW u \in live'.subscribed,
                        live'.sent[u] # Rendered(u)'
                 PROVE  \/ Announced'
                        \/ (live'.pc = "push" /\ u \in live'.todo /\ live'.built[u] = Rendered(u)')
      BY DEF NoSilentGap, Announced
    <3>1. CASE u = t
      <4>1. live.built[t] # Rendered(t)
        BY <2>1, <2>3, <2>5, <3>1
      <4> QED
        BY <2>2, <2>4, <2>6, <4>1 DEF GapInv, BuiltCovered
    <3>2. CASE u # t
      <4>1. u \in live.subscribed /\ live.sent[u] # Rendered(u)
        BY <2>1, <2>3, <2>5, <3>2
      <4>2. Announced \/ (u \in live.todo /\ live.built[u] = Rendered(u))
        BY <2>2, <2>6, <4>1 DEF GapInv, NoSilentGap, Announced
      <4> QED
        BY <2>1, <2>3, <2>4, <3>2, <4>2
    <3> QED
      BY <3>1, <3>2
  <2> QED
    BY <2>7, <2>8 DEF GapInv
<1>12. ASSUME delete_instance
       PROVE  GapInv'
  BY <1>12 DEF delete_instance, GapInv, NoSilentGap, BuiltCovered
<1>15. ASSUME update_instance
       PROVE  GapInv'
  <2>1. /\ missed' = (missed \/ (Open /\ "lds" \in live.subscribed /\ ~Announced))
        /\ UNCHANGED <<channels, known, calls, bus, live>>
    BY <1>15 DEF update_instance
  <2>2. Announced' = Announced /\ Open' = Open
    BY <2>1 DEF Announced, Open
  <2>3. CASE Announced
    BY <2>2, <2>3, AnnouncedKeeps
  <2>4. CASE ~Announced /\ "lds" \in live.subscribed
    BY <2>1, <2>2, <2>4 DEF GapInv, NoSilentGap, BuiltCovered
  <2>5. CASE "lds" \notin live.subscribed
    <3>1. \A t \in live.subscribed : Rendered(t)' = Rendered(t)
      BY <1>0, <2>1, <2>5 DEF Rendered, render_cds, _render_lds, LiveTyped, Streams, Types
    <3>2. live.todo \subseteq live.subscribed
      BY <1>0 DEF LiveTyped
    <3>3. missed' = missed
      BY <2>1, <2>5 DEF Typed
    <3> HIDE DEF Rendered
    <3> QED
      BY <2>1, <2>2, <3>1, <3>2, <3>3 DEF GapInv, NoSilentGap, BuiltCovered
  <2> QED
    BY <2>3, <2>4, <2>5
<1>13. ASSUME Break \/ StreamEnds
       PROVE  GapInv'
  BY <1>7, <1>13 DEF Break, StreamEnds
<1>14. ASSUME Receive \/ (\E p \in Procs : Resubscribe(p) \/ CloseStale(p)) \/ UNCHANGED vars
       PROVE  GapInv'
  <2>1. UNCHANGED <<channels, listen, known, calls, bus, live, missed>>
    BY <1>14 DEF Receive, Resubscribe, CloseStale, vars
  <2>2. Announced' = Announced
    BY <2>1 DEF Announced
  <2>3. Steady
    BY <2>1, <2>2, SameLive DEF Steady
  <2> QED
    BY <2>3, SteadyKeeps
<1> QED
  BY <1>1, <1>2, <1>3, <1>4, <1>5, <1>6, <1>8, <1>9, <1>10, <1>11, <1>12, <1>13, <1>14, <1>15
     DEF Next, Serve, RenderRaises, StreamRaises

-----------------------------------------------------------------------------
(***************************************************************************)
(* The theorems.                                                           *)
(***************************************************************************)

LEMMA InitInv == Init => Typed /\ GapInv
<1> SUFFICES ASSUME Init
             PROVE  Typed /\ GapInv
  OBVIOUS
<1>1. AdminTyped
  <2>1. /\ calls = [p \in Procs |-> FALSE] /\ known = TRUE /\ raises \subseteq Bad
        /\ channels = 0 /\ listen = 0 /\ changes = 0
    BY DEF Init
  <2>2. calls \in [Procs -> BOOLEAN] /\ known \in BOOLEAN
    BY <2>1
  <2> QED
    BY <2>1, <2>2, AdsAssumption DEF AdminTyped
<1>2. BusTyped
  <2>1. bus = [p \in Procs |-> 0] /\ up = [p \in Procs |-> TRUE]
    BY DEF Init
  <2>2. up \in [Procs -> BOOLEAN]
    BY <2>1
  <2> QED
    BY <2>1, <2>2, AdsAssumption DEF BusTyped
<1>3. RegTyped /\ ConfTyped /\ WireTyped
  BY AdsAssumption DEF Init, RegTyped, ConfTyped, WireTyped, Versions
<1>4. LiveTyped
  BY ClosedTyped DEF Init, LiveTyped
<1>5. missed \in BOOLEAN
  BY DEF Init
<1>6. ~Open
  BY DEF Init, Open, Closed
<1>7. GapInv
  BY <1>6 DEF GapInv, NoSilentGap, BuiltCovered
<1> QED
  BY <1>1, <1>2, <1>3, <1>4, <1>5, <1>7 DEF Typed

LEMMA InvAlways == Spec => [](Typed /\ GapInv)
<1>1. Typed /\ GapInv /\ [Next]_vars => Typed' /\ GapInv'
  BY TypedKept, GapKept
<1> QED
  BY <1>1, InitInv, PTL DEF Spec

\* The row, the registrations, the stream, what is on its wire and what Envoy
\* runs keep their shape, and a push is for subscribed types only.
THEOREM TypeCorrect == Spec => []TypeOK
<1> QED
  BY InvAlways, TypedIsTypeOK, PTL

\* A change of the channels that a subscribed Envoy does not have yet is under
\* way to it, however calls, notifications, pushes, NACKs, reconnects, raising
\* streams, crashes and Redis errors interleave, except where the announcement
\* was lost, or never made (a change of the port).
THEOREM GapsAreAnnounced == Spec => []NoSilentGap
<1>1. GapInv => NoSilentGap
  BY DEF GapInv
<1> QED
  BY <1>1, InvAlways, PTL
=============================================================================
