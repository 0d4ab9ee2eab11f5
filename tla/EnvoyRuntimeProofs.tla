------------------------- MODULE EnvoyRuntimeProofs -------------------------
(***************************************************************************)
(* Proofs about EnvoyRuntime, for any number of overlapping administration *)
(* calls, processes, ports, crashes and restarts of the api process.       *)
(***************************************************************************)
EXTENDS EnvoyRuntime, TLAPS

-----------------------------------------------------------------------------
(***************************************************************************)
(* Type correctness.                                                       *)
(***************************************************************************)

Stages == {"idle", "stopWait", "ports", "spawn", "record", "ready", "update", "delete"}

\* The type invariant, by owner.
RecordsTyped == /\ mode \in {"local", "remote"} /\ row \in Rows
                /\ file \in 0..MaxPid /\ handle \in 0..MaxPid
OsTyped ==
  /\ state \in [Pids -> Dead \union {"booting", "serving"}]
  /\ port \in [Pids -> Ports] /\ children \subseteq Pids /\ far \in BOOLEAN
OsSane ==
  /\ \A p, q \in Pids : state[p] = "serving" /\ state[q] = "serving" => p = q
  /\ \A p \in Pids : state[p] = "zombie" => p \in children
  /\ handle # 0 => handle \in children
LocalTyped ==
  /\ pc \in [Calls -> Stages]
  /\ op \in [Calls -> Ops] /\ seen \in [Calls -> Rows]
  /\ target \in [Calls -> 0..MaxPid] /\ hand \in [Calls -> BOOLEAN]
HealthTyped ==
  /\ api \in BOOLEAN /\ monitor \in BOOLEAN /\ checking \in BOOLEAN /\ believed \in Rows
  /\ fails \in 0..Threshold /\ lock \in {"free", "mine", "old"}
CountersTyped == /\ lost \in BOOLEAN /\ abandoned \in BOOLEAN
                 /\ ops \in 0..MaxOps /\ faults \in 0..MaxFaults

LEMMA TypeParts ==
  TypeOK <=> /\ RecordsTyped /\ OsTyped /\ OsSane
             /\ LocalTyped /\ HealthTyped /\ CountersTyped
BY DEF TypeOK, RecordsTyped, OsTyped, OsSane, LocalTyped, HealthTyped, CountersTyped,
       Stages

LEMMA NoRowTyped == NoRow \in Rows
<1>1. (CHOOSE q \in Ports : TRUE) \in Ports
  BY RuntimeAssumption
<1>2. 0 \in 0..MaxPid
  BY RuntimeAssumption
<1> QED
  BY <1>1, <1>2 DEF NoRow, Rows, Statuses

\* What a flush does to the row, field by field.
LEMMA FlushFields ==
  ASSUME row \in Rows, NEW old \in Rows, NEW new \in Rows
  PROVE  /\ Flush(old, new) \in Rows
         /\ Flush(old, new).exists = Flushed(row.exists, old.exists, new.exists)
         /\ Flush(old, new).status = Flushed(row.status, old.status, new.status)
         /\ Flush(old, new).pid = Flushed(row.pid, old.pid, new.pid)
<1> DEFINE r == Flush(old, new)
           s == [exists |-> Flushed(row.exists, old.exists, new.exists),
                 status |-> Flushed(row.status, old.status, new.status),
                 pid |-> Flushed(row.pid, old.pid, new.pid),
                 port |-> Flushed(row.port, old.port, new.port)]
<1>1. DOMAIN row = {"exists", "status", "pid", "port"}
  BY DEF Rows
<1>2. r = s
  BY <1>1 DEF Flush
<1>3. s \in Rows
  BY DEF Flushed, Rows
<1> QED
  BY <1>2, <1>3

\* What a commit does: a call whose row has been deleted, or whose commit
\* fails, ends.
LEMMA CommitFacts ==
  ASSUME row \in Rows, LocalTyped, NEW c \in Calls, NEW new \in Rows,
         NEW where \in Stages, NEW saved \in BOOLEAN,
         target' \in [Calls -> 0..MaxPid], Commit(c, new, where, saved)
  PROVE  /\ row' \in Rows /\ LocalTyped'
         /\ row' = IF saved /\ row.exists THEN Flush(seen[c], new) ELSE row
         /\ pc' = [pc EXCEPT ![c] = IF saved /\ row.exists THEN where ELSE "idle"]
         /\ seen' = [seen EXCEPT ![c] =
                       IF saved /\ row.exists /\ where # "idle" THEN new ELSE NoRow]
<1>1. seen[c] \in Rows /\ NoRow \in Rows
  BY NoRowTyped DEF LocalTyped
<1>2. row' = IF saved /\ row.exists THEN Flush(seen[c], new) ELSE row
  BY DEF Commit
<1>3. pc' = [pc EXCEPT ![c] = IF saved /\ row.exists THEN where ELSE "idle"]
  BY DEF Commit, End, Goto
<1>4. seen' = [seen EXCEPT ![c] =
                 IF saved /\ row.exists /\ where # "idle" THEN new ELSE NoRow]
  BY DEF Commit, End
<1>5. row' \in Rows
  BY <1>1, <1>2, FlushFields
<1>6. pc' \in [Calls -> Stages] /\ seen' \in [Calls -> Rows]
  BY <1>1, <1>3, <1>4 DEF LocalTyped, Stages
<1>7. op' \in [Calls -> Ops] /\ hand' \in [Calls -> BOOLEAN]
  BY DEF Commit, End, LocalTyped, Ops
<1> QED
  BY <1>2, <1>3, <1>4, <1>5, <1>6, <1>7 DEF LocalTyped

LEMMA CommitFaults ==
  ASSUME CountersTyped, NEW c, NEW new, NEW where, NEW saved \in BOOLEAN,
         Commit(c, new, where, saved)
  PROVE  faults' \in 0..MaxFaults
BY RuntimeAssumption DEF Commit, Fault, CountersTyped

LEMMA EndFacts ==
  ASSUME LocalTyped, NEW c \in Calls, End(c)
  PROVE  LocalTyped' /\ pc' = [pc EXCEPT ![c] = "idle"] /\ seen' = [seen EXCEPT ![c] = NoRow]
<1>1. 0 \in 0..MaxPid
  BY RuntimeAssumption
<1> QED
  BY <1>1, NoRowTyped DEF End, Goto, LocalTyped, Stages, Ops

\* Steps that change processes: what must hold of the new states.
LEMMA OsChanged ==
  ASSUME TypeOK, OsTyped', handle' \in {0, handle}, children' = children,
         \A p \in Pids : /\ state'[p] = "serving" => state[p] = "serving"
                         /\ state'[p] = "zombie" => p \in children
  PROVE  OsSane'
BY DEF TypeOK, OsSane

\* Every action keeps the types.
LEMMA NextTyped ==
  ASSUME TypeOK, Next
  PROVE  TypeOK'
<1> USE TypeParts, RuntimeAssumption
<1> USE DEF records, os, local, health, past
<1>0. /\ RecordsTyped /\ OsTyped /\ OsSane /\ LocalTyped /\ HealthTyped /\ CountersTyped
      /\ row \in Rows /\ 0 \in 0..MaxPid
  BY DEF RecordsTyped
<1> DEFINE Goal == /\ RecordsTyped /\ OsTyped /\ OsSane
                   /\ LocalTyped /\ HealthTyped /\ CountersTyped
<1>1. ASSUME NEW p \in Pids
      PROVE  /\ [state EXCEPT ![p] = Corpse(p)] \in [Pids -> Dead \union {"booting", "serving"}]
             /\ Corpse(p) = "zombie" => p \in children
             /\ Corpse(p) # "serving"
  BY <1>0 DEF Corpse, OsTyped, Dead
<1>2. ASSUME NEW c \in Calls, NEW o \in Ops, NEW obeys \in BOOLEAN, LoadInstance(c, o, obeys)
      PROVE  Goal'
  <2>1. CASE Terminate(c, o, obeys)
    <3> DEFINE p == PidToStop
    <3>1. p \in 0..MaxPid
      BY <1>0 DEF PidToStop, Named, RecordsTyped, Rows
    <3>2. state' = state \/ (p \in Pids /\ state' = [state EXCEPT ![p] = Corpse(p)])
      BY <2>1, <3>1 DEF Terminate, Pids
    <3>3. OsTyped'
      BY <1>0, <1>1, <2>1, <3>2 DEF Terminate, OsTyped
    <3>4. OsSane'
      BY <1>0, <1>1, <1>2, <2>1, <3>2, <3>3, OsChanged
         DEF LoadInstance, Terminate, OsTyped, OsSane
    <3>5. hand' \in [Calls -> BOOLEAN]
      BY <1>0, <2>1 DEF Terminate, LocalTyped
    <3>6. LocalTyped'
      BY <1>0, <1>2, <2>1, <3>1, <3>5
         DEF LoadInstance, Terminate, Goto, LocalTyped, Stages, RecordsTyped
    <3>7. faults' \in 0..MaxFaults
      BY <1>0, <2>1 DEF Terminate, Fault, CountersTyped
    <3> QED
      BY <1>0, <1>2, <3>3, <3>4, <3>6, <3>7
         DEF LoadInstance, RecordsTyped, HealthTyped, CountersTyped
  <2>2. CASE UNCHANGED <<target, hand, os, faults>>
             /\ \E where \in {"ports", "update", "delete"} : Goto(c, where)
    <3>1. LocalTyped'
      BY <1>0, <1>2, <2>2 DEF LoadInstance, Goto, LocalTyped, Stages, RecordsTyped
    <3> QED
      BY <1>0, <1>2, <2>2, <3>1
         DEF LoadInstance, RecordsTyped, OsTyped, OsSane, HealthTyped, CountersTyped
  <2> QED
    BY <1>2, <2>1, <2>2 DEF LoadInstance
<1>3. ASSUME NEW c \in Calls, NEW there \in BOOLEAN, NEW kills \in BOOLEAN,
             NEW saved \in BOOLEAN, StopFinish(c, there, kills, saved)
      PROVE  Goal'
  <2> DEFINE p == target[c]
             done == [seen[c] EXCEPT !.status = "stopped", !.pid = 0]
  <2>1. p \in 0..MaxPid /\ done \in Rows
    BY <1>0 DEF LocalTyped, Rows, Statuses
  <2>2. \/ state' = state
        \/ p \in Pids /\ state' = [state EXCEPT ![p] = Corpse(p)]
        \/ p \in Pids /\ state' = [state EXCEPT ![p] = "gone"]
    BY <1>0, <1>3, <2>1 DEF StopFinish, Pids, OsTyped
  <2>3. OsTyped' /\ handle' \in {0, handle}
    BY <1>0, <1>1, <1>3, <2>2 DEF StopFinish, OsTyped, Dead
  <2>4. OsSane'
    BY <1>0, <1>1, <1>3, <2>2, <2>3, OsChanged DEF StopFinish, OsTyped, OsSane
  <2>5. /\ row' \in Rows /\ LocalTyped' /\ file' \in {0, file} /\ lost' \in BOOLEAN
        /\ faults' \in 0..MaxFaults
    <3>1. CASE there
      BY <1>0, <1>3, <3>1, EndFacts DEF StopFinish, CountersTyped
    <3>2. CASE ~there
      <4>1. \E where \in {"ports", "idle"} : Commit(c, done, where, saved)
        BY <1>3, <3>2 DEF StopFinish
      <4>2. target' \in [Calls -> 0..MaxPid]
        BY <1>0, <1>3, <3>2 DEF StopFinish, LocalTyped
      <4>3. row' \in Rows /\ LocalTyped'
        BY <1>0, <2>1, <4>1, <4>2, CommitFacts DEF Stages
      <4>4. file' \in {0, file} /\ lost' \in BOOLEAN
        BY <1>3, <3>2 DEF StopFinish
      <4>5. faults' \in 0..MaxFaults
        BY <1>0, <4>1, CommitFaults
      <4> QED
        BY <4>3, <4>4, <4>5
    <3> QED
      BY <3>1, <3>2
  <2> QED
    BY <1>0, <1>3, <2>3, <2>4, <2>5 DEF StopFinish, RecordsTyped, HealthTyped, CountersTyped
<1>4. ASSUME NEW c \in Calls, NEW new \in Rows, NEW where \in Stages, NEW saved \in BOOLEAN,
             Commit(c, new, where, saved), target' \in [Calls -> 0..MaxPid],
             UNCHANGED <<mode, file, handle, os, api, health, ops>>,
             lost' \in BOOLEAN, abandoned' \in BOOLEAN
      PROVE  Goal'
  <2>1. row' \in Rows /\ LocalTyped'
    BY <1>0, <1>4, CommitFacts
  <2>2. faults' \in 0..MaxFaults
    BY <1>0, <1>4, CommitFaults
  <2> QED
    BY <1>0, <1>4, <2>1, <2>2 DEF RecordsTyped, OsTyped, OsSane, HealthTyped, CountersTyped
<1>5. ASSUME NEW c \in Calls, NEW saved \in BOOLEAN, StartPorts(c, saved) \/ SpawnFails(c, saved)
      PROVE  Goal'
  <2>1. PICK s \in Statuses, where \in Stages :
          Commit(c, [seen[c] EXCEPT !.status = s], where, saved)
    BY <1>5 DEF StartPorts, SpawnFails, Statuses, Stages
  <2>2. [seen[c] EXCEPT !.status = s] \in Rows
    BY <1>0 DEF LocalTyped, Rows
  <2>3. target' \in [Calls -> 0..MaxPid]
    BY <1>0, <1>5 DEF StartPorts, SpawnFails, LocalTyped
  <2>4. lost' \in BOOLEAN /\ abandoned' \in BOOLEAN
    BY <1>0, <1>5 DEF StartPorts, SpawnFails, CountersTyped
  <2>5. UNCHANGED <<mode, file, handle, os, api, health, ops>>
    BY <1>5 DEF StartPorts, SpawnFails
  <2> QED
    BY <1>4, <2>1, <2>2, <2>3, <2>4, <2>5
<1>6. ASSUME NEW c \in Calls, NEW saved \in BOOLEAN, RecordPid(c, saved)
      PROVE  Goal'
  <2>1. [seen[c] EXCEPT !.pid = target[c]] \in Rows
    BY <1>0 DEF LocalTyped, Rows
  <2>2. target' \in [Calls -> 0..MaxPid]
    BY <1>0, <1>6 DEF RecordPid, LocalTyped
  <2>3. lost' \in BOOLEAN /\ abandoned' \in BOOLEAN
    BY <1>0, <1>6 DEF RecordPid, CountersTyped
  <2>4. /\ Commit(c, [seen[c] EXCEPT !.pid = target[c]], "ready", saved) /\ "ready" \in Stages
        /\ UNCHANGED <<mode, file, handle, os, api, health, ops>>
    BY <1>6 DEF RecordPid, Stages
  <2> QED
    BY <1>4, <2>1, <2>2, <2>3, <2>4
<1>7. ASSUME NEW c \in Calls, NEW obeys \in BOOLEAN, NEW saved \in BOOLEAN,
             StartReady(c, obeys, saved)
      PROVE  Goal'
  <2> DEFINE p == target[c]
  <2>1. PICK s \in Statuses : Commit(c, [seen[c] EXCEPT !.status = s], "idle", saved)
    BY <1>7 DEF StartReady, Statuses
  <2>2. [seen[c] EXCEPT !.status = s] \in Rows
    BY <1>0 DEF LocalTyped, Rows
  <2>3. target' \in [Calls -> 0..MaxPid]
    BY <1>0, <1>7 DEF StartReady, LocalTyped
  <2>4. row' \in Rows /\ LocalTyped'
    BY <1>0, <2>1, <2>2, <2>3, CommitFacts DEF Stages
  <2>5. \/ state' = state
        \/ p \in Pids /\ state' = [state EXCEPT ![p] = Corpse(p)]
        \/ p \in Pids /\ state' = [state EXCEPT ![p] = "gone"]
    BY <1>0, <1>7 DEF StartReady, OsTyped
  <2>6. OsTyped'
    BY <1>0, <1>1, <1>7, <2>5 DEF StartReady, OsTyped, Dead
  <2>7. OsSane'
    BY <1>0, <1>1, <1>7, <2>5, <2>6, OsChanged DEF StartReady, OsTyped, OsSane
  <2>8. faults' \in 0..MaxFaults
    BY <1>0, <2>1, CommitFaults
  <2>9. CountersTyped'
    BY <1>0, <1>7, <2>8 DEF StartReady, CountersTyped
  <2> QED
    BY <1>0, <1>7, <2>4, <2>6, <2>7, <2>9 DEF StartReady, RecordsTyped, HealthTyped
<1>8. ASSUME NEW c \in Calls, NEW p \in Pids, NEW written \in BOOLEAN, Spawn(c, p, written)
      PROVE  Goal'
  <2> DEFINE held    == {handle} \union {target[d] : d \in {d \in Calls : hand[d]}}
             dropped == {q \in Pids : state[q] = "zombie" /\ q \notin held}
  <2>1. /\ state' = [q \in Pids |-> IF q = p THEN "booting"
                                    ELSE IF q \in dropped THEN "gone" ELSE state[q]]
        /\ children' = (children \ dropped) \union {p}
        /\ handle' = p
    BY <1>8 DEF Spawn
  <2>2. \A q \in dropped : state[q] = "zombie"
    OBVIOUS
  <2> HIDE DEF dropped
  <2>3. OsTyped'
    BY <1>0, <1>8, <2>1 DEF Spawn, OsTyped, LocalTyped, Rows, Dead
  <2>4. OsSane'
    BY <1>0, <2>1, <2>2 DEF OsSane
  <2>5. p \in 0..MaxPid
    BY DEF Pids
  <2>6. LocalTyped'
    BY <1>0, <1>8, <2>5 DEF Spawn, Goto, LocalTyped, Stages
  <2>7. RecordsTyped'
    BY <1>0, <1>8, <2>5 DEF Spawn, RecordsTyped
  <2>8. CountersTyped'
    BY <1>0, <1>8 DEF Spawn, Fault, CountersTyped
  <2> QED
    BY <1>0, <1>8, <2>3, <2>4, <2>6, <2>7, <2>8 DEF Spawn, HealthTyped
<1>9. ASSUME NEW c \in Calls, NEW q \in Ports, NEW saved \in BOOLEAN,
             update_instance(c, q, saved)
      PROVE  Goal'
  <2>1. target' \in [Calls -> 0..MaxPid] /\ lost' \in BOOLEAN /\ abandoned' \in BOOLEAN
    BY <1>0, <1>9 DEF update_instance, LocalTyped, CountersTyped
  <2>2. CASE End(c) /\ UNCHANGED <<row, faults>>
    BY <1>0, <1>9, <2>2, EndFacts
       DEF update_instance, RecordsTyped, OsTyped, OsSane, HealthTyped, CountersTyped
  <2>3. ASSUME NEW s \in Statuses,
               Commit(c, [seen[c] EXCEPT !.port = q, !.status = s], "idle", saved)
        PROVE  Goal'
    <3>1. [seen[c] EXCEPT !.port = q, !.status = s] \in Rows
      BY <1>0 DEF LocalTyped, Rows
    <3> QED
      BY <1>4, <1>9, <2>1, <2>3, <3>1 DEF update_instance, Stages
  <2>4. seen[c].status \in Statuses
    BY <1>0 DEF LocalTyped, Rows
  <2>5. (End(c) /\ UNCHANGED <<row, faults>>)
        \/ \E s \in Statuses :
             Commit(c, [seen[c] EXCEPT !.port = q, !.status = s], "idle", saved)
    BY <1>0, <1>9, <2>4 DEF update_instance, Statuses, LocalTyped, Rows
  <2> QED
    BY <2>2, <2>3, <2>5
<1>10. ASSUME NEW c \in Calls, delete_instance(c)
       PROVE  Goal'
  <2>1. row' \in Rows /\ LocalTyped'
    BY <1>0, <1>10, EndFacts DEF delete_instance, Rows
  <2> QED
    BY <1>0, <1>10, <2>1 DEF delete_instance, RecordsTyped, OsTyped, OsSane, HealthTyped,
                             CountersTyped
<1>11. ASSUME NEW p \in Pids, Boot(p) \/ EnvoyDies(p)
       PROVE  Goal'
  <2>1. \/ state' = [state EXCEPT ![p] = Corpse(p)]
        \/ state' = [state EXCEPT ![p] = "serving"] /\ \A q \in Pids : state[q] # "serving"
    BY <1>11 DEF Boot, EnvoyDies
  <2>2. UNCHANGED <<port, children, far, handle>>
    BY <1>11 DEF Boot, EnvoyDies
  <2>3. OsTyped'
    BY <1>0, <1>1, <2>1, <2>2 DEF OsTyped
  <2>4. OsSane'
    BY <1>0, <1>1, <2>1, <2>2 DEF OsTyped, OsSane
  <2>5. faults' \in 0..MaxFaults
    BY <1>0, <1>11 DEF Boot, EnvoyDies, Fault, CountersTyped
  <2> QED
    BY <1>0, <1>11, <2>3, <2>4, <2>5
       DEF Boot, EnvoyDies, RecordsTyped, LocalTyped, HealthTyped, CountersTyped
<1>12. ASSUME FarChanges
       PROVE  Goal'
  <2>1. far' \in BOOLEAN /\ faults' \in 0..MaxFaults
    BY <1>0, <1>12 DEF FarChanges, Fault, CountersTyped
  <2> QED
    BY <1>0, <1>12, <2>1
       DEF FarChanges, RecordsTyped, OsTyped, OsSane, LocalTyped, HealthTyped, CountersTyped
<1>13. ASSUME HealthLoad \/ LockExpires
       PROVE  Goal'
  <2>1. /\ UNCHANGED <<mode, row, file, handle, far, state, port, children>>
        /\ UNCHANGED <<pc, op, seen, target, hand, ops, lost, abandoned, faults>>
    BY <1>13 DEF HealthLoad, LockExpires
  <2>2. HealthTyped'
    BY <1>0, <1>13 DEF HealthLoad, LockExpires, HealthTyped, RecordsTyped
  <2>3. RecordsTyped' /\ OsTyped' /\ OsSane'
    BY <1>0, <2>1 DEF RecordsTyped, OsTyped, OsSane
  <2>4. LocalTyped' /\ CountersTyped'
    BY <1>0, <2>1 DEF LocalTyped, CountersTyped
  <2> QED
    BY <2>2, <2>3, <2>4
<1>14. ASSUME HealthProbe
       PROVE  Goal'
  <2>1. fails' \in 0..Threshold
    BY <1>0, <1>14 DEF HealthProbe, HealthTyped
  <2>2. \E s \in Statuses :
          row' = IF row.exists THEN Flush(believed, [believed EXCEPT !.status = s]) ELSE row
    <3>1. believed.status \in Statuses
      BY <1>0 DEF HealthTyped, Rows
    <3> QED
      BY <1>14, <3>1 DEF HealthProbe, Statuses
  <2>3. row' \in Rows
    <3>1. \A s \in Statuses : [believed EXCEPT !.status = s] \in Rows
      BY <1>0 DEF HealthTyped, Rows
    <3> QED
      BY <1>0, <2>2, <3>1, FlushFields DEF HealthTyped
  <2>4. UNCHANGED <<mode, file, handle, os, local, api, monitor, lock, past, ops, faults>>
        /\ checking' = FALSE /\ believed' = NoRow
    BY <1>14 DEF HealthProbe
  <2> QED
    BY <1>0, <2>1, <2>3, <2>4, NoRowTyped
       DEF RecordsTyped, OsTyped, OsSane, LocalTyped, HealthTyped, CountersTyped
<1>15. ASSUME ApiDies
       PROVE  Goal'
  <2>1. OsTyped' /\ OsSane'
    BY <1>0, <1>15 DEF ApiDies, OsTyped, OsSane, Dead
  <2>2. LocalTyped'
    BY <1>0, <1>15, NoRowTyped DEF ApiDies, LocalTyped, Stages, Ops
  <2>3. HealthTyped'
    <3>1. api' \in BOOLEAN /\ monitor' \in BOOLEAN /\ checking' \in BOOLEAN
      BY <1>15 DEF ApiDies
    <3>2. believed' \in Rows
      BY <1>15, NoRowTyped DEF ApiDies
    <3>3. fails' \in 0..Threshold
      BY <1>15 DEF ApiDies
    <3>4. lock' \in {"free", "mine", "old"}
      BY <1>0, <1>15 DEF ApiDies, HealthTyped
    <3> QED
      BY <3>1, <3>2, <3>3, <3>4 DEF HealthTyped
  <2>4. RecordsTyped' /\ CountersTyped'
    BY <1>0, <1>15 DEF ApiDies, Fault, RecordsTyped, CountersTyped
  <2> QED
    BY <2>1, <2>2, <2>3, <2>4
<1>16. ASSUME NEW kills \in BOOLEAN, NEW fate \in {"done", "early", "late"},
              adopt_orphans(kills, fate)
       PROVE  Goal'
  <2> DEFINE pid == PidToAdopt
  <2>1. pid \in 0..MaxPid
    BY <1>0 DEF PidToAdopt, RecordsTyped, Rows
  <2>2. row' \in Rows
    BY <1>0, <1>16, <2>1 DEF adopt_orphans, Rows, Statuses
  <2>3. state' = state \/ state' = [state EXCEPT ![pid] = "gone"]
    BY <1>16 DEF adopt_orphans
  <2>4. OsTyped'
    BY <1>0, <1>16, <2>3 DEF adopt_orphans, OsTyped, Dead
  <2>5. OsSane'
    BY <1>0, <1>16, <2>3, <2>4, OsChanged DEF adopt_orphans, OsTyped, OsSane
  <2>6. file' \in {0, file}
    BY <1>16 DEF adopt_orphans
  <2>7. CountersTyped'
    <3>1. lost' \in BOOLEAN /\ abandoned' \in BOOLEAN
      BY <1>16 DEF adopt_orphans
    <3>2. faults' \in 0..MaxFaults
      BY <1>0, <1>16 DEF adopt_orphans, Fault, CountersTyped
    <3> QED
      BY <1>0, <1>16, <3>1, <3>2 DEF adopt_orphans, CountersTyped
  <2>8. HealthTyped'
    <3>1. api' \in BOOLEAN /\ monitor' \in BOOLEAN
      BY <1>16 DEF adopt_orphans
    <3> QED
      BY <1>0, <1>16, <3>1 DEF adopt_orphans, HealthTyped
  <2> QED
    BY <1>0, <1>16, <2>2, <2>4, <2>5, <2>6, <2>7, <2>8
       DEF adopt_orphans, RecordsTyped, LocalTyped
<1>17. ASSUME NEW c \in Calls, StartRaises(c)
       PROVE  Goal'
  <2>1. LocalTyped'
    BY <1>0, <1>17, EndFacts DEF StartRaises
  <2>2. CountersTyped'
    BY <1>0, <1>17 DEF StartRaises, Fault, CountersTyped
  <2> QED
    BY <1>0, <1>17, <2>1, <2>2 DEF StartRaises, RecordsTyped, OsTyped, OsSane, HealthTyped
<1> HIDE DEF Goal, records, os, local, health, past
<1>18. Goal'
  BY <1>2, <1>3, <1>5, <1>6, <1>7, <1>8, <1>9, <1>10, <1>11, <1>12, <1>13, <1>14, <1>15,
     <1>16, <1>17 DEF Next, Adopts
<1> QED
  BY <1>18 DEF Goal, TypeOK, RecordsTyped, OsTyped, OsSane, LocalTyped, HealthTyped,
               CountersTyped, Stages

\* The rows, the pids in every record, the calls and the monitor keep their
\* types; one Envoy at most serves, and zombies have a parent.
THEOREM TypeCorrect == Spec => []TypeOK
<1>1. Init => TypeOK
  <2> SUFFICES ASSUME Init
               PROVE  TypeOK
    OBVIOUS
  <2>1. NoRow.port \in Ports
    BY NoRowTyped DEF Rows
  <2>2. RecordsTyped
    <3>1. row \in Rows
      <4>1. row \in [exists : {TRUE}, status : Statuses, pid : {0}, port : {NoRow.port}]
        BY DEF Init
      <4>2. {TRUE} \subseteq BOOLEAN /\ {0} \subseteq 0..MaxPid /\ {NoRow.port} \subseteq Ports
        BY <2>1, RuntimeAssumption
      <4> QED
        BY <4>1, <4>2, Zenon DEF Rows
    <3>2. mode \in {"local", "remote"} /\ file = 0 /\ handle = 0
      BY DEF Init
    <3> QED
      BY <3>1, <3>2, RuntimeAssumption DEF RecordsTyped
  <2>3. OsTyped /\ OsSane
    BY <2>1 DEF Init, OsTyped, OsSane, Dead
  <2>4. LocalTyped
    BY NoRowTyped, RuntimeAssumption DEF Init, LocalTyped, Stages, Ops
  <2>5. HealthTyped
    <3>1. api \in BOOLEAN /\ monitor \in BOOLEAN /\ checking \in BOOLEAN
      BY DEF Init
    <3>2. believed \in Rows /\ lock \in {"free", "mine", "old"}
      BY NoRowTyped DEF Init
    <3>3. fails \in 0..Threshold
      BY RuntimeAssumption DEF Init
    <3> QED
      BY <3>1, <3>2, <3>3 DEF HealthTyped
  <2>6. CountersTyped
    <3>1. lost \in BOOLEAN /\ abandoned \in BOOLEAN
      BY DEF Init
    <3>2. ops = 0 /\ faults = 0
      BY DEF Init
    <3> QED
      BY <3>1, <3>2, RuntimeAssumption DEF CountersTyped
  <2> QED
    BY <2>2, <2>3, <2>4, <2>5, <2>6, TypeParts
<1>2. TypeOK /\ [Next]_vars => TypeOK'
  <2>1. TypeOK /\ UNCHANGED vars => TypeOK'
    BY DEF vars, records, os, local, health, past, TypeOK
  <2> QED
    BY <2>1, NextTyped
<1> QED
  BY <1>1, <1>2, PTL DEF Spec

-----------------------------------------------------------------------------
(***************************************************************************)
(* The safety properties.  None of the three is inductive; together with   *)
(* what follows they are.                                                  *)
(***************************************************************************)

Spawned  == {"record", "ready"}
Spawning == {"spawn"} \union Spawned

\* A start that is past its ports has read its own "starting" back, so what
\* it assigns at its end is a change, and is written.
SeenStarting == \A c \in Calls : pc[c] \in Spawning => seen[c].status = "starting"

\* A remote instance has no process here and no call that works on one.
RemoteIdle ==
  mode = "remote" =>
    /\ \A p \in Pids : ~Running(p)
    /\ \A c \in Calls : pc[c] \in {"idle", "update", "delete"}
    /\ row.status # "starting"

\* Two Envoys at once count as lost.
OneEnvoy == ~lost => \A p, q \in Pids : Running(p) /\ Running(q) => p = q

\* While the api process is down it has no handles and no calls.
Down == ~api => handle = 0 /\ \A c \in Calls : pc[c] = "idle"

\* An Envoy under a stopped row is in the hands of the start that spawned it.
StoppedIsHeld ==
  api /\ ~lost /\ ~abandoned /\ row.exists /\ row.status = "stopped" =>
    \A p \in Pids : Running(p) =>
      \E c \in Calls : pc[c] \in Spawned /\ target[c] = p

RuntimeInv == /\ SeenStarting /\ RemoteIdle /\ StartingIsBusy
              /\ OneEnvoy /\ Down /\ Tracked /\ StoppedIsHeld

\* A step after which no more runs, nothing is off the records, and the calls
\* that spawn go on as they were.
LEMMA Undisturbed ==
  ASSUME TypeOK, RuntimeInv, mode' = mode, api' = api, lost' = lost,
         UNCHANGED <<handle, file>>,
         row'.exists => (abandoned => abandoned'),
         row'.pid = row.pid, row'.exists = row.exists,
         row'.status \in {row.status, "running", "error"},
         \A p \in Pids : Running(p)' => Running(p),
         \A c \in Calls :
           \/ pc'[c] = pc[c] /\ seen'[c] = seen[c] /\ target'[c] = target[c]
           \/ /\ api /\ pc[c] \notin Spawning /\ pc'[c] \notin Spawning
              /\ mode = "remote" => pc'[c] \in {"idle", "update", "delete"}
  PROVE  RuntimeInv'
<1>1. SeenStarting'
  BY DEF RuntimeInv, SeenStarting
<1>2. RemoteIdle'
  BY DEF RuntimeInv, RemoteIdle
<1>3. StartingIsBusy'
  BY DEF RuntimeInv, StartingIsBusy, Spawning, Spawned
<1>4. OneEnvoy' /\ Down'
  BY DEF RuntimeInv, OneEnvoy, Down
<1>5. Tracked'
  BY DEF RuntimeInv, Tracked, PidToStop, PidToAdopt, Named, Spawning, Spawned
<1>6. StoppedIsHeld'
  BY DEF RuntimeInv, StoppedIsHeld, Spawning
<1> QED
  BY <1>1, <1>2, <1>3, <1>4, <1>5, <1>6 DEF RuntimeInv

\* A step after which nothing runs, or the loss is on record.
LEMMA QuietOrLost ==
  ASSUME SeenStarting', RemoteIdle', StartingIsBusy', Down',
         ~lost' => \A p \in Pids : ~Running(p)'
  PROVE  RuntimeInv'
BY DEF RuntimeInv, OneEnvoy, Tracked, StoppedIsHeld

\* A corpse does not run.
LEMMA DeathIsQuiet ==
  ASSUME TypeOK, NEW p, state' = state \/ state' = [state EXCEPT ![p] = Corpse(p)]
                        \/ state' = [state EXCEPT ![p] = "gone"]
  PROVE  \A q \in Pids : Running(q)' => Running(q)
BY DEF TypeOK, Running, Corpse, Dead

\* Every step keeps the invariant.
LEMMA RuntimeStep ==
  ASSUME TypeOK, TypeOK', RuntimeInv, Next
  PROVE  RuntimeInv'
<1> USE DEF records, os, local, health, past
<1>0. /\ row \in Rows /\ LocalTyped /\ pc \in [Calls -> Stages]
      /\ \A c \in Calls : seen[c] \in Rows
      /\ target' \in [Calls -> 0..MaxPid]
  BY DEF TypeOK, LocalTyped, Stages
<1>1. ASSUME NEW c \in Calls, NEW o \in Ops, NEW obeys \in BOOLEAN, LoadInstance(c, o, obeys)
      PROVE  RuntimeInv'
  <2>1. /\ UNCHANGED <<mode, records, api, past>>
        /\ api /\ pc[c] = "idle"
        /\ \E where \in {"stopWait", "ports", "update", "delete"} :
             /\ Goto(c, where)
             /\ mode = "remote" => where \in {"update", "delete"}
    BY <1>1 DEF LoadInstance, Terminate
  <2>2. \A p \in Pids : Running(p)' => Running(p)
    <3>1. \E p : state' = state \/ state' = [state EXCEPT ![p] = Corpse(p)]
      BY <1>1 DEF LoadInstance, Terminate
    <3> QED
      BY <3>1, DeathIsQuiet
  <2>3. /\ pc'[c] \notin Spawning
        /\ mode = "remote" => pc'[c] \in {"idle", "update", "delete"}
    BY <1>0, <2>1 DEF Goto, Spawning, Spawned
  <2>4. \A d \in Calls \ {c} : UNCHANGED <<pc[d], seen[d], target[d]>>
    <3>1. /\ seen' = [seen EXCEPT ![c] = row]
          /\ \E t : target' = [target EXCEPT ![c] = t]
      BY <1>1 DEF LoadInstance, Terminate, TypeOK
    <3> QED
      BY <2>1, <3>1 DEF Goto, TypeOK
  <2> QED
    BY <2>1, <2>2, <2>3, <2>4, Undisturbed DEF Spawning, Spawned
<1>2. ASSUME NEW p \in Pids, Boot(p) \/ EnvoyDies(p)
      PROVE  RuntimeInv'
  <2>1. \A q \in Pids : Running(q)' => Running(q)
    BY <1>2 DEF Boot, EnvoyDies, Running, Corpse, Dead, TypeOK
  <2> QED
    BY <1>2, <2>1, Undisturbed DEF Boot, EnvoyDies
<1>3. ASSUME FarChanges \/ HealthLoad \/ LockExpires
      PROVE  RuntimeInv'
  BY <1>3, Undisturbed DEF FarChanges, HealthLoad, LockExpires, Running
<1>4. ASSUME HealthProbe
      PROVE  RuntimeInv'
  <2>1. PICK s \in {believed.status, "running", "error"} :
          row' = IF row.exists THEN Flush(believed, [believed EXCEPT !.status = s]) ELSE row
    BY <1>4 DEF HealthProbe
  <2>2. /\ believed \in Rows /\ [believed EXCEPT !.status = s] \in Rows
        /\ [believed EXCEPT !.status = s].pid = believed.pid
        /\ [believed EXCEPT !.status = s].exists = believed.exists
        /\ [believed EXCEPT !.status = s].status = s
    BY DEF TypeOK, Rows, Statuses
  <2>3. /\ row'.pid = row.pid /\ row'.exists = row.exists
        /\ row'.status \in {row.status, "running", "error"}
    <3> DEFINE new == [believed EXCEPT !.status = s]
    <3>1. CASE row.exists
      <4>1. row' = Flush(believed, new)
        BY <2>1, <3>1
      <4>2. /\ believed \in Rows /\ new \in Rows /\ new.pid = believed.pid
            /\ new.exists = believed.exists /\ new.status = s
        BY <2>2
      <4> HIDE DEF new
      <4>3. /\ row'.exists = Flushed(row.exists, believed.exists, new.exists)
            /\ row'.status = Flushed(row.status, believed.status, new.status)
            /\ row'.pid = Flushed(row.pid, believed.pid, new.pid)
        BY <1>0, <4>1, <4>2, FlushFields
      <4> QED
        BY <4>2, <4>3 DEF Flushed
    <3>2. CASE ~row.exists
      BY <2>1, <3>2
    <3> QED
      BY <3>1, <3>2
  <2> QED
    BY <1>4, <2>3, Undisturbed DEF HealthProbe, Running
\* The commits: what they make of the row and of the call.
<1>5. ASSUME NEW c \in Calls, NEW new \in Rows, NEW where \in Stages, NEW saved \in BOOLEAN,
             Commit(c, new, where, saved)
      PROVE  /\ row' = IF saved /\ row.exists THEN Flush(seen[c], new) ELSE row
             /\ saved /\ row.exists =>
                  /\ row'.exists = Flushed(row.exists, seen[c].exists, new.exists)
                  /\ row'.status = Flushed(row.status, seen[c].status, new.status)
                  /\ row'.pid = Flushed(row.pid, seen[c].pid, new.pid)
             /\ pc' = [pc EXCEPT ![c] = IF saved /\ row.exists THEN where ELSE "idle"]
             /\ seen' = [seen EXCEPT ![c] =
                           IF saved /\ row.exists /\ where # "idle" THEN new ELSE NoRow]
  BY <1>0, <1>5, CommitFacts, FlushFields
<1>6. ASSUME NEW c \in Calls, pc[c] # "idle"
      PROVE  api
  BY <1>6 DEF RuntimeInv, Down, TypeOK
<1>7. ASSUME NEW c \in Calls, NEW q \in Ports, NEW saved \in BOOLEAN,
             update_instance(c, q, saved)
      PROVE  RuntimeInv'
  <2> DEFINE Done == /\ pc' = [pc EXCEPT ![c] = "idle"] /\ seen' = [seen EXCEPT ![c] = NoRow]
                     /\ row'.pid = row.pid /\ row'.exists = row.exists
                     /\ row'.status \in {row.status, "running", "error"}
  <2>1. ASSUME End(c), UNCHANGED row
        PROVE  Done
    BY <1>0, <2>1, EndFacts
  <2>2. ASSUME NEW s \in {seen[c].status, "running", "error"},
               Commit(c, [seen[c] EXCEPT !.port = q, !.status = s], "idle", saved)
        PROVE  Done
    <3> DEFINE new == [seen[c] EXCEPT !.port = q, !.status = s]
    <3>1. /\ new \in Rows /\ new.pid = seen[c].pid /\ new.exists = seen[c].exists
          /\ new.status = s
      BY <1>0 DEF Rows, Statuses
    <3>2. Commit(c, new, "idle", saved) /\ "idle" \in Stages
      BY <2>2 DEF Stages
    <3> HIDE DEF new
    <3> QED
      BY <1>5, <3>1, <3>2 DEF Flushed
  <2>3. (End(c) /\ UNCHANGED row)
        \/ \E s \in {seen[c].status, "running", "error"} :
             Commit(c, [seen[c] EXCEPT !.port = q, !.status = s], "idle", saved)
    BY <1>0, <1>7 DEF update_instance, Rows
  <2>4. Done
    BY <2>1, <2>2, <2>3
  <2>5. /\ pc[c] = "update" /\ target' = [target EXCEPT ![c] = 0]
        /\ UNCHANGED <<mode, file, handle, os, api, past>>
    BY <1>7 DEF update_instance
  <2>6. pc'[c] = "idle" /\ \A d \in Calls \ {c} : UNCHANGED <<pc[d], seen[d], target[d]>>
    BY <1>0, <2>4, <2>5 DEF TypeOK
  <2> QED
    BY <1>6, <2>4, <2>5, <2>6, Undisturbed DEF Spawning, Spawned, Running
\* Calls on the process of a local instance.
<1>8. ASSUME NEW c \in Calls, pc[c] \in {"stopWait", "ports"} \union Spawning, mode' = mode
      PROVE  mode = "local" /\ RemoteIdle'
  BY <1>8 DEF RuntimeInv, RemoteIdle, Spawning, Spawned, TypeOK
<1>9. ASSUME NEW c \in Calls, NEW saved \in BOOLEAN, StartPorts(c, saved)
      PROVE  RuntimeInv'
  <2> DEFINE taken == _port_in_use(seen[c].port)
             s == IF taken THEN "error" ELSE "starting"
             where == IF taken THEN "idle" ELSE "spawn"
             new == [seen[c] EXCEPT !.status = s]
  <2>1. /\ pc[c] = "ports" /\ Commit(c, new, where, saved) /\ where \in Stages
        /\ target' = [target EXCEPT ![c] = 0]
        /\ UNCHANGED <<mode, file, handle, os, api, lost>>
        /\ abandoned' = (abandoned /\ ~(saved /\ ~taken /\ row'.status = "starting"))
    BY <1>9 DEF StartPorts, Stages
  <2>2. /\ new \in Rows /\ new.pid = seen[c].pid /\ new.exists = seen[c].exists
        /\ new.status = s
    BY <1>0 DEF Rows, Statuses
  <2>3. /\ taken => s = "error" /\ where = "idle"
        /\ ~taken => s = "starting" /\ where = "spawn"
    OBVIOUS
  <2> HIDE DEF taken, new, s, where
  <2>4. /\ row'.pid = row.pid /\ row'.exists = row.exists
        /\ row'.status \in {row.status, s}
        /\ pc' = [pc EXCEPT ![c] = IF saved /\ row.exists THEN where ELSE "idle"]
        /\ seen' = [seen EXCEPT ![c] =
                      IF saved /\ row.exists /\ where # "idle" THEN new ELSE NoRow]
        /\ ~(saved /\ row.exists) => row' = row
    BY <1>5, <2>1, <2>2 DEF Flushed
  <2>5. \A d \in Calls \ {c} : UNCHANGED <<pc[d], seen[d], target[d]>>
    BY <1>0, <2>1, <2>4 DEF TypeOK
  <2>6. /\ pc'[c] = IF saved /\ row.exists THEN where ELSE "idle"
        /\ seen'[c] = IF saved /\ row.exists /\ where # "idle" THEN new ELSE NoRow
    BY <1>0, <2>4 DEF TypeOK
  <2>7. api
    BY <1>6, <2>1
  <2>8. CASE pc'[c] = "idle"
    <3>1. ~(saved /\ ~taken /\ row.exists)
      BY <2>3, <2>6, <2>8
    <3>2. row'.status \in {row.status, "running", "error"}
      BY <2>3, <2>4, <3>1
    <3>3. row'.exists => (abandoned => abandoned')
      BY <2>1, <2>4, <3>1
    <3>4. pc[c] \notin Spawning /\ pc'[c] \notin Spawning
      BY <2>1, <2>8 DEF Spawning, Spawned
    <3>5. \A p \in Pids : Running(p)' => Running(p)
      BY <2>1 DEF Running
    <3> QED
      BY <2>1, <2>4, <2>5, <2>7, <2>8, <3>2, <3>3, <3>4, <3>5, Undisturbed
  <2>9. CASE pc'[c] = "spawn"
    <3>1. saved /\ ~taken /\ row.exists /\ s = "starting" /\ seen'[c] = new
      BY <2>3, <2>6, <2>9
    <3>2. SeenStarting'
      BY <2>2, <2>5, <3>1 DEF RuntimeInv, SeenStarting
    <3>3. RemoteIdle'
      BY <1>8, <2>1
    <3>4. StartingIsBusy'
      BY <2>9 DEF StartingIsBusy
    <3>5. OneEnvoy' /\ Down'
      BY <2>1, <2>7 DEF RuntimeInv, OneEnvoy, Down, Running
    <3>6. Tracked'
      BY <2>1, <2>4, <2>7, <3>1 DEF RuntimeInv, Tracked, PidToStop, Named, Running
    <3>7. row'.status = "stopped" => row.status = "stopped" /\ (abandoned => abandoned')
      BY <2>1, <2>4, <3>1
    <3>8. \A p \in Pids : Running(p)' => Running(p)
      BY <2>1 DEF Running
    <3>9. StoppedIsHeld'
      BY <2>1, <2>4, <2>5, <3>7, <3>8 DEF RuntimeInv, StoppedIsHeld, Spawned
    <3> QED
      BY <3>2, <3>3, <3>4, <3>5, <3>6, <3>9 DEF RuntimeInv
  <2> QED
    BY <2>3, <2>6, <2>8, <2>9
\* The end of a start: the status it assigns is written, or it ends in an
\* exception.
<1>10. ASSUME NEW c \in Calls, pc[c] \in {"spawn", "ready"}, NEW s \in {"running", "error"},
             NEW saved \in BOOLEAN,
             Commit(c, [seen[c] EXCEPT !.status = s], "idle", saved),
             \E t : target' = [target EXCEPT ![c] = t],
             UNCHANGED <<mode, file, handle, api, lost>>,
             abandoned' = (abandoned \/ ~saved),
             \A p \in Pids : Running(p)' => Running(p)
      PROVE  RuntimeInv'
  <2> DEFINE new == [seen[c] EXCEPT !.status = s]
  <2>1. /\ new \in Rows /\ new.pid = seen[c].pid /\ new.exists = seen[c].exists
        /\ new.status = s /\ Commit(c, new, "idle", saved) /\ "idle" \in Stages
    BY <1>0, <1>10 DEF Rows, Statuses, Stages
  <2> HIDE DEF new
  <2>2. seen[c].status # s
    BY <1>10 DEF RuntimeInv, SeenStarting, Spawning, Spawned
  <2>3. /\ pc' = [pc EXCEPT ![c] = "idle"] /\ seen' = [seen EXCEPT ![c] = NoRow]
        /\ row'.pid = row.pid /\ row'.exists = row.exists
        /\ saved /\ row.exists => row'.status = s
    BY <1>5, <2>1, <2>2 DEF Flushed
  <2>4. /\ pc'[c] = "idle"
        /\ \A d \in Calls \ {c} : UNCHANGED <<pc[d], seen[d], target[d]>>
    BY <1>0, <1>10, <2>3 DEF TypeOK
  <2>5. SeenStarting'
    BY <2>4 DEF RuntimeInv, SeenStarting, Spawning, Spawned
  <2>6. RemoteIdle'
    BY <1>8, <1>10 DEF Spawning, Spawned
  <2>7. StartingIsBusy' /\ StoppedIsHeld'
    BY <1>10, <2>3 DEF StartingIsBusy, StoppedIsHeld
  <2>8. api
    BY <1>6, <1>10
  <2>9. OneEnvoy' /\ Down'
    BY <1>10, <2>8 DEF RuntimeInv, OneEnvoy, Down
  <2>10. Tracked'
    BY <1>10, <2>3, <2>4, <2>8 DEF RuntimeInv, Tracked, PidToStop, Named
  <2> QED
    BY <2>5, <2>6, <2>7, <2>9, <2>10 DEF RuntimeInv
<1>11. ASSUME NEW c \in Calls, NEW saved \in BOOLEAN, SpawnFails(c, saved)
       PROVE  RuntimeInv'
  BY <1>10, <1>11 DEF SpawnFails, Running
<1>12. ASSUME NEW c \in Calls, NEW obeys \in BOOLEAN, NEW saved \in BOOLEAN,
              StartReady(c, obeys, saved)
       PROVE  RuntimeInv'
  <2>1. \A p \in Pids : Running(p)' => Running(p)
    <3>1. \/ state' = state
          \/ state' = [state EXCEPT ![target[c]] = Corpse(target[c])]
          \/ state' = [state EXCEPT ![target[c]] = "gone"]
      BY <1>12 DEF StartReady
    <3> QED
      BY <3>1, DeathIsQuiet
  <2>2. \E s \in {"running", "error"} : Commit(c, [seen[c] EXCEPT !.status = s], "idle", saved)
    BY <1>12 DEF StartReady
  <2> QED
    BY <1>10, <1>12, <2>1, <2>2 DEF StartReady
<1>13. ASSUME NEW c \in Calls, NEW p \in Pids, NEW written \in BOOLEAN, Spawn(c, p, written)
       PROVE  RuntimeInv'
  <2>1. /\ pc[c] = "spawn" /\ handle' = p
        /\ UNCHANGED <<mode, row, seen, api>>
        /\ pc' = [pc EXCEPT ![c] = "record"] /\ target' = [target EXCEPT ![c] = p]
        /\ lost' = (lost \/ \E q \in Pids : Running(q))
    BY <1>13 DEF Spawn, Goto
  <2>2. \A q \in Pids : Running(q)' => q = p \/ Running(q)
    BY <1>13 DEF Spawn, Running, Dead
  <2>3. pc'[c] = "record" /\ target'[c] = p
    BY <1>0, <2>1 DEF TypeOK
  <2>4. ~lost' => \A q \in Pids : Running(q)' => q = p
    BY <2>1, <2>2
  <2>5. SeenStarting'
    BY <1>0, <2>1 DEF RuntimeInv, SeenStarting, Spawning, Spawned
  <2>6. RemoteIdle'
    BY <1>8, <2>1 DEF Spawning
  <2>7. StartingIsBusy'
    BY <2>3 DEF StartingIsBusy
  <2>8. api'
    BY <1>6, <2>1
  <2>9. OneEnvoy' /\ Down'
    BY <2>4, <2>8 DEF OneEnvoy, Down
  <2>10. Tracked'
    <3>1. handle' # 0 /\ handle' = p
      BY <2>1 DEF Pids
    <3>2. PidToStop' = p
      BY <3>1 DEF PidToStop
    <3> QED
      BY <2>3, <2>4, <2>8, <3>2 DEF Tracked
  <2>11. StoppedIsHeld'
    BY <2>3, <2>4 DEF StoppedIsHeld, Spawned
  <2> QED
    BY <2>5, <2>6, <2>7, <2>9, <2>10, <2>11 DEF RuntimeInv
<1>14. ASSUME NEW c \in Calls, NEW saved \in BOOLEAN, RecordPid(c, saved)
       PROVE  RuntimeInv'
  <2> DEFINE new == [seen[c] EXCEPT !.pid = target[c]]
  <2>1. /\ new \in Rows /\ new.exists = seen[c].exists /\ new.status = seen[c].status
        /\ new.pid = target[c]
        /\ Commit(c, new, "ready", saved) /\ "ready" \in Stages
    BY <1>0, <1>14 DEF RecordPid, Rows, Stages, LocalTyped
  <2>2. /\ pc[c] = "record" /\ UNCHANGED <<mode, file, handle, os, api>>
        /\ target' = [target EXCEPT ![c] = IF saved /\ row.exists THEN target[c] ELSE 0]
        /\ abandoned' = (abandoned \/ ~saved)
        /\ lost' = (lost \/ \E q \in Pids : Running(q) /\ (q # target[c] \/ ~row.exists))
    BY <1>14 DEF RecordPid, TypeOK
  <2> HIDE DEF new
  <2>3. /\ pc' = [pc EXCEPT ![c] = IF saved /\ row.exists THEN "ready" ELSE "idle"]
        /\ seen' = [seen EXCEPT ![c] = IF saved /\ row.exists THEN new ELSE NoRow]
        /\ row'.exists = row.exists /\ row'.status = row.status
        /\ row'.pid \in {row.pid, target[c]}
    BY <1>5, <2>1 DEF Flushed
  <2>4. \A d \in Calls \ {c} : UNCHANGED <<pc[d], seen[d], target[d]>>
    BY <1>0, <2>2, <2>3 DEF TypeOK
  <2>5. saved /\ row.exists => pc'[c] = "ready" /\ seen'[c] = new /\ target'[c] = target[c]
    BY <1>0, <2>2, <2>3 DEF TypeOK
  <2>6. ~(saved /\ row.exists) => pc'[c] = "idle"
    BY <1>0, <2>3 DEF TypeOK
  <2>7. api
    BY <1>6, <2>2
  <2>8. SeenStarting'
    BY <2>1, <2>2, <2>4, <2>5, <2>6 DEF RuntimeInv, SeenStarting, Spawning, Spawned
  <2>9. RemoteIdle'
    BY <1>8, <2>2 DEF Spawning, Spawned
  <2>10. StartingIsBusy'
    BY <2>2, <2>3, <2>5 DEF StartingIsBusy
  <2>11. OneEnvoy' /\ Down'
    BY <2>2, <2>7 DEF RuntimeInv, OneEnvoy, Down, Running
  \* What runs is what this start spawned: the pid it writes does not hide it.
  <2>12. Tracked'
    <3> SUFFICES ASSUME NEW q \in Pids, Running(q)', ~lost'
                 PROVE  q = PidToStop' /\ row'.exists
      BY <2>2, <2>7 DEF Tracked
    <3>0. Running(q) /\ q # 0
      BY <2>2 DEF Running, Pids
    <3>1. Running(q) /\ ~lost /\ q = target[c] /\ row.exists /\ q # 0
      BY <2>2, <3>0
    <3>2. q = PidToStop
      BY <2>7, <3>1 DEF RuntimeInv, Tracked
    <3> QED
      BY <2>2, <2>3, <3>1, <3>2 DEF PidToStop, Named
  <2>13. StoppedIsHeld'
    BY <2>2, <2>3, <2>4, <2>5 DEF RuntimeInv, StoppedIsHeld, Running, Spawned
  <2> QED
    BY <2>8, <2>9, <2>10, <2>11, <2>12, <2>13 DEF RuntimeInv
<1>15. ASSUME NEW c \in Calls, delete_instance(c)
       PROVE  RuntimeInv'
  <2>1. /\ pc[c] = "delete" /\ UNCHANGED <<mode, state, api>>
        /\ row'.exists = FALSE /\ row'.status = row.status
        /\ lost' = (lost \/ \E p \in Pids : Running(p))
        /\ End(c)
    BY <1>0, <1>15 DEF delete_instance, Rows
  <2>2. pc' = [pc EXCEPT ![c] = "idle"] /\ seen' = [seen EXCEPT ![c] = NoRow]
    BY <1>0, <2>1, EndFacts
  <2>3. SeenStarting'
    BY <1>0, <2>2 DEF TypeOK, RuntimeInv, SeenStarting, Spawning, Spawned
  <2>4. RemoteIdle'
    BY <1>0, <2>1, <2>2 DEF TypeOK, RuntimeInv, RemoteIdle, Running
  <2>5. StartingIsBusy' /\ Down'
    BY <1>6, <2>1 DEF StartingIsBusy, Down
  <2>6. ~lost' => \A p \in Pids : ~Running(p)'
    BY <2>1 DEF Running
  <2> QED
    BY <2>3, <2>4, <2>5, <2>6, QuietOrLost
<1>16. ASSUME NEW c \in Calls, NEW there \in BOOLEAN, NEW kills \in BOOLEAN,
              NEW saved \in BOOLEAN, StopFinish(c, there, kills, saved)
       PROVE  RuntimeInv'
  <2> DEFINE done == [seen[c] EXCEPT !.status = "stopped", !.pid = 0]
  <2>0. PICK p \in {0} \union Pids : target[c] = p
    BY <1>0, RuntimeAssumption DEF LocalTyped, Pids
  <2>1. /\ pc[c] = "stopWait" /\ UNCHANGED <<mode, port, children, far, api, abandoned>>
        /\ handle' = IF hand[c] THEN 0 ELSE handle
        /\ api /\ state \in [Pids -> Dead \union {"booting", "serving"}]
    BY <1>6, <1>16 DEF StopFinish, TypeOK
  <2>2. RemoteIdle' /\ Down'
    BY <1>8, <2>1 DEF Down
  <2>3. /\ \A q \in Pids : Running(q)' => Running(q)
        /\ ~there /\ p \in Pids => ~Running(p)'
    <3>1. CASE p = 0
      <4>1. state' = state /\ p \notin Pids
        BY <1>16, <2>0, <3>1 DEF StopFinish, Pids
      <4> QED
        BY <4>1 DEF Running
    <3>2. CASE p \in Pids
      <4>1. p # 0
        BY <3>2 DEF Pids
      <4>2. state' = IF ~kills THEN state
                     ELSE [state EXCEPT ![p] = IF Running(p) THEN Corpse(p)
                                               ELSE IF hand[c] THEN "gone" ELSE state[p]]
        BY <1>16, <2>0, <4>1 DEF StopFinish
      <4>3. \A q \in Pids : state'[q] =
              IF q = p /\ kills THEN IF Running(p) THEN Corpse(p)
                                     ELSE IF hand[c] THEN "gone" ELSE state[p]
              ELSE state[q]
        BY <2>1, <4>2
      <4>4. Corpse(p) \in Dead /\ "gone" \in Dead
        BY DEF Corpse, Dead
      <4>5. kills => ~Running(p)'
        BY <3>2, <4>3, <4>4 DEF Running
      <4>6. ~kills /\ ~there => ~Running(p)'
        BY <1>16, <2>0, <3>2, <4>1 DEF StopFinish, Running, Dead
      <4>7. \A q \in Pids : Running(q)' => Running(q)
        BY <4>3, <4>4 DEF Running
      <4> QED
        BY <4>5, <4>6, <4>7
    <3> QED
      BY <2>0, <3>1, <3>2
  <2>4. CASE there
    <3>1. /\ End(c) /\ UNCHANGED <<row, file>>
          /\ lost' = (lost \/ (hand[c] /\ \E q \in Pids :
                                  state'[q] \notin Dead /\ q # Named))
      BY <1>16, <2>4 DEF StopFinish
    <3>2. pc'[c] = "idle" /\ \A d \in Calls \ {c} : UNCHANGED <<pc[d], seen[d], target[d]>>
      <4>1. /\ pc' = [pc EXCEPT ![c] = "idle"] /\ seen' = [seen EXCEPT ![c] = NoRow]
            /\ target' = [target EXCEPT ![c] = 0]
        BY <3>1 DEF End, Goto
      <4> QED
        BY <1>0, <4>1 DEF LocalTyped
    <3>3. SeenStarting'
      BY <3>2 DEF RuntimeInv, SeenStarting, Spawning, Spawned
    <3>4. StartingIsBusy'
      BY <2>1, <3>1, <3>2 DEF RuntimeInv, StartingIsBusy
    <3>5. OneEnvoy'
      BY <2>3, <3>1 DEF RuntimeInv, OneEnvoy
    \* The handle that is dropped is not the only record of what survives.
    <3>6. Tracked'
      <4> SUFFICES ASSUME NEW q \in Pids, Running(q)', ~lost'
                   PROVE  /\ q = PidToStop'
                          /\ row'.exists \/ \E d \in Calls : pc'[d] = "record" /\ target'[d] = q
        BY <2>1 DEF Tracked
      <4>1. Running(q) /\ ~lost
        BY <2>3, <3>1
      <4>2. /\ q = PidToStop
            /\ row.exists \/ \E d \in Calls : pc[d] = "record" /\ target[d] = q
        BY <2>1, <4>1 DEF RuntimeInv, Tracked
      <4>3. row'.exists \/ \E d \in Calls : pc'[d] = "record" /\ target'[d] = q
        BY <2>1, <3>1, <3>2, <4>2
      <4>4. Named' = Named
        BY <3>1 DEF Named
      <4>5. hand[c] => q = Named
        BY <3>1 DEF Running
      <4>6. q = PidToStop'
        BY <2>1, <4>2, <4>4, <4>5 DEF PidToStop
      <4> QED
        BY <4>3, <4>6
    <3>7. ~lost' => ~lost
      BY <3>1
    <3>8. StoppedIsHeld'
      BY <2>1, <2>3, <3>1, <3>2, <3>7 DEF RuntimeInv, StoppedIsHeld, Spawned
    <3> QED
      BY <2>2, <3>3, <3>4, <3>5, <3>6, <3>8 DEF RuntimeInv
  <2>5. CASE ~there
    <3>1. PICK where \in {"ports", "idle"} : Commit(c, done, where, saved)
      BY <1>16, <2>5 DEF StopFinish
    <3>2. /\ lost' = (lost \/ \E q \in Pids \ {p} : Running(q))
          /\ target' = [target EXCEPT ![c] = 0]
      BY <1>16, <2>0, <2>5 DEF StopFinish
    <3>3. /\ done \in Rows /\ done.status = "stopped" /\ done.exists = seen[c].exists
          /\ where \in Stages
      <4>1. 0 \in 0..MaxPid
        BY RuntimeAssumption
      <4> QED
        BY <1>0, <4>1 DEF Rows, Statuses, Stages
    <3> HIDE DEF done
    <3>4. /\ pc' = [pc EXCEPT ![c] = IF saved /\ row.exists THEN where ELSE "idle"]
          /\ seen' = [seen EXCEPT ![c] =
                        IF saved /\ row.exists /\ where # "idle" THEN done ELSE NoRow]
          /\ row'.status \in {row.status, "stopped"} /\ row'.exists = row.exists
      BY <1>5, <3>1, <3>3 DEF Flushed
    <3>5. /\ pc'[c] \notin Spawning
          /\ \A d \in Calls \ {c} : UNCHANGED <<pc[d], seen[d]>>
      BY <1>0, <3>4 DEF TypeOK, Spawning, Spawned
    <3>6. SeenStarting'
      BY <3>5 DEF RuntimeInv, SeenStarting
    <3>7. StartingIsBusy'
      BY <2>1, <3>4, <3>5 DEF RuntimeInv, StartingIsBusy
    <3>8. ~lost' => \A q \in Pids : ~Running(q)'
      BY <2>3, <2>5, <3>2
    <3> QED
      BY <2>2, <3>6, <3>7, <3>8, QuietOrLost
  <2> QED
    BY <2>4, <2>5
<1>17. ASSUME ApiDies
       PROVE  RuntimeInv'
  <2>1. /\ UNCHANGED <<mode, row, file>> /\ api' = FALSE /\ handle' = 0
        /\ pc' = [c \in Calls |-> "idle"]
        /\ lost' = (lost \/ \E p \in Pids : Running(p) /\ (~row.exists \/ p # PidToAdopt))
    BY <1>17 DEF ApiDies
  <2>2. \A p \in Pids : Running(p)' => Running(p)
    BY <1>17 DEF ApiDies, Running, Dead
  <2>3. SeenStarting' /\ Down'
    BY <2>1 DEF SeenStarting, Down, Spawning, Spawned
  <2>4. RemoteIdle'
    BY <2>1, <2>2 DEF RuntimeInv, RemoteIdle
  <2>5. StartingIsBusy' /\ StoppedIsHeld'
    BY <2>1 DEF StartingIsBusy, StoppedIsHeld
  <2>6. OneEnvoy'
    BY <2>1, <2>2 DEF RuntimeInv, OneEnvoy
  <2>7. PidToAdopt' = PidToAdopt
    BY <2>1 DEF PidToAdopt
  <2>8. Tracked'
    BY <2>1, <2>2, <2>7 DEF Tracked
  <2> QED
    BY <2>3, <2>4, <2>5, <2>6, <2>8 DEF RuntimeInv
<1>18. ASSUME NEW kills \in BOOLEAN, NEW fate \in {"done", "early", "late"},
              adopt_orphans(kills, fate)
       PROVE  RuntimeInv'
  <2> DEFINE pid    == PidToAdopt
             orphan == row.status = "stopped" /\ _pid_alive(pid)
             adopts == _pid_alive(pid) /\ _port_in_use(row.port) /\ ~orphan
             sees   == fate # "early" /\ row.exists /\ mode = "local"
  <2>1. /\ ~api /\ api' = TRUE /\ UNCHANGED <<mode, handle, pc, seen, target>>
        /\ abandoned' = (fate # "done") /\ handle = 0
        /\ \A c \in Calls : pc[c] = "idle"
    BY <1>18 DEF adopt_orphans, RuntimeInv, Down
  <2>2. /\ row' = IF ~sees \/ fate = "late" THEN row
                  ELSE IF adopts THEN [row EXCEPT !.pid = pid, !.status = "running"]
                  ELSE [row EXCEPT !.pid = 0, !.status = "stopped"]
        /\ file' = IF sees /\ ~adopts THEN 0 ELSE file
        /\ state' = IF sees /\ orphan /\ kills THEN [state EXCEPT ![pid] = "gone"] ELSE state
        /\ lost' = (lost \/ \E p \in Pids :
                      state'[p] \notin Dead /\ ~(fate = "done" /\ adopts /\ p = pid))
    BY <1>18 DEF adopt_orphans
  <2>3. \A p \in Pids : Running(p)' => Running(p)
    BY <2>2, DeathIsQuiet
  <2>4. ~lost' => /\ ~lost
                  /\ \A p \in Pids : Running(p)' => fate = "done" /\ adopts /\ p = pid
    BY <2>2 DEF Running
  <2> HIDE DEF adopts, orphan
  <2>5. \A p \in Pids : Running(p) /\ ~lost => row.exists /\ mode = "local"
    BY <2>1 DEF RuntimeInv, Tracked, RemoteIdle, TypeOK
  <2>6. SeenStarting' /\ Down'
    BY <2>1 DEF RuntimeInv, SeenStarting, Down, Spawning, Spawned
  <2>7. /\ row'.exists = row.exists
        /\ fate = "done" /\ row.exists /\ mode = "local" =>
             /\ row'.status = IF adopts THEN "running" ELSE "stopped"
             /\ row'.pid = IF adopts THEN pid ELSE 0
             /\ adopts => file' = file
        /\ mode = "remote" => row' = row
    BY <1>0, <2>2 DEF Rows
  <2>8. RemoteIdle'
    BY <2>1, <2>3, <2>7 DEF RuntimeInv, RemoteIdle
  <2>9. StartingIsBusy'
    <3>1. CASE fate # "done"
      BY <2>1, <3>1 DEF StartingIsBusy
    <3>2. CASE fate = "done" /\ row.exists
      <4>1. CASE mode = "local"
        BY <2>7, <3>2, <4>1 DEF StartingIsBusy
      <4>2. CASE mode = "remote"
        BY <2>1, <2>8, <4>2 DEF StartingIsBusy, RemoteIdle
      <4> QED
        BY <4>1, <4>2 DEF TypeOK
    <3>3. CASE ~row.exists
      BY <2>7, <3>3 DEF StartingIsBusy
    <3> QED
      BY <3>1, <3>2, <3>3
  <2>10. ASSUME NEW p \in Pids, Running(p)', ~lost'
         PROVE  /\ p = pid /\ p = PidToStop' /\ row'.exists
                /\ row'.status = "running"
    <3>1. /\ fate = "done" /\ adopts /\ p = pid
          /\ row.exists /\ mode = "local" /\ p # 0
      BY <2>3, <2>4, <2>5, <2>10 DEF Pids
    <3>2. row'.status = "running" /\ row'.pid = pid /\ row'.exists /\ handle' = 0
      BY <2>1, <2>7, <3>1
    <3> QED
      BY <3>1, <3>2 DEF PidToStop, Named
  <2> HIDE DEF pid
  <2>11. OneEnvoy' /\ Tracked' /\ StoppedIsHeld'
    BY <2>1, <2>10 DEF OneEnvoy, Tracked, StoppedIsHeld
  <2> QED
    BY <2>6, <2>8, <2>9, <2>11 DEF RuntimeInv
<1>19. ASSUME NEW c \in Calls, StartRaises(c)
       PROVE  RuntimeInv'
  <2>1. /\ pc[c] = "spawn" /\ End(c) /\ abandoned' = TRUE
        /\ UNCHANGED <<mode, records, os, api, lost>>
    BY <1>19 DEF StartRaises
  <2>2. /\ pc' = [pc EXCEPT ![c] = "idle"] /\ seen' = [seen EXCEPT ![c] = NoRow]
        /\ target' = [target EXCEPT ![c] = 0]
    BY <2>1 DEF End, Goto
  <2>3. /\ pc'[c] = "idle" /\ api
        /\ \A d \in Calls \ {c} : UNCHANGED <<pc[d], seen[d], target[d]>>
    BY <1>0, <1>6, <2>1, <2>2 DEF LocalTyped
  <2>4. SeenStarting'
    BY <2>3 DEF RuntimeInv, SeenStarting, Spawning, Spawned
  <2>5. RemoteIdle'
    BY <1>8, <2>1 DEF Spawning
  <2>6. StartingIsBusy' /\ StoppedIsHeld'
    BY <2>1 DEF StartingIsBusy, StoppedIsHeld
  <2>7. OneEnvoy' /\ Down'
    BY <2>1, <2>3 DEF RuntimeInv, OneEnvoy, Down, Running
  <2>8. Tracked'
    BY <2>1, <2>3 DEF RuntimeInv, Tracked, PidToStop, Named, Running
  <2> QED
    BY <2>4, <2>5, <2>6, <2>7, <2>8 DEF RuntimeInv
<1> HIDE DEF records, os, local, health, past
<1> QED
  BY <1>1, <1>2, <1>3, <1>4, <1>7, <1>9, <1>11, <1>12, <1>13, <1>14, <1>15, <1>16, <1>17,
     <1>18, <1>19 DEF Next, Adopts

LEMMA RuntimeInductive == Spec => []RuntimeInv
<1>1. Init => RuntimeInv
  <2> SUFFICES ASSUME Init
               PROVE  RuntimeInv
    OBVIOUS
  <2>1. /\ \A p \in Pids : ~Running(p)
        /\ \A c \in Calls : pc[c] = "idle"
        /\ row.status # "starting" /\ api
    BY DEF Init, create_instance, Running, Dead
  <2> QED
    BY <2>1 DEF RuntimeInv, SeenStarting, RemoteIdle, StartingIsBusy, OneEnvoy, Down, Tracked,
                StoppedIsHeld, Spawning, Spawned
<1>2. TypeOK /\ TypeOK' /\ RuntimeInv /\ [Next]_vars => RuntimeInv'
  <2>1. RuntimeInv /\ UNCHANGED vars => RuntimeInv'
    BY DEF vars, records, os, local, past, RuntimeInv, SeenStarting, RemoteIdle,
           StartingIsBusy, OneEnvoy, Down, Tracked, PidToStop, PidToAdopt, Named,
           StoppedIsHeld, Running
  <2> QED
    BY <2>1, RuntimeStep
<1> QED
  BY <1>1, <1>2, TypeCorrect, PTL DEF Spec

\* Every Envoy that runs is the one the next stop, or the next start-up, finds,
\* and has a row for that stop, unless an event the model counts as a loss has
\* happened.
THEOREM EnvoysAreTracked == Spec => []Tracked
<1>1. RuntimeInv => Tracked
  BY DEF RuntimeInv
<1> QED
  BY <1>1, RuntimeInductive, PTL

\* A row that says stopped has no Envoy behind it once the calls are over.
THEOREM StoppedMeansQuiet == Spec => []StoppedIsQuiet
<1>1. RuntimeInv => StoppedIsQuiet
  BY DEF RuntimeInv, StoppedIsHeld, StoppedIsQuiet, Spawned
<1> QED
  BY <1>1, RuntimeInductive, PTL

\* No start leaves "starting" behind but by an exception that nothing catches,
\* however calls, crashes, deletions and the health monitor interleave with it.
THEOREM StartingMeansBusy == Spec => []StartingIsBusy
<1>1. RuntimeInv => StartingIsBusy
  BY DEF RuntimeInv
<1> QED
  BY <1>1, RuntimeInductive, PTL
=============================================================================
