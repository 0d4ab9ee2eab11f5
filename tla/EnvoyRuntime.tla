---------------------------- MODULE EnvoyRuntime ----------------------------
(***************************************************************************)
(* The life of one Envoy instance: the envoy_instances row, the operating  *)
(* system process behind it, and who keeps the two together: the calls of  *)
(* api/v1/admin/envoy.py, services/envoy/runtime.py, its health monitor    *)
(* and the reconciliation at start-up of the api process (main.py).        *)
(*                                                                         *)
(* A port stands for the pair (listen_port, admin_port).  A call keeps the *)
(* row it loaded in its session: a commit writes what it assigned, or      *)
(* fails, and the call ends there.  A                                      *)
(* process that died is a zombie while its parent, the api process, has    *)
(* not waited for it, and os.kill(pid, 0) still finds a zombie.            *)
(***************************************************************************)
EXTENDS Integers, FiniteSets, Orm

CONSTANTS
  Calls,      \* administration calls that may overlap
  Ports,      \* port pairs
  MaxPid,     \* bound: processes ever spawned
  Threshold,  \* ENVOY_HEALTH_FAIL_THRESHOLD
  MaxOps,     \* bound: administration calls
  MaxFaults   \* bound: crashes, hangs, failed writes and commits, outages

ASSUME RuntimeAssumption ==
  /\ Ports # {} /\ MaxPid \in Nat \ {0} /\ Threshold \in Nat \ {0}
  /\ MaxOps \in Nat /\ MaxFaults \in Nat

VARIABLES
  mode,       \* EnvoyMode of the instance, which never changes
  row,        \* the envoy_instances row
  file,       \* the pid in config_dir/envoy.pid, 0 without one
  handle,     \* _procs[inst.id].pid, 0 without one
  state,      \* [Pids -> state of the process]
  port,       \* [Pids -> the ports it was configured with]
  children,   \* the processes this api process is the parent of
  far,        \* a remote Envoy answers
  pc, op,     \* where a call is, and which operation it is
  seen,       \* the row as the call's session has it
  target,     \* the pid the call works on
  hand,       \* the call holds the Popen object of its target
  api,        \* the api process is up
  monitor,    \* the health loop has been started
  checking,   \* the health loop is waiting for a probe
  believed,   \* the row as its session loaded it
  fails,      \* _health_fail_count
  lock,       \* who holds _HEALTH_LEADER_KEY: nobody, us, our predecessor
  lost,       \* history: an Envoy slipped out of the records
  abandoned,  \* history: a start or an adoption ended in an exception and left
              \* the row as it was
  ops, faults \* how many calls and faults there have been

os     == <<state, port, children, far>>
records == <<row, file, handle>>
local  == <<pc, op, seen, target, hand>>
health == <<monitor, checking, believed, fails, lock>>
past   == <<lost, abandoned>>
vars   == <<mode, records, os, local, api, health, past, ops, faults>>

Pids     == 1..MaxPid
Statuses == {"stopped", "starting", "running", "error"}
Rows     == [exists : BOOLEAN, status : Statuses, pid : 0..MaxPid, port : Ports]
Ops      == {"start", "stop", "restart", "update", "delete"}
Dead     == {"none", "zombie", "gone"}

Running(p) == state[p] \notin Dead
_pid_alive(p) == p # 0 /\ state[p] \notin {"none", "gone"}
_port_in_use(q) == \E p \in Pids : state[p] = "serving" /\ port[p] = q

\* GET /ready: whichever process serves the admin port answers.
_probe_one(q) == IF mode = "local" THEN _port_in_use(q) ELSE far

\* The variables have the shape the code gives them, one process at most
\* serves, and a zombie is a child of this api process.
TypeOK ==
  /\ mode \in {"local", "remote"} /\ row \in Rows
  /\ file \in 0..MaxPid /\ handle \in 0..MaxPid
  /\ state \in [Pids -> Dead \union {"booting", "serving"}]
  /\ port \in [Pids -> Ports] /\ children \subseteq Pids /\ far \in BOOLEAN
  /\ pc \in [Calls -> {"idle", "stopWait", "ports", "spawn", "record", "ready",
                       "update", "delete"}]
  /\ op \in [Calls -> Ops] /\ seen \in [Calls -> Rows]
  /\ target \in [Calls -> 0..MaxPid] /\ hand \in [Calls -> BOOLEAN]
  /\ api \in BOOLEAN /\ monitor \in BOOLEAN /\ checking \in BOOLEAN
  /\ believed \in Rows
  /\ fails \in 0..Threshold /\ lock \in {"free", "mine", "old"}
  /\ lost \in BOOLEAN /\ abandoned \in BOOLEAN
  /\ ops \in 0..MaxOps /\ faults \in 0..MaxFaults
  /\ \A p, q \in Pids : state[p] = "serving" /\ state[q] = "serving" => p = q
  /\ \A p \in Pids : state[p] = "zombie" => p \in children
  /\ handle # 0 => handle \in children

NoRow == [exists |-> FALSE, status |-> "stopped", pid |-> 0,
          port |-> CHOOSE q \in Ports : TRUE]

\* create_instance has just returned.  A local row is stopped; a remote one
\* has been probed once.
create_instance ==
  /\ row.exists /\ row.pid = 0
  /\ \/ mode = "local" /\ far = FALSE /\ row.status = "stopped"
     \/ mode = "remote" /\ row.status = IF far THEN "running" ELSE "error"

Init ==
  /\ mode \in {"local", "remote"} /\ far \in BOOLEAN
  /\ row \in [exists : {TRUE}, status : Statuses, pid : {0}, port : {NoRow.port}]
  /\ create_instance
  /\ file = 0 /\ handle = 0
  /\ state = [p \in Pids |-> "none"] /\ port = [p \in Pids |-> NoRow.port]
  /\ children = {}
  /\ pc = [c \in Calls |-> "idle"] /\ op = [c \in Calls |-> "start"]
  /\ seen = [c \in Calls |-> NoRow] /\ target = [c \in Calls |-> 0]
  /\ hand = [c \in Calls |-> FALSE]
  /\ api = TRUE /\ monitor = TRUE /\ checking = FALSE /\ believed = NoRow
  /\ fails = 0 /\ lock = "free" /\ lost = FALSE /\ abandoned = FALSE
  /\ ops = 0 /\ faults = 0

Fault == faults < MaxFaults /\ faults' = faults + 1

\* A call moves on, or ends and leaves nothing behind.
Goto(c, where) == pc' = [pc EXCEPT ![c] = where]
End(c) ==
  /\ Goto(c, "idle")
  /\ seen' = [seen EXCEPT ![c] = NoRow] /\ target' = [target EXCEPT ![c] = 0]
  /\ hand' = [hand EXCEPT ![c] = FALSE] /\ op' = [op EXCEPT ![c] = "start"]

\* A commit writes the attributes the session changed.  It may fail, and the
\* UPDATE of a row that has been deleted does: the exception ends the call.
Flush(old, new) ==
  [f \in DOMAIN row |-> Flushed(row[f], old[f], new[f])]
Commit(c, new, where, saved) ==
  /\ IF saved THEN UNCHANGED faults ELSE Fault
  /\ IF saved /\ row.exists /\ where # "idle"
     THEN /\ row' = Flush(seen[c], new) /\ seen' = [seen EXCEPT ![c] = new]
          /\ Goto(c, where) /\ UNCHANGED <<op, hand>>
     ELSE /\ row' = IF saved /\ row.exists THEN Flush(seen[c], new) ELSE row
          /\ End(c)

\* The state of a process that dies: a zombie until its parent waits for it.
Corpse(p) == IF p \in children THEN "zombie" ELSE "gone"

(***************************************************************************)
(* stop.                                                                   *)
(***************************************************************************)

\* Popen first, then the row, then the pid file.
Named == IF row.pid # 0 THEN row.pid ELSE file
PidToStop == IF handle # 0 THEN handle ELSE Named

\* SIGTERM goes out; Envoy obeys, or hangs for longer than the five seconds.
Terminate(c, o, obeys) ==
  LET p == PidToStop
  IN /\ o \in {"stop", "restart"} /\ mode = "local"
     /\ obeys \/ (p # 0 /\ Running(p))
     /\ IF obeys THEN UNCHANGED faults ELSE Fault
     /\ state' = IF p # 0 /\ Running(p) /\ obeys
                 THEN [state EXCEPT ![p] = Corpse(p)] ELSE state
     /\ target' = [target EXCEPT ![c] = p]
     /\ hand' = [hand EXCEPT ![c] = handle # 0]
     /\ Goto(c, "stopWait")
     /\ UNCHANGED <<port, children, far>>

StopHopeful(c, there, kills, saved) ==
  /\ pc[c] = "stopWait" /\ ~there /\ kills
  /\ handle' = IF hand[c] THEN 0 ELSE handle
  /\ file' = 0
  /\ lost' = (lost \/ \E q \in Pids \ {target[c]} : Running(q))
  /\ target' = [target EXCEPT ![c] = 0]
  /\ Commit(c, [seen[c] EXCEPT !.status = "stopped", !.pid = 0],
            IF op[c] = "restart" THEN "ports" ELSE "idle", saved)
  /\ UNCHANGED <<mode, os, api, health, abandoned, ops>>

\* After the wait: a Popen that exited is reaped, one that did not is killed,
\* and nobody waits for it afterwards; a process known by its pid alone is
\* killed if it still exists.  The kill may fail.  `there' is what the last
\* _pid_alive sees: a process that is there keeps its row and its pid file,
\* but not its handle.
StopFinish(c, there, kills, saved) ==
  LET p    == target[c]
      hung == p # 0 /\ Running(p)
      done == [seen[c] EXCEPT !.status = "stopped", !.pid = 0]
  IN /\ pc[c] = "stopWait"
     /\ kills \/ hung
     /\ state' = IF p = 0 \/ ~kills THEN state
                 ELSE [state EXCEPT ![p] = IF hung THEN Corpse(p)
                                           ELSE IF hand[c] THEN "gone" ELSE @]
     /\ there = IF hung /\ kills /\ p \notin children THEN there
                ELSE p # 0 /\ state'[p] \notin {"none", "gone"}
     /\ handle' = IF hand[c] THEN 0 ELSE handle
     /\ IF there
        THEN /\ lost' = (lost \/ (hand[c] /\ \E q \in Pids :
                                     state'[q] \notin Dead /\ q # Named))
             /\ saved /\ End(c) /\ UNCHANGED <<row, file, faults>>
        ELSE /\ file' = 0
             /\ lost' = (lost \/ \E q \in Pids \ {p} : Running(q))
             /\ target' = [target EXCEPT ![c] = 0]
             /\ Commit(c, done, IF op[c] = "restart" THEN "ports" ELSE "idle", saved)
     /\ UNCHANGED <<mode, port, children, far, api, health, abandoned, ops>>

(***************************************************************************)
(* start.                                                                  *)
(***************************************************************************)

\* Ports that are taken are an error; else bootstrap.yaml is written and the
\* row says starting.
StartPorts(c, saved) ==
  LET taken == _port_in_use(seen[c].port)
  IN /\ pc[c] = "ports"
     /\ IF taken
        THEN Commit(c, [seen[c] EXCEPT !.status = "error"], "idle", saved)
        ELSE Commit(c, [seen[c] EXCEPT !.status = "starting"], "spawn", saved)
     /\ abandoned' = (abandoned /\ ~(saved /\ ~taken /\ row'.status = "starting"))
     /\ target' = [target EXCEPT ![c] = 0]
     /\ UNCHANGED <<mode, file, handle, os, api, health, lost, ops>>

\* The log directory cannot be made: nothing catches that exception.
StartRaises(c) ==
  /\ pc[c] = "spawn" /\ Fault
  /\ End(c)
  /\ abandoned' = TRUE
  /\ UNCHANGED <<mode, records, os, api, health, lost, ops>>

\* The binary may be missing.
SpawnFails(c, saved) ==
  /\ pc[c] = "spawn"
  /\ Commit(c, [seen[c] EXCEPT !.status = "error"], "idle", saved)
  /\ abandoned' = (abandoned \/ ~saved)
  /\ target' = [target EXCEPT ![c] = 0]
  /\ UNCHANGED <<mode, file, handle, os, api, health, lost, ops>>

SpawnDetached(c, p, written) ==
  /\ pc[c] = "spawn" /\ written
  /\ state[p] = "none" /\ \A q \in 1..(p - 1) : state[q] # "none"
  /\ state' = [state EXCEPT ![p] = "booting"]
  /\ port' = [port EXCEPT ![p] = seen[c].port]
  /\ handle' = p /\ file' = p
  /\ lost' = (lost \/ \E q \in Pids : Running(q))
  /\ target' = [target EXCEPT ![c] = p]
  /\ hand' = [hand EXCEPT ![c] = TRUE]
  /\ Goto(c, "record")
  /\ UNCHANGED <<mode, row, far, children, op, seen, api, health, abandoned, ops,
                 faults>>

\* Popen reaps the zombies whose Popen objects were dropped.  The handle and
\* the pid file are replaced; writing the file may fail, which is only logged.
Spawn(c, p, written) ==
  LET held    == {handle} \union {target[d] : d \in {d \in Calls : hand[d]}}
      dropped == {q \in Pids : state[q] = "zombie" /\ q \notin held}
  IN /\ pc[c] = "spawn"
     /\ state[p] = "none" /\ \A q \in 1..(p - 1) : state[q] # "none"
     /\ state' = [q \in Pids |-> IF q = p THEN "booting"
                                 ELSE IF q \in dropped THEN "gone" ELSE state[q]]
     /\ port' = [port EXCEPT ![p] = seen[c].port]
     /\ children' = (children \ dropped) \union {p}
     /\ handle' = p
     /\ file' = IF written THEN p ELSE file
     /\ lost' = (lost \/ \E q \in Pids : Running(q))
     /\ IF written THEN UNCHANGED faults ELSE Fault
     /\ target' = [target EXCEPT ![c] = p]
     /\ hand' = [hand EXCEPT ![c] = TRUE]
     /\ Goto(c, "record")
     /\ UNCHANGED <<mode, row, far, op, seen, api, health, abandoned, ops>>

\* The pid goes into the row.  When that fails the Envoy has its handle and
\* its pid file; when the row is gone, no stop asks for it any more.
RecordPid(c, saved) ==
  /\ pc[c] = "record"
  /\ Commit(c, [seen[c] EXCEPT !.pid = target[c]], "ready", saved)
  /\ abandoned' = (abandoned \/ ~saved)
  /\ lost' = (lost \/ \E q \in Pids :
                       Running(q) /\ (q # target[c] \/ ~row.exists))
  /\ target' = [target EXCEPT ![c] = IF saved /\ row.exists THEN @ ELSE 0]
  /\ UNCHANGED <<mode, file, handle, os, api, health, ops>>

\* _wait_ready: somebody answers on the admin port, or nobody did for ten
\* seconds and the process is told to go, which it may not obey.
StartReady(c, obeys, saved) ==
  LET p == target[c]
      ok == _port_in_use(seen[c].port)
  IN /\ pc[c] = "ready"
     /\ obeys \/ (~ok /\ Running(p))
     /\ Commit(c, [seen[c] EXCEPT !.status = IF ok THEN "running" ELSE "error"],
               "idle", saved)
     /\ abandoned' = (abandoned \/ ~saved)
     /\ state' = IF ok \/ ~obeys THEN state
                 ELSE [state EXCEPT ![p] = IF Running(p) THEN Corpse(p) ELSE "gone"]
     /\ target' = [target EXCEPT ![c] = 0]
     /\ UNCHANGED <<mode, file, handle, port, children, far, api, health, lost, ops>>

(***************************************************************************)
(* The other calls, and how a call begins.                                 *)
(***************************************************************************)

\* db.get loads the row; start returns at once for an instance that runs,
\* stop and restart signal, delete_instance refuses a local one that runs.
LoadInstance(c, o, obeys) ==
  /\ api /\ pc[c] = "idle" /\ row.exists
  /\ ops < MaxOps /\ ops' = ops + 1
  /\ op' = [op EXCEPT ![c] = o]
  /\ seen' = [seen EXCEPT ![c] = row]
  /\ \/ Terminate(c, o, obeys)
     \/ /\ obeys
        /\ \/ /\ o = "start" /\ mode = "local"
              /\ ~(row.status = "running" /\ _pid_alive(row.pid))
              /\ Goto(c, "ports")
           \/ /\ o = "update"
              /\ mode = "local" => row.status # "running"
              /\ Goto(c, "update")
           \/ /\ o = "delete"
              /\ mode = "local" => row.status # "running"
              /\ Goto(c, "delete")
        /\ UNCHANGED <<target, hand, os, faults>>
  /\ UNCHANGED <<mode, records, api, health, past>>

\* update_instance: a local instance moves to free ports; a remote one is
\* probed at its new address.
update_instance(c, q, saved) ==
  /\ pc[c] = "update" /\ q # seen[c].port
  /\ IF mode = "local" /\ _port_in_use(q)
     THEN saved /\ End(c) /\ UNCHANGED <<row, faults>>
     ELSE Commit(c, [seen[c] EXCEPT !.port = q, !.status =
                       IF mode = "local" THEN @
                       ELSE IF far THEN "running" ELSE "error"], "idle", saved)
  /\ target' = [target EXCEPT ![c] = 0]
  /\ UNCHANGED <<mode, file, handle, os, api, health, past, ops>>

\* The row goes, and with it the directory that holds the pid file.
delete_instance(c) ==
  /\ pc[c] = "delete"
  /\ row' = [row EXCEPT !.exists = FALSE]
  /\ file' = IF mode = "local" THEN 0 ELSE file
  /\ lost' = (lost \/ \E p \in Pids : Running(p))
  /\ End(c)
  /\ UNCHANGED <<mode, handle, os, api, health, abandoned, ops, faults>>

(***************************************************************************)
(* Envoy.                                                                  *)
(***************************************************************************)

\* Envoy binds its ports, unless another one has them, or has its base id.
Boot(p) ==
  /\ state[p] = "booting"
  /\ state' = [state EXCEPT ![p] =
                 IF \E q \in Pids : state[q] = "serving" THEN Corpse(p) ELSE "serving"]
  /\ UNCHANGED <<mode, records, port, children, far, local, api,
                 health, past, ops, faults>>

EnvoyDies(p) ==
  /\ Running(p) /\ Fault
  /\ state' = [state EXCEPT ![p] = Corpse(p)]
  /\ UNCHANGED <<mode, records, port, children, far, local, api,
                 health, past, ops>>

\* A remote Envoy, or the way to it, comes or goes.
FarChanges ==
  /\ mode = "remote" /\ Fault
  /\ far' = ~far
  /\ UNCHANGED <<mode, records, state, port, children, local, api,
                 health, past, ops>>

(***************************************************************************)
(* The api process: its health monitor, its death and its start-up.        *)
(***************************************************************************)

\* _acquire_leader_lock, then the rows that are running or in error.
HealthLoad ==
  /\ api /\ monitor /\ ~checking /\ lock # "old"
  /\ row.exists /\ row.status \in {"running", "error"}
  /\ lock' = "mine"
  /\ believed' = row /\ checking' = TRUE
  /\ UNCHANGED <<mode, records, os, local, api, monitor, fails, past, ops, faults>>

NeverGivesUp ==
  LET ok == _probe_one(believed.port)
  IN /\ checking /\ checking' = FALSE /\ believed' = NoRow
     /\ fails' = 0
     /\ row' = IF ok /\ row.exists
               THEN Flush(believed, [believed EXCEPT !.status = "running"]) ELSE row
     /\ UNCHANGED <<mode, file, handle, os, local, api, monitor, lock, past, ops,
                    faults>>

\* The probe answers: a success clears the count and an error, the failure
\* that reaches the threshold sets it.
HealthProbe ==
  LET ok == _probe_one(believed.port)
      n  == IF ok THEN 0 ELSE IF fails < Threshold THEN fails + 1 ELSE fails
      status == IF ok THEN "running"
                ELSE IF n >= Threshold THEN "error" ELSE believed.status
  IN /\ checking /\ checking' = FALSE /\ believed' = NoRow
     /\ fails' = n
     /\ row' = IF row.exists THEN Flush(believed, [believed EXCEPT !.status = status])
               ELSE row
     /\ UNCHANGED <<mode, file, handle, os, local, api, monitor, lock, past, ops,
                    faults>>

\* The lock of a predecessor runs out.
LockExpires ==
  /\ lock = "old" /\ lock' = "free"
  /\ UNCHANGED <<mode, records, os, local, api, monitor, checking, believed,
                 fails, past, ops, faults>>

\* Start-up asks the pid file first, then the row.
PidToAdopt == IF file # 0 THEN file ELSE row.pid

\* The api process dies.  Its calls and handles are gone; Envoys live on.
ApiDies ==
  /\ api /\ Fault /\ api' = FALSE
  /\ handle' = 0 /\ children' = {}
  /\ state' = [p \in Pids |-> IF state[p] = "zombie" THEN "gone" ELSE state[p]]
  /\ pc' = [c \in Calls |-> "idle"] /\ op' = [c \in Calls |-> "start"]
  /\ seen' = [c \in Calls |-> NoRow] /\ target' = [c \in Calls |-> 0]
  /\ hand' = [c \in Calls |-> FALSE]
  /\ monitor' = FALSE /\ checking' = FALSE /\ believed' = NoRow /\ fails' = 0
  /\ lock' = IF lock = "mine" THEN "old" ELSE lock
  /\ lost' = (lost \/ \E p \in Pids : Running(p) /\ (~row.exists \/ p # PidToAdopt))
  /\ UNCHANGED <<mode, row, file, port, far, abandoned, ops>>

AdoptOnlyRunning(kills, fate) ==
  LET pid    == PidToAdopt
      ready  == _pid_alive(pid) /\ _port_in_use(row.port)
      adopts == ready /\ row.status = "running"
  IN /\ ~api /\ api' = TRUE /\ monitor' = TRUE /\ fate = "done" /\ kills
     /\ row' = IF adopts \/ mode = "remote" THEN row
               ELSE [row EXCEPT !.pid = 0, !.status = "stopped"]
     /\ file' = IF adopts THEN file ELSE 0
     /\ lost' = (lost \/ (_pid_alive(pid) /\ ~ready))
     /\ abandoned' = FALSE
     /\ UNCHANGED <<mode, handle, os, local, checking, believed, fails, lock, ops,
                    faults>>

ResetOnlyRunning(kills, fate) ==
  /\ ~api /\ api' = TRUE /\ monitor' = TRUE /\ fate = "done" /\ kills
  /\ row' = IF row.status = "running" /\ ~_port_in_use(row.port)
            THEN [row EXCEPT !.pid = 0, !.status = "stopped"] ELSE row
  /\ abandoned' = FALSE
  /\ UNCHANGED <<mode, file, handle, os, local, checking, believed, fails, lock,
                 lost, ops, faults>>

\* It starts again: the process that the pid file or the row names is adopted
\* if it answers, killed if the row says stopped, and otherwise forgotten,
\* even when it is alive and only not ready yet.  The kill may fail, which is
\* only logged.  The SELECT ("early") or the commit ("late") may fail too:
\* then the api process goes on with the row as it was, without its monitor.
adopt_orphans(kills, fate) ==
  LET pid    == PidToAdopt
      alive  == _pid_alive(pid)
      orphan == row.status = "stopped" /\ alive
      adopts == alive /\ _port_in_use(row.port) /\ ~orphan
      sees   == fate # "early" /\ row.exists /\ mode = "local"
  IN /\ ~api /\ api' = TRUE
     /\ kills \/ (sees /\ orphan)
     /\ IF fate = "done" THEN UNCHANGED faults ELSE Fault
     /\ monitor' = (fate = "done") /\ abandoned' = (fate # "done")
     /\ row' = IF ~sees \/ fate = "late" THEN row
               ELSE IF adopts THEN [row EXCEPT !.pid = pid, !.status = "running"]
               ELSE [row EXCEPT !.pid = 0, !.status = "stopped"]
     /\ file' = IF sees /\ ~adopts THEN 0 ELSE file
     /\ state' = IF sees /\ orphan /\ kills
                 THEN [state EXCEPT ![pid] = "gone"] ELSE state
     /\ lost' = (lost \/ \E p \in Pids :
                    state'[p] \notin Dead /\ ~(fate = "done" /\ adopts /\ p = pid))
     /\ UNCHANGED <<mode, handle, port, children, far, local, checking, believed,
                    fails, lock, ops>>

Adopts == \E kills \in BOOLEAN, fate \in {"done", "early", "late"} :
            adopt_orphans(kills, fate)

Next ==
  \/ \E c \in Calls :
       \/ \E o \in Ops, obeys \in BOOLEAN : LoadInstance(c, o, obeys)
       \/ \E there, kills, saved \in BOOLEAN : StopFinish(c, there, kills, saved)
       \/ \E saved \in BOOLEAN :
            \/ StartPorts(c, saved) \/ SpawnFails(c, saved) \/ RecordPid(c, saved)
            \/ \E obeys \in BOOLEAN : StartReady(c, obeys, saved)
            \/ \E q \in Ports : update_instance(c, q, saved)
       \/ \E p \in Pids, written \in BOOLEAN : Spawn(c, p, written)
       \/ StartRaises(c) \/ delete_instance(c)
  \/ \E p \in Pids : Boot(p) \/ EnvoyDies(p)
  \/ FarChanges
  \/ HealthLoad \/ HealthProbe \/ LockExpires
  \/ ApiDies \/ Adopts

\* The health loop runs for as long as the api process does, a supervisor
\* restarts that, and a lock with a TTL expires.
Spec == /\ Init /\ [][Next]_vars
        /\ WF_vars(HealthLoad) /\ WF_vars(HealthProbe) /\ WF_vars(LockExpires)
        /\ WF_vars(Adopts)

(***************************************************************************)
(* Properties.                                                             *)
(***************************************************************************)

\* Every Envoy that runs is the one the next stop of its instance finds, by
\* the handle, the row or the pid file in that order, or, while the api process
\* is down, the one its start-up will find; without a row, which a stop needs,
\* it is in the hands of the start that spawned it.  The exceptions are the
\* events that set `lost': a start or a stop while a second Envoy runs, a
\* delete while one runs or is being started, a stop that drops the handle of
\* an Envoy it could not kill before the pid is on record, an adoption that
\* fails, finds it not ready or cannot kill it, and a crash before the pid is
\* where start-up looks.
Tracked ==
  \A p \in Pids : Running(p) /\ ~lost =>
    IF api
    THEN /\ p = PidToStop
         /\ row.exists \/ \E c \in Calls : pc[c] = "record" /\ target[c] = p
    ELSE row.exists /\ p = PidToAdopt

\* "Without this, the prior envoy keeps serving :listen_port while the UI says
\* stopped": with those exceptions, a row that says stopped, when no call is
\* under way, has no Envoy running, after failed stops, crashes and adoptions.
\* One more exception: a start that ended in an exception after its Envoy was
\* spawned, when an overlapping stop had written stopped before.
StoppedIsQuiet ==
  api /\ ~lost /\ ~abandoned /\ row.exists /\ row.status = "stopped"
    /\ (\A c \in Calls : pc[c] = "idle")
  => \A p \in Pids : ~Running(p)

\* "starting" is left behind only by an exception: a start that finds no binary,
\* times out, overlaps other calls or dies with the api process leaves some
\* other status.  What nothing catches is a log directory that cannot be made,
\* a failing commit and a failing adoption; until the next start takes the row
\* up again it then says starting, and the health loop does not look at it.
StartingIsBusy ==
  row.exists /\ row.status = "starting" =>
    ~api \/ abandoned \/ \E c \in Calls : pc[c] \in {"spawn", "record", "ready"}

\* The health monitor brings the status back to the truth: a row does not stay
\* running while nobody answers, nor in error while Envoy does, unless the
\* start-up failed before it came to the monitor.
Mismatch ==
  row.exists /\ \/ row.status = "running" /\ ~_probe_one(row.port)
                \/ row.status = "error" /\ _probe_one(row.port)
StatusCatchesUp == Mismatch ~> (~Mismatch \/ ~monitor)
=============================================================================
