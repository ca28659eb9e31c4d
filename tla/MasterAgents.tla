---------------------------- MODULE MasterAgents ----------------------------
(***************************************************************************)
(* The master server's table of agents and its files, and the clients that *)
(* fill it: the heartbeats of PdbMasterClient, the register and delete     *)
(* endpoints, and _save_db, which the monitor, the handlers of exit        *)
(* heartbeats and stop() run without a lock in common.                     *)
(*                                                                         *)
(* A connection of an agent to the master is a client instance with one    *)
(* thread; connecting again makes a new instance.  A request may be lost,  *)
(* or its sender may give up while the server goes on with it.  Of the     *)
(* three files _save_db writes the same way only agents.json is followed.  *)
(***************************************************************************)
EXTENDS Naturals, FiniteSets

CONSTANTS
  Agents,     \* the agents followed
  Requests,   \* requests under way at a time
  Monitor, Main, \* the threads of the server, beside those of the requests
  MaxClients, \* bound: connections made by an agent
  MaxEvents   \* bound: requests whose sender gives up, stops, crashes and new
              \* access keys of the server

Savers == {Monitor, Main} \cup Requests
ASSUME SaversAssumption == Monitor # Main /\ {Monitor, Main} \cap Requests = {}
ASSUME BoundsAssumption == MaxClients \in Nat \ {0} /\ MaxEvents \in Nat

VARIABLES
  client,   \* by agent and instance: flags, and the heartbeat thread
  made,     \* by agent: instances made; the last one is the one in use
  listed,   \* the last instance is in _master_clients
  exiting,  \* the agent is in send_exit_heartbeat
  req,      \* the requests under way
  server,   \* "up", "stopping" or "down"
  table,    \* _agents: "none", "alive" or "exit" (client_exit)
  removed,  \* _removed
  dirty,    \* _dirty
  deleting, \* deletes between the lock and the set of removed agents
  save,     \* by thread: where its _save_db is, and what it has read
  disk,     \* agents.json
  events,
  acked,    \* history: the master has acknowledged an exit
  crossed,  \* history: a forced heartbeat was under way when exit was sent, or
            \* the agent was deleted since
  raced,    \* history: a register or a save was half-way when a delete ended
  overlapped \* history: two saves were under way at a time

clientVars == <<client, made, listed, exiting>>
files == <<save, disk, overlapped>>
vars == <<clientVars, req, server, table, removed, dirty, deleting, files,
          events, acked, crossed, raced>>

Instances == 1 .. MaxClients
Nobody == MaxClients + 1    \* has given up on the request
ExitSender == 0             \* the main thread of the agent
Client ==
  [running : BOOLEAN, kicked : BOOLEAN, denied : BOOLEAN, stop : BOOLEAN,
   keyed : BOOLEAN, connected : BOOLEAN,
   pc : {"top", "wait", "end"}]
NoClient ==
  [running |-> FALSE, kicked |-> FALSE, denied |-> FALSE, stop |-> TRUE,
   keyed |-> TRUE, connected |-> FALSE, pc |-> "end"]

Idle == [pc |-> "idle"]
Request ==
  {Idle} \cup
  [pc : {"sent", "checked", "saving", "broken"}, agent : Agents,
   kind : {"beat", "force", "exit"}, keyed : BOOLEAN,
   by : {ExitSender, Nobody} \cup Instances]

Entry == {"none", "alive", "exit"}
Snapshot == [table : [Agents -> Entry], removed : SUBSET Agents]
Nothing == [table |-> [a \in Agents |-> "none"], removed |-> {}]
File == [kind : {"missing", "partial", "data"}, data : Snapshot]
Missing == [kind |-> "missing", data |-> Nothing]
Partial == [kind |-> "partial", data |-> Nothing]    \* cannot be parsed
Holding(data) == [kind |-> "data", data |-> data]
NoSave == [pc |-> "idle", data |-> Nothing]

TypeOK ==
  /\ client \in [Agents -> [Instances -> Client]]
  /\ made \in [Agents -> 0 .. MaxClients]
  /\ listed \in [Agents -> BOOLEAN] /\ exiting \in [Agents -> BOOLEAN]
  /\ req \in [Requests -> Request]
  /\ server \in {"up", "stopping", "down"}
  /\ table \in [Agents -> Entry]
  /\ removed \subseteq Agents /\ deleting \subseteq Agents
  /\ dirty \in BOOLEAN
  /\ save \in [Savers -> [pc : {"idle", "snap", "put", "clear"},
                          data : Snapshot]]
  /\ disk \in File
  /\ events \in 0 .. MaxEvents
  /\ acked \in [Agents -> BOOLEAN] /\ crossed \in [Agents -> BOOLEAN]
  /\ raced \subseteq Agents
  /\ overlapped \in BOOLEAN

Init ==
  /\ client = [a \in Agents |-> [i \in Instances |-> NoClient]]
  /\ made = [a \in Agents |-> 0]
  /\ listed = [a \in Agents |-> FALSE] /\ exiting = [a \in Agents |-> FALSE]
  /\ req = [r \in Requests |-> Idle]
  /\ server = "up"
  /\ table = Nothing.table
  /\ removed = {} /\ deleting = {}
  /\ dirty = FALSE
  /\ save = [s \in Savers |-> NoSave]
  /\ disk = Missing
  /\ events = 0
  /\ acked = [a \in Agents |-> FALSE] /\ crossed = [a \in Agents |-> FALSE]
  /\ raced = {}
  /\ overlapped = FALSE

----------------------------------------------------------------------------
(* The client. *)

ServerVars == <<server, table, removed, dirty, deleting, files>>

Event == events < MaxEvents /\ events' = events + 1

IsRunning(c) == c.running /\ c.pc # "end"

\* connect_master_to: a new instance, whose thread is started
Connect(a) ==
  /\ made[a] < MaxClients
  /\ ~exiting[a]
  /\ listed[a] => ~IsRunning(client[a][made[a]])
  /\ made' = [made EXCEPT ![a] = @ + 1]
  /\ listed' = [listed EXCEPT ![a] = TRUE]
  /\ client' = [client EXCEPT ![a][made[a] + 1] =
                  [NoClient EXCEPT !.running = TRUE, !.stop = FALSE,
                                   !.pc = "top"]]
  /\ acked' = [acked EXCEPT ![a] = FALSE]
  /\ crossed' = [crossed EXCEPT ![a] = FALSE]
  /\ UNCHANGED <<exiting, req, ServerVars, events, raced>>

Stopped(c) == [c EXCEPT !.stop = TRUE, !.running = FALSE]

\* connect_master_close
Close(a) ==
  /\ listed[a] /\ ~exiting[a]
  /\ client[a][made[a]].running
  /\ client' = [client EXCEPT ![a][made[a]] = Stopped(@)]
  /\ listed' = [listed EXCEPT ![a] = FALSE]
  /\ UNCHANGED <<made, exiting, req, ServerVars, events, acked, crossed,
                 raced>>

\* the test of the stop event, at the top of the loop and after each wait
LoopEnds(a, i) ==
  /\ client[a][i].pc = "top" /\ client[a][i].stop
  /\ client' = [client EXCEPT ![a][i].pc = "end"]
  /\ UNCHANGED <<made, listed, exiting, req, ServerVars, events, acked,
                 crossed, raced>>

\* _force_next, which only the first heartbeat clears, adds nothing
Forced(c) == ~c.connected

Post(r, a, kind, by) ==
  /\ req[r] = Idle
  /\ req' = [req EXCEPT ![r] =
               [pc |-> "sent", agent |-> a, kind |-> kind, by |-> by,
                keyed |-> client[a][IF by = ExitSender THEN made[a] ELSE by]
                            .keyed]]

\* the payload is built and posted; it may reach the server much later
SendBeat(a, i, r) ==
  LET c == client[a][i]
  IN  /\ c.pc = "top" /\ ~c.stop
      /\ Post(r, a, IF Forced(c) THEN "force" ELSE "beat", i)
      /\ client' = [client EXCEPT ![a][i].pc = "wait"]
      /\ UNCHANGED <<made, listed, exiting, ServerVars, events, acked,
                     crossed, raced>>

\* what a reply does to the flags of the instance
Answered(c, reply) ==
  [c EXCEPT !.kicked = @ \/ reply = "removed",
            !.denied = @ \/ reply = "denied",
            !.running = @ /\ reply \notin {"removed", "denied"}]

ThreadAnswered(c, reply) ==
  [Answered(c, reply) EXCEPT
     !.connected = reply = "ok",
     !.pc = IF reply \in {"removed", "denied"} THEN "end" ELSE "top"]

\* the main thread: the answer, then stop(), and the instance is forgotten
ExitAnswered(c, reply) == Stopped(Answered(c, reply))

Deliver(a, by, reply) ==
  IF by = ExitSender
  THEN /\ client' = [client EXCEPT ![a][made[a]] = ExitAnswered(@, reply)]
       /\ exiting' = [exiting EXCEPT ![a] = FALSE]
       /\ listed' = [listed EXCEPT ![a] = FALSE]
  ELSE /\ client' = [client EXCEPT ![a][by] = ThreadAnswered(@, reply)]
       /\ UNCHANGED <<exiting, listed>>

\* the request ends with a reply, if its sender still waits for one
Reply(r, reply) ==
  /\ req' = [req EXCEPT ![r] = Idle]
  /\ IF req[r].by = Nobody THEN UNCHANGED <<client, exiting, listed>>
     ELSE Deliver(req[r].agent, req[r].by, reply)

\* the server does not listen any more, or is gone: an exception
Broken(r) ==
  /\ \/ req[r].pc = "broken"
     \/ server # "up" /\ req[r].pc = "sent"
  /\ Reply(r, "error")
  /\ UNCHANGED <<made, ServerVars, events, acked, crossed, raced>>

\* The request or its answer is lost, or late: the sender gets an exception.
GiveUp(r) ==
  /\ req[r].pc \in {"sent", "checked", "saving"} /\ req[r].by # Nobody
  /\ Event
  /\ Deliver(req[r].agent, req[r].by, "error")
  /\ \/ req[r].pc = "sent" /\ req' = [req EXCEPT ![r] = Idle]
     \/ req' = [req EXCEPT ![r].by = Nobody]
  /\ UNCHANGED <<made, ServerVars, acked, crossed, raced>>

\* a forced heartbeat of the agent has passed the test of the stop event
ForceUnderWay(a) ==
  \E r \in Requests : /\ req[r].pc \in {"sent", "checked"}
                      /\ req[r].agent = a
                      /\ req[r].kind = "force"

\* mutant: the stop event is set when the exit heartbeat has been answered
SendExitLate(a, r) ==
  /\ listed[a] /\ ~exiting[a]
  /\ Post(r, a, "exit", ExitSender)
  /\ exiting' = [exiting EXCEPT ![a] = TRUE]
  /\ crossed' = [crossed EXCEPT ![a] = ForceUnderWay(a) \/ a \in deleting]
  /\ UNCHANGED <<client, made, listed, ServerVars, events, acked, raced>>

\* quit: send_exit_heartbeat
SendExit(a, r) ==
  /\ listed[a] /\ ~exiting[a]
  /\ client' = [client EXCEPT ![a][made[a]].stop = TRUE]
  /\ Post(r, a, "exit", ExitSender)
  /\ exiting' = [exiting EXCEPT ![a] = TRUE]
  /\ crossed' = [crossed EXCEPT ![a] = ForceUnderWay(a) \/ a \in deleting]
  /\ UNCHANGED <<made, listed, ServerVars, events, acked, raced>>

----------------------------------------------------------------------------
(* The register endpoint. *)

\* mutant: a removed agent is recorded like another
CheckAll(r) ==
  /\ server = "up" /\ req[r].pc = "sent" /\ req[r].keyed
  /\ req' = [req EXCEPT ![r].pc = "checked"]
  /\ UNCHANGED <<clientVars, ServerVars, events, acked, crossed, raced>>

\* the access key, and whether the agent has been removed: without a lock
Check(r) ==
  LET a == req[r].agent
      keyed == req[r].keyed
  IN  /\ server = "up" /\ req[r].pc = "sent"
      /\ \/ ~keyed /\ Reply(r, "denied") /\ UNCHANGED removed
         \/ /\ keyed /\ a \in removed /\ req[r].kind # "force"
            /\ Reply(r, "removed") /\ UNCHANGED removed
         \/ /\ keyed /\ (a \in removed => req[r].kind = "force")
            /\ req' = [req EXCEPT ![r].pc = "checked"]
            /\ removed' = removed \ {a}
            /\ UNCHANGED <<client, exiting, listed>>
      /\ UNCHANGED <<made, server, table, dirty, deleting, files, events,
                     acked, crossed, raced>>

\* client_exit of the record: true with an exit heartbeat, false with a
\* forced one, else kept
Recorded(kind, entry) ==
  CASE kind = "exit" -> "exit"
    [] kind = "force" -> "alive"
    [] OTHER -> IF entry = "exit" THEN "exit" ELSE "alive"

\* mutant: an exit waits for the monitor to save it
UpdateLater(r) ==
  /\ req[r].pc = "checked"
  /\ table' = [table EXCEPT ![req[r].agent] = Recorded(req[r].kind, @)]
  /\ dirty' = TRUE
  /\ IF req[r].kind = "exit"
     THEN /\ req' = [req EXCEPT ![r].pc = "saving"]
          /\ UNCHANGED <<client, exiting, listed>>
     ELSE Reply(r, "ok")
  /\ UNCHANGED <<made, server, removed, deleting, files, events, acked,
                 crossed, raced>>

\* the record under the lock, and the dirty mark; an exit is saved at once
Update(r) ==
  LET a == req[r].agent
      exits == req[r].kind = "exit"
  IN  /\ req[r].pc = "checked"
      /\ table' = [table EXCEPT ![a] = Recorded(req[r].kind, @)]
      /\ dirty' = TRUE
      /\ IF exits
         THEN /\ req' = [req EXCEPT ![r].pc = "saving"]
              /\ save' = [save EXCEPT ![r].pc = "snap"]
              /\ overlapped' = (overlapped \/ \E s \in Savers :
                                                save[s].pc # "idle")
              /\ UNCHANGED <<client, exiting, listed>>
         ELSE Reply(r, "ok") /\ UNCHANGED <<save, overlapped>>
      /\ UNCHANGED <<made, server, removed, deleting, disk,
                     events, acked, crossed, raced>>

\* the exit has been saved, or the save has failed
Saved(r) ==
  /\ req[r].pc = "saving" /\ save[r].pc = "idle"
  /\ Reply(r, "ok")
  /\ acked' = [acked EXCEPT ![req[r].agent] = @ \/ req[r].by # Nobody]
  /\ UNCHANGED <<made, server, table, removed, dirty, deleting, files,
                 events, crossed, raced>>

----------------------------------------------------------------------------
(* The delete endpoint. *)

\* a request has passed its check and not inserted its record, or a save has
\* copied the table and not the removed agents
HalfWay(a) ==
  \/ \E r \in Requests : req[r].pc = "checked" /\ req[r].agent = a
  \/ \E s \in Savers : save[s].pc = "put" /\ save[s].data.table[a] # "none"

\* under the lock of the agents
Delete(a) ==
  /\ server = "up" /\ table[a] # "none" /\ a \notin deleting
  /\ Event
  /\ table' = [table EXCEPT ![a] = "none"]
  /\ deleting' = deleting \cup {a}
  /\ crossed' = [crossed EXCEPT ![a] = TRUE]
  /\ UNCHANGED <<clientVars, req, server, removed, dirty, files, acked,
                 raced>>

\* after the lock: block_rejoin or not
Deleted(a, block) ==
  /\ a \in deleting
  /\ deleting' = deleting \ {a}
  /\ removed' = IF block THEN removed \cup {a} ELSE removed \ {a}
  /\ dirty' = TRUE
  /\ raced' = raced \cup IF HalfWay(a) \/ table[a] # "none" THEN {a} ELSE {}
  /\ UNCHANGED <<clientVars, req, server, table, files, events, acked,
                 crossed>>

----------------------------------------------------------------------------
(* _save_db. *)

BeginSave(s) ==
  /\ save' = [save EXCEPT ![s].pc = "snap"]
  /\ overlapped' = (overlapped \/ \E t \in Savers : save[t].pc # "idle")
  /\ UNCHANGED disk

\* the monitor, at most every PERIODIC_SAVE_INTERVAL
MonitorSave ==
  /\ server = "up" /\ dirty /\ save[Monitor].pc = "idle"
  /\ BeginSave(Monitor)
  /\ UNCHANGED <<clientVars, req, server, table, removed, dirty, deleting,
                 events, acked, crossed, raced>>

SaveFrame ==
  UNCHANGED <<clientVars, req, server, table, removed, deleting, events,
              acked, crossed, raced, overlapped>>

\* the copy of the table, under its lock
TakeSnapshot(s) ==
  /\ save[s].pc = "snap"
  /\ save' = [save EXCEPT ![s].pc = "put", ![s].data.table = table]
  /\ UNCHANGED <<disk, dirty>> /\ SaveFrame

\* mutant: the file is written in its place
PutFileInPlace(s) ==
  LET data == [save[s].data EXCEPT !.removed = removed]
  IN  /\ save[s].pc = "put"
      /\ \/ disk' = Partial /\ UNCHANGED save
         \/ /\ disk = Partial /\ disk' = Holding(data)
            /\ save' = [save EXCEPT ![s] = [NoSave EXCEPT !.pc = "clear"]]
      /\ UNCHANGED dirty /\ SaveFrame

\* mutant: the removed agents are not written
PutFileTable(s) ==
  /\ save[s].pc = "put"
  /\ disk' = Holding(save[s].data)
  /\ save' = [save EXCEPT ![s] = [NoSave EXCEPT !.pc = "clear"]]
  /\ UNCHANGED dirty /\ SaveFrame

\* The copy of the removed agents, without a lock; agents.json.tmp is written
\* and takes the place of agents.json.  Another thread that is about to do the
\* same with the same temporary file may leave a mixture in it, or move it
\* away, which ends this save with an exception.
PutFile(s) ==
  LET data == [save[s].data EXCEPT !.removed = removed]
      met == \E t \in Savers \ {s} : save[t].pc = "put"
  IN  /\ save[s].pc = "put"
      /\ \/ /\ disk' \in {Holding(data)} \cup IF met THEN {Partial} ELSE {}
            /\ save' = [save EXCEPT ![s] = [NoSave EXCEPT !.pc = "clear"]]
         \/ met /\ save' = [save EXCEPT ![s] = NoSave] /\ UNCHANGED disk
      /\ UNCHANGED dirty /\ SaveFrame

ClearDirty(s) ==
  /\ save[s].pc = "clear"
  /\ dirty' = FALSE
  /\ save' = [save EXCEPT ![s] = NoSave]
  /\ UNCHANGED disk /\ SaveFrame

SaveStep(s) ==
  \/ TakeSnapshot(s) \/ PutFile(s) \/ ClearDirty(s)

\* heartbeats of other agents, launches of tasks: _mark_dirty
OthersMark ==
  /\ server = "up" /\ dirty' = TRUE
  /\ UNCHANGED <<clientVars, req, server, table, removed, deleting, files,
                 events, acked, crossed, raced>>

----------------------------------------------------------------------------
(* Stop, crash and restart of the server. *)

\* stop(): requests under way are still answered, and the monitor is not
\* waited for.  Bound: no other event before it or after it.
Stop ==
  /\ server = "up" /\ events = 0 /\ MaxEvents > 0 /\ events' = MaxEvents
  /\ server' = "stopping"
  /\ IF dirty THEN BeginSave(Main) ELSE UNCHANGED files
  /\ UNCHANGED <<clientVars, req, table, removed, dirty, deleting, acked,
                 crossed, raced>>

\* The process is gone: what was under way ends where it is.
Gone ==
  /\ server' = "down"
  /\ table' = Nothing.table /\ removed' = {} /\ deleting' = {}
  /\ dirty' = FALSE
  /\ save' = [s \in Savers |-> NoSave]
  /\ req' = [r \in Requests |->
               IF req[r] = Idle THEN Idle ELSE [req[r] EXCEPT !.pc = "broken"]]
  /\ UNCHANGED <<clientVars, disk, overlapped, acked, crossed, raced>>

Exit ==
  /\ server = "stopping" /\ save[Main].pc = "idle"
  /\ Gone /\ UNCHANGED events

Crash ==
  /\ server = "up" /\ Event
  /\ Gone

\* _load_db; the access key may be another one
Restart ==
  /\ server = "down"
  /\ server' = "up"
  /\ table' = disk.data.table /\ removed' = disk.data.removed
  /\ \/ UNCHANGED <<client, events>>
     \/ /\ Event
        /\ client' = [a \in Agents |-> [i \in Instances |->
                        [client[a][i] EXCEPT !.keyed = FALSE]]]
  /\ UNCHANGED <<made, listed, exiting, req, dirty, deleting, files, acked,
                 crossed, raced>>

----------------------------------------------------------------------------

ClientStep(a) ==
  \E i \in Instances : \/ LoopEnds(a, i)
                       \/ \E r \in Requests : SendBeat(a, i, r)
RequestStep(r) == Check(r) \/ Update(r) \/ Saved(r) \/ Broken(r)

Next ==
  \/ \E a \in Agents :
       \/ Connect(a) \/ Close(a) \/ ClientStep(a) \/ Delete(a)
       \/ \E r \in Requests : SendExit(a, r)
       \/ \E block \in BOOLEAN : Deleted(a, block)
  \/ \E r \in Requests : RequestStep(r) \/ GiveUp(r)
  \/ MonitorSave \/ OthersMark
  \/ \E s \in Savers : SaveStep(s)
  \/ Stop \/ Exit \/ Crash \/ Restart

\* Threads run, requests are handled, another agent stays connected.
Fairness ==
  /\ \A a \in Agents :
       /\ WF_vars(ClientStep(a))
       /\ WF_vars(\E block \in BOOLEAN : Deleted(a, block))
  /\ \A r \in Requests : WF_vars(RequestStep(r) \/ SaveStep(r))
  /\ WF_vars(MonitorSave \/ SaveStep(Monitor)) /\ WF_vars(SaveStep(Main))
  /\ WF_vars(OthersMark)

Spec == Init /\ [][Next]_vars
LiveSpec == Spec /\ Fairness

----------------------------------------------------------------------------
(* Properties. *)

\* Every variable has its type, and an agent whose exit the master has
\* acknowledged is not shown as alive again, nor does a crash bring it back,
\* unless a forced heartbeat was under way when the exit was sent, the agent
\* was deleted, or the files were written by two threads at a time.
ExitSticks ==
  /\ TypeOK
  /\ \A a \in Agents :
       acked[a] /\ ~crossed[a] /\ ~overlapped =>
         /\ table[a] # "alive"
         /\ disk.kind = "data" /\ disk.data.table[a] # "alive"

\* A file that cannot be read, and loses every agent at the next start, is
\* left by two saves at a time only.
FileReadable == overlapped \/ disk # Partial

\* A removed agent is in the table only when its delete met a register or a
\* save half-way.
RemovedApart == \A a \in removed \ raced : table[a] = "none"

\* While the server stays up and another agent keeps it busy, a removal
\* reaches the file: a mark that a save clears too early is set again.
RemovalSaved ==
  \A a \in Agents :
    a \in removed ~> \/ a \notin removed
                     \/ a \in disk.data.removed
                     \/ server # "up"

\* A server that stays up tells a removed agent so, unless it comes back by
\* force or has left.
RemovedIsTold ==
  \A a \in Agents :
    a \in removed ~> \/ a \notin removed
                     \/ made[a] > 0 /\ client[a][made[a]].kicked
                     \/ \A i \in Instances : client[a][i].pc = "end"
                     \/ server # "up"
=============================================================================
