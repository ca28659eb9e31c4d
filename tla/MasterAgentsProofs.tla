------------------------- MODULE MasterAgentsProofs -------------------------
(***************************************************************************)
(* Theorems about MasterAgents for any agents, requests and bounds.        *)
(***************************************************************************)
EXTENDS MasterAgents, TLAPS

USE SaversAssumption, BoundsAssumption
USE DEF Savers, Instances, Nobody, ExitSender

----------------------------------------------------------------------------
(* The invariants.                                                         *)

\* Two saves that are under way at a time are noticed by the one that begins.
Solo ==
  ~overlapped => \A s, t \in Savers : save[s].pc # "idle" /\ save[t].pc # "idle"
                                        => s = t

\* Whoever is removed, and met nothing half-way, is in no table: not in
\* memory, not in the file, not in a copy on its way to the file, and no
\* request is about to bring it back.
Apart ==
  /\ RemovedApart
  /\ \A a \in disk.data.removed \ raced : disk.data.table[a] = "none"
  /\ \A s \in Savers : save[s].pc = "put" =>
       \A a \in removed \ raced : save[s].data.table[a] = "none"
  /\ \A r \in Requests : req[r].pc = "checked" => req[r].agent \notin removed \ raced

\* Each sender waits for one answer at a time; only exits are saved.
Senders ==
  /\ \A r \in Requests : req[r] # Idle =>
       /\ req[r].by \in Instances =>
            client[req[r].agent][req[r].by].pc = "wait" /\ req[r].kind # "exit"
       /\ req[r].by = ExitSender => exiting[req[r].agent] /\ req[r].kind = "exit"
       /\ req[r].pc = "saving" => req[r].kind = "exit"
  /\ \A r1, r2 \in Requests :
       /\ req[r1] # Idle /\ req[r2] # Idle
       /\ req[r1].agent = req[r2].agent /\ req[r1].by = req[r2].by
       /\ req[r1].by # Nobody
       => r1 = r2

\* An instance that sends no more heartbeats.
Quiet(c) == c.stop \/ c.pc = "end"

\* Only the instance in use sends heartbeats, and none when the agent exits.
Clients ==
  \A a \in Agents :
    /\ \A i \in Instances :
         /\ i # made[a] \/ ~listed[a] \/ exiting[a] => Quiet(client[a][i])
         /\ ~client[a][i].running => Quiet(client[a][i])
         /\ i > made[a] => client[a][i].pc = "end"
    /\ exiting[a] => listed[a]
    /\ listed[a] => made[a] \in Instances
    /\ acked[a] => ~listed[a]
    /\ (exiting[a] \/ acked[a]) /\ ~crossed[a] => ~ForceUnderWay(a)

\* A server that is down handles no request, writes no file and has no table.
DownIsIdle ==
  server = "down" => /\ \A r \in Requests : req[r].pc \notin {"checked", "saving"}
                     /\ \A s \in Savers : save[s].pc = "idle"
                     /\ table = Nothing.table

\* The table has the exit of an agent, and so has each copy of it on its way.
Settled(a) ==
  /\ server # "down" => table[a] = "exit"
  /\ \A s \in Savers : save[s].pc = "put" => save[s].data.table[a] = "exit"

Stored(a) == disk.kind = "data" /\ disk.data.table[a] = "exit"

\* From the moment the record of an exit is updated its agent stays settled,
\* and once the save that follows has put its file the exit is stored.
Kept(a) ==
  /\ acked[a] => Settled(a) /\ Stored(a)
  /\ \A r \in Requests :
       req[r].pc = "saving" /\ req[r].agent = a /\ req[r].by = ExitSender
         => Settled(a) /\ (save[r].pc \in {"clear", "idle"} => Stored(a))

Exits == \A a \in Agents : ~crossed[a] /\ ~overlapped => Kept(a)

----------------------------------------------------------------------------
(* Types.                                                                  *)

\* A request under way, as against an idle one.
Sending ==
  [pc : {"sent", "checked", "saving", "broken"}, agent : Agents,
   kind : {"beat", "force", "exit"}, keyed : BOOLEAN,
   by : {ExitSender, Nobody} \cup Instances]

LEMMA RequestCases ==
  ASSUME TypeOK, NEW r \in Requests
  PROVE  /\ req[r] = Idle <=> req[r].pc = "idle"
         /\ req[r] # Idle => req[r] \in Sending
  BY DEF TypeOK, Request, Idle, Sending

\* What an answer does to the flags of an instance.
LEMMA Answers ==
  ASSUME NEW c \in Client, NEW reply
  PROVE  /\ Stopped(c) \in Client /\ Stopped(c).stop /\ Stopped(c).pc = c.pc
         /\ ExitAnswered(c, reply) \in Client /\ ExitAnswered(c, reply).stop
         /\ ExitAnswered(c, reply).pc = c.pc
         /\ ThreadAnswered(c, reply) \in Client
         /\ ThreadAnswered(c, reply).stop = c.stop
         /\ ThreadAnswered(c, reply).pc \in {"top", "end"}
         /\ ~ThreadAnswered(c, reply).running =>
              ~c.running \/ ThreadAnswered(c, reply).pc = "end"
  <1>1. /\ Stopped(c) \in Client /\ Stopped(c).stop /\ Stopped(c).pc = c.pc
    BY DEF Client, Stopped
  <1>2. /\ Answered(c, reply) \in Client /\ Answered(c, reply).pc = c.pc
        /\ Answered(c, reply).stop = c.stop
        /\ ~Answered(c, reply).running => ~c.running \/ reply \in {"removed", "denied"}
    BY DEF Client, Answered
  <1> DEFINE d == Answered(c, reply)
  <1>3. ExitAnswered(c, reply) = [d EXCEPT !.stop = TRUE, !.running = FALSE]
    BY DEF ExitAnswered, Stopped
  <1>4. ThreadAnswered(c, reply) =
          [d EXCEPT !.connected = (reply = "ok"),
                    !.pc = IF reply \in {"removed", "denied"} THEN "end" ELSE "top"]
    BY DEF ThreadAnswered
  <1> HIDE DEF d
  <1>5. d \in Client
    BY <1>2 DEF d
  <1>6. [d EXCEPT !.stop = TRUE, !.running = FALSE] \in Client
    BY <1>5 DEF Client
  <1>7. [d EXCEPT !.connected = (reply = "ok"),
                  !.pc = IF reply \in {"removed", "denied"} THEN "end" ELSE "top"]
          \in Client
    BY <1>5 DEF Client
  <1>8. /\ ExitAnswered(c, reply).stop /\ ExitAnswered(c, reply).pc = d.pc
    BY <1>3, <1>5 DEF Client
  <1>9. /\ ThreadAnswered(c, reply).stop = d.stop
        /\ ThreadAnswered(c, reply).pc =
             IF reply \in {"removed", "denied"} THEN "end" ELSE "top"
        /\ ThreadAnswered(c, reply).running = d.running
    BY <1>4, <1>5 DEF Client
  <1> QED  BY <1>1, <1>2, <1>3, <1>4, <1>6, <1>7, <1>8, <1>9 DEF d

ClientTypes ==
  /\ client \in [Agents -> [Instances -> Client]]
  /\ exiting \in [Agents -> BOOLEAN] /\ listed \in [Agents -> BOOLEAN]

\* One instance of one agent is replaced; connection 0 is no instance.
LEMMA OneClient ==
  ASSUME client \in [Agents -> [Instances -> Client]], NEW a \in Agents, NEW i,
         NEW c, i \in Instances => c \in Client,
         client' = [client EXCEPT ![a] = [client[a] EXCEPT ![i] = c]]
  PROVE  /\ client' \in [Agents -> [Instances -> Client]]
         /\ \A b \in Agents, j \in Instances :
              client'[b][j] = IF b = a /\ j = i THEN c ELSE client[b][j]
  <1> DEFINE f == [client[a] EXCEPT ![i] = c]
  <1>1. client[a] \in [Instances -> Client]
    OBVIOUS
  <1>2. /\ f \in [Instances -> Client]
        /\ \A j \in Instances : f[j] = IF j = i THEN c ELSE client[a][j]
    BY <1>1
  <1> HIDE DEF f
  <1>3. client' = [client EXCEPT ![a] = f]
    BY DEF f
  <1> QED  BY <1>2, <1>3

LEMMA DeliverType ==
  ASSUME ClientTypes, NEW a \in Agents, NEW by, NEW reply, Deliver(a, by, reply)
  PROVE  ClientTypes'
  <1>0. \A i \in Instances : client[a][i] \in Client
    BY DEF ClientTypes
  <1>1. CASE by = ExitSender
    <2>1. \A i \in Instances : ExitAnswered(client[a][i], reply) \in Client
      BY <1>0, Answers
    <2>2. client' = [client EXCEPT ![a] = [client[a] EXCEPT ![made[a]] =
                       ExitAnswered(client[a][made[a]], reply)]]
      BY <1>1 DEF Deliver
    <2>3. client' \in [Agents -> [Instances -> Client]]
      BY <2>1, <2>2, OneClient DEF ClientTypes
    <2> QED  BY <1>1, <2>3 DEF Deliver, ClientTypes
  <1>2. CASE by # ExitSender
    <2>1. \A i \in Instances : ThreadAnswered(client[a][i], reply) \in Client
      BY <1>0, Answers
    <2>2. client' = [client EXCEPT ![a] = [client[a] EXCEPT ![by] =
                       ThreadAnswered(client[a][by], reply)]]
      BY <1>2 DEF Deliver
    <2>3. client' \in [Agents -> [Instances -> Client]]
      BY <2>1, <2>2, OneClient DEF ClientTypes
    <2> QED  BY <1>2, <2>3 DEF Deliver, ClientTypes
  <1> QED  BY <1>1, <1>2

LEMMA ReplyType ==
  ASSUME TypeOK, NEW r \in Requests, req[r] # Idle, NEW reply, Reply(r, reply)
  PROVE  ClientTypes' /\ req' \in [Requests -> Request]
  <1>1. req[r].agent \in Agents
    BY RequestCases DEF Sending
  <1>2. ClientTypes
    BY DEF TypeOK, ClientTypes
  <1>3. ClientTypes'
    BY <1>1, <1>2, DeliverType DEF Reply, ClientTypes
  <1>4. req' \in [Requests -> Request]
    BY DEF Reply, TypeOK, Request
  <1> QED  BY <1>3, <1>4

LEMMA PostType ==
  ASSUME TypeOK, NEW r \in Requests, NEW a \in Agents,
         NEW kind \in {"beat", "force", "exit"},
         NEW by \in {ExitSender} \cup Instances,
         (IF by = ExitSender THEN made[a] ELSE by) \in Instances,
         Post(r, a, kind, by)
  PROVE  req' \in [Requests -> Request]
  <1>1. client[a][IF by = ExitSender THEN made[a] ELSE by].keyed \in BOOLEAN
    BY DEF TypeOK, Client
  <1> QED  BY <1>1 DEF Post, TypeOK, Request

LEMMA EventType ==
  ASSUME TypeOK, Event
  PROVE  events' \in 0 .. MaxEvents
  BY DEF Event, TypeOK

\* The types of what only clients and senders change, and of the rest.
ServerTypes ==
  /\ server \in {"up", "stopping", "down"}
  /\ table \in [Agents -> Entry]
  /\ removed \subseteq Agents /\ deleting \subseteq Agents
  /\ dirty \in BOOLEAN
  /\ save \in [Savers -> [pc : {"idle", "snap", "put", "clear"}, data : Snapshot]]
  /\ disk \in File
  /\ raced \subseteq Agents
  /\ overlapped \in BOOLEAN

LEMMA TypeParts ==
  TypeOK <=> /\ ClientTypes /\ ServerTypes
             /\ made \in [Agents -> 0 .. MaxClients]
             /\ req \in [Requests -> Request]
             /\ events \in 0 .. MaxEvents
             /\ acked \in [Agents -> BOOLEAN] /\ crossed \in [Agents -> BOOLEAN]
  BY DEF TypeOK, ClientTypes, ServerTypes

LEMMA PartsType ==
  ASSUME ClientTypes', ServerTypes', made' \in [Agents -> 0 .. MaxClients],
         req' \in [Requests -> Request], events' \in 0 .. MaxEvents,
         acked' \in [Agents -> BOOLEAN], crossed' \in [Agents -> BOOLEAN]
  PROVE  TypeOK'
  BY DEF TypeOK, ClientTypes, ServerTypes

LEMMA NoClientType == NoClient \in Client /\ NoSave.data = Nothing /\
                      NoSave \in [pc : {"idle", "snap", "put", "clear"}, data : Snapshot]
  BY DEF NoClient, Client, NoSave, Nothing, Snapshot, Entry

LEMMA InitTypes == Init => TypeOK
  <1> SUFFICES ASSUME Init PROVE TypeOK
    OBVIOUS
  <1>1. 0 \in 0 .. MaxClients /\ 0 \in 0 .. MaxEvents
    OBVIOUS
  <1>2. ClientTypes
    BY NoClientType DEF Init, ClientTypes
  <1>3. ServerTypes
    BY NoClientType DEF Init, ServerTypes, Nothing, Snapshot, Entry, File, Missing
  <1> QED  BY <1>1, <1>2, <1>3, TypeParts DEF Init, Request

\* What an agent does to its own connection, and what is done to its record.
ConnectionStep(a) ==
  \/ Connect(a) \/ Close(a)
  \/ \E i \in Instances : LoopEnds(a, i)
  \/ \E i \in Instances, r \in Requests : SendBeat(a, i, r)
  \/ \E r \in Requests : SendExit(a, r)

DeleteStep(a) == Delete(a) \/ \E block \in BOOLEAN : Deleted(a, block)

\* What agents do.
LEMMA AgentTypes ==
  ASSUME TypeOK, Clients, NEW a \in Agents, ConnectionStep(a) \/ DeleteStep(a)
  PROVE  TypeOK'
  <1>1. /\ ClientTypes /\ ServerTypes /\ made \in [Agents -> 0 .. MaxClients]
        /\ req \in [Requests -> Request] /\ events \in 0 .. MaxEvents
        /\ acked \in [Agents -> BOOLEAN] /\ crossed \in [Agents -> BOOLEAN]
    BY TypeParts
  <1>2. listed[a] => made[a] \in Instances
    BY DEF Clients
  <1>3. CASE Connect(a)
    <2>1. ServerTypes' /\ UNCHANGED <<req, events>>
      BY <1>1, <1>3 DEF Connect, ServerTypes, ServerVars, files
    <2>2. [NoClient EXCEPT !.running = TRUE, !.stop = FALSE, !.pc = "top"] \in Client
      BY DEF NoClient, Client
    <2>3. ClientTypes'
      BY <1>1, <1>3, <2>2 DEF Connect, ClientTypes
    <2>4. made[a] + 1 \in 0 .. MaxClients
      BY <1>1, <1>3 DEF Connect
    <2>5. /\ made' \in [Agents -> 0 .. MaxClients]
          /\ acked' \in [Agents -> BOOLEAN] /\ crossed' \in [Agents -> BOOLEAN]
      BY <1>1, <1>3, <2>4 DEF Connect
    <2> QED  BY <1>1, <2>1, <2>3, <2>5, PartsType
  <1>4. CASE Close(a)
    <2>1. /\ ServerTypes' /\ UNCHANGED <<req, events, made, acked, crossed>>
      BY <1>1, <1>4 DEF Close, ServerTypes, ServerVars, files
    <2>2. \A j \in Instances : Stopped(client[a][j]) \in Client
      <3>1. \A j \in Instances : client[a][j] \in Client
        BY <1>1 DEF ClientTypes
      <3> QED  BY <3>1, Answers
    <2>3. ClientTypes'
      <3>1. client' = [client EXCEPT ![a] = [client[a] EXCEPT ![made[a]] =
                         Stopped(client[a][made[a]])]]
        BY <1>4 DEF Close
      <3>2. client' \in [Agents -> [Instances -> Client]]
        BY <1>1, <2>2, <3>1, OneClient DEF ClientTypes
      <3> QED  BY <1>1, <1>4, <3>2 DEF Close, ClientTypes
    <2> QED  BY <1>1, <2>1, <2>3, PartsType
  <1>5. ASSUME NEW i \in Instances, LoopEnds(a, i)  PROVE TypeOK'
    <2>1. /\ ServerTypes' /\ UNCHANGED <<req, events, made, acked, crossed>>
      BY <1>1, <1>5 DEF LoopEnds, ServerTypes, ServerVars, files
    <2>2. ClientTypes'
      <3>1. client' = [client EXCEPT ![a] = [client[a] EXCEPT ![i] =
                         [client[a][i] EXCEPT !.pc = "end"]]]
        BY <1>5 DEF LoopEnds
      <3>2. [client[a][i] EXCEPT !.pc = "end"] \in Client
        <4>1. client[a][i] \in Client
          BY <1>1, <1>5 DEF ClientTypes
        <4> QED  BY <4>1 DEF Client
      <3>3. client' \in [Agents -> [Instances -> Client]]
        BY <1>1, <1>5, <3>1, <3>2, OneClient DEF ClientTypes
      <3> QED  BY <1>1, <1>5, <3>3 DEF LoopEnds, ClientTypes
    <2> QED  BY <1>1, <2>1, <2>2, PartsType
  <1>6. ASSUME NEW i \in Instances, NEW r \in Requests, SendBeat(a, i, r)
        PROVE  TypeOK'
    <2>1. /\ ServerTypes' /\ UNCHANGED <<events, made, acked, crossed>>
      BY <1>1, <1>6 DEF SendBeat, ServerTypes, ServerVars, files
    <2>2. ClientTypes'
      <3>1. client' = [client EXCEPT ![a] = [client[a] EXCEPT ![i] =
                         [client[a][i] EXCEPT !.pc = "wait"]]]
        BY <1>6 DEF SendBeat
      <3>2. [client[a][i] EXCEPT !.pc = "wait"] \in Client
        <4>1. client[a][i] \in Client
          BY <1>1, <1>6 DEF ClientTypes
        <4> QED  BY <4>1 DEF Client
      <3>3. client' \in [Agents -> [Instances -> Client]]
        BY <1>1, <1>6, <3>1, <3>2, OneClient DEF ClientTypes
      <3> QED  BY <1>1, <1>6, <3>3 DEF SendBeat, ClientTypes
    <2>3. Post(r, a, "force", i) \/ Post(r, a, "beat", i)
      BY <1>6 DEF SendBeat
    <2>4. req' \in [Requests -> Request]
      BY <2>3, PostType
    <2> QED  BY <1>1, <2>1, <2>2, <2>4, PartsType
  <1>7. ASSUME NEW r \in Requests, SendExit(a, r)  PROVE TypeOK'
    <2>1. ServerTypes' /\ UNCHANGED <<events, made, acked>>
      BY <1>1, <1>7 DEF SendExit, ServerTypes, ServerVars, files
    <2>2. ClientTypes'
      <3>1. client' = [client EXCEPT ![a] = [client[a] EXCEPT ![made[a]] =
                         [client[a][made[a]] EXCEPT !.stop = TRUE]]]
        BY <1>7 DEF SendExit
      <3>2. made[a] \in Instances => [client[a][made[a]] EXCEPT !.stop = TRUE] \in Client
        <4> SUFFICES ASSUME made[a] \in Instances
                     PROVE  [client[a][made[a]] EXCEPT !.stop = TRUE] \in Client
          OBVIOUS
        <4>1. client[a][made[a]] \in Client
          BY <1>1 DEF ClientTypes
        <4> QED  BY <4>1 DEF Client
      <3>3. client' \in [Agents -> [Instances -> Client]]
        BY <1>1, <3>1, <3>2, OneClient DEF ClientTypes
      <3> QED  BY <1>1, <1>7, <3>3 DEF SendExit, ClientTypes
    <2>3. req' \in [Requests -> Request]
      BY <1>2, <1>7, PostType DEF SendExit
    <2>4. crossed' \in [Agents -> BOOLEAN]
      BY <1>1, <1>7 DEF SendExit, ForceUnderWay
    <2> QED  BY <1>1, <2>1, <2>2, <2>3, <2>4, PartsType
  <1>8. CASE Delete(a)
    <2>1. ClientTypes' /\ UNCHANGED <<made, req, acked>>
      BY <1>1, <1>8 DEF Delete, ClientTypes, clientVars
    <2>2. ServerTypes'
      BY <1>1, <1>8 DEF Delete, ServerTypes, files, Entry
    <2>3. crossed' \in [Agents -> BOOLEAN] /\ events' \in 0 .. MaxEvents
      BY <1>1, <1>8, EventType DEF Delete
    <2> QED  BY <1>1, <2>1, <2>2, <2>3, PartsType
  <1>9. ASSUME NEW block \in BOOLEAN, Deleted(a, block)  PROVE TypeOK'
    <2>1. ClientTypes' /\ UNCHANGED <<made, req, acked, crossed, events>>
      BY <1>1, <1>9 DEF Deleted, ClientTypes, clientVars
    <2>2. ServerTypes'
      BY <1>1, <1>9 DEF Deleted, ServerTypes, files
    <2> QED  BY <1>1, <2>1, <2>2, PartsType
  <1> QED  BY <1>3, <1>4, <1>5, <1>6, <1>7, <1>8, <1>9 DEF ConnectionStep, DeleteStep

SaveRecord == [pc : {"idle", "snap", "put", "clear"}, data : Snapshot]

\* What the endpoint of the heartbeats does.
LEMMA RequestTypes ==
  ASSUME TypeOK, NEW r \in Requests, RequestStep(r) \/ GiveUp(r)
  PROVE  TypeOK'
  <1>1. /\ ClientTypes /\ ServerTypes /\ made \in [Agents -> 0 .. MaxClients]
        /\ req \in [Requests -> Request] /\ events \in 0 .. MaxEvents
        /\ acked \in [Agents -> BOOLEAN] /\ crossed \in [Agents -> BOOLEAN]
    BY TypeParts
  <1>2. req[r] # Idle /\ req[r] \in Sending
    BY RequestCases DEF RequestStep, Check, Update, Saved, Broken, GiveUp, Idle
  <1>3. req[r].agent \in Agents
    BY <1>2 DEF Sending
  <1>4. \A reply : Reply(r, reply) => ClientTypes' /\ req' \in [Requests -> Request]
    BY <1>2, ReplyType
  <1>5. \A pc \in {"checked", "saving"} : [req[r] EXCEPT !.pc = pc] \in Request
    BY <1>2 DEF Sending, Request
  <1>6. CASE Check(r)
    <2>1. UNCHANGED <<made, events, acked, crossed>>
      BY <1>6 DEF Check
    <2>2. removed' \subseteq removed
      BY <1>6 DEF Check
    <2>3. ServerTypes'
      BY <1>1, <1>6, <2>2 DEF Check, ServerTypes, files
    <2>4. \/ \E reply : Reply(r, reply)
          \/ /\ req' = [req EXCEPT ![r].pc = "checked"]
             /\ UNCHANGED <<client, exiting, listed>>
      BY <1>6 DEF Check
    <2>5. ClientTypes' /\ req' \in [Requests -> Request]
      BY <1>1, <1>4, <1>5, <2>4 DEF ClientTypes
    <2> QED  BY <1>1, <2>1, <2>3, <2>5, PartsType
  <1>7. CASE Update(r)
    <2>1. UNCHANGED <<made, events, acked, crossed>>
      BY <1>7 DEF Update
    <2>2. table' \in [Agents -> Entry]
      <3>1. \A kind, entry : Recorded(kind, entry) \in Entry
        BY DEF Recorded, Entry
      <3> QED  BY <1>1, <1>7, <3>1 DEF Update, ServerTypes
    <2>3. /\ save' \in [Savers -> SaveRecord] /\ overlapped' \in BOOLEAN
      <3>1. \A t \in Savers : [save[t] EXCEPT !.pc = "snap"] \in SaveRecord
        BY <1>1 DEF ServerTypes, SaveRecord
      <3>2. /\ \/ save' = [save EXCEPT ![r] = [save[r] EXCEPT !.pc = "snap"]]
               \/ save' = save
            /\ \/ overlapped' = (overlapped \/ \E s \in Savers : save[s].pc # "idle")
               \/ overlapped' = overlapped
        BY <1>7 DEF Update
      <3>3. save \in [Savers -> SaveRecord] /\ overlapped \in BOOLEAN
        BY <1>1 DEF ServerTypes, SaveRecord
      <3>4. overlapped' \in BOOLEAN
        BY <3>2, <3>3
      <3> QED  BY <3>1, <3>2, <3>3, <3>4
    <2>4. ServerTypes'
      BY <1>1, <1>7, <2>2, <2>3 DEF Update, ServerTypes, SaveRecord
    <2>5. \/ \E reply : Reply(r, reply)
          \/ /\ req' = [req EXCEPT ![r].pc = "saving"]
             /\ UNCHANGED <<client, exiting, listed>>
      BY <1>7 DEF Update
    <2>6. ClientTypes' /\ req' \in [Requests -> Request]
      BY <1>1, <1>4, <1>5, <2>5 DEF ClientTypes
    <2> QED  BY <1>1, <2>1, <2>4, <2>6, PartsType
  <1>8. CASE Saved(r)
    <2>1. ServerTypes' /\ UNCHANGED <<made, events, crossed>>
      BY <1>1, <1>8 DEF Saved, ServerTypes, files
    <2>2. acked' \in [Agents -> BOOLEAN]
      BY <1>1, <1>8 DEF Saved
    <2>3. ClientTypes' /\ req' \in [Requests -> Request]
      BY <1>4, <1>8 DEF Saved
    <2> QED  BY <1>1, <2>1, <2>2, <2>3, PartsType
  <1>9. CASE Broken(r)
    <2>1. ServerTypes' /\ UNCHANGED <<made, events, acked, crossed>>
      BY <1>1, <1>9 DEF Broken, ServerTypes, ServerVars, files
    <2>2. ClientTypes' /\ req' \in [Requests -> Request]
      BY <1>4, <1>9 DEF Broken
    <2> QED  BY <1>1, <2>1, <2>2, PartsType
  <1>10. CASE GiveUp(r)
    <2>1. ServerTypes' /\ UNCHANGED <<made, acked, crossed>>
      BY <1>1, <1>10 DEF GiveUp, ServerTypes, ServerVars, files
    <2>2. events' \in 0 .. MaxEvents
      BY <1>10, EventType DEF GiveUp
    <2>3. ClientTypes'
      BY <1>1, <1>3, <1>10, DeliverType DEF GiveUp
    <2>4. [req[r] EXCEPT !.by = Nobody] \in Request
      BY <1>2 DEF Sending, Request
    <2>5. req' \in [Requests -> Request]
      BY <1>1, <1>10, <2>4 DEF GiveUp, Request
    <2> QED  BY <1>1, <2>1, <2>2, <2>3, <2>5, PartsType
  <1> QED  BY <1>6, <1>7, <1>8, <1>9, <1>10 DEF RequestStep

\* What _save_db and other agents do.
LEMMA SaveTypes ==
  ASSUME TypeOK, NEW s \in Savers, MonitorSave \/ SaveStep(s) \/ OthersMark
  PROVE  TypeOK'
  <1>1. /\ ClientTypes /\ ServerTypes /\ made \in [Agents -> 0 .. MaxClients]
        /\ req \in [Requests -> Request] /\ events \in 0 .. MaxEvents
        /\ acked \in [Agents -> BOOLEAN] /\ crossed \in [Agents -> BOOLEAN]
    BY TypeParts
  <1>2. UNCHANGED <<client, exiting, listed, made, req, events, acked, crossed>>
    BY DEF MonitorSave, SaveStep, TakeSnapshot, PutFile, ClearDirty, SaveFrame,
           OthersMark, clientVars
  <1>3. ClientTypes'
    BY <1>1, <1>2 DEF ClientTypes
  <1>4. /\ save \in [Savers -> SaveRecord] /\ table \in [Agents -> Entry]
        /\ removed \subseteq Agents /\ save[s].data \in Snapshot
        /\ Monitor \in Savers
    BY <1>1 DEF ServerTypes, SaveRecord
  <1>5. CASE MonitorSave
    <2>1. [save[Monitor] EXCEPT !.pc = "snap"] \in SaveRecord
      BY <1>4 DEF SaveRecord
    <2>2. save' \in [Savers -> SaveRecord] /\ overlapped' \in BOOLEAN
      BY <1>1, <1>4, <1>5, <2>1 DEF MonitorSave, BeginSave, ServerTypes
    <2>3. ServerTypes'
      BY <1>1, <1>5, <2>2 DEF MonitorSave, BeginSave, ServerTypes, SaveRecord
    <2> QED  BY <1>1, <1>2, <1>3, <2>3, PartsType
  <1>6. CASE TakeSnapshot(s)
    <2> DEFINE data == [save[s].data EXCEPT !.table = table]
    <2>1. data \in Snapshot
      BY <1>4 DEF Snapshot
    <2>2. save' = [save EXCEPT ![s] = [[save[s] EXCEPT !.pc = "put"] EXCEPT !.data = data]]
      BY <1>4, <1>6 DEF TakeSnapshot, SaveRecord
    <2> HIDE DEF data
    <2>4. [[save[s] EXCEPT !.pc = "put"] EXCEPT !.data = data] \in SaveRecord
      BY <1>4, <2>1 DEF SaveRecord
    <2>5. save' \in [Savers -> SaveRecord]
      BY <1>4, <2>2, <2>4
    <2>3. ServerTypes'
      BY <1>1, <1>6, <2>5
         DEF TakeSnapshot, SaveFrame, ServerTypes, SaveRecord
    <2> QED  BY <1>1, <1>2, <1>3, <2>3, PartsType
  <1>7. CASE PutFile(s)
    <2>1. [save[s].data EXCEPT !.removed = removed] \in Snapshot
      BY <1>4 DEF Snapshot
    <2>2. disk' \in File
      BY <1>1, <1>7, <2>1, NoClientType
         DEF PutFile, File, Holding, Partial, ServerTypes, NoSave
    <2>3. NoSave \in SaveRecord /\ [NoSave EXCEPT !.pc = "clear"] \in SaveRecord
      BY NoClientType DEF SaveRecord, NoSave
    <2>4. save' \in [Savers -> SaveRecord]
      BY <1>4, <1>7, <2>3 DEF PutFile
    <2>5. ServerTypes'
      BY <1>1, <1>7, <2>2, <2>4 DEF PutFile, SaveFrame, ServerTypes, SaveRecord
    <2> QED  BY <1>1, <1>2, <1>3, <2>5, PartsType
  <1>8. CASE ClearDirty(s)
    <2>1. save' \in [Savers -> SaveRecord]
      BY <1>4, <1>8, NoClientType DEF ClearDirty, SaveRecord
    <2>2. ServerTypes'
      BY <1>1, <1>8, <2>1 DEF ClearDirty, SaveFrame, ServerTypes, SaveRecord
    <2> QED  BY <1>1, <1>2, <1>3, <2>2, PartsType
  <1>9. CASE OthersMark
    <2>1. ServerTypes'
      BY <1>1, <1>9 DEF OthersMark, ServerTypes, files
    <2> QED  BY <1>1, <1>2, <1>3, <2>1, PartsType
  <1> QED  BY <1>5, <1>6, <1>7, <1>8, <1>9 DEF SaveStep

LEMMA NothingType ==
  Nothing \in Snapshot /\ Nothing.table \in [Agents -> Entry] /\ NoSave \in SaveRecord
  BY DEF Nothing, Snapshot, Entry, SaveRecord, NoSave

\* What stops the server, and starts it again.
LEMMA DownTypes ==
  ASSUME TypeOK, Stop \/ Exit \/ Crash \/ Restart
  PROVE  TypeOK'
  <1>1. /\ ClientTypes /\ ServerTypes /\ made \in [Agents -> 0 .. MaxClients]
        /\ req \in [Requests -> Request] /\ events \in 0 .. MaxEvents
        /\ acked \in [Agents -> BOOLEAN] /\ crossed \in [Agents -> BOOLEAN]
    BY TypeParts
  <1>2. UNCHANGED <<exiting, listed, made, acked, crossed>>
    BY DEF Stop, Exit, Crash, Restart, Gone, clientVars
  <1>3. events' \in 0 .. MaxEvents
    BY <1>1, EventType DEF Stop, Exit, Crash, Restart
  <1>4. CASE Stop
    <2>1. [save[Main] EXCEPT !.pc = "snap"] \in SaveRecord
      BY <1>1 DEF ServerTypes, SaveRecord
    <2>2. save' \in [Savers -> SaveRecord] /\ overlapped' \in BOOLEAN
      BY <1>1, <1>4, <2>1 DEF Stop, BeginSave, files, ServerTypes, SaveRecord
    <2>3. ServerTypes'
      BY <1>1, <1>4, <2>2 DEF Stop, BeginSave, files, ServerTypes, SaveRecord
    <2>4. ClientTypes' /\ UNCHANGED req
      BY <1>1, <1>4 DEF Stop, ClientTypes, clientVars
    <2> QED  BY <1>1, <1>2, <1>3, <2>3, <2>4, PartsType
  <1>5. CASE Gone
    <2>1. ServerTypes'
      BY <1>1, <1>5, NothingType DEF Gone, ServerTypes, SaveRecord
    <2>2. ClientTypes'
      BY <1>1, <1>5 DEF Gone, ClientTypes, clientVars
    <2>3. \A r \in Requests : req[r] # Idle =>
            [req[r] EXCEPT !.pc = "broken"] \in Request
      BY RequestCases DEF Sending, Request
    <2>4. req' \in [Requests -> Request]
      BY <1>5, <2>3 DEF Gone, Request
    <2> QED  BY <1>1, <1>2, <1>3, <2>1, <2>2, <2>4, PartsType
  <1>6. CASE Restart
    <2>1. ServerTypes'
      BY <1>1, <1>6 DEF Restart, ServerTypes, files, File, Snapshot
    <2>2. \A a \in Agents, i \in Instances :
            [client[a][i] EXCEPT !.keyed = FALSE] \in Client
      <3> SUFFICES ASSUME NEW a \in Agents, NEW i \in Instances
                   PROVE  [client[a][i] EXCEPT !.keyed = FALSE] \in Client
        OBVIOUS
      <3>1. client[a][i] \in Client
        BY <1>1 DEF ClientTypes
      <3> QED  BY <3>1 DEF Client
    <2>3. client' \in [Agents -> [Instances -> Client]]
      BY <1>1, <1>6, <2>2 DEF Restart, ClientTypes
    <2>4. ClientTypes' /\ UNCHANGED req
      BY <1>1, <1>2, <1>6, <2>3 DEF Restart, ClientTypes
    <2> QED  BY <1>1, <1>2, <1>3, <2>1, <2>4, PartsType
  <1> QED  BY <1>4, <1>5, <1>6 DEF Exit, Crash

----------------------------------------------------------------------------
(* The saves.                                                              *)

\* s begins a save, and notices those under way.
Begins(s) ==
  /\ save' = [save EXCEPT ![s].pc = "snap"]
  /\ overlapped' = (overlapped \/ \E t \in Savers : save[t].pc # "idle")
  /\ UNCHANGED disk

\* What a step may do to the saves and to the file.
LEMMA SaveMoves ==
  ASSUME [Next]_vars
  PROVE  \/ UNCHANGED <<save, disk, overlapped>>
         \/ \E s \in Savers : Begins(s)
         \/ \E s \in Savers : SaveStep(s)
         \/ Gone
  <1>1. CASE \E a \in Agents :
               \/ Connect(a) \/ Close(a) \/ ClientStep(a) \/ Delete(a)
               \/ \E r \in Requests : SendExit(a, r)
               \/ \E block \in BOOLEAN : Deleted(a, block)
    BY <1>1 DEF Connect, Close, ClientStep, LoopEnds, SendBeat, SendExit, Delete,
                Deleted, ServerVars, files
  <1>2. ASSUME NEW r \in Requests, RequestStep(r) \/ GiveUp(r)
        PROVE  \/ UNCHANGED <<save, disk, overlapped>>
               \/ \E s \in Savers : Begins(s)
    BY <1>2 DEF RequestStep, Check, Update, Saved, Broken, GiveUp, ServerVars,
                files, Begins
  <1>3. CASE MonitorSave \/ OthersMark \/ Stop
    BY <1>3 DEF MonitorSave, OthersMark, Stop, BeginSave, Begins, files
  <1>4. CASE Exit \/ Crash
    BY <1>4 DEF Exit, Crash
  <1>5. CASE Restart \/ UNCHANGED vars
    BY <1>5 DEF Restart, vars, files
  <1> QED  BY <1>1, <1>2, <1>3, <1>4, <1>5 DEF Next

LEMMA SoloKept ==
  ASSUME TypeOK, Solo, [Next]_vars
  PROVE  Solo'
  <1>1. save \in [Savers -> SaveRecord]
    BY DEF TypeOK, SaveRecord
  <1>2. CASE UNCHANGED <<save, disk, overlapped>>
    BY <1>2 DEF Solo
  <1>3. ASSUME NEW s \in Savers, Begins(s)  PROVE Solo'
    <2>1. SUFFICES ASSUME ~overlapped'  PROVE Solo'
      BY DEF Solo
    <2>2. \A t \in Savers : save[t].pc = "idle"
      BY <1>3, <2>1 DEF Begins
    <2>3. \A t \in Savers : t # s => save'[t] = save[t]
      BY <1>1, <1>3 DEF Begins
    <2> QED  BY <2>2, <2>3 DEF Solo
  <1>4. ASSUME NEW s \in Savers, SaveStep(s)  PROVE Solo'
    <2>1. /\ overlapped' = overlapped /\ save[s].pc # "idle"
          /\ \A t \in Savers : t # s => save'[t] = save[t]
      BY <1>1, <1>4 DEF SaveStep, TakeSnapshot, PutFile, ClearDirty, SaveFrame
    <2> QED  BY <2>1 DEF Solo
  <1>5. CASE Gone
    BY <1>5 DEF Gone, NoSave, Solo
  <1> QED  BY <1>2, <1>3, <1>4, <1>5, SaveMoves

\* A mixture of two saves in the file.
LEMMA ReadableKept ==
  ASSUME TypeOK, Solo, FileReadable, [Next]_vars
  PROVE  FileReadable'
  <1>1. CASE UNCHANGED disk /\ (overlapped => overlapped')
    BY <1>1 DEF FileReadable
  <1>2. ASSUME NEW s \in Savers, SaveStep(s)  PROVE FileReadable'
    <2>1. CASE PutFile(s)
      <3>1. overlapped' = overlapped
        BY <2>1 DEF PutFile, SaveFrame
      <3>2. CASE \E t \in Savers \ {s} : save[t].pc = "put"
        BY <2>1, <3>1, <3>2 DEF PutFile, Solo, FileReadable
      <3>3. CASE ~\E t \in Savers \ {s} : save[t].pc = "put"
        BY <2>1, <3>3 DEF PutFile, Holding, Partial, FileReadable
      <3> QED  BY <3>2, <3>3
    <2>2. CASE TakeSnapshot(s) \/ ClearDirty(s)
      BY <1>1, <2>2 DEF TakeSnapshot, ClearDirty, SaveFrame
    <2> QED  BY <1>2, <2>1, <2>2 DEF SaveStep
  <1>3. CASE Gone \/ \E s \in Savers : Begins(s)
    BY <1>1, <1>3 DEF Gone, Begins
  <1> QED  BY <1>1, <1>2, <1>3, SaveMoves

----------------------------------------------------------------------------
(* Removed agents.                                                         *)

\* No agent becomes one, and the table, the requests and the copies stay.
LEMMA ApartFrame ==
  ASSUME Apart, UNCHANGED <<table, disk>>,
         removed' \subseteq removed, raced \subseteq raced',
         \A r \in Requests :
           req'[r].pc = "checked" => /\ req[r].pc = "checked"
                                     /\ req'[r].agent = req[r].agent,
         \A s \in Savers :
           save'[s].pc = "put" => save[s].pc = "put" /\ save'[s].data = save[s].data
  PROVE  Apart'
  BY DEF Apart, RemovedApart

LEMMA ApartAgents ==
  ASSUME TypeOK, Apart, NEW a \in Agents, ConnectionStep(a) \/ DeleteStep(a)
  PROVE  Apart'
  <1>1. CASE Connect(a) \/ Close(a) \/ \E i \in Instances : LoopEnds(a, i)
    BY <1>1, ApartFrame DEF Connect, Close, LoopEnds, ServerVars, files
  <1>2. ASSUME NEW r \in Requests, SendExit(a, r) \/ \E i \in Instances : SendBeat(a, i, r)
        PROVE  Apart'
    <2>1. UNCHANGED <<table, disk, removed, raced, save>>
      BY <1>2 DEF SendBeat, SendExit, ServerVars, files
    <2>2. \E kind, by : Post(r, a, kind, by)
      BY <1>2 DEF SendBeat, SendExit
    <2>3. \A q \in Requests : req'[q] = req[q] \/ req'[q].pc = "sent"
      BY <2>2 DEF Post, TypeOK
    <2> QED  BY <2>1, <2>3, ApartFrame
  <1>3. CASE Delete(a)
    <2>1. UNCHANGED <<disk, removed, raced, save, req>>
      BY <1>3 DEF Delete, files
    <2>2. \A b \in Agents : table'[b] \in {"none", table[b]}
      BY <1>3 DEF Delete, TypeOK
    <2>3. removed \subseteq Agents
      BY DEF TypeOK
    <2> QED  BY <2>1, <2>2, <2>3 DEF Apart, RemovedApart
  <1>4. ASSUME NEW block \in BOOLEAN, Deleted(a, block)  PROVE Apart'
    <2>1. UNCHANGED <<disk, table, save, req>> /\ raced \subseteq raced'
      BY <1>4 DEF Deleted, files
    <2>2. removed' \subseteq removed \cup {a}
      BY <1>4 DEF Deleted
    <2>3. a \notin raced' => /\ table[a] = "none"
                             /\ \A q \in Requests :
                                  req[q].pc = "checked" => req[q].agent # a
                             /\ \A s \in Savers : save[s].pc = "put" =>
                                  save[s].data.table[a] = "none"
      BY <1>4 DEF Deleted, HalfWay
    <2>4. RemovedApart'
      BY <2>1, <2>2, <2>3 DEF Apart, RemovedApart
    <2>5. \A b \in disk'.data.removed \ raced' : disk'.data.table[b] = "none"
      BY <2>1 DEF Apart
    <2>6. \A s \in Savers : save'[s].pc = "put" =>
            \A b \in removed' \ raced' : save'[s].data.table[b] = "none"
      BY <2>1, <2>2, <2>3 DEF Apart
    <2>7. \A q \in Requests : req'[q].pc = "checked" =>
                                req'[q].agent \notin removed' \ raced'
      BY <2>1, <2>2, <2>3 DEF Apart
    <2> QED  BY <2>4, <2>5, <2>6, <2>7 DEF Apart
  <1> QED  BY <1>1, <1>2, <1>3, <1>4 DEF ConnectionStep, DeleteStep

LEMMA ApartRequests ==
  ASSUME TypeOK, Apart, NEW r \in Requests, RequestStep(r) \/ GiveUp(r)
  PROVE  Apart'
  <1>1. req \in [Requests -> Request] /\ req[r] \in Sending
    BY RequestCases
       DEF TypeOK, RequestStep, Check, Update, Saved, Broken, GiveUp, Idle
  <1>2. \A reply : Reply(r, reply) =>
          \A q \in Requests : req'[q] = req[q] \/ req'[q].pc = "idle"
    BY <1>1 DEF Reply, Idle
  <1>3. CASE Check(r)
    <2>1. UNCHANGED <<disk, table, save, raced>> /\ removed' \subseteq removed
      BY <1>3 DEF Check, files
    <2>2. CASE \E reply : Reply(r, reply)
      BY <1>2, <2>1, <2>2, ApartFrame
    <2>3. CASE /\ req' = [req EXCEPT ![r].pc = "checked"]
               /\ removed' = removed \ {req[r].agent}
      <3>1. /\ req'[r].agent = req[r].agent
            /\ \A q \in Requests : q # r => req'[q] = req[q]
        BY <1>1, <2>3 DEF Sending
      <3> QED  BY <2>1, <2>3, <3>1 DEF Apart, RemovedApart
    <2> QED  BY <1>3, <2>2, <2>3 DEF Check
  <1>4. CASE Update(r)
    <2>1. UNCHANGED <<disk, removed, raced>> /\ req[r].agent \notin removed \ raced
      BY <1>4 DEF Update, Apart
    <2>2. \A b \in Agents : b # req[r].agent => table'[b] = table[b]
      BY <1>4 DEF Update, TypeOK
    <2>3. \A q \in Requests : req'[q].pc = "checked" => req'[q] = req[q]
      BY <1>1, <1>2, <1>4 DEF Update, Sending
    <2>4. \A s \in Savers : save'[s].pc = "put" => save'[s] = save[s]
      BY <1>4 DEF Update, TypeOK
    <2>5. removed \subseteq Agents
      BY DEF TypeOK
    <2> QED  BY <2>1, <2>2, <2>3, <2>4, <2>5 DEF Apart, RemovedApart
  <1>5. CASE Saved(r) \/ Broken(r)
    <2>1. UNCHANGED <<disk, table, save, raced, removed>>
      BY <1>5 DEF Saved, Broken, ServerVars, files
    <2> QED  BY <1>2, <1>5, <2>1, ApartFrame DEF Saved, Broken
  <1>6. CASE GiveUp(r)
    <2>1. UNCHANGED <<disk, table, save, raced, removed>>
      BY <1>6 DEF GiveUp, ServerVars, files
    <2>2. \A q \in Requests : \/ req'[q].pc = "idle"
                              \/ /\ req'[q].pc = req[q].pc
                                 /\ req'[q].agent = req[q].agent
      BY <1>1, <1>6 DEF GiveUp, Idle, Sending
    <2> QED  BY <2>1, <2>2, ApartFrame
  <1> QED  BY <1>3, <1>4, <1>5, <1>6 DEF RequestStep

LEMMA ApartServer ==
  ASSUME TypeOK, Apart, DownIsIdle, NEW s \in Savers,
         \/ MonitorSave \/ OthersMark \/ SaveStep(s)
         \/ Stop \/ Exit \/ Crash \/ Restart
  PROVE  Apart'
  <1>1. save \in [Savers -> SaveRecord]
    BY DEF TypeOK, SaveRecord
  <1>2. CASE MonitorSave \/ OthersMark \/ Stop
    <2>1. UNCHANGED <<disk, table, raced, removed, req>>
      BY <1>2 DEF MonitorSave, OthersMark, Stop, BeginSave, files
    <2>2. \/ save' = save
          \/ \E t \in Savers : save' = [save EXCEPT ![t].pc = "snap"]
      BY <1>2 DEF MonitorSave, OthersMark, Stop, BeginSave, files
    <2>3. \A t \in Savers : save'[t].pc = "put" => save'[t] = save[t]
      BY <1>1, <2>2 DEF SaveRecord
    <2> QED  BY <2>1, <2>3, ApartFrame
  <1>3. CASE TakeSnapshot(s)
    <2>1. UNCHANGED <<disk, table, raced, removed, req>>
      BY <1>3 DEF TakeSnapshot, SaveFrame
    <2>2. /\ save'[s].data.table = table
          /\ \A t \in Savers : t # s => save'[t] = save[t]
      BY <1>1, <1>3 DEF TakeSnapshot, SaveRecord, Snapshot
    <2> QED  BY <2>1, <2>2 DEF Apart, RemovedApart
  <1>4. CASE PutFile(s)
    <2>1. UNCHANGED <<table, raced, removed, req>>
      BY <1>4 DEF PutFile, SaveFrame
    <2>2. \A t \in Savers : save'[t].pc = "put" => save'[t] = save[t]
      BY <1>1, <1>4 DEF PutFile, NoSave
    <2>3. \A b \in disk'.data.removed \ raced : disk'.data.table[b] = "none"
      <3> DEFINE data == [save[s].data EXCEPT !.removed = removed]
      <3>1. data.removed = removed /\ data.table = save[s].data.table
        BY <1>1 DEF SaveRecord, Snapshot
      <3>2. \A b \in removed \ raced : data.table[b] = "none"
        BY <1>4, <3>1 DEF PutFile, Apart
      <3>3. disk' \in {disk, Partial, Holding(data)}
        BY <1>4 DEF PutFile
      <3> HIDE DEF data
      <3>4. CASE disk' = Holding(data)
        BY <3>1, <3>2, <3>4 DEF Holding
      <3>5. CASE disk' = Partial
        BY <3>5 DEF Partial, Nothing
      <3>6. CASE disk' = disk
        BY <3>6 DEF Apart
      <3> QED  BY <3>3, <3>4, <3>5, <3>6
    <2> QED  BY <2>1, <2>2, <2>3 DEF Apart, RemovedApart
  <1>5. CASE ClearDirty(s)
    <2>1. UNCHANGED <<disk, table, raced, removed, req>>
      BY <1>5 DEF ClearDirty, SaveFrame
    <2>2. \A t \in Savers : save'[t].pc = "put" => save'[t] = save[t]
      BY <1>1, <1>5 DEF ClearDirty, NoSave
    <2> QED  BY <2>1, <2>2, ApartFrame
  <1>6. CASE Exit \/ Crash
    <2>1. /\ removed' = {} /\ UNCHANGED <<disk, raced>>
          /\ \A t \in Savers : save'[t].pc = "idle"
      BY <1>6 DEF Exit, Crash, Gone, NoSave
    <2> QED  BY <2>1 DEF Apart, RemovedApart
  <1>7. CASE Restart
    <2>1. /\ table' = disk.data.table /\ removed' = disk.data.removed
          /\ UNCHANGED <<disk, raced, save, req>> /\ server = "down"
      BY <1>7 DEF Restart, files
    <2> QED  BY <2>1 DEF Apart, RemovedApart, DownIsIdle
  <1> QED  BY <1>2, <1>3, <1>4, <1>5, <1>6, <1>7 DEF SaveStep

----------------------------------------------------------------------------
(* The clients.                                                            *)

\* What an answer to the sender of a request changes.
LEMMA DeliverEffect ==
  ASSUME TypeOK, Senders, Clients, NEW r \in Requests, req[r] # Idle,
         req[r].by # Nobody, NEW reply, Deliver(req[r].agent, req[r].by, reply)
  PROVE  /\ \A a \in Agents, i \in Instances :
              /\ Quiet(client[a][i]) => Quiet(client'[a][i])
              /\ ~client'[a][i].running => Quiet(client'[a][i])
              /\ client[a][i].pc = "end" => client'[a][i].pc = "end"
              /\ \/ client'[a][i].pc = client[a][i].pc
                 \/ a = req[r].agent /\ i = req[r].by
         /\ \A a \in Agents :
              /\ exiting'[a] => exiting[a] /\ listed'[a]
              /\ listed'[a] => listed[a]
              /\ exiting'[a] = exiting[a] \/ (a = req[r].agent /\ req[r].by = ExitSender)
              /\ ~listed'[a] => \A i \in Instances : Quiet(client'[a][i])
              /\ a = req[r].agent /\ req[r].by = ExitSender => ~listed'[a]
  <1> DEFINE a == req[r].agent
             by == req[r].by
  <1>1. a \in Agents /\ by \in {ExitSender} \cup Instances
    BY RequestCases DEF Sending
  <1>2. \A b \in Agents, i \in Instances : client[b][i] \in Client
    BY DEF TypeOK
  <1>3. CASE by = ExitSender
    <2>1. exiting[a] /\ listed[a] /\ made[a] \in Instances
      BY <1>1, <1>3 DEF Senders, Clients
    <2> DEFINE c == ExitAnswered(client[a][made[a]], reply)
    <2>2. c \in Client /\ c.stop /\ c.pc = client[a][made[a]].pc
      BY <1>1, <1>2, <2>1, Answers
    <2>3. client' = [client EXCEPT ![a] = [client[a] EXCEPT ![made[a]] = c]]
      BY <1>3 DEF Deliver
    <2> HIDE DEF c
    <2>4. \A b \in Agents, i \in Instances :
            client'[b][i] = IF b = a /\ i = made[a] THEN c ELSE client[b][i]
      BY <1>1, <2>2, <2>3, OneClient DEF TypeOK
    <2>5. /\ exiting' = [exiting EXCEPT ![a] = FALSE]
          /\ listed' = [listed EXCEPT ![a] = FALSE]
      BY <1>3 DEF Deliver
    <2>6. \A b \in Agents, i \in Instances :
            /\ Quiet(client[b][i]) => Quiet(client'[b][i])
            /\ ~client'[b][i].running => Quiet(client'[b][i])
            /\ client'[b][i].pc = client[b][i].pc
      BY <2>2, <2>4 DEF Quiet, Clients
    <2>7. \A i \in Instances : Quiet(client'[a][i])
      BY <1>1, <2>2, <2>4 DEF Quiet, Clients
    <2>8. \A b \in Agents : b # a => exiting'[b] = exiting[b] /\ listed'[b] = listed[b]
      BY <2>5 DEF TypeOK
    <2>9. ~exiting'[a] /\ ~listed'[a]
      BY <1>1, <2>5 DEF TypeOK
    <2>10. \A b \in Agents : exiting[b] => listed[b]
      BY DEF Clients
    <2>11. \A b \in Agents, i \in Instances : ~listed[b] => Quiet(client[b][i])
      BY DEF Clients
    <2> HIDE DEF a, by
    <2>12. \A b \in Agents :
              /\ exiting'[b] => exiting[b] /\ listed'[b]
              /\ listed'[b] => listed[b]
              /\ exiting'[b] = exiting[b] \/ b = a
              /\ ~listed'[b] => \A i \in Instances : Quiet(client'[b][i])
      BY <2>6, <2>7, <2>8, <2>9, <2>10, <2>11
    <2> QED  BY <1>3, <2>6, <2>9, <2>12 DEF a, by
  <1>4. CASE by # ExitSender
    <2>1. by \in Instances /\ client[a][by].pc = "wait"
      BY <1>1, <1>4 DEF Senders
    <2> DEFINE c == ThreadAnswered(client[a][by], reply)
    <2>2. /\ c \in Client /\ c.stop = client[a][by].stop
          /\ ~c.running => ~client[a][by].running \/ c.pc = "end"
      BY <1>1, <1>2, <2>1, Answers
    <2>3. client' = [client EXCEPT ![a] = [client[a] EXCEPT ![by] = c]]
      BY <1>4 DEF Deliver
    <2> HIDE DEF c
    <2>4. \A b \in Agents, i \in Instances :
            client'[b][i] = IF b = a /\ i = by THEN c ELSE client[b][i]
      BY <1>1, <2>2, <2>3, OneClient DEF TypeOK
    <2>5. UNCHANGED <<exiting, listed>>
      BY <1>4 DEF Deliver
    <2>6. \A b \in Agents, i \in Instances :
            ~client[b][i].running => Quiet(client[b][i])
      BY DEF Clients
    <2>7. Quiet(client[a][by]) => client[a][by].stop
      BY <2>1 DEF Quiet
    <2>8. ~client[a][by].running => client[a][by].stop
      BY <1>1, <2>1, <2>6, <2>7
    <2>9. (Quiet(client[a][by]) => Quiet(c)) /\ (~c.running => Quiet(c))
      BY <2>2, <2>7, <2>8 DEF Quiet
    <2>10. \A b \in Agents : /\ exiting[b] => listed[b]
                             /\ ~listed[b] => \A i \in Instances : Quiet(client[b][i])
      BY DEF Clients
    <2> HIDE DEF a, by
    <2>11. \A b \in Agents, i \in Instances :
              /\ Quiet(client[b][i]) => Quiet(client'[b][i])
              /\ ~client'[b][i].running => Quiet(client'[b][i])
              /\ client[b][i].pc = "end" => client'[b][i].pc = "end"
              /\ client'[b][i].pc = client[b][i].pc \/ (b = a /\ i = by)
      BY <2>1, <2>4, <2>6, <2>9
    <2> QED  BY <1>4, <2>5, <2>10, <2>11 DEF a, by
  <1> QED  BY <1>3, <1>4

\* A request is answered, or its sender gives up.
LEMMA DeliverKeeps ==
  ASSUME TypeOK, Senders, Clients, NEW r \in Requests, req[r] # Idle,
         req[r].by # Nobody, NEW reply, Deliver(req[r].agent, req[r].by, reply),
         UNCHANGED <<made, crossed>>,
         req' = [req EXCEPT ![r] = Idle] \/ req' = [req EXCEPT ![r].by = Nobody],
         \A a \in Agents : acked'[a] =>
           acked[a] \/ (a = req[r].agent /\ req[r].by = ExitSender)
  PROVE  Senders' /\ Clients'
  <1>1. req[r] \in Sending /\ req \in [Requests -> Request]
    BY RequestCases DEF TypeOK
  <1>2. \/ req'[r] = Idle
        \/ /\ req'[r].by = Nobody /\ req'[r].agent = req[r].agent
           /\ req'[r].kind = req[r].kind /\ req'[r].pc = req[r].pc
    BY <1>1 DEF Sending
  <1>3. \A q \in Requests : q # r => req'[q] = req[q]
    BY <1>1
  <1>4. \A q \in Requests : q # r /\ req[q] # Idle /\ req[q].agent = req[r].agent
                              => req[q].by # req[r].by
    BY DEF Senders
  <1>8. /\ \A a \in Agents, i \in Instances :
              /\ Quiet(client[a][i]) => Quiet(client'[a][i])
              /\ ~client'[a][i].running => Quiet(client'[a][i])
              /\ client[a][i].pc = "end" => client'[a][i].pc = "end"
        /\ \A a \in Agents :
              /\ exiting'[a] => exiting[a] /\ listed'[a]
              /\ exiting'[a] = exiting[a] \/ (a = req[r].agent /\ req[r].by = ExitSender)
              /\ ~listed'[a] => \A i \in Instances : Quiet(client'[a][i])
    BY DeliverEffect
  <1>5. Senders'
    <2>1. ASSUME NEW q \in Requests, req'[q] # Idle
          PROVE  /\ req'[q].by \in Instances =>
                      /\ client'[req'[q].agent][req'[q].by].pc = "wait"
                      /\ req'[q].kind # "exit"
                 /\ req'[q].by = ExitSender =>
                      exiting'[req'[q].agent] /\ req'[q].kind = "exit"
                 /\ req'[q].pc = "saving" => req'[q].kind = "exit"
      <3>1. CASE q = r
        BY <1>2, <2>1, <3>1 DEF Senders
      <3>2. CASE q # r
        <4>1. req'[q] = req[q] /\ req[q] # Idle
          BY <1>3, <2>1, <3>2
        <4>2. req[q].agent \in Agents
          BY <4>1, RequestCases DEF Sending
        <4>3. req[q].by \in Instances =>
                client'[req[q].agent][req[q].by].pc = client[req[q].agent][req[q].by].pc
          BY <1>4, <3>2, <4>1, <4>2, DeliverEffect
        <4>4. req[q].by = ExitSender => exiting'[req[q].agent] = exiting[req[q].agent]
          <5>1. \/ exiting'[req[q].agent] = exiting[req[q].agent]
                \/ req[q].agent = req[r].agent /\ req[r].by = ExitSender
            BY <1>8, <4>2
          <5> QED  BY <1>4, <3>2, <4>1, <5>1
        <4> QED  BY <4>1, <4>3, <4>4 DEF Senders
      <3> QED  BY <3>1, <3>2
    <2>2. \A r1, r2 \in Requests :
            /\ req'[r1] # Idle /\ req'[r2] # Idle
            /\ req'[r1].agent = req'[r2].agent /\ req'[r1].by = req'[r2].by
            /\ req'[r1].by # Nobody
            => r1 = r2
      BY <1>2, <1>3 DEF Senders
    <2> QED  BY <2>1, <2>2 DEF Senders
  <1>6. ASSUME NEW a \in Agents
        PROVE  /\ \A i \in Instances :
                    /\ i # made'[a] \/ ~listed'[a] \/ exiting'[a] => Quiet(client'[a][i])
                    /\ ~client'[a][i].running => Quiet(client'[a][i])
                    /\ i > made'[a] => client'[a][i].pc = "end"
               /\ exiting'[a] => listed'[a]
               /\ listed'[a] => made'[a] \in Instances
               /\ acked'[a] => ~listed'[a]
               /\ (exiting'[a] \/ acked'[a]) /\ ~crossed'[a] => ~ForceUnderWay(a)'
    <2>1. ASSUME NEW i \in Instances
          PROVE  /\ i # made'[a] \/ ~listed'[a] \/ exiting'[a] => Quiet(client'[a][i])
                 /\ ~client'[a][i].running => Quiet(client'[a][i])
                 /\ i > made'[a] => client'[a][i].pc = "end"
      <3>1. /\ i # made[a] \/ exiting[a] => Quiet(client[a][i])
            /\ i > made[a] => client[a][i].pc = "end"
        BY DEF Clients
      <3> QED  BY <1>8, <3>1
    <2>2. /\ exiting'[a] => listed'[a] /\ exiting[a]
          /\ listed'[a] => listed[a]
          /\ a = req[r].agent /\ req[r].by = ExitSender => ~listed'[a]
      BY DeliverEffect
    <2>3. a = req[r].agent /\ req[r].by = ExitSender => exiting[a]
      BY DEF Senders
    <2>4. ForceUnderWay(a)' => ForceUnderWay(a)
      <3>1. \A q \in Requests : \/ req'[q] = Idle
                                \/ /\ req'[q].agent = req[q].agent
                                   /\ req'[q].kind = req[q].kind
                                   /\ req'[q].pc = req[q].pc
        BY <1>2, <1>3
      <3> QED  BY <3>1 DEF ForceUnderWay, Idle
    <2> QED  BY <2>1, <2>2, <2>3, <2>4 DEF Clients
  <1>7. Clients'
    BY <1>6 DEF Clients
  <1> QED  BY <1>5, <1>7

\* Nothing changes but the place of a request, or one that nobody waits for
\* is over.
LEMMA PlaceKeeps ==
  ASSUME TypeOK, Senders, Clients,
         UNCHANGED <<client, exiting, listed, made, acked>>,
         \A a \in Agents : crossed[a] => crossed'[a],
         \A q \in Requests :
           \/ req'[q] = Idle
           \/ /\ req[q] # Idle
              /\ req'[q].agent = req[q].agent /\ req'[q].kind = req[q].kind
              /\ req'[q].by = req[q].by
              /\ req'[q].pc = "saving" => req[q].kind = "exit"
              /\ req'[q].pc \in {"sent", "checked"} => req[q].pc \in {"sent", "checked"}
  PROVE  Senders' /\ Clients'
  <1>1. Senders'
    BY DEF Senders
  <1>2. \A a \in Agents : ForceUnderWay(a)' => ForceUnderWay(a)
    BY DEF ForceUnderWay, Idle
  <1>3. Clients'
    BY <1>2 DEF Clients
  <1> QED  BY <1>1, <1>3

LEMMA SendersRequests ==
  ASSUME TypeOK, Senders, Clients, NEW r \in Requests, RequestStep(r) \/ GiveUp(r)
  PROVE  Senders' /\ Clients'
  <1>1. req \in [Requests -> Request] /\ req[r] \in Sending /\ req[r] # Idle
    BY RequestCases
       DEF TypeOK, RequestStep, Check, Update, Saved, Broken, GiveUp, Idle
  <1>2. ASSUME NEW reply, Reply(r, reply), UNCHANGED <<made, crossed>>,
               \A a \in Agents : acked'[a] =>
                 acked[a] \/ (a = req[r].agent /\ req[r].by # Nobody
                                /\ req[r].pc = "saving")
        PROVE  Senders' /\ Clients'
    <2>1. req' = [req EXCEPT ![r] = Idle]
      BY <1>2 DEF Reply
    <2>2. CASE req[r].by = Nobody
      <3>1. UNCHANGED <<client, exiting, listed>>
        BY <1>2, <2>2 DEF Reply
      <3>2. \A a \in Agents : acked'[a] => acked[a]
        BY <1>2, <2>2
      <3>3. \A q \in Requests : req'[q] = Idle \/ req'[q] = req[q]
        BY <1>1, <2>1
      <3>4. Senders'
        BY <3>1, <3>3 DEF Senders
      <3>5. \A a \in Agents : ForceUnderWay(a)' => ForceUnderWay(a)
        BY <3>3 DEF ForceUnderWay, Idle
      <3>6. Clients'
        BY <1>2, <3>1, <3>2, <3>5 DEF Clients
      <3> QED  BY <3>4, <3>6
    <2>3. CASE req[r].by # Nobody
      <3>1. Deliver(req[r].agent, req[r].by, reply)
        BY <1>2, <2>3 DEF Reply
      <3>2. req[r].pc = "saving" => req[r].by = ExitSender
        BY <1>1, <2>3 DEF Senders, Sending
      <3> QED  BY <1>1, <1>2, <2>1, <2>3, <3>1, <3>2, DeliverKeeps
    <2> QED  BY <2>2, <2>3
  <1>3. CASE Check(r)
    <2>1. UNCHANGED <<made, crossed, acked>>
      BY <1>3 DEF Check
    <2>2. CASE \E reply : Reply(r, reply)
      BY <1>2, <2>1, <2>2
    <2>3. CASE /\ req' = [req EXCEPT ![r].pc = "checked"]
               /\ UNCHANGED <<client, exiting, listed>>
      <3>1. req[r].pc = "sent"
        BY <1>3 DEF Check
      <3>2. /\ req'[r].agent = req[r].agent /\ req'[r].kind = req[r].kind
            /\ req'[r].by = req[r].by /\ req'[r].pc = "checked"
            /\ \A q \in Requests : q # r => req'[q] = req[q]
        BY <1>1, <2>3 DEF Sending
      <3>3. \A q \in Requests : req[q].pc = "saving" => req[q].kind = "exit"
        BY DEF Senders, Idle
      <3> QED  BY <1>1, <2>1, <2>3, <3>1, <3>2, <3>3, PlaceKeeps
    <2> QED  BY <1>3, <2>2, <2>3 DEF Check
  <1>4. CASE Update(r)
    <2>1. UNCHANGED <<made, crossed, acked>>
      BY <1>4 DEF Update
    <2>2. CASE \E reply : Reply(r, reply)
      BY <1>2, <2>1, <2>2
    <2>3. CASE /\ req' = [req EXCEPT ![r].pc = "saving"] /\ req[r].kind = "exit"
               /\ UNCHANGED <<client, exiting, listed>>
      <3>1. /\ req'[r].agent = req[r].agent /\ req'[r].kind = req[r].kind
            /\ req'[r].by = req[r].by /\ req'[r].pc = "saving"
            /\ \A q \in Requests : q # r => req'[q] = req[q]
        BY <1>1, <2>3 DEF Sending
      <3>2. \A q \in Requests : req[q].pc = "saving" => req[q].kind = "exit"
        BY DEF Senders, Idle
      <3> QED  BY <1>1, <2>1, <2>3, <3>1, <3>2, PlaceKeeps
    <2> QED  BY <1>4, <2>2, <2>3 DEF Update
  <1>5. CASE Saved(r)
    <2>1. \A a \in Agents : acked'[a] =>
            acked[a] \/ (a = req[r].agent /\ req[r].by # Nobody)
      BY <1>5 DEF Saved, TypeOK
    <2> QED  BY <1>2, <1>5, <2>1 DEF Saved
  <1>6. CASE Broken(r)
    BY <1>2, <1>6 DEF Broken
  <1>7. CASE GiveUp(r)
    <2>1. /\ req[r].by # Nobody /\ Deliver(req[r].agent, req[r].by, "error")
          /\ UNCHANGED <<made, crossed, acked>>
          /\ req' = [req EXCEPT ![r] = Idle] \/ req' = [req EXCEPT ![r].by = Nobody]
      BY <1>7 DEF GiveUp
    <2> QED  BY <1>1, <2>1, DeliverKeeps
  <1> QED  BY <1>3, <1>4, <1>5, <1>6, <1>7 DEF RequestStep

\* What an agent does to its own connection.
LEMMA SendersAgents ==
  ASSUME TypeOK, Senders, Clients, NEW a \in Agents, ConnectionStep(a)
  PROVE  Senders' /\ Clients'
  <1>1. /\ client \in [Agents -> [Instances -> Client]]
        /\ made \in [Agents -> 0 .. MaxClients] /\ req \in [Requests -> Request]
        /\ listed \in [Agents -> BOOLEAN] /\ exiting \in [Agents -> BOOLEAN]
        /\ acked \in [Agents -> BOOLEAN] /\ crossed \in [Agents -> BOOLEAN]
    BY DEF TypeOK
  <1>2. \A b \in Agents, j \in Instances : client[b][j] \in Client
    BY <1>1
  <1>3. listed[a] => made[a] \in Instances
    BY DEF Clients
  <1>4. CASE Connect(a)
    <2> DEFINE c == [NoClient EXCEPT !.running = TRUE, !.stop = FALSE, !.pc = "top"]
               k == made[a] + 1
    <2>1. c \in Client /\ c.running /\ c.pc = "top"
      BY DEF NoClient, Client
    <2>2. k \in Instances /\ k > made[a]
      BY <1>1, <1>4 DEF Connect
    <2>3. client' = [client EXCEPT ![a] = [client[a] EXCEPT ![k] = c]]
      BY <1>4 DEF Connect
    <2>4. /\ made'[a] = k /\ listed'[a] /\ ~acked'[a] /\ ~exiting'[a]
          /\ \A b \in Agents : b # a => /\ made'[b] = made[b] /\ listed'[b] = listed[b]
                                        /\ acked'[b] = acked[b] /\ crossed'[b] = crossed[b]
          /\ UNCHANGED <<req, exiting>>
      BY <1>1, <1>4 DEF Connect
    <2>5. listed[a] => Quiet(client[a][made[a]])
      BY <1>3, <1>4 DEF Connect, IsRunning, Quiet, Clients
    <2> HIDE DEF c, k
    <2>6. \A b \in Agents, j \in Instances :
            client'[b][j] = IF b = a /\ j = k THEN c ELSE client[b][j]
      BY <1>1, <2>1, <2>3, OneClient
    <2>7. \A b \in Agents : ForceUnderWay(b)' <=> ForceUnderWay(b)
      BY <2>4 DEF ForceUnderWay
    <2>8. client[a][k].pc = "end"
      BY <2>2 DEF Clients
    <2>9. Senders'
      <3>1. \A q \in Requests : req[q] # Idle /\ req[q].by \in Instances =>
              client'[req[q].agent][req[q].by].pc = "wait"
        BY <2>6, <2>8, RequestCases DEF Senders, Sending
      <3> QED  BY <2>4, <3>1 DEF Senders
    <2>10. \A j \in Instances :
             /\ j # made'[a] => Quiet(client'[a][j])
             /\ ~client'[a][j].running => Quiet(client'[a][j])
             /\ j > made'[a] => client'[a][j].pc = "end"
      <3> SUFFICES ASSUME NEW j \in Instances
                   PROVE  /\ j # k => Quiet(client'[a][j])
                          /\ ~client'[a][j].running => Quiet(client'[a][j])
                          /\ j > k => client'[a][j].pc = "end"
        BY <2>4
      <3>1. CASE j = k
        BY <2>1, <2>2, <2>6, <3>1
      <3>2. CASE j # k
        <4>1. client'[a][j] = client[a][j]
          BY <2>6, <3>2
        <4>2. j > k => j > made[a]
          BY <1>1 DEF k
        <4> QED  BY <2>5, <3>2, <4>1, <4>2 DEF Clients
      <3> QED  BY <3>1, <3>2
    <2>11. Clients'
      BY <2>2, <2>4, <2>6, <2>7, <2>10 DEF Clients
    <2> QED  BY <2>9, <2>11
  <1>5. CASE Close(a)
    <2> DEFINE c == Stopped(client[a][made[a]])
    <2>1. made[a] \in Instances /\ listed[a] /\ ~exiting[a]
      BY <1>3, <1>5 DEF Close
    <2>2. c \in Client /\ c.stop /\ c.pc = client[a][made[a]].pc
      BY <1>2, <2>1, Answers
    <2>3. client' = [client EXCEPT ![a] = [client[a] EXCEPT ![made[a]] = c]]
      BY <1>5 DEF Close
    <2>4. /\ ~listed'[a] /\ \A b \in Agents : b # a => listed'[b] = listed[b]
          /\ UNCHANGED <<made, exiting, acked, crossed, req>>
      BY <1>1, <1>5 DEF Close
    <2> HIDE DEF c
    <2>5. \A b \in Agents, j \in Instances :
            client'[b][j] = IF b = a /\ j = made[a] THEN c ELSE client[b][j]
      BY <1>1, <2>2, <2>3, OneClient
    <2>6. \A b \in Agents, j \in Instances :
            /\ Quiet(client[b][j]) => Quiet(client'[b][j])
            /\ ~client'[b][j].running => Quiet(client'[b][j])
            /\ client'[b][j].pc = client[b][j].pc
      BY <2>2, <2>5 DEF Quiet, Clients
    <2>7. \A j \in Instances : Quiet(client'[a][j])
      BY <2>2, <2>5 DEF Quiet, Clients
    <2>8. \A b \in Agents : ForceUnderWay(b)' <=> ForceUnderWay(b)
      BY <2>4 DEF ForceUnderWay
    <2>9. Senders'
      BY <2>4, <2>6, RequestCases DEF Senders, Sending
    <2>10. Clients'
      BY <2>1, <2>4, <2>6, <2>7, <2>8 DEF Clients
    <2> QED  BY <2>9, <2>10
  <1>6. ASSUME NEW i \in Instances, LoopEnds(a, i)  PROVE Senders' /\ Clients'
    <2> DEFINE c == [client[a][i] EXCEPT !.pc = "end"]
    <2>1. c \in Client /\ c.pc = "end" /\ client[a][i].pc = "top"
      BY <1>2, <1>6 DEF Client, LoopEnds
    <2>2. client' = [client EXCEPT ![a] = [client[a] EXCEPT ![i] = c]]
      BY <1>6 DEF LoopEnds
    <2>3. UNCHANGED <<made, listed, exiting, acked, crossed, req>>
      BY <1>6 DEF LoopEnds
    <2> HIDE DEF c
    <2>4. \A b \in Agents, j \in Instances :
            client'[b][j] = IF b = a /\ j = i THEN c ELSE client[b][j]
      BY <1>1, <2>1, <2>2, OneClient
    <2>5. \A b \in Agents, j \in Instances :
            \/ client'[b][j] = client[b][j]
            \/ client'[b][j].pc = "end" /\ client[b][j].pc = "top"
      BY <2>1, <2>4
    <2>6. \A b \in Agents : ForceUnderWay(b)' <=> ForceUnderWay(b)
      BY <2>3 DEF ForceUnderWay
    <2>7. Senders'
      BY <2>3, <2>5, RequestCases DEF Senders, Sending
    <2>8. Clients'
      BY <2>3, <2>5, <2>6 DEF Clients, Quiet
    <2> QED  BY <2>7, <2>8
  <1>7. ASSUME NEW i \in Instances, NEW r \in Requests, SendBeat(a, i, r)
        PROVE  Senders' /\ Clients'
    <2> DEFINE c == [client[a][i] EXCEPT !.pc = "wait"]
    <2>1. /\ c \in Client /\ c.pc = "wait" /\ c.stop = client[a][i].stop
          /\ c.running = client[a][i].running
          /\ client[a][i].pc = "top" /\ ~client[a][i].stop
      BY <1>2, <1>7 DEF Client, SendBeat
    <2>2. client' = [client EXCEPT ![a] = [client[a] EXCEPT ![i] = c]]
      BY <1>7 DEF SendBeat
    <2>3. UNCHANGED <<made, listed, exiting, acked, crossed>>
      BY <1>7 DEF SendBeat
    <2>4. /\ i = made[a] /\ listed[a] /\ ~exiting[a] /\ ~acked[a] /\ client[a][i].running
      BY <2>1 DEF Clients, Quiet
    <2> HIDE DEF c
    <2>5. \A b \in Agents, j \in Instances :
            client'[b][j] = IF b = a /\ j = i THEN c ELSE client[b][j]
      BY <1>1, <2>1, <2>2, OneClient
    <2>6. Post(r, a, "force", i) \/ Post(r, a, "beat", i)
      BY <1>7 DEF SendBeat
    <2>7. /\ req[r] = Idle
          /\ req'[r].agent = a /\ req'[r].by = i /\ req'[r].pc = "sent"
          /\ req'[r].kind \in {"force", "beat"}
          /\ \A q \in Requests : q # r => req'[q] = req[q]
      BY <1>1, <2>6 DEF Post
    <2>8. \A q \in Requests : q # r /\ req[q] # Idle =>
            ~(req[q].agent = a /\ req[q].by = i)
      BY <2>1 DEF Senders
    <2>9. \A q \in Requests : q # r /\ req[q] # Idle /\ req[q].by \in Instances =>
            client'[req[q].agent][req[q].by] = client[req[q].agent][req[q].by]
      BY <2>5, <2>8, RequestCases DEF Sending
    <2>10. Senders'
      <3>1. ASSUME NEW q \in Requests, req'[q] # Idle
            PROVE  /\ req'[q].by \in Instances =>
                        /\ client'[req'[q].agent][req'[q].by].pc = "wait"
                        /\ req'[q].kind # "exit"
                   /\ req'[q].by = ExitSender =>
                        exiting'[req'[q].agent] /\ req'[q].kind = "exit"
                   /\ req'[q].pc = "saving" => req'[q].kind = "exit"
        <4>1. CASE q = r
          BY <2>1, <2>5, <2>7, <4>1
        <4>2. CASE q # r
          <5>1. req'[q] = req[q] /\ req[q] # Idle
            BY <2>7, <3>1, <4>2
          <5> QED  BY <2>3, <2>9, <4>2, <5>1 DEF Senders
        <4> QED  BY <4>1, <4>2
      <3>2. ASSUME NEW r1 \in Requests, NEW r2 \in Requests,
                   req'[r1] # Idle, req'[r2] # Idle,
                   req'[r1].agent = req'[r2].agent, req'[r1].by = req'[r2].by,
                   req'[r1].by # Nobody
            PROVE  r1 = r2
        BY <2>7, <2>8, <3>2 DEF Senders
      <3> QED  BY <3>1, <3>2 DEF Senders
    <2>11. \A b \in Agents : b # a => (ForceUnderWay(b)' <=> ForceUnderWay(b))
      BY <2>7 DEF ForceUnderWay, Idle
    <2>12. \A b \in Agents, j \in Instances :
             \/ client'[b][j] = client[b][j]
             \/ b = a /\ j = i /\ client'[b][j] = c
      BY <2>5
    <2>13. Clients'
      <3>1. ASSUME NEW b \in Agents
            PROVE /\ \A j \in Instances :
                       /\ j # made'[b] \/ ~listed'[b] \/ exiting'[b] => Quiet(client'[b][j])
                       /\ ~client'[b][j].running => Quiet(client'[b][j])
                       /\ j > made'[b] => client'[b][j].pc = "end"
                  /\ exiting'[b] => listed'[b]
                  /\ listed'[b] => made'[b] \in Instances
                  /\ acked'[b] => ~listed'[b]
                  /\ (exiting'[b] \/ acked'[b]) /\ ~crossed'[b] => ~ForceUnderWay(b)'
        <4>1. CASE b = a
          <5>1. \A j \in Instances : j # i => client'[a][j] = client[a][j]
            BY <2>5
          <5>2. client'[a][i] = c /\ c.running
            BY <2>1, <2>4, <2>5
          <5> QED  BY <2>3, <2>4, <4>1, <5>1, <5>2 DEF Clients
        <4>2. CASE b # a
          BY <2>3, <2>5, <2>11, <4>2 DEF Clients
        <4> QED  BY <4>1, <4>2
      <3> QED  BY <3>1 DEF Clients
    <2> QED  BY <2>10, <2>13
  <1>8. ASSUME NEW r \in Requests, SendExit(a, r)  PROVE Senders' /\ Clients'
    <2> DEFINE c == [client[a][made[a]] EXCEPT !.stop = TRUE]
    <2>1. listed[a] /\ ~exiting[a] /\ ~acked[a] /\ made[a] \in Instances
      BY <1>3, <1>8 DEF SendExit, Clients
    <2>2. c \in Client /\ c.stop /\ c.pc = client[a][made[a]].pc
      <3>1. client[a][made[a]] \in Client
        BY <1>2, <2>1
      <3> QED  BY <3>1 DEF Client
    <2>3. client' = [client EXCEPT ![a] = [client[a] EXCEPT ![made[a]] = c]]
      BY <1>8 DEF SendExit
    <2>4. /\ exiting'[a] /\ crossed'[a] = (ForceUnderWay(a) \/ a \in deleting)
          /\ \A b \in Agents : b # a => /\ exiting'[b] = exiting[b]
                                        /\ crossed'[b] = crossed[b]
          /\ UNCHANGED <<made, listed, acked>>
      BY <1>1, <1>8 DEF SendExit
    <2> HIDE DEF c
    <2>5. \A b \in Agents, j \in Instances :
            client'[b][j] = IF b = a /\ j = made[a] THEN c ELSE client[b][j]
      BY <1>1, <2>2, <2>3, OneClient
    <2>6. \A b \in Agents, j \in Instances :
            /\ Quiet(client[b][j]) => Quiet(client'[b][j])
            /\ ~client'[b][j].running => Quiet(client'[b][j])
            /\ client'[b][j].pc = client[b][j].pc
      BY <2>2, <2>5 DEF Quiet, Clients
    <2>7. \A j \in Instances : Quiet(client'[a][j])
      BY <2>2, <2>5 DEF Quiet, Clients
    <2>8. /\ req[r] = Idle
          /\ req'[r].agent = a /\ req'[r].by = ExitSender /\ req'[r].pc = "sent"
          /\ req'[r].kind = "exit"
          /\ \A q \in Requests : q # r => req'[q] = req[q]
      BY <1>1, <1>8 DEF SendExit, Post
    <2>9. \A b \in Agents : ForceUnderWay(b)' => ForceUnderWay(b)
      BY <2>8 DEF ForceUnderWay, Idle
    <2>10. \A q \in Requests : req[q] # Idle /\ req[q].by = ExitSender => req[q].agent # a
      BY <2>1 DEF Senders
    <2>11. Senders'
      <3>1. ASSUME NEW q \in Requests, req'[q] # Idle
            PROVE  /\ req'[q].by \in Instances =>
                        /\ client'[req'[q].agent][req'[q].by].pc = "wait"
                        /\ req'[q].kind # "exit"
                   /\ req'[q].by = ExitSender =>
                        exiting'[req'[q].agent] /\ req'[q].kind = "exit"
                   /\ req'[q].pc = "saving" => req'[q].kind = "exit"
        <4>1. CASE q = r
          BY <2>4, <2>8, <4>1
        <4>2. CASE q # r
          <5>1. req'[q] = req[q] /\ req[q] # Idle /\ req[q].agent \in Agents
            BY <2>8, <3>1, <4>2, RequestCases DEF Sending
          <5> QED  BY <2>4, <2>6, <5>1 DEF Senders
        <4> QED  BY <4>1, <4>2
      <3>2. ASSUME NEW r1 \in Requests, NEW r2 \in Requests,
                   req'[r1] # Idle, req'[r2] # Idle,
                   req'[r1].agent = req'[r2].agent, req'[r1].by = req'[r2].by,
                   req'[r1].by # Nobody
            PROVE  r1 = r2
        BY <2>8, <2>10, <3>2 DEF Senders
      <3> QED  BY <3>1, <3>2 DEF Senders
    <2>12. Clients'
      <3>1. ASSUME NEW b \in Agents
            PROVE /\ \A j \in Instances :
                       /\ j # made'[b] \/ ~listed'[b] \/ exiting'[b] => Quiet(client'[b][j])
                       /\ ~client'[b][j].running => Quiet(client'[b][j])
                       /\ j > made'[b] => client'[b][j].pc = "end"
                  /\ exiting'[b] => listed'[b]
                  /\ listed'[b] => made'[b] \in Instances
                  /\ acked'[b] => ~listed'[b]
                  /\ (exiting'[b] \/ acked'[b]) /\ ~crossed'[b] => ~ForceUnderWay(b)'
        <4>1. CASE b = a
          <5>1. \A j \in Instances :
                  /\ ~client'[a][j].running => Quiet(client'[a][j])
                  /\ client'[a][j].pc = client[a][j].pc
            BY <2>6
          <5>2. crossed'[a] \/ ~ForceUnderWay(a)'
            BY <2>4, <2>9
          <5>3. \A j \in Instances : j > made[a] => client[a][j].pc = "end"
            BY DEF Clients
          <5>4. made' = made /\ listed' = listed /\ acked' = acked
            BY <2>4
          <5>5. \A j \in Instances : j > made'[a] => client'[a][j].pc = "end"
            BY <5>1, <5>3, <5>4
          <5>6. /\ exiting'[a] => listed'[a]
                /\ listed'[a] => made'[a] \in Instances
                /\ acked'[a] => ~listed'[a]
            BY <2>1, <5>4
          <5> QED  BY <2>7, <4>1, <5>1, <5>2, <5>5, <5>6
        <4>2. CASE b # a
          BY <2>4, <2>5, <2>9, <4>2 DEF Clients
        <4> QED  BY <4>1, <4>2
      <3> QED  BY <3>1 DEF Clients
    <2> QED  BY <2>11, <2>12
  <1> QED  BY <1>4, <1>5, <1>6, <1>7, <1>8 DEF ConnectionStep

\* The rest of the server leaves the connections alone; another access key
\* does not change what an instance is about to do.
LEMMA SendersServer ==
  ASSUME TypeOK, Senders, Clients, 
         \/ \E a \in Agents : DeleteStep(a)
         \/ MonitorSave \/ OthersMark \/ \E s \in Savers : SaveStep(s)
         \/ Stop \/ Exit \/ Crash \/ Restart
  PROVE  Senders' /\ Clients'
  <1>1. req \in [Requests -> Request] /\ crossed \in [Agents -> BOOLEAN]
    BY DEF TypeOK
  <1>2. \A q \in Requests : req[q].pc = "saving" => req[q].kind = "exit"
    BY DEF Senders, Idle
  <1>3. CASE UNCHANGED <<client, exiting, listed, made, acked, req>> /\
             \A b \in Agents : crossed[b] => crossed'[b]
    BY <1>2, <1>3, PlaceKeeps
  <1>4. ASSUME NEW a \in Agents, Delete(a)  PROVE Senders' /\ Clients'
    <2>1. \A b \in Agents : crossed[b] => crossed'[b]
      BY <1>1, <1>4 DEF Delete
    <2> QED  BY <1>3, <1>4, <2>1 DEF Delete, clientVars
  <1>5. CASE \/ \E a \in Agents, block \in BOOLEAN : Deleted(a, block)
             \/ MonitorSave \/ OthersMark \/ (\E s \in Savers : SaveStep(s)) \/ Stop
    BY <1>3, <1>5 DEF Deleted, MonitorSave, OthersMark, SaveStep, TakeSnapshot,
                      PutFile, ClearDirty, SaveFrame, Stop, clientVars
  <1>6. CASE Gone
    <2>1. UNCHANGED <<client, exiting, listed, made, acked, crossed>>
      BY <1>6 DEF Gone, clientVars
    <2>2. ASSUME NEW q \in Requests, req[q] # Idle
          PROVE  /\ req'[q].agent = req[q].agent /\ req'[q].kind = req[q].kind
                 /\ req'[q].by = req[q].by /\ req'[q].pc = "broken"
      <3>1. req[q] \in Sending
        BY <2>2, RequestCases
      <3>2. req'[q] = [req[q] EXCEPT !.pc = "broken"]
        BY <1>6, <2>2 DEF Gone
      <3> QED  BY <3>1, <3>2 DEF Sending
    <2>3. \A q \in Requests : req[q] = Idle => req'[q] = Idle
      BY <1>6 DEF Gone
    <2> QED  BY <2>1, <2>2, <2>3, PlaceKeeps
  <1>7. CASE Restart
    <2>1. UNCHANGED <<exiting, listed, made, acked, crossed, req>>
      BY <1>7 DEF Restart
    <2>2. ASSUME NEW b \in Agents, NEW i \in Instances
          PROVE  /\ client'[b][i].pc = client[b][i].pc
                 /\ client'[b][i].stop = client[b][i].stop
                 /\ client'[b][i].running = client[b][i].running
      <3>1. client[b][i] \in Client
        BY DEF TypeOK
      <3>2. \/ client'[b][i] = client[b][i]
            \/ client'[b][i] = [client[b][i] EXCEPT !.keyed = FALSE]
        <4>1. CASE client' = client
          BY <4>1
        <4>2. CASE client' = [c \in Agents |-> [j \in Instances |->
                                [client[c][j] EXCEPT !.keyed = FALSE]]]
          <5>1. client'[b] = [j \in Instances |-> [client[b][j] EXCEPT !.keyed = FALSE]]
            BY <4>2
          <5> QED  BY <5>1
        <4> QED  BY <1>7, <4>1, <4>2 DEF Restart
      <3> QED  BY <3>1, <3>2 DEF Client
    <2>3. \A b \in Agents, i \in Instances : Quiet(client'[b][i]) <=> Quiet(client[b][i])
      BY <2>2 DEF Quiet
    <2>4. \A b \in Agents : ForceUnderWay(b)' <=> ForceUnderWay(b)
      BY <2>1 DEF ForceUnderWay
    <2>5. Senders'
      BY <2>1, <2>2, RequestCases DEF Senders, Sending
    <2>6. Clients'
      BY <2>1, <2>2, <2>3, <2>4 DEF Clients
    <2> QED  BY <2>5, <2>6
  <1> QED  BY <1>4, <1>5, <1>6, <1>7 DEF DeleteStep, Exit, Crash

----------------------------------------------------------------------------
(* A server that is down.                                                  *)

LEMMA DownKept ==
  ASSUME TypeOK, DownIsIdle, [Next]_vars
  PROVE  DownIsIdle'
  <1>1. /\ req \in [Requests -> Request]
        /\ save \in [Savers -> SaveRecord]
    BY DEF TypeOK, SaveRecord
  <1>2. CASE Gone
    <2>1. ASSUME NEW q \in Requests  PROVE req'[q].pc \in {"idle", "broken"}
      <3>1. CASE req[q] = Idle
        BY <1>2, <3>1 DEF Gone, Idle
      <3>2. CASE req[q] # Idle
        <4>1. req[q] \in Sending /\ req'[q] = [req[q] EXCEPT !.pc = "broken"]
          BY <1>2, <3>2, RequestCases DEF Gone
        <4> QED  BY <4>1 DEF Sending
      <3> QED  BY <3>1, <3>2
    <2>2. \A s \in Savers : save'[s].pc = "idle"
      BY <1>2 DEF Gone, NoSave
    <2> QED  BY <1>2, <2>1, <2>2 DEF DownIsIdle, Gone
  <1>3. CASE server' = "down" /\ ~Gone
    <2>1. SUFFICES ASSUME server = "down"
                   PROVE  /\ \A q \in Requests : req'[q].pc \notin {"checked", "saving"}
                          /\ UNCHANGED <<save, table>>
      <3>1. server = "down"
        <4>1. CASE \E a \in Agents : \/ Connect(a) \/ Close(a) \/ ClientStep(a)
                                    \/ \E r \in Requests : SendExit(a, r)
          BY <1>3, <4>1 DEF ClientStep, Connect, Close, LoopEnds, SendBeat, SendExit,
                            ServerVars
        <4>2. CASE \E a \in Agents : Delete(a) \/ \E block \in BOOLEAN : Deleted(a, block)
          BY <1>3, <4>2 DEF Delete, Deleted
        <4>3. CASE \E r \in Requests : RequestStep(r) \/ GiveUp(r)
          BY <1>3, <4>3 DEF RequestStep, Check, Update, Saved, Broken, GiveUp, ServerVars
        <4>4. CASE MonitorSave \/ OthersMark \/ \E s \in Savers : SaveStep(s)
          BY <1>3, <4>4 DEF MonitorSave, OthersMark, SaveStep, TakeSnapshot, PutFile,
                            ClearDirty, SaveFrame
        <4>5. CASE Stop \/ Exit \/ Crash \/ Restart \/ UNCHANGED vars
          BY <1>3, <4>5 DEF Stop, Exit, Crash, Restart, vars
        <4> QED  BY <4>1, <4>2, <4>3, <4>4, <4>5 DEF Next
      <3> QED  BY <1>3, <3>1 DEF DownIsIdle
    <2>2. /\ \A q \in Requests : req[q].pc \notin {"checked", "saving"}
          /\ \A s \in Savers : save[s].pc = "idle"
      BY <2>1 DEF DownIsIdle
    <2>3. CASE UNCHANGED <<save, table, req>>
      BY <2>2, <2>3
    <2>4. ASSUME NEW r \in Requests, Broken(r) \/ GiveUp(r)
          PROVE  /\ \A q \in Requests : req'[q].pc \notin {"checked", "saving"}
                 /\ UNCHANGED <<save, table>>
      <3>1. UNCHANGED <<save, table>>
        BY <2>4 DEF Broken, GiveUp, ServerVars, files
      <3>2. req[r] \in Sending
        BY <2>4, RequestCases DEF Broken, GiveUp, Idle
      <3>3. req'[r] = Idle \/ req'[r].pc = req[r].pc
        BY <1>1, <2>4, <3>2 DEF Broken, GiveUp, Reply, Sending
      <3>4. \A q \in Requests : q # r => req'[q] = req[q]
        BY <1>1, <2>4 DEF Broken, GiveUp, Reply
      <3> QED  BY <2>2, <3>1, <3>3, <3>4 DEF Idle
    <2>5. ASSUME NEW a \in Agents, NEW i \in Instances, NEW r \in Requests,
                 SendBeat(a, i, r) \/ SendExit(a, r)
          PROVE  /\ \A q \in Requests : req'[q].pc \notin {"checked", "saving"}
                 /\ UNCHANGED <<save, table>>
      <3>1. UNCHANGED <<save, table>>
        BY <2>5 DEF SendBeat, SendExit, ServerVars, files
      <3>2. \E kind, by : Post(r, a, kind, by)
        BY <2>5 DEF SendBeat, SendExit
      <3>3. \A q \in Requests : req'[q] = req[q] \/ req'[q].pc = "sent"
        BY <1>1, <3>2 DEF Post
      <3> QED  BY <2>2, <3>1, <3>3
    <2>6. ASSUME NEW r \in Requests  PROVE ~Check(r) /\ ~Update(r) /\ ~Saved(r)
      BY <2>1, <2>2 DEF Check, Update, Saved
    <2>7. ASSUME NEW s \in Savers  PROVE ~SaveStep(s)
      BY <2>2 DEF SaveStep, TakeSnapshot, PutFile, ClearDirty
    <2>8. CASE \E a \in Agents :
                 \/ Connect(a) \/ Close(a) \/ Delete(a)
                 \/ \E i \in Instances : LoopEnds(a, i)
                 \/ \E block \in BOOLEAN : Deleted(a, block)
      BY <2>1, <2>3, <2>8 DEF Connect, Close, Delete, LoopEnds, Deleted, ServerVars, files,
                        clientVars
    <2>9. CASE MonitorSave \/ OthersMark \/ Stop \/ Exit \/ Crash \/ Restart
               \/ UNCHANGED vars
      BY <1>3, <2>1, <2>3, <2>9 DEF MonitorSave, OthersMark, Stop, Exit, Crash, Restart,
                                    vars, files, clientVars
    <2> QED  BY <2>4, <2>5, <2>6, <2>7, <2>8, <2>9 DEF Next, ClientStep, RequestStep
  <1> QED  BY <1>2, <1>3 DEF DownIsIdle

----------------------------------------------------------------------------
(* Exits that the master has acknowledged.                                 *)

\* Neither the table, the file nor a copy on its way changes.
LEMMA KeptFrame ==
  ASSUME NEW a \in Agents, Kept(a), UNCHANGED <<table, disk>>,
         server' = server \/ server # "down",
         acked'[a] => acked[a],
         \A s \in Savers : save'[s].pc = "put" => save'[s] = save[s],
         \A r \in Requests :
           req'[r].pc = "saving" /\ req'[r].agent = a /\ req'[r].by = ExitSender =>
             /\ req[r].pc = "saving" /\ req[r].agent = a /\ req[r].by = ExitSender
             /\ save'[r].pc \in {"clear", "idle"} => save[r].pc \in {"clear", "idle"}
  PROVE  Kept(a)'
  <1>1. Settled(a) => Settled(a)'
    BY DEF Settled
  <1>2. Stored(a)' <=> Stored(a)
    BY DEF Stored
  <1> QED  BY <1>1, <1>2 DEF Kept

\* No exit of the agent has been acknowledged or is being saved.
LEMMA NoExit ==
  ASSUME Senders, NEW a \in Agents, ~acked[a], ~exiting[a]
  PROVE  /\ Kept(a)
         /\ \A r \in Requests : req[r].pc = "saving" /\ req[r].agent = a =>
                                  req[r].by # ExitSender
  BY DEF Senders, Kept, Idle

LEMMA KeptAgents ==
  ASSUME TypeOK, Senders, Clients, Exits, NEW a \in Agents,
         ConnectionStep(a) \/ DeleteStep(a)
  PROVE  Exits'
  <1>1. /\ req \in [Requests -> Request] /\ table \in [Agents -> Entry]
        /\ acked \in [Agents -> BOOLEAN] /\ crossed \in [Agents -> BOOLEAN]
    BY DEF TypeOK
  <1>2. /\ UNCHANGED <<disk, save, overlapped, server>>
        /\ \A b \in Agents : b # a => /\ acked'[b] = acked[b] /\ crossed'[b] = crossed[b]
                                      /\ table'[b] = table[b]
    BY <1>1 DEF ConnectionStep, DeleteStep, Connect, Close, LoopEnds, SendBeat, SendExit,
                Delete, Deleted, ServerVars, files
  <1>3. \A q \in Requests : req'[q] = req[q] \/ req'[q].pc = "sent"
    <2>1. CASE UNCHANGED req
      BY <2>1
    <2>2. CASE \E r \in Requests : \E kind, by : Post(r, a, kind, by)
      BY <1>1, <2>2 DEF Post
    <2> QED  BY <2>1, <2>2 DEF ConnectionStep, DeleteStep, Connect, Close, LoopEnds,
                               SendBeat, SendExit, Delete, Deleted, clientVars
  <1>4. ASSUME NEW b \in Agents, b # a, ~crossed'[b], ~overlapped'  PROVE Kept(b)'
    <2>1. Kept(b)
      BY <1>2, <1>4 DEF Exits
    <2>2. Settled(b)' <=> Settled(b)
      BY <1>2, <1>4 DEF Settled
    <2>3. Stored(b)' <=> Stored(b)
      BY <1>2 DEF Stored
    <2> QED  BY <1>2, <1>3, <1>4, <2>1, <2>2, <2>3 DEF Kept
  <1>5. ASSUME ~crossed'[a], ~overlapped'  PROVE Kept(a)'
    <2>1. CASE Connect(a) \/ \E r \in Requests : SendExit(a, r)
      <3>1. ~exiting[a] /\ ~acked'[a]
        BY <1>1, <2>1 DEF Connect, SendExit, Clients
      <3>2. \A q \in Requests : req[q].pc = "saving" /\ req[q].agent = a =>
                                  req[q].by # ExitSender
        BY <3>1 DEF Senders, Idle
      <3> QED  BY <1>3, <3>1, <3>2 DEF Kept
    <2>2. CASE \/ Close(a) \/ \E i \in Instances : LoopEnds(a, i)
               \/ \E i \in Instances, r \in Requests : SendBeat(a, i, r)
               \/ \E block \in BOOLEAN : Deleted(a, block)
      <3>1. UNCHANGED <<table, acked, crossed>>
        BY <2>2 DEF Close, LoopEnds, SendBeat, Deleted, ServerVars
      <3>2. Kept(a)
        BY <1>2, <1>5, <3>1 DEF Exits
      <3> QED  BY <1>2, <1>3, <3>1, <3>2, KeptFrame
    <2>3. CASE Delete(a)
      BY <1>1, <1>5, <2>3 DEF Delete
    <2> QED  BY <2>1, <2>2, <2>3 DEF ConnectionStep, DeleteStep
  <1> QED  BY <1>4, <1>5 DEF Exits

LEMMA KeptRequests ==
  ASSUME TypeOK, Senders, Clients, DownIsIdle, Exits, NEW r \in Requests,
         RequestStep(r) \/ GiveUp(r)
  PROVE  Exits'
  <1>1. /\ req \in [Requests -> Request] /\ req[r] \in Sending /\ req[r] # Idle
        /\ table \in [Agents -> Entry] /\ save \in [Savers -> SaveRecord]
        /\ acked \in [Agents -> BOOLEAN] /\ crossed \in [Agents -> BOOLEAN]
    BY RequestCases
       DEF TypeOK, SaveRecord, RequestStep, Check, Update, Saved, Broken, GiveUp, Idle
  <1>2. /\ UNCHANGED <<disk, server, crossed>> /\ (overlapped => overlapped')
    <2>1. CASE Check(r) \/ Saved(r)
      BY <2>1 DEF Check, Saved, files
    <2>2. CASE Update(r)
      BY <2>2 DEF Update
    <2>3. CASE Broken(r) \/ GiveUp(r)
      BY <2>3 DEF Broken, GiveUp, ServerVars, files
    <2> QED  BY <2>1, <2>2, <2>3 DEF RequestStep
  <1>3. \A reply : Reply(r, reply) =>
          \A q \in Requests : req'[q] = req[q] \/ req'[q].pc = "idle"
    BY <1>1 DEF Reply, Idle
  <1>4. SUFFICES ASSUME NEW a \in Agents, ~crossed[a], ~overlapped', ~overlapped, Kept(a)
                 PROVE  Kept(a)'
    BY <1>2 DEF Exits
  <1>5. CASE Check(r)
    <2>1. UNCHANGED <<table, save, acked>>
      BY <1>5 DEF Check, files
    <2>2. req'[r].pc \in {"checked", "idle"} /\ \A q \in Requests : q # r => req'[q] = req[q]
      BY <1>1, <1>5 DEF Check, Reply, Idle, Sending
    <2> QED  BY <1>2, <1>4, <2>1, <2>2, KeptFrame
  <1>6. CASE Update(r)
    <2>1. /\ req[r].pc = "checked" /\ acked' = acked /\ server # "down"
          /\ table' = [table EXCEPT ![req[r].agent] = Recorded(req[r].kind, @)]
      BY <1>6 DEF Update, DownIsIdle
    <2>2. CASE req[r].kind # "exit"
      <3>1. UNCHANGED save /\ \A q \in Requests : req'[q] = req[q] \/ req'[q].pc = "idle"
        BY <1>3, <1>6, <2>2 DEF Update
      <3>2. CASE a # req[r].agent
        <4>1. table'[a] = table[a]
          BY <1>1, <2>1, <3>2
        <4>2. Settled(a)' <=> Settled(a)
          BY <1>2, <3>1, <4>1 DEF Settled
        <4>3. Stored(a)' <=> Stored(a)
          BY <1>2 DEF Stored
        <4> QED  BY <1>4, <2>1, <3>1, <4>2, <4>3 DEF Kept
      <3>3. CASE a = req[r].agent /\ (acked[a] \/ exiting[a])
        <4>1. req[r].kind # "force"
          BY <1>4, <2>1, <3>3 DEF Clients, ForceUnderWay
        <4>2. table'[a] = IF table[a] = "exit" THEN "exit" ELSE "alive"
          BY <1>1, <2>1, <2>2, <3>3, <4>1 DEF Recorded
        <4>3. Settled(a) => Settled(a)'
          BY <1>2, <2>1, <3>1, <4>2 DEF Settled
        <4>4. Stored(a)' <=> Stored(a)
          BY <1>2 DEF Stored
        <4> QED  BY <1>4, <2>1, <3>1, <4>3, <4>4 DEF Kept
      <3>4. CASE ~acked[a] /\ ~exiting[a]
        BY <2>1, <3>1, <3>4, NoExit DEF Kept
      <3> QED  BY <3>2, <3>3, <3>4
    <2>3. CASE req[r].kind = "exit"
      <3>1. /\ save' = [save EXCEPT ![r].pc = "snap"]
            /\ \A s \in Savers : save[s].pc = "idle"
        BY <1>4, <1>6, <2>3 DEF Update
      <3>2. /\ save'[r].pc = "snap"
            /\ \A s \in Savers : s # r => save'[s].pc = "idle"
        BY <1>1, <3>1 DEF SaveRecord
      <3>3. /\ req'[r].agent = req[r].agent /\ req'[r].by = req[r].by
            /\ \A q \in Requests : q # r => req'[q] = req[q]
        BY <1>1, <1>6, <2>3 DEF Update, Sending
      <3>4. Stored(a)' <=> Stored(a)
        BY <1>2 DEF Stored
      <3>5. table'[a] \in {"exit", table[a]} /\ (a = req[r].agent => table'[a] = "exit")
        BY <1>1, <2>1, <2>3 DEF Recorded
      <3>6. Settled(a) \/ a = req[r].agent => Settled(a)'
        <4>1. \A s \in Savers : save'[s].pc # "put"
          BY <3>2
        <4> QED  BY <1>2, <2>1, <3>5, <4>1 DEF Settled
      <3> QED  BY <1>4, <2>1, <3>1, <3>2, <3>3, <3>4, <3>6 DEF Kept
    <2> QED  BY <2>2, <2>3
  <1>7. CASE Saved(r)
    <2>1. /\ UNCHANGED <<table, save>>
          /\ req[r].pc = "saving" /\ save[r].pc = "idle"
          /\ acked' = [acked EXCEPT ![req[r].agent] = @ \/ req[r].by # Nobody]
          /\ \A q \in Requests : req'[q] = req[q] \/ req'[q].pc = "idle"
      BY <1>3, <1>7 DEF Saved, files
    <2>2. req[r].by # Nobody => req[r].by = ExitSender
      BY <1>1, <2>1 DEF Senders, Sending
    <2>3. acked'[a] => acked[a] \/ (a = req[r].agent /\ req[r].by = ExitSender)
      BY <1>1, <2>1, <2>2
    <2>4. (Settled(a)' <=> Settled(a)) /\ (Stored(a)' <=> Stored(a))
      BY <1>2, <2>1 DEF Settled, Stored
    <2> QED  BY <1>4, <2>1, <2>3, <2>4 DEF Kept
  <1>8. CASE Broken(r)
    <2>1. UNCHANGED <<table, save, acked>>
      BY <1>8 DEF Broken, ServerVars, files
    <2> QED  BY <1>2, <1>3, <1>4, <1>8, <2>1, KeptFrame DEF Broken
  <1>9. CASE GiveUp(r)
    <2>1. UNCHANGED <<table, save, acked>>
      BY <1>9 DEF GiveUp, ServerVars, files
    <2>2. req'[r].pc = "idle" \/ req'[r].by = Nobody
      BY <1>1, <1>9 DEF GiveUp, Sending, Idle
    <2>3. \A q \in Requests : q # r => req'[q] = req[q]
      BY <1>1, <1>9 DEF GiveUp
    <2> QED  BY <1>2, <1>4, <2>1, <2>2, <2>3, KeptFrame
  <1> QED  BY <1>5, <1>6, <1>7, <1>8, <1>9 DEF RequestStep

LEMMA KeptServer ==
  ASSUME TypeOK, Solo, DownIsIdle, Exits, NEW s \in Savers,
         \/ MonitorSave \/ OthersMark \/ SaveStep(s)
         \/ Stop \/ Exit \/ Crash \/ Restart
  PROVE  Exits'
  <1>1. save \in [Savers -> SaveRecord] /\ Requests \subseteq Savers
    BY DEF TypeOK, SaveRecord
  <1>2. /\ UNCHANGED <<acked, crossed>> /\ (overlapped => overlapped')
    <2>1. CASE MonitorSave \/ OthersMark \/ Stop
      BY <2>1 DEF MonitorSave, BeginSave, OthersMark, Stop, files
    <2>2. CASE SaveStep(s)
      BY <2>2 DEF SaveStep, TakeSnapshot, PutFile, ClearDirty, SaveFrame
    <2>3. CASE Exit \/ Crash \/ Restart
      BY <2>3 DEF Exit, Crash, Gone, Restart, files
    <2> QED  BY <2>1, <2>2, <2>3
  <1>3. SUFFICES ASSUME NEW a \in Agents, ~overlapped', ~overlapped, Kept(a)
                 PROVE  Kept(a)'
    BY <1>2 DEF Exits
  <1>4. CASE OthersMark
    BY <1>2, <1>3, <1>4, KeptFrame DEF OthersMark, files
  <1>5. CASE MonitorSave \/ Stop
    <2>1. /\ UNCHANGED <<table, disk, req>> /\ (server' = server \/ server # "down")
      BY <1>5 DEF MonitorSave, BeginSave, Stop, files
    <2>2. PICK t \in {Monitor, Main} : save' = save \/ save' = [save EXCEPT ![t].pc = "snap"]
      BY <1>5 DEF MonitorSave, BeginSave, Stop, files
    <2>3. /\ \A u \in Savers : save'[u].pc = "put" => save'[u] = save[u]
          /\ \A q \in Requests : save'[q] = save[q]
      BY <1>1, <2>2 DEF SaveRecord
    <2> QED  BY <1>2, <1>3, <2>1, <2>3, KeptFrame
  <1>6. CASE TakeSnapshot(s)
    <2>1. /\ UNCHANGED <<table, disk, req, server>> /\ save[s].pc = "snap"
          /\ server # "down"
      BY <1>6 DEF TakeSnapshot, SaveFrame, DownIsIdle
    <2>2. /\ save'[s].pc = "put" /\ save'[s].data.table = table
          /\ \A t \in Savers : t # s => save'[t] = save[t]
      BY <1>1, <1>6 DEF TakeSnapshot, SaveRecord, Snapshot
    <2>3. Settled(a) => Settled(a)'
      BY <2>1, <2>2 DEF Settled
    <2>4. Stored(a)' <=> Stored(a)
      BY <2>1 DEF Stored
    <2> QED  BY <1>2, <1>3, <2>1, <2>2, <2>3, <2>4 DEF Kept
  <1>7. CASE PutFile(s)
    <2>1. /\ UNCHANGED <<table, req, server>> /\ save[s].pc = "put"
          /\ \A t \in Savers \ {s} : save[t].pc # "put"
      BY <1>3, <1>7 DEF PutFile, SaveFrame, Solo
    <2>2. /\ disk' = Holding([save[s].data EXCEPT !.removed = removed])
          /\ save'[s].pc = "clear"
          /\ \A t \in Savers : t # s => save'[t] = save[t]
      BY <1>1, <1>7, <2>1 DEF PutFile, SaveFrame, NoSave
    <2>3. disk'.kind = "data" /\ disk'.data.table = save[s].data.table
      BY <1>1, <2>2 DEF Holding, SaveRecord, Snapshot
    <2>4. Settled(a) => Settled(a)'
      BY <2>1, <2>2 DEF Settled
    <2>5. Settled(a) => Stored(a)'
      BY <2>1, <2>3 DEF Settled, Stored
    <2> QED  BY <1>2, <1>3, <2>1, <2>4, <2>5 DEF Kept
  <1>8. CASE ClearDirty(s)
    <2>1. /\ UNCHANGED <<table, disk, req, server>> /\ save[s].pc = "clear"
      BY <1>8 DEF ClearDirty, SaveFrame
    <2>2. /\ save'[s].pc = "idle" /\ \A t \in Savers : t # s => save'[t] = save[t]
      BY <1>1, <1>8 DEF ClearDirty, NoSave
    <2> QED  BY <1>2, <1>3, <2>1, <2>2, KeptFrame
  <1>9. CASE Exit \/ Crash
    <2>1. /\ server' = "down" /\ UNCHANGED disk
          /\ \A t \in Savers : save'[t].pc = "idle"
      BY <1>9 DEF Exit, Crash, Gone, NoSave
    <2>2. Settled(a)' /\ (Stored(a)' <=> Stored(a))
      BY <2>1 DEF Settled, Stored
    <2>3. ASSUME NEW q \in Requests  PROVE req'[q].pc # "saving"
      <3>1. CASE req[q] = Idle
        BY <1>9, <3>1 DEF Exit, Crash, Gone, Idle
      <3>2. CASE req[q] # Idle
        <4>1. req[q] \in Sending /\ req'[q] = [req[q] EXCEPT !.pc = "broken"]
          BY <1>9, <3>2, RequestCases DEF Exit, Crash, Gone
        <4> QED  BY <4>1 DEF Sending
      <3> QED  BY <3>1, <3>2
    <2> QED  BY <1>2, <1>3, <2>2, <2>3 DEF Kept
  <1>10. CASE Restart
    <2>1. /\ server = "down" /\ table' = disk.data.table /\ UNCHANGED <<save, req, disk>>
      BY <1>10 DEF Restart, files
    <2>2. /\ \A q \in Requests : req[q].pc # "saving"
          /\ \A t \in Savers : save[t].pc = "idle"
      BY <2>1 DEF DownIsIdle
    <2>3. Stored(a) => Stored(a)' /\ Settled(a)'
      BY <2>1, <2>2 DEF Settled, Stored
    <2> QED  BY <1>2, <1>3, <2>1, <2>2, <2>3 DEF Kept
  <1> QED  BY <1>4, <1>5, <1>6, <1>7, <1>8, <1>9, <1>10 DEF SaveStep

----------------------------------------------------------------------------
(* The theorems.                                                           *)

Inv ==
  /\ TypeOK
  /\ Senders /\ Clients
  /\ Solo /\ FileReadable
  /\ DownIsIdle
  /\ Apart
  /\ Exits

LEMMA InitInv == Init => Inv
  <1> SUFFICES ASSUME Init PROVE Inv
    OBVIOUS
  <1>1. TypeOK
    BY InitTypes
  <1>2. Senders
    BY DEF Init, Senders
  <1>3. Clients
    <2>1. \A a \in Agents : \A i \in Instances :
            Quiet(client[a][i]) /\ client[a][i].pc = "end"
      BY DEF Init, NoClient, Quiet
    <2>2. \A a \in Agents : ~ForceUnderWay(a)
      BY DEF Init, Idle, ForceUnderWay
    <2> QED  BY <2>1, <2>2 DEF Init, Clients
  <1>4. Solo /\ FileReadable
    BY DEF Init, Solo, FileReadable, NoSave, Missing, Partial
  <1>5. DownIsIdle
    BY DEF Init, DownIsIdle
  <1>6. Apart
    BY DEF Init, Apart, RemovedApart, Missing, Nothing, NoSave, Idle
  <1>7. Exits
    BY DEF Init, Exits, Kept, Idle
  <1> QED  BY <1>1, <1>2, <1>3, <1>4, <1>5, <1>6, <1>7 DEF Inv

LEMMA NextInv == Inv /\ [Next]_vars => Inv'
  <1> SUFFICES ASSUME Inv, [Next]_vars PROVE Inv'
    OBVIOUS
  <1>0. TypeOK /\ Senders /\ Clients /\ Solo /\ FileReadable /\ DownIsIdle /\ Apart /\ Exits
    BY DEF Inv
  <1>1. Solo' /\ FileReadable' /\ DownIsIdle'
    BY <1>0, SoloKept, ReadableKept, DownKept
  <1>2. ASSUME NEW a \in Agents, ConnectionStep(a)
        PROVE  TypeOK' /\ Senders' /\ Clients' /\ Apart' /\ Exits'
    BY <1>0, <1>2, AgentTypes, SendersAgents, ApartAgents, KeptAgents
  <1>3. ASSUME NEW a \in Agents, DeleteStep(a)
        PROVE  TypeOK' /\ Senders' /\ Clients' /\ Apart' /\ Exits'
    BY <1>0, <1>3, AgentTypes, SendersServer, ApartAgents, KeptAgents
  <1>4. ASSUME NEW r \in Requests, RequestStep(r) \/ GiveUp(r)
        PROVE  TypeOK' /\ Senders' /\ Clients' /\ Apart' /\ Exits'
    BY <1>0, <1>4, RequestTypes, SendersRequests, ApartRequests, KeptRequests
  <1>5. ASSUME NEW s \in Savers, MonitorSave \/ OthersMark \/ SaveStep(s)
        PROVE  TypeOK' /\ Senders' /\ Clients' /\ Apart' /\ Exits'
    BY <1>0, <1>5, SaveTypes, SendersServer, ApartServer, KeptServer
  <1>6. ASSUME Stop \/ Exit \/ Crash \/ Restart
        PROVE  TypeOK' /\ Senders' /\ Clients' /\ Apart' /\ Exits'
    <2>1. Monitor \in Savers
      OBVIOUS
    <2> QED  BY <1>0, <1>6, <2>1, DownTypes, SendersServer, ApartServer, KeptServer
  <1>7. ASSUME UNCHANGED vars
        PROVE  TypeOK' /\ Senders' /\ Clients' /\ Apart' /\ Exits'
    <2>1. TypeOK' /\ Senders' /\ Clients'
      BY <1>0, <1>7 DEF vars, clientVars, files, TypeOK, Senders, Clients, ForceUnderWay
    <2>2. Apart' /\ Exits'
      BY <1>0, <1>7
         DEF vars, clientVars, files, Apart, RemovedApart, Exits, Kept, Settled, Stored
    <2> QED  BY <2>1, <2>2
  <1>8. CASE Next
    <2>1. \/ \E a \in Agents : ConnectionStep(a) \/ DeleteStep(a)
          \/ \E r \in Requests : RequestStep(r) \/ GiveUp(r)
          \/ MonitorSave \/ OthersMark \/ \E s \in Savers : SaveStep(s)
          \/ Stop \/ Exit \/ Crash \/ Restart
      BY <1>8 DEF Next, ClientStep, ConnectionStep, DeleteStep
    <2>2. Monitor \in Savers
      OBVIOUS
    <2>3. TypeOK' /\ Senders' /\ Clients' /\ Apart' /\ Exits'
      BY <1>2, <1>3, <1>4, <1>5, <1>6, <2>1, <2>2
    <2> QED  BY <1>1, <2>3 DEF Inv
  <1> QED  BY <1>1, <1>7, <1>8 DEF Inv

\* In every state reached, the invariant holds: the threads of the server that
\* save are where their steps say, nothing runs while it is down, and a removed
\* agent or an acknowledged exit is known to everything still under way that
\* could undo it.
THEOREM InvariantHolds == Spec => []Inv
  BY InitInv, NextInv, PTL DEF Spec

\* The file of the agents cannot be read only after two saves at a time:
\* _save_db replaces it as a whole, and only two threads between its copy and
\* its os.replace can mix their temporary files.
THEOREM FileStaysReadable == Spec => []FileReadable
  <1>1. Inv => FileReadable
    BY DEF Inv
  <1> QED  BY InvariantHolds, <1>1, PTL

\* A removed agent comes back to the table of the master only when its delete
\* met a register or a save half-way: not by a heartbeat, nor by a restart.
THEOREM RemovedStaysApart == Spec => []RemovedApart
  <1>1. Inv => RemovedApart
    BY DEF Inv, Apart
  <1> QED  BY InvariantHolds, <1>1, PTL

\* An exit that the master has acknowledged is in its table and in its file,
\* and stays so through late heartbeats, saves, crashes and restarts.
THEOREM AcknowledgedExitSticks == Spec => []ExitSticks
  <1>1. Inv => ExitSticks
    <2> SUFFICES ASSUME Inv PROVE ExitSticks
      OBVIOUS
    <2>1. TypeOK
      BY DEF Inv
    <2>2. ASSUME NEW a \in Agents, acked[a], ~crossed[a], ~overlapped
          PROVE  /\ table[a] # "alive"
                 /\ disk.kind = "data" /\ disk.data.table[a] # "alive"
      <3>1. Settled(a) /\ Stored(a)
        BY <2>2 DEF Inv, Exits, Kept
      <3>2. table[a] # "alive"
        BY <3>1 DEF Inv, DownIsIdle, Settled, Nothing
      <3> QED  BY <3>1, <3>2 DEF Stored
    <2> QED  BY <2>1, <2>2 DEF ExitSticks
  <1> QED  BY InvariantHolds, <1>1, PTL

=============================================================================
