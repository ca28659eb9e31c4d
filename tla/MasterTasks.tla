---------------------------- MODULE MasterTasks ----------------------------
(***************************************************************************)
(* The tasks the master server runs for one workspace (api_master.py, the  *)
(* launch mode "process"): a request that launches or relaunches a task,   *)
(* the refresh that looks after its process, requests that stop it, delete *)
(* its record or read its logs, and a restart of the server.               *)
(*                                                                         *)
(* All launches of a workspace use its task id, so _tasks holds at most    *)
(* one of their records and _task_runtime one of their processes.  A       *)
(* launch keeps writing to its own record after it has left _tasks.        *)
(* Requests run in threads of a pool.  _tasks_lock guards the table, and   *)
(* the refresh holds it while it judges a task by fields it has read one   *)
(* after the other; but a launch, a stop and a reader of the logs write    *)
(* these fields without the lock, at any of its steps.  A finished record  *)
(* is stopped or failed by the code of its process, which nothing here     *)
(* depends on.                                                             *)
(***************************************************************************)
EXTENDS Naturals

CONSTANTS
  N,          \* bound: requests that launch or relaunch the task
  MaxEvents,  \* bound: stops, deletes, reads of the logs, restarts
  Weight      \* bound: for how many of these each launch counts but the first

ASSUME LaunchesAssumption == N \in Nat
ASSUME EventsAssumption == MaxEvents \in Nat /\ Weight \in Nat

Launches == 1 .. N \* in the order of the requests
None == 0

VARIABLES
  launch,   \* by launch: what its request is about to do
  rec,      \* by launch: its record, with dates of start and end or not
  cur,      \* the launch whose record is in _tasks
  runtime,  \* the launch whose process is in _task_runtime
  proc,     \* by launch: its process
  agent,    \* by launch: what its agent has told the master
  refresh,  \* the refresh under way, with what it has read
  stop,     \* the stop request under way
  drain,    \* the reader of the logs under way
  deleting, \* a delete request is about to close the runtime
  events,
  letGo,    \* history: launches whose process the master may have let go
  blind,    \* history: launches ended by a refresh or a reader of the logs
            \* that had not seen their own process
  strayed   \* history: a runtime was closed for another launch, or requests
            \* were cut off by a restart

vars == <<launch, rec, cur, runtime, proc, agent, refresh, stop, drain,
          deleting, events, letGo, blind, strayed>>

Open == {"starting", "running", "stopping"}
NoRefresh == [pc |-> "idle", of |-> None, pid |-> FALSE, runtime |-> None,
              gone |-> FALSE, alive |-> FALSE, ended |-> FALSE,
              seen |-> FALSE]
NoStop == [of |-> None, pc |-> "idle"]
NoDrain == [of |-> None, pc |-> "idle"]

TypeOK ==
  /\ launch \in [Launches -> {"idle", "check", "drop", "close", "create",
                              "pending", "starting", "spawned", "started",
                              "done"}]
  /\ rec \in [Launches -> [status : {"none", "pending", "finished"} \cup Open,
                           pid : BOOLEAN, started : BOOLEAN,
                      ended : BOOLEAN]]
  /\ cur \in Launches \cup {None} /\ runtime \in Launches \cup {None}
  /\ proc \in [Launches -> [state : {"none", "alive", "zombie", "dead"},
                            child : BOOLEAN, killed : BOOLEAN]]
  /\ agent \in [Launches -> {"none", "online", "exit"}]
  /\ refresh \in [pc : {"idle", "lock", "runtime", "test", "status", "probe",
                       "close", "up", "forget"},
                 of : Launches \cup {None}, pid : BOOLEAN,
                 runtime : Launches \cup {None},
                 gone : BOOLEAN,
                 alive : BOOLEAN, ended : BOOLEAN, seen : BOOLEAN]
  /\ stop \in [of : Launches \cup {None}, pc : {"idle", "check", "mark", "kill"}]
  /\ drain \in [of : Launches \cup {None}, pc : {"idle", "poll", "close", "finish"}]
  /\ deleting \in BOOLEAN
  /\ events \in 0 .. MaxEvents
  /\ letGo \subseteq Launches /\ blind \subseteq Launches /\ strayed \in BOOLEAN

Init ==
  /\ launch = [l \in Launches |-> "idle"]
  /\ rec = [l \in Launches |->
              [status |-> "none", pid |-> FALSE, started |-> FALSE,
               ended |-> FALSE]]
  /\ cur = None /\ runtime = None
  /\ proc = [l \in Launches |-> [state |-> "none", child |-> TRUE,
                                 killed |-> FALSE]]
  /\ agent = [l \in Launches |-> "none"]
  /\ refresh = NoRefresh /\ stop = NoStop /\ drain = NoDrain /\ deleting = FALSE
  /\ events = 0 /\ letGo = {} /\ blind = {} /\ strayed = FALSE

\* _task_is_finished: by its status or its date of end
IsFinished(l) == rec[l].status = "finished" \/ rec[l].ended
Alive(l) == proc[l].state = "alive"
Ended(l) == proc[l].state \in {"zombie", "dead"}
LockFree == refresh.pc \in {"idle", "lock"}
Counts(n) == events + n <= MaxEvents /\ events' = events + n
Event == Counts(1)
Goes(l, pc) == launch' = [launch EXCEPT ![l] = pc]
Sets(l, status) == rec' = [rec EXCEPT ![l].status = status]
Finish(l) == rec' = [rec EXCEPT ![l].status = "finished", ![l].ended = TRUE]

\* poll, or a wait for a child that nobody polls any more
Reaped(ls) == [l \in Launches |->
  IF l \in ls /\ proc[l].state = "zombie"
  THEN [proc[l] EXCEPT !.state = "dead"] ELSE proc[l]]

\* _is_pid_alive: the pid of a child that was not waited for exists
PidAlive(l) == rec[l].pid /\ proc[l].state \in {"alive", "zombie"}

\* _close_task_runtime, in a request of launch l or of none: the runtime is
\* found by the task id, whoever's it is
CloseRuntime(l) ==
  /\ runtime' = None
  /\ strayed' = (strayed \/ cur \notin {l, None})
Cut(l) ==
  IF cur \notin {l, None} /\ launch[cur] = "spawned"
  THEN letGo \cup {cur} ELSE letGo

----------------------------------------------------------------------------
(* The process of a task, and its agent. *)

\* the agent registers; its last heartbeat tells the master that it exits
AgentTells(l, what) ==
  /\ Alive(l) /\ agent[l] # "exit" /\ agent[l] # what
  /\ agent' = [agent EXCEPT ![l] = what]
  /\ UNCHANGED <<launch, rec, cur, runtime, proc, refresh, stop, drain,
                 deleting, events, letGo, blind, strayed>>

\* the process ends, by itself or by a signal
ProcessEnds(l) ==
  /\ Alive(l)
  /\ proc' = [proc EXCEPT ![l].killed = FALSE,
       ![l].state = IF proc[l].child THEN "zombie" ELSE "dead"]
  /\ UNCHANGED <<launch, rec, cur, runtime, agent, refresh, stop, drain,
                 deleting, events, letGo, blind, strayed>>

\* an agent is removed from the list of clients
RemoveAgent(l) ==
  /\ agent[l] # "none" /\ ~Alive(l)
  /\ agent' = [agent EXCEPT ![l] = "none"]
  /\ UNCHANGED <<launch, rec, cur, runtime, proc, refresh, stop, drain,
                 deleting, events, letGo, blind, strayed>>

----------------------------------------------------------------------------
(* A launch or relaunch. *)

Frame == UNCHANGED <<agent, refresh, stop, drain, deleting, events, blind>>

\* POST /api/tasks, after its checks of the workspace, or /api/relaunch of a
\* task that was launched
Request(l, relaunch) ==
  /\ relaunch => l # 1
  /\ launch[l] = "idle" /\ \A k \in 1 .. l - 1 : launch[k] # "idle"
  /\ Counts(IF l = 1 THEN 0 ELSE Weight)
  /\ Goes(l, IF relaunch THEN "check" ELSE "create")
  /\ UNCHANGED <<rec, cur, runtime, proc, agent, refresh, stop, drain, deleting,
                 letGo, blind, strayed>>

\* _relaunch_blockers, after a refresh: the record is finished, and no client
\* of an earlier launch is listed that has not exited
RelaunchAllowed ==
  /\ cur = None \/ IsFinished(cur)
  /\ \A l \in Launches : agent[l] # "online"

RelaunchCheck(l) ==
  /\ launch[l] = "check" /\ LockFree
  /\ Goes(l, IF RelaunchAllowed THEN "drop" ELSE "done")
  /\ Frame /\ UNCHANGED <<rec, cur, runtime, proc, letGo, strayed>>

\* mutant: the record goes, finished or not
RelaunchDropAny(l) ==
  /\ launch[l] = "drop" /\ LockFree
  /\ cur' = None /\ Goes(l, IF cur = None THEN "create" ELSE "close")
  /\ Frame /\ UNCHANGED <<rec, runtime, proc, letGo, strayed>>

\* _drop_finished_task_record_for_relaunch
RelaunchDrop(l) ==
  /\ launch[l] = "drop" /\ LockFree
  /\ IF cur # None /\ ~IsFinished(cur)
     THEN Goes(l, "done") /\ UNCHANGED cur
     ELSE cur' = None /\ Goes(l, IF cur = None THEN "create" ELSE "close")
  /\ Frame /\ UNCHANGED <<rec, runtime, proc, letGo, strayed>>

\* ... and after the lock, the runtime of the task
RelaunchClose(l) ==
  /\ launch[l] = "close"
  /\ CloseRuntime(None) /\ letGo' = Cut(None) /\ Goes(l, "create")
  /\ Frame /\ UNCHANGED <<rec, cur, proc>>

\* _create_task_record: the task must not exist
Create(l) ==
  /\ launch[l] = "create" /\ LockFree
  /\ IF cur # None
     THEN Goes(l, "done") /\ UNCHANGED <<rec, cur>>
     ELSE cur' = l /\ Sets(l, "pending") /\ Goes(l, "pending")
  /\ Frame /\ UNCHANGED <<runtime, proc, letGo, strayed>>

\* the command is built; an exception leaves the record as it is
Prepare(l, ok) ==
  /\ launch[l] = "pending"
  /\ IF ok THEN Sets(l, "starting") /\ Goes(l, "starting")
           ELSE Goes(l, "done") /\ UNCHANGED rec
  /\ Frame /\ UNCHANGED <<cur, runtime, proc, letGo, strayed>>

\* _start_task_process; Popen waits for children whose Popen is lost
Spawn(l, ok) ==
  LET lost == {k \in Launches : runtime # k /\ launch[k] \notin {"spawned",
                                                                "started"}}
  IN  /\ launch[l] = "starting"
      /\ IF ok
         THEN /\ proc' = [Reaped(lost) EXCEPT ![l].state = "alive"]
              /\ runtime' = l /\ Goes(l, "spawned")
              /\ letGo' = Cut(l)
              /\ strayed' = (strayed \/ cur # l)
              /\ UNCHANGED rec
         ELSE /\ Finish(l) /\ Goes(l, "done")
              /\ proc' = Reaped(lost) /\ UNCHANGED <<runtime, letGo, strayed>>
      /\ Frame /\ UNCHANGED cur

SetPid(l) ==
  /\ launch[l] = "spawned"
  /\ rec' = [rec EXCEPT ![l].pid = TRUE]
  /\ Goes(l, "started")
  /\ Frame /\ UNCHANGED <<cur, runtime, proc, letGo, strayed>>

\* the end of the launch: a process that has ended already is noted
Started(l) ==
  /\ launch[l] = "started" /\ Goes(l, "done")
  /\ IF Ended(l)
     THEN /\ CloseRuntime(l) /\ letGo' = Cut(l)
          /\ Finish(l)
          /\ proc' = Reaped({l})
     ELSE /\ rec' = [rec EXCEPT ![l].started = TRUE]
          /\ UNCHANGED <<runtime, proc, letGo, strayed>>
  /\ Frame /\ UNCHANGED cur

----------------------------------------------------------------------------
(* The refresh, in the monitor or in a request: one after the other, as     *)
(* they hold the lock from the first field they read of a record on.        *)

Others == UNCHANGED <<launch, agent, stop, drain, deleting, events>>
Reads(r) == refresh' = r /\ Others
            /\ UNCHANGED <<rec, cur, runtime, proc, letGo, blind, strayed>>

\* Before the lock, it copies the agents.  The one that is taken for the task's
\* may be that of another launch in this workspace; it has exited or not.
RefreshStart(gone) ==
  /\ refresh.pc = "idle"
  /\ IF gone THEN \E l \in Launches : agent[l] = "exit"
             ELSE \/ \A l \in Launches : agent[l] = "none"
                  \/ \E l \in Launches : agent[l] = "online"
  /\ Reads([NoRefresh EXCEPT !.pc = "lock", !.gone = gone])

\* the pid of the record, and then the runtime
RefreshPid ==
  /\ refresh.pc = "lock"
  /\ Reads(IF cur = None THEN NoRefresh
           ELSE [refresh EXCEPT !.pc = "runtime", !.of = cur, !.pid = rec[cur].pid])

RefreshRuntime ==
  /\ refresh.pc = "runtime"
  /\ Reads([refresh EXCEPT !.pc = "test", !.runtime = runtime])

\* What it takes for a launch that has no process yet: the status and the date
\* are those of the moment, the pid and the runtime those it has read.
NotStarted(l) ==
  /\ rec[l].status = "starting" /\ ~rec[l].started /\ ~rec[l].ended
  /\ ~refresh.pid /\ refresh.runtime = None

\* Such a launch is left alone.  For others, it asks the runtime or else the
\* pid that it has read; without either, nothing lives and nothing has ended.
\* It has seen the launch if that was the launch's own.
RefreshTest ==
  LET l == refresh.of
      k == refresh.runtime
      judged == [NoRefresh EXCEPT !.pc = "status", !.of = l, !.gone = refresh.gone,
        !.alive = IF k # None THEN Alive(k) ELSE refresh.pid /\ PidAlive(l),
        !.ended = IF k # None THEN Ended(k) ELSE refresh.pid /\ ~PidAlive(l),
        !.seen = k = l \/ (k = None /\ refresh.pid)]
  IN  /\ refresh.pc = "test"
      /\ refresh' = IF NotStarted(l) THEN NoRefresh ELSE judged
      /\ proc' = Reaped({k})
      /\ Others /\ UNCHANGED <<rec, cur, runtime, letGo, blind, strayed>>

\* mutant: only an open task is looked at any further
StatusOnlyOpen ==
  /\ refresh.pc = "status"
  /\ Reads(IF rec[refresh.of].status \in Open
           THEN [refresh EXCEPT !.pc = "probe"] ELSE NoRefresh)

\* the status is read again: it may be another one by now
RefreshStatus ==
  /\ refresh.pc = "status"
  /\ Reads([refresh EXCEPT !.pc =
             IF rec[refresh.of].status \in Open THEN "probe" ELSE "forget"])

\* mutant: an open task is finished that does not answer
ProbeOnly(answers, online) ==
  LET l == refresh.of
      fine == ~refresh.ended /\ (answers \/ online)
  IN  /\ refresh.pc = "probe"
      /\ online => ~refresh.gone
      /\ answers => \E k \in Launches : Alive(k)
      /\ IF fine
         THEN /\ refresh' = IF answers /\ rec[l].status = "starting"
                            THEN [refresh EXCEPT !.pc = "up"] ELSE NoRefresh
              /\ UNCHANGED <<rec, blind>>
         ELSE /\ Finish(l) /\ refresh' = [refresh EXCEPT !.pc = "close"]
              /\ blind' = IF refresh.seen THEN blind ELSE blind \cup {l}
      /\ Others /\ UNCHANGED <<cur, runtime, proc, letGo, strayed>>

\* mutant: the agent is believed though the process has ended
ProbeTrusts(answers, online) ==
  LET l == refresh.of
      fine == refresh.alive \/ answers \/ online
  IN  /\ refresh.pc = "probe"
      /\ online => ~refresh.gone
      /\ answers => \E k \in Launches : Alive(k)
      /\ IF fine
         THEN /\ refresh' = IF answers /\ rec[l].status = "starting"
                            THEN [refresh EXCEPT !.pc = "up"] ELSE NoRefresh
              /\ UNCHANGED <<rec, blind>>
         ELSE /\ Finish(l) /\ refresh' = [refresh EXCEPT !.pc = "close"]
              /\ blind' = IF refresh.seen THEN blind ELSE blind \cup {l}
      /\ Others /\ UNCHANGED <<cur, runtime, proc, letGo, strayed>>

\* Its services are asked, at an address an agent may have told: an answer is
\* that of some process.  Whether the agent is online depends on the time of
\* its last heartbeat.  A task that is starting comes up if all its services
\* answer; one that is judged not to live is finished.
RefreshProbe(answers, online) ==
  LET l == refresh.of
      fine == refresh.alive \/ (~refresh.ended /\ (answers \/ online))
  IN  /\ refresh.pc = "probe"
      /\ online => ~refresh.gone
      /\ answers => \E k \in Launches : Alive(k)
      /\ IF fine
         THEN /\ refresh' = IF answers /\ rec[l].status = "starting"
                            THEN [refresh EXCEPT !.pc = "up"] ELSE NoRefresh
              /\ UNCHANGED <<rec, blind>>
         ELSE /\ Finish(l) /\ refresh' = [refresh EXCEPT !.pc = "close"]
              /\ blind' = IF refresh.seen THEN blind ELSE blind \cup {l}
      /\ Others /\ UNCHANGED <<cur, runtime, proc, letGo, strayed>>

ComesUp ==
  /\ refresh.pc = "up"
  /\ Sets(refresh.of, "running") /\ refresh' = NoRefresh
  /\ Others /\ UNCHANGED <<cur, runtime, proc, letGo, blind, strayed>>

RefreshClose ==
  /\ refresh.pc = "close"
  /\ CloseRuntime(refresh.of) /\ refresh' = [refresh EXCEPT !.pc = "forget"]
  /\ Others /\ UNCHANGED <<rec, cur, proc, letGo, blind>>

\* a finished task whose agent has exited leaves the table
RefreshForget ==
  /\ refresh.pc = "forget"
  /\ IF refresh.gone /\ rec[refresh.of].status = "finished" /\ ~refresh.alive
     THEN CloseRuntime(refresh.of) /\ cur' = None
     ELSE UNCHANGED <<cur, runtime, strayed>>
  /\ refresh' = NoRefresh
  /\ Others /\ UNCHANGED <<rec, proc, letGo, blind>>

----------------------------------------------------------------------------
(* Stop, delete, logs, restart. *)

\* _get_task of a stop request
StopGet ==
  /\ stop = NoStop /\ cur # None /\ LockFree /\ Event
  /\ stop' = [of |-> cur, pc |-> "check"]
  /\ UNCHANGED <<launch, rec, cur, runtime, proc, agent, refresh, drain,
                 deleting, letGo, blind, strayed>>

\* a task that is finished by now is left alone
StopCheck ==
  /\ stop.pc = "check"
  /\ stop' = IF rec[stop.of].status = "finished" THEN NoStop
             ELSE [stop EXCEPT !.pc = "mark"]
  /\ UNCHANGED <<launch, rec, cur, runtime, proc, agent, refresh, drain,
                 deleting, events, letGo, blind, strayed>>

\* A task is marked whether its launch is over or not; until the launch knows
\* the pid, the stop reaches no process.
StopMark ==
  LET l == stop.of IN
  /\ stop.pc = "mark"
  /\ Sets(l, "stopping") /\ stop' = [stop EXCEPT !.pc = "kill"]
  /\ letGo' = IF launch[l] \in {"pending", "starting", "spawned"}
              THEN letGo \cup {l} ELSE letGo
  /\ UNCHANGED <<launch, cur, runtime, proc, agent, refresh, drain,
                 deleting, events, blind, strayed>>

\* mutant: only the process of a running task gets the signal
TerminateRunning ==
  LET l == stop.of IN
  /\ stop.pc = "kill"
  /\ proc' = IF rec[l].pid /\ Alive(l) /\ rec[l].status = "running"
             THEN [proc EXCEPT ![l].killed = TRUE] ELSE proc
  /\ stop' = NoStop
  /\ UNCHANGED <<launch, rec, cur, runtime, agent, refresh, drain, deleting,
                 events, letGo, blind, strayed>>

\* _terminate_task
Terminate ==
  LET l == stop.of IN
  /\ stop.pc = "kill"
  /\ proc' = IF rec[l].pid /\ Alive(l)
             THEN [proc EXCEPT ![l].killed = TRUE] ELSE proc
  /\ stop' = NoStop
  /\ UNCHANGED <<launch, rec, cur, runtime, agent, refresh, drain, deleting,
                 events, letGo, blind, strayed>>

\* delete_task: a starting or running task is refused; a task that is being
\* launched, or stopped, is not
Delete ==
  /\ cur # None /\ LockFree /\ ~deleting /\ Event
  /\ rec[cur].status \notin {"starting", "running"}
  /\ letGo' = IF Alive(cur) \/ launch[cur] \in {"pending", "starting"}
              THEN letGo \cup {cur} ELSE letGo
  /\ cur' = None /\ deleting' = TRUE
  /\ UNCHANGED <<launch, rec, runtime, proc, agent, refresh, stop, drain, blind,
                 strayed>>

DeleteClose ==
  /\ deleting
  /\ CloseRuntime(None) /\ letGo' = Cut(None)
  /\ deleting' = FALSE
  /\ UNCHANGED <<launch, rec, cur, proc, agent, refresh, stop, drain, events,
                 blind>>

\* A reader of the logs gets the record, and without the lock drains the
\* runtime there is by then.
DrainGet ==
  /\ drain = NoDrain /\ cur # None /\ LockFree /\ Event
  /\ drain' = [of |-> cur, pc |-> "poll"]
  /\ UNCHANGED <<launch, rec, cur, runtime, proc, agent, refresh, stop,
                 deleting, letGo, blind, strayed>>

DrainPoll ==
  /\ drain.pc = "poll"
  /\ IF runtime # None /\ Ended(runtime)
     THEN /\ drain' = [drain EXCEPT !.pc = "close"]
          /\ blind' = IF runtime = drain.of THEN blind
                      ELSE blind \cup {drain.of}
     ELSE drain' = NoDrain /\ UNCHANGED blind
  /\ proc' = Reaped({runtime})
  /\ UNCHANGED <<launch, rec, cur, runtime, agent, refresh, stop, deleting,
                 events, letGo, strayed>>

DrainClose ==
  /\ drain.pc = "close"
  /\ CloseRuntime(drain.of) /\ letGo' = Cut(drain.of)
  /\ drain' = [drain EXCEPT !.pc = "finish"]
  /\ UNCHANGED <<launch, rec, cur, proc, agent, refresh, stop, deleting,
                 events, blind>>

DrainFinish ==
  /\ drain.pc = "finish"
  /\ Finish(drain.of) /\ drain' = NoDrain
  /\ UNCHANGED <<launch, cur, runtime, proc, agent, refresh, stop, deleting,
                 events, letGo, blind, strayed>>

\* The server stops, which saves its tables, and starts again: requests end
\* where they are, the processes go on and are nobody's children.
Restart ==
  /\ Event
  /\ launch' = [l \in Launches |->
       IF launch[l] = "idle" THEN "idle" ELSE "done"]
  /\ proc' = [l \in Launches |-> [Reaped(Launches)[l] EXCEPT
       !.child = proc[l].state = "none"]]
  /\ runtime' = None /\ refresh' = NoRefresh /\ stop' = NoStop
  /\ drain' = NoDrain /\ deleting' = FALSE
  /\ letGo' = letGo \cup {l \in Launches : launch[l] = "spawned"}
  /\ strayed' = (strayed \/ stop # NoStop \/
                 \E l \in Launches : launch[l] \notin {"idle", "done"})
  /\ UNCHANGED <<rec, cur, agent, blind>>

----------------------------------------------------------------------------

LaunchStep(l) ==
  \/ RelaunchCheck(l) \/ RelaunchDrop(l) \/ RelaunchClose(l) \/ Create(l)
  \/ \E ok \in BOOLEAN : Prepare(l, ok) \/ Spawn(l, ok)
  \/ SetPid(l) \/ Started(l)

RefreshStep ==
  \/ \E gone \in BOOLEAN : RefreshStart(gone)
  \/ RefreshPid \/ RefreshRuntime \/ RefreshTest \/ RefreshStatus
  \/ \E answers, online \in BOOLEAN : RefreshProbe(answers, online)
  \/ ComesUp \/ RefreshClose \/ RefreshForget

Next ==
  \/ \E l \in Launches :
       \/ \E what \in {"online", "exit"} : AgentTells(l, what)
       \/ ProcessEnds(l) \/ RemoveAgent(l)
       \/ \E relaunch \in BOOLEAN : Request(l, relaunch)
       \/ LaunchStep(l)
  \/ RefreshStep
  \/ StopGet \/ StopCheck \/ StopMark \/ Terminate
  \/ Delete \/ DeleteClose
  \/ DrainGet \/ DrainPoll \/ DrainClose \/ DrainFinish
  \/ Restart

\* Requests are served, the monitor refreshes again and again, and a process
\* ends when it is told to.
Fairness ==
  /\ \A l \in Launches :
       /\ WF_vars(LaunchStep(l))
       /\ WF_vars(proc[l].killed /\ ProcessEnds(l))
  /\ WF_vars(RefreshStep)
  /\ WF_vars(StopCheck \/ StopMark \/ Terminate)
  /\ WF_vars(DeleteClose)
  /\ WF_vars(DrainPoll \/ DrainClose \/ DrainFinish)

Spec == Init /\ [][Next]_vars
LiveSpec == Spec /\ Fairness

----------------------------------------------------------------------------
(* Properties. *)

\* Every variable has its type, and while the process of a launch lives, its
\* record is the task's and is not finished: the task is shown, can be stopped
\* and blocks another launch, so no two processes work in the workspace.  Not
\* so when the record was deleted under the launch, a stop came before the pid
\* was known or a restart cut the launch off (letGo), or when a refresh or a
\* reader of the logs ended the task by what it had read before the launch
\* started its process, or by the process of another launch (blind).
HeldUntilEnd ==
  /\ TypeOK
  /\ \A l \in Launches \ (letGo \cup blind) :
       Alive(l) => cur = l /\ ~IsFinished(l)

\* The end of a process is noted in its record for good, whatever a stop or a
\* refresh under way writes over it, unless the launch was ended blindly; and
\* if its agent has exited, and no agent of another launch is listed that has
\* not, the task leaves the table.
EndIsNoted ==
  \A l \in Launches :
    LET exited == agent[l] = "exit" /\ \A k \in Launches : agent[k] # "online"
    IN
    /\ cur = l /\ Ended(l) ~>
         \/ [](cur = l => rec[l].status = "finished" /\ rec[l].ended)
         \/ l \in blind \/ strayed
    /\ cur = l /\ Ended(l) /\ exited ~>
         cur # l \/ ~exited \/ l \in letGo \cup blind \/ strayed

\* A stop ends a process whose pid is known.
StopEnds ==
  \A l \in Launches :
    stop.of = l /\ rec[l].pid ~> ~Alive(l) \/ IsFinished(l) \/ strayed

=============================================================================
