-------------------------- MODULE MasterTasksProofs --------------------------
(***************************************************************************)
(* Theorems about MasterTasks for any number of launches and events.       *)
(***************************************************************************)
EXTENDS MasterTasks, TLAPS

USE LaunchesAssumption, EventsAssumption

----------------------------------------------------------------------------
(* The invariant.                                                          *)

Blank(r) == ~r.pid /\ ~r.started /\ ~r.ended
Fresh(r, status) == r.status = status /\ Blank(r)

\* What a launch has not reached yet.
Early == {"idle", "check", "drop", "close", "create"}
Unreached(l) ==
  /\ launch[l] \in Early => /\ Fresh(rec[l], "none")
                            /\ cur # l /\ stop.of # l /\ drain.of # l
  /\ launch[l] \in Early \cup {"pending", "starting"} =>
       proc[l].state = "none" /\ runtime # l /\ ~rec[l].pid

\* Launches that have started a process, or have given up.
Past(l) == launch[l] \notin Early \cup {"pending", "starting"}

\* The launches of which nothing is claimed.
Out == letGo \cup blind

\* Before it starts its process, a launch has the task.  A refresh may take it
\* for one that runs, by the answer of another process.
Launching(l) ==
  /\ launch[l] \in {"pending", "starting"} =>
       cur = l /\ Blank(rec[l])
  /\ launch[l] = "pending" => rec[l].status = "pending"
  /\ launch[l] = "starting" => rec[l].status \in {"starting", "running"}

\* A process is known by its runtime, or by its pid.
Held(l) ==
  Alive(l) => /\ cur = l /\ rec[l].status \in Open /\ ~rec[l].ended
              /\ rec[l].pid \/ (runtime = l /\ launch[l] = "spawned")

\* The refresh is at the task of the table.  What it has read stays true as
\* far as it goes: a pid is not taken back, a launch that has had a runtime
\* has started its process, and a process that it has seen dead stays dead.
Refreshing ==
  /\ LockFree <=> refresh.of = None
  /\ ~LockFree => cur = refresh.of
  /\ refresh.pid => refresh.of # None /\ rec[refresh.of].pid
  /\ refresh.runtime # None => Past(refresh.runtime)
  /\ refresh.seen => /\ refresh.of # None /\ Past(refresh.of)
                     /\ Alive(refresh.of) => refresh.alive
  /\ refresh.pc = "up" /\ refresh.of \notin Out => launch[refresh.of] # "pending"
  /\ refresh.pc = "close" => rec[refresh.of].ended

\* A reader of the logs ends a launch by the end of its process.
Draining ==
  /\ drain.pc # "idle" => drain.of # None
  /\ drain.pc \in {"close", "finish"} /\ drain.of \notin Out => Ended(drain.of)

Inv ==
  /\ TypeOK
  /\ \A l \in Launches : Unreached(l)
  /\ \A l \in Launches \ Out : Launching(l) /\ Held(l)
  /\ Refreshing /\ Draining
  /\ stop.pc # "idle" => stop.of # None

----------------------------------------------------------------------------
(* Changes of records, processes and steps.                                *)

Records == [status : {"none", "pending", "finished"} \cup Open, pid : BOOLEAN,
            started : BOOLEAN, ended : BOOLEAN]
Processes == [state : {"none", "alive", "zombie", "dead"}, child : BOOLEAN,
              killed : BOOLEAN]
Refreshes == [pc : {"idle", "lock", "runtime", "test", "status", "probe",
                    "close", "up", "forget"},
              of : Launches \cup {None}, pid : BOOLEAN,
              runtime : Launches \cup {None}, gone : BOOLEAN,
              alive : BOOLEAN, ended : BOOLEAN, seen : BOOLEAN]
Drains == [of : Launches \cup {None}, pc : {"idle", "poll", "close", "finish"}]
Steps == {"idle", "check", "drop", "close", "create", "pending", "starting",
          "spawned", "started", "done"}

LEMMA Types ==
  ASSUME TypeOK
  PROVE  /\ launch \in [Launches -> Steps] /\ rec \in [Launches -> Records]
         /\ proc \in [Launches -> Processes]
         /\ refresh \in Refreshes /\ drain \in Drains
         /\ Launches \subseteq Nat /\ None \notin Launches
  BY DEF TypeOK, Steps, Records, Processes, Launches, None, Refreshes, Drains

LEMMA Goings ==
  ASSUME TypeOK, NEW l \in Launches, NEW pc \in Steps, Goes(l, pc)
  PROVE  /\ launch' \in [Launches -> Steps]
         /\ \A k \in Launches : launch'[k] = IF k = l THEN pc ELSE launch[k]
  BY Types DEF Goes

LEMMA RecordChange ==
  ASSUME TypeOK, NEW l \in Launches, NEW r \in Records, rec' = [rec EXCEPT ![l] = r]
  PROVE  /\ rec' \in [Launches -> Records]
         /\ \A k \in Launches : rec'[k] = IF k = l THEN r ELSE rec[k]
  BY Types

LEMMA Settings ==
  ASSUME TypeOK, NEW l \in Launches,
         NEW status \in {"none", "pending", "finished"} \cup Open, Sets(l, status)
  PROVE  /\ rec' \in [Launches -> Records]
         /\ \A k \in Launches \ {l} : rec'[k] = rec[k]
         /\ rec'[l].status = status /\ rec'[l].pid = rec[l].pid
         /\ rec'[l].started = rec[l].started /\ rec'[l].ended = rec[l].ended
  <1> DEFINE r == [rec[l] EXCEPT !.status = status]
  <1>1. rec[l] \in Records /\ rec' = [rec EXCEPT ![l] = r]
    BY Types DEF Sets
  <1>2. /\ r \in Records /\ r.status = status /\ r.pid = rec[l].pid
        /\ r.started = rec[l].started /\ r.ended = rec[l].ended
    BY <1>1 DEF Records
  <1> HIDE DEF r
  <1> QED  BY <1>1, <1>2, RecordChange

LEMMA Finishings ==
  ASSUME TypeOK, NEW l \in Launches, Finish(l)
  PROVE  /\ rec' \in [Launches -> Records]
         /\ \A k \in Launches \ {l} : rec'[k] = rec[k]
         /\ rec'[l].ended /\ rec'[l].pid = rec[l].pid
  <1> DEFINE r == [rec[l] EXCEPT !.status = "finished", !.ended = TRUE]
  <1>1. rec[l] \in Records /\ rec' = [rec EXCEPT ![l] = r]
    BY Types DEF Finish
  <1>2. r \in Records /\ r.ended /\ r.pid = rec[l].pid
    BY <1>1 DEF Records
  <1> HIDE DEF r
  <1> QED  BY <1>1, <1>2, RecordChange

LEMMA Reapings ==
  ASSUME TypeOK, NEW ls
  PROVE  /\ Reaped(ls) \in [Launches -> Processes]
         /\ \A k \in Launches : /\ Reaped(ls)[k].state = "alive" <=> Alive(k)
                                /\ Reaped(ls)[k].state = "none" <=> proc[k].state = "none"
  <1> DEFINE d(k) == IF k \in ls /\ proc[k].state = "zombie"
                     THEN [proc[k] EXCEPT !.state = "dead"] ELSE proc[k]
  <1>1. ASSUME NEW k \in Launches
        PROVE  /\ d(k) \in Processes /\ (d(k).state = "alive" <=> Alive(k))
               /\ d(k).state = "none" <=> proc[k].state = "none"
    <2>1. proc[k] \in Processes
      BY Types
    <2>2. CASE k \in ls /\ proc[k].state = "zombie"
      BY <2>1, <2>2 DEF Processes, Alive
    <2>3. CASE ~(k \in ls /\ proc[k].state = "zombie")
      BY <2>1, <2>3 DEF Alive
    <2> QED  BY <2>2, <2>3
  <1>2. Reaped(ls) = [k \in Launches |-> d(k)]
    BY DEF Reaped
  <1> HIDE DEF d
  <1> QED  BY <1>1, <1>2

LEMMA Cuts ==
  ASSUME TypeOK, NEW l
  PROVE  /\ letGo \subseteq Cut(l) /\ Cut(l) \subseteq Launches
         /\ \A k \in Launches \ Cut(l) : k # l /\ cur = k => launch[k] # "spawned"
  BY Types DEF TypeOK, Cut

\* Closing a runtime loses nobody that keeps its place.
LEMMA Loses ==
  ASSUME Inv, NEW l
  PROVE  \A k \in Launches \ (Cut(l) \cup blind) :
           Alive(k) /\ launch[k] = "spawned" => k = l
  BY Cuts DEF Inv, Held, Out

\* A finished record is that of no process, and of no launch to come.
LEMMA FinishedIsOver ==
  ASSUME NEW k, IsFinished(k), Launching(k), Held(k)
  PROVE  ~Alive(k) /\ launch[k] \notin {"pending", "starting"}
  BY DEF Held, IsFinished, Open, Launching, Blank

\* A process that has ended stays so.
LEMMA EndsStay ==
  ASSUME TypeOK, TypeOK', NEW k \in Launches, Alive(k)' => Alive(k),
         proc'[k].state = "none" <=> proc[k].state = "none"
  PROVE  Ended(k) => Ended(k)'
  BY Types, proc'[k] \in Processes DEF TypeOK, Processes, Alive, Ended

----------------------------------------------------------------------------
(* Steps that leave the records alone.                                     *)

\* The table and the runtime may be emptied of a launch that needs neither.
LEMMA RestKeeps ==
  ASSUME Inv, TypeOK', rec' = rec, letGo \subseteq letGo', blind \subseteq blind',
         \A l \in Launches :
           \/ launch'[l] = launch[l]
           \/ launch[l] \in Early /\ launch'[l] \in Early \cup {"done"},
         \/ cur' = cur
         \/ /\ cur' = None /\ (LockFree \/ Refreshing')
            /\ \A l \in Launches \ Out' :
                 cur = l => ~Alive(l) /\ launch[l] \notin {"pending", "starting"},
         \/ runtime' = runtime
         \/ /\ runtime' = None
            /\ \A l \in Launches \ Out' : Alive(l) => launch[l] # "spawned",
         \A l \in Launches : /\ Alive(l)' => Alive(l)
                             /\ proc'[l].state = "none" <=> proc[l].state = "none",
         refresh' = refresh \/ Refreshing',
         drain' = drain \/ Draining', drain'.of \in {drain.of, cur, None},
         stop'.of \in {stop.of, cur, None}, stop'.pc # "idle" => stop'.of # None
  PROVE  Inv'
  <1>0. /\ TypeOK /\ Refreshing /\ Draining
        /\ \A l \in Launches : Unreached(l)
        /\ \A l \in Launches \ Out : Launching(l) /\ Held(l)
        /\ Out \subseteq Out'
    BY DEF Inv, Out
  <1>1. Launches \subseteq Nat /\ None \notin Launches /\ refresh \in Refreshes
        /\ drain \in Drains
    BY <1>0, Types
  <1>2. \A l \in Launches : Unreached(l)'
    BY <1>0, <1>1 DEF Unreached, Early
  <1>3. ASSUME NEW l \in Launches \ Out'  PROVE Launching(l)'
    <2>1. /\ l \in Launches \ Out
          /\ launch'[l] \in {"pending", "starting"} => launch'[l] = launch[l]
      BY <1>0 DEF Early
    <2>2. launch'[l] \in {"pending", "starting"} => cur' = cur
      BY <1>0, <2>1 DEF Launching
    <2> QED  BY <1>0, <2>1, <2>2 DEF Launching
  <1>4. ASSUME NEW l \in Launches \ Out'  PROVE Held(l)'
    <2> SUFFICES ASSUME Alive(l)'
                 PROVE  /\ cur' = l /\ rec'[l].status \in Open /\ ~rec'[l].ended
                        /\ rec'[l].pid \/ (runtime' = l /\ launch'[l] = "spawned")
      BY DEF Held
    <2>1. /\ l \in Launches \ Out /\ Alive(l) /\ cur = l
          /\ rec[l].status \in Open /\ ~rec[l].ended
          /\ rec[l].pid \/ (runtime = l /\ launch[l] = "spawned")
      BY <1>0 DEF Held
    <2>2. cur' = cur
      BY <2>1
    <2>3. launch[l] = "spawned" => launch'[l] = launch[l] /\ runtime' = runtime
      BY <2>1 DEF Early
    <2> QED  BY <2>1, <2>2, <2>3
  <1>5. Refreshing'
    <2>1. CASE refresh' = refresh /\ (cur' = cur \/ LockFree)
      <3>1. \A k \in Launches : Past(k) => Past(k)'
        BY DEF Past, Early
      <3>2. /\ LockFree' <=> LockFree
            /\ ~LockFree => cur' = cur
        BY <2>1 DEF LockFree
      <3>3. /\ refresh.pid => refresh.of # None /\ rec'[refresh.of].pid
            /\ refresh.runtime # None => Past(refresh.runtime)'
        BY <1>0, <1>1, <2>1, <3>1 DEF Refreshing, Refreshes, Past
      <3>4. refresh.seen => /\ refresh.of # None /\ Past(refresh.of)'
                            /\ Alive(refresh.of)' => refresh.alive
        BY <1>0, <1>1, <2>1, <3>1 DEF Refreshing, Refreshes, Past, Alive
      <3>5. refresh.pc = "up" /\ refresh.of \notin Out' => launch'[refresh.of] # "pending"
        <4> SUFFICES ASSUME refresh.pc = "up", refresh.of \notin Out'
                     PROVE  launch'[refresh.of] # "pending"
          OBVIOUS
        <4>1. refresh.of \in Launches /\ launch[refresh.of] # "pending"
          BY <1>0, <1>1 DEF Refreshing, Refreshes, LockFree
        <4> QED  BY <4>1 DEF Early
      <3> QED  BY <1>0, <2>1, <3>2, <3>3, <3>4, <3>5 DEF Refreshing, Past, Alive
    <2> QED  BY <2>1
  <1>6. Draining'
    <2>1. CASE drain' = drain
      <3>1. drain.pc # "idle" => drain.of \in Launches
        BY <1>0, <1>1 DEF Draining, Drains
      <3>2. \A k \in Launches : Ended(k) => Ended(k)'
        BY <1>0, EndsStay
      <3> QED  BY <1>0, <2>1, <3>1, <3>2 DEF Draining, Ended
    <2> QED  BY <2>1
  <1> QED  BY <1>2, <1>3, <1>4, <1>5, <1>6 DEF Inv

LEMMA OtherKeeps ==
  ASSUME Inv, NEW l \in Launches, NEW what \in {"online", "exit"},
         AgentTells(l, what) \/ ProcessEnds(l) \/ RemoveAgent(l)
  PROVE  Inv'
  <1>0. TypeOK /\ (stop.pc # "idle" => stop.of # None)
    BY DEF Inv
  <1>1. CASE AgentTells(l, what)
    <2>1. TypeOK'
      BY <1>0, <1>1 DEF AgentTells, TypeOK
    <2> QED  BY <1>0, <1>1, <2>1, RestKeeps DEF AgentTells, Alive
  <1>2. CASE RemoveAgent(l)
    <2>1. TypeOK'
      BY <1>0, <1>2 DEF RemoveAgent, TypeOK
    <2> QED  BY <1>0, <1>2, <2>1, RestKeeps DEF RemoveAgent, Alive
  <1>3. CASE ProcessEnds(l)
    <2> DEFINE p == [proc[l] EXCEPT !.killed = FALSE,
                       !.state = IF proc[l].child THEN "zombie" ELSE "dead"]
    <2>1. proc \in [Launches -> Processes] /\ proc[l].state = "alive"
      BY <1>0, <1>3, Types DEF ProcessEnds, Alive
    <2>2. p \in Processes /\ p.state \in {"zombie", "dead"}
      BY <2>1 DEF Processes
    <2>3. proc' = [proc EXCEPT ![l] = p]
      BY <1>3, <2>1 DEF ProcessEnds
    <2> HIDE DEF p
    <2>4. /\ proc' \in [Launches -> Processes]
          /\ \A k \in Launches : /\ Alive(k)' => Alive(k)
                                 /\ proc'[k].state = "none" <=> proc[k].state = "none"
      BY <2>1, <2>2, <2>3 DEF Alive
    <2>5. UNCHANGED <<launch, rec, cur, runtime, agent, refresh, stop, drain, deleting,
                      events, letGo, blind, strayed>>
      BY <1>3 DEF ProcessEnds
    <2>6. TypeOK'
      BY <1>0, <2>4, <2>5 DEF TypeOK, Processes
    <2> QED  BY <1>0, <2>4, <2>5, <2>6, RestKeeps
  <1> QED  BY <1>1, <1>2, <1>3

LEMMA RequestKeeps ==
  ASSUME Inv, NEW l \in Launches, NEW relaunch \in BOOLEAN,
         Request(l, relaunch) \/ RelaunchCheck(l)
  PROVE  Inv'
  <1>0. TypeOK /\ (stop.pc # "idle" => stop.of # None)
    BY DEF Inv
  <1>1. PICK pc \in Early \cup {"done"} :
          /\ Goes(l, pc) /\ launch[l] \in Early
          /\ UNCHANGED <<rec, cur, runtime, proc, agent, refresh, stop, drain, deleting,
                         letGo, blind, strayed>>
    BY DEF Request, RelaunchCheck, Early, Frame
  <1>2. events' \in 0 .. MaxEvents
    <2>1. CASE Request(l, relaunch)
      <3>1. PICK n \in Nat : Counts(n)
        BY <2>1 DEF Request
      <3> QED  BY <1>0, <3>1 DEF Counts, TypeOK
    <2>2. CASE RelaunchCheck(l)
      BY <1>0, <2>2 DEF RelaunchCheck, Frame, TypeOK
    <2> QED  BY <2>1, <2>2
  <1>3. /\ launch' \in [Launches -> Steps]
        /\ \A k \in Launches : launch'[k] = IF k = l THEN pc ELSE launch[k]
    <2>1. pc \in Steps
      BY DEF Early, Steps
    <2> QED  BY <1>0, <1>1, <2>1, Goings
  <1>4. TypeOK'
    BY <1>0, <1>1, <1>2, <1>3 DEF TypeOK, Steps
  <1>5. \A k \in Launches : /\ Alive(k)' => Alive(k)
                            /\ proc'[k].state = "none" <=> proc[k].state = "none"
    BY <1>1 DEF Alive
  <1> QED  BY <1>0, <1>1, <1>3, <1>4, <1>5, RestKeeps

LEMMA RelaunchKeeps ==
  ASSUME Inv, NEW l \in Launches, RelaunchDrop(l) \/ RelaunchClose(l)
  PROVE  Inv'
  <1>0. /\ TypeOK /\ (stop.pc # "idle" => stop.of # None)
        /\ \A k \in Launches \ Out : Launching(k) /\ Held(k)
        /\ launch \in [Launches -> Steps] /\ None \notin Launches
    BY Types DEF Inv
  <1>1. PICK pc \in Early \cup {"done"} :
          /\ Goes(l, pc) /\ launch[l] \in Early
          /\ Frame /\ UNCHANGED <<rec, proc>>
    BY DEF RelaunchDrop, RelaunchClose, Early
  <1>2. /\ launch' \in [Launches -> Steps]
        /\ \A k \in Launches : launch'[k] = IF k = l THEN pc ELSE launch[k]
    <2>1. pc \in Steps
      BY DEF Early, Steps
    <2> QED  BY <1>0, <1>1, <2>1, Goings
  <1>3. \A k \in Launches : /\ Alive(k)' => Alive(k)
                            /\ proc'[k].state = "none" <=> proc[k].state = "none"
    BY <1>1 DEF Alive
  <1>4. CASE RelaunchDrop(l)
    <2>1. /\ UNCHANGED <<runtime, letGo, strayed>>
          /\ LockFree /\ (cur' = cur \/ (cur' = None /\ (cur = None \/ IsFinished(cur))))
      BY <1>4 DEF RelaunchDrop
    <2>2. TypeOK'
      BY <1>0, <1>1, <1>2, <2>1 DEF TypeOK, Frame, Steps
    <2>3. \A k \in Launches \ Out :
            k = cur /\ IsFinished(k) => ~Alive(k) /\ launch[k] \notin {"pending", "starting"}
      BY <1>0, FinishedIsOver
    <2>4. \/ cur' = cur
          \/ /\ cur' = None /\ LockFree
             /\ \A k \in Launches \ Out' :
                  cur = k => ~Alive(k) /\ launch[k] \notin {"pending", "starting"}
      BY <1>0, <1>1, <2>1, <2>3 DEF Frame, Out
    <2> QED  BY <1>0, <1>1, <1>2, <1>3, <2>1, <2>2, <2>4, RestKeeps DEF Frame
  <1>5. CASE RelaunchClose(l)
    <2>1. UNCHANGED cur /\ CloseRuntime(None) /\ letGo' = Cut(None)
      BY <1>5 DEF RelaunchClose
    <2>2. letGo \subseteq letGo' /\ letGo' \subseteq Launches
      BY <1>0, <2>1, Cuts
    <2>3. runtime' = None /\ strayed' \in BOOLEAN
      BY <1>0, <2>1 DEF CloseRuntime, TypeOK
    <2>4. \A k \in Launches \ Out' : Alive(k) => launch[k] # "spawned"
      BY <1>0, <1>1, <2>1, Loses DEF Frame, Out
    <2>5. TypeOK'
      BY <1>0, <1>1, <1>2, <2>1, <2>2, <2>3 DEF TypeOK, Frame, Steps
    <2> QED  BY <1>0, <1>1, <1>2, <1>3, <2>1, <2>2, <2>3, <2>4, <2>5, RestKeeps DEF Frame
  <1> QED  BY <1>4, <1>5

----------------------------------------------------------------------------
(* Steps that write to one record.                                         *)

\* A launch goes on: what the refresh and a reader of the logs know of it holds.
Onward(l) ==
  /\ rec[l].pid => rec'[l].pid
  /\ rec[l].ended => rec'[l].ended
  /\ Past(l) => Past(l)' /\ (Alive(l)' => Alive(l))
  /\ Ended(l) => Ended(l)'
  /\ launch'[l] = "pending" => LockFree \/ launch[l] = "pending"

LEMMA RecordStepKeeps ==
  ASSUME Inv, TypeOK', NEW l \in Launches, letGo \subseteq letGo', blind \subseteq blind',
         \A k \in Launches \ {l} :
           /\ launch'[k] = launch[k] /\ rec'[k] = rec[k]
           /\ Alive(k)' <=> Alive(k)
           /\ proc'[k].state = "none" <=> proc[k].state = "none",
         Onward(l),
         \/ cur' = cur
         \/ cur = None /\ cur' = l /\ LockFree,
         runtime' \in {runtime, None, l},
         runtime' = l => runtime = l \/ Past(l)',
         \/ runtime' = runtime
         \/ \A k \in Launches \ Out' : k # l /\ Alive(k) => launch[k] # "spawned",
         refresh' = refresh \/ Refreshing',
         drain' = drain \/ Draining', drain'.of \in {drain.of, None},
         stop'.of \in {stop.of, None}, stop'.pc # "idle" => stop'.of # None,
         Unreached(l)', l \notin Out' => Launching(l)' /\ Held(l)'
  PROVE  Inv'
  <1>0. /\ TypeOK /\ Refreshing /\ Draining
        /\ \A k \in Launches : Unreached(k)
        /\ \A k \in Launches \ Out : Launching(k) /\ Held(k)
        /\ Out \subseteq Out'
    BY DEF Inv, Out
  <1>1. Launches \subseteq Nat /\ None \notin Launches /\ refresh \in Refreshes
        /\ drain \in Drains
    BY <1>0, Types
  <1>2. ASSUME NEW k \in Launches \ {l}  PROVE Unreached(k)'
    BY <1>0, <1>1 DEF Unreached
  <1>3. ASSUME NEW k \in Launches \ Out', k # l  PROVE Launching(k)' /\ Held(k)'
    <2>1. /\ launch'[k] = launch[k] /\ rec'[k] = rec[k] /\ (Alive(k)' <=> Alive(k))
          /\ Launching(k) /\ Held(k)
      BY <1>0, <1>3
    <2>2. cur = k => cur' = k
      BY <1>1, <1>3
    <2>3. Alive(k) /\ launch[k] = "spawned" => runtime' = runtime
      BY <1>3
    <2>4. Launching(k)'
      BY <2>1, <2>2 DEF Launching
    <2>5. Held(k)'
      BY <2>1, <2>2, <2>3 DEF Held
    <2> QED  BY <2>4, <2>5
  <1>4. ASSUME NEW k \in Launches
        PROVE  /\ rec[k].pid => rec'[k].pid
               /\ rec[k].ended => rec'[k].ended
               /\ Past(k) => Past(k)' /\ (Alive(k)' => Alive(k))
               /\ Ended(k) => Ended(k)'
               /\ launch'[k] = "pending" => LockFree \/ launch[k] = "pending"
    <2>1. CASE k = l
      BY <2>1 DEF Onward
    <2>2. CASE k # l
      BY <1>0, <2>2, EndsStay DEF Past
    <2> QED  BY <2>1, <2>2
  <1>5. Refreshing'
    <2>1. CASE refresh' = refresh
      <3>1. /\ LockFree' <=> LockFree
            /\ ~LockFree => cur' = cur
        BY <1>0, <1>1, <2>1 DEF LockFree, Refreshing
      <3>2. /\ refresh.pid => refresh.of # None /\ rec'[refresh.of].pid
            /\ refresh.runtime # None => Past(refresh.runtime)'
        BY <1>0, <1>1, <1>4, <2>1 DEF Refreshing, Refreshes, Past
      <3>3. refresh.seen => /\ refresh.of # None /\ Past(refresh.of)'
                            /\ Alive(refresh.of)' => refresh.alive
        BY <1>0, <1>1, <1>4, <2>1 DEF Refreshing, Refreshes, Past, Alive
      <3>4. refresh.pc = "up" /\ refresh.of \notin Out' => launch'[refresh.of] # "pending"
        <4> SUFFICES ASSUME refresh.pc = "up", refresh.of \notin Out'
                     PROVE  launch'[refresh.of] # "pending"
          OBVIOUS
        <4>1. refresh.of \in Launches /\ launch[refresh.of] # "pending" /\ ~LockFree
          BY <1>0, <1>1 DEF Refreshing, Refreshes, LockFree
        <4> QED  BY <1>4, <4>1
      <3>5. refresh.pc = "close" => rec'[refresh.of].ended
        <4> SUFFICES ASSUME refresh.pc = "close"  PROVE rec'[refresh.of].ended
          OBVIOUS
        <4>1. refresh.of \in Launches /\ rec[refresh.of].ended
          BY <1>0, <1>1 DEF Refreshing, Refreshes, LockFree
        <4> QED  BY <1>4, <4>1
      <3> QED  BY <1>0, <2>1, <3>1, <3>2, <3>3, <3>4, <3>5 DEF Refreshing, Past, Alive
    <2> QED  BY <2>1
  <1>6. Draining'
    <2>1. CASE drain' = drain
      <3>1. drain.pc # "idle" => drain.of \in Launches
        BY <1>0, <1>1 DEF Draining, Drains
      <3> QED  BY <1>0, <1>4, <2>1, <3>1 DEF Draining, Ended
    <2> QED  BY <2>1
  <1> QED  BY <1>2, <1>3, <1>5, <1>6 DEF Inv

LEMMA Facts ==
  ASSUME Inv
  PROVE  /\ TypeOK /\ Refreshing /\ Draining
         /\ \A k \in Launches : Unreached(k)
         /\ \A k \in Launches \ Out : Launching(k) /\ Held(k)
         /\ stop.pc # "idle" => stop.of # None
         /\ launch \in [Launches -> Steps] /\ rec \in [Launches -> Records]
         /\ proc \in [Launches -> Processes] /\ None \notin Launches
         /\ refresh \in Refreshes /\ drain \in Drains
  BY Types DEF Inv

\* A launch that has the task while the refresh is at it.
LEMMA AtTask ==
  ASSUME Inv, ~LockFree
  PROVE  refresh.of \in Launches /\ cur = refresh.of
  BY Facts DEF Refreshing, Refreshes, LockFree

LEMMA CreateKeeps ==
  ASSUME Inv, NEW l \in Launches, Create(l)
  PROVE  Inv'
  <1>1. CASE cur # None
    <2>1. /\ Goes(l, "done") /\ launch[l] = "create" /\ Frame
          /\ UNCHANGED <<rec, cur, runtime, proc, letGo, strayed>>
      BY <1>1 DEF Create
    <2>2. /\ launch' \in [Launches -> Steps]
          /\ \A k \in Launches : launch'[k] = IF k = l THEN "done" ELSE launch[k]
      <3>1. "done" \in Steps
        BY DEF Steps
      <3> QED  BY <2>1, <3>1, Facts, Goings
    <2>3. TypeOK'
      BY <2>1, <2>2, Facts DEF TypeOK, Frame, Steps
    <2>4. \A k \in Launches : /\ Alive(k)' => Alive(k)
                              /\ proc'[k].state = "none" <=> proc[k].state = "none"
      BY <2>1 DEF Alive
    <2>5. \A k \in Launches : \/ launch'[k] = launch[k]
                              \/ launch[k] \in Early /\ launch'[k] \in Early \cup {"done"}
      BY <2>1, <2>2 DEF Early
    <2> QED  BY <2>1, <2>3, <2>4, <2>5, Facts, RestKeeps DEF Frame
  <1>2. CASE cur = None
    <2>1. /\ Goes(l, "pending") /\ Sets(l, "pending") /\ cur' = l /\ Frame
          /\ UNCHANGED <<runtime, proc, letGo, strayed>>
          /\ launch[l] = "create" /\ LockFree
      BY <1>2 DEF Create
    <2>2. /\ launch' \in [Launches -> Steps]
          /\ \A k \in Launches : launch'[k] = IF k = l THEN "pending" ELSE launch[k]
      <3>1. "pending" \in Steps
        BY DEF Steps
      <3> QED  BY <2>1, <3>1, Facts, Goings
    <2>3. /\ rec' \in [Launches -> Records]
          /\ \A k \in Launches \ {l} : rec'[k] = rec[k]
          /\ rec'[l].status = "pending" /\ rec'[l].pid = rec[l].pid
          /\ rec'[l].started = rec[l].started /\ rec'[l].ended = rec[l].ended
      BY <2>1, Facts, Settings
    <2>4. TypeOK'
      BY <2>1, <2>2, <2>3, Facts DEF TypeOK, Frame, Steps, Records
    <2>5. /\ Fresh(rec[l], "none") /\ proc[l].state = "none" /\ runtime # l
      BY <2>1, Facts DEF Unreached, Early
    <2>6. Fresh(rec'[l], "pending")
      BY <2>3, <2>5 DEF Fresh, Blank
    <2>7. Unreached(l)' /\ Launching(l)' /\ Held(l)'
      BY <2>1, <2>2, <2>5, <2>6 DEF Unreached, Early, Launching, Held, Alive, Fresh, Blank
    <2>8. \A k \in Launches : Alive(k)' <=> Alive(k)
      BY <2>1 DEF Alive
    <2>9. Onward(l)
      BY <2>1, <2>3, <2>5 DEF Onward, Past, Early, Ended, Fresh, Blank
    <2> QED  BY <1>2, <2>1, <2>2, <2>3, <2>4, <2>7, <2>8, <2>9, Facts, RecordStepKeeps
               DEF Frame
  <1> QED  BY <1>1, <1>2

LEMMA PrepareKeeps ==
  ASSUME Inv, NEW l \in Launches, NEW ok \in BOOLEAN, Prepare(l, ok)
  PROVE  Inv'
  <1> DEFINE pc == IF ok THEN "starting" ELSE "done"
  <1>1. /\ Goes(l, pc) /\ launch[l] = "pending" /\ Frame
        /\ UNCHANGED <<cur, runtime, proc, letGo, strayed>>
        /\ ok => Sets(l, "starting")
        /\ ~ok => rec' = rec
    BY DEF Prepare
  <1>2. /\ launch' \in [Launches -> Steps]
        /\ \A k \in Launches : launch'[k] = IF k = l THEN pc ELSE launch[k]
    <2>1. pc \in Steps
      BY DEF Steps
    <2> QED  BY <1>1, <2>1, Facts, Goings
  <1>3. /\ rec' \in [Launches -> Records]
        /\ \A k \in Launches \ {l} : rec'[k] = rec[k]
        /\ ok => /\ rec'[l].status = "starting" /\ rec'[l].pid = rec[l].pid
                 /\ rec'[l].started = rec[l].started /\ rec'[l].ended = rec[l].ended
    <2>1. CASE ok
      <3>1. "starting" \in Open
        BY DEF Open
      <3> QED  BY <1>1, <2>1, <3>1, Facts, Settings
    <2>2. CASE ~ok
      BY <1>1, <2>2, Facts
    <2> QED  BY <2>1, <2>2
  <1>4. TypeOK'
    BY <1>1, <1>2, <1>3, Facts DEF TypeOK, Frame, Steps, Records
  <1>5. proc[l].state = "none" /\ runtime # l /\ ~rec[l].pid
    BY <1>1, Facts DEF Unreached
  <1>6. Unreached(l)'
    BY <1>1, <1>2, <1>3, <1>5 DEF Unreached, Early
  <1>7. l \notin Out' => Launching(l)' /\ Held(l)'
    <2>1. l \notin Out' => cur = l /\ Blank(rec[l])
      BY <1>1, Facts DEF Launching, Blank, Out, Frame
    <2>2. l \notin Out' /\ ok => Blank(rec'[l]) /\ rec'[l].status = "starting"
      BY <1>3, <2>1 DEF Blank
    <2> QED  BY <1>1, <1>2, <1>5, <2>1, <2>2 DEF Launching, Held, Alive, Blank
  <1>8. \A k \in Launches : Alive(k)' <=> Alive(k)
    BY <1>1 DEF Alive
  <1>9. Onward(l)
    BY <1>1, <1>2, <1>3, <1>5 DEF Onward, Past, Early, Ended
  <1> QED  BY <1>1, <1>2, <1>3, <1>4, <1>6, <1>7, <1>8, <1>9, Facts, RecordStepKeeps DEF Frame

LEMMA SetPidKeeps ==
  ASSUME Inv, NEW l \in Launches, SetPid(l)
  PROVE  Inv'
  <1> DEFINE r == [rec[l] EXCEPT !.pid = TRUE]
  <1>1. /\ Goes(l, "started") /\ launch[l] = "spawned" /\ Frame
        /\ UNCHANGED <<cur, runtime, proc, letGo, strayed>>
        /\ rec' = [rec EXCEPT ![l] = r]
    BY DEF SetPid
  <1>2. /\ launch' \in [Launches -> Steps]
        /\ \A k \in Launches : launch'[k] = IF k = l THEN "started" ELSE launch[k]
    <2>1. "started" \in Steps
      BY DEF Steps
    <2> QED  BY <1>1, <2>1, Facts, Goings
  <1>3. r \in Records /\ r.pid /\ r.status = rec[l].status /\ r.ended = rec[l].ended
    <2>1. rec[l] \in Records
      BY Facts
    <2> QED  BY <2>1 DEF Records
  <1> HIDE DEF r
  <1>4. /\ rec' \in [Launches -> Records]
        /\ \A k \in Launches : rec'[k] = IF k = l THEN r ELSE rec[k]
    BY <1>1, <1>3, Facts, RecordChange
  <1>5. TypeOK'
    BY <1>1, <1>2, <1>4, Facts DEF TypeOK, Frame, Steps, Records
  <1>6. Unreached(l)' /\ Launching(l)'
    BY <1>2 DEF Unreached, Early, Launching
  <1>7. l \notin Out' => Held(l)'
    BY <1>1, <1>3, <1>4, Facts DEF Held, Alive, Out, Frame
  <1>8. \A k \in Launches : Alive(k)' <=> Alive(k)
    BY <1>1 DEF Alive
  <1>9. Onward(l)
    BY <1>1, <1>2, <1>3, <1>4, <1>8 DEF Onward, Past, Early, Ended
  <1> QED  BY <1>1, <1>2, <1>4, <1>5, <1>6, <1>7, <1>8, <1>9, Facts, RecordStepKeeps
             DEF Frame

\* A process starts in the place of its launch.
LEMMA SpawnKeeps ==
  ASSUME Inv, NEW l \in Launches, Spawn(l, TRUE)
  PROVE  Inv'
  <1> DEFINE lost == {k \in Launches : runtime # k /\ launch[k] \notin {"spawned", "started"}}
             q == Reaped(lost)
             x == [q[l] EXCEPT !.state = "alive"]
  <1>1. /\ Goes(l, "spawned") /\ launch[l] = "starting" /\ Frame
        /\ UNCHANGED <<rec, cur>>
        /\ runtime' = l /\ letGo' = Cut(l) /\ strayed' = (strayed \/ cur # l)
        /\ proc' = [q EXCEPT ![l] = x]
    BY DEF Spawn
  <1> HIDE DEF lost
  <1>2. /\ launch' \in [Launches -> Steps]
        /\ \A k \in Launches : launch'[k] = IF k = l THEN "spawned" ELSE launch[k]
    <2>1. "spawned" \in Steps
      BY DEF Steps
    <2> QED  BY <1>1, <2>1, Facts, Goings
  <1>3. /\ q \in [Launches -> Processes]
        /\ \A k \in Launches : /\ q[k].state = "alive" <=> Alive(k)
                               /\ q[k].state = "none" <=> proc[k].state = "none"
    BY Facts, Reapings
  <1> HIDE DEF q
  <1>4. x \in Processes /\ x.state = "alive"
    <2>1. q[l] \in Processes
      BY <1>3
    <2> QED  BY <2>1 DEF Processes
  <1> HIDE DEF x
  <1>5. /\ proc' \in [Launches -> Processes]
        /\ \A k \in Launches : proc'[k] = IF k = l THEN x ELSE q[k]
    BY <1>1, <1>3, <1>4
  <1>6. \A k \in Launches \ {l} : /\ Alive(k)' <=> Alive(k)
                                  /\ proc'[k].state = "none" <=> proc[k].state = "none"
    BY <1>3, <1>5 DEF Alive
  <1>7. letGo \subseteq letGo' /\ letGo' \subseteq Launches /\ strayed' \in BOOLEAN
    <2>1. strayed \in BOOLEAN
      BY Facts DEF TypeOK
    <2> QED  BY <1>1, <2>1, Facts, Cuts
  <1>8. TypeOK'
    BY <1>1, <1>2, <1>5, <1>7, Facts DEF TypeOK, Frame, Steps, Processes
  <1>9. \A k \in Launches \ Out' : k # l /\ Alive(k) => launch[k] # "spawned"
    BY <1>1, Loses DEF Out, Frame
  <1>10. Unreached(l)' /\ Launching(l)'
    BY <1>2 DEF Unreached, Early, Launching
  <1>11. l \notin Out' => Held(l)'
    <2>1. l \notin Out' => cur = l /\ rec[l].status \in Open /\ ~rec[l].ended
      BY <1>1, <1>7, Facts DEF Launching, Blank, Open, Out, Frame
    <2> QED  BY <1>1, <1>2, <2>1 DEF Held
  <1>12. Onward(l)
    <2>1. proc[l].state = "none"
      BY <1>1, Facts DEF Unreached
    <2> QED  BY <1>1, <1>2, <2>1 DEF Onward, Past, Early, Ended
  <1>13. Past(l)'
    BY <1>2 DEF Past, Early
  <1> QED  BY <1>1, <1>2, <1>6, <1>7, <1>8, <1>9, <1>10, <1>11, <1>12, <1>13, Facts, RecordStepKeeps
             DEF Frame

LEMMA SpawnFailsKeeps ==
  ASSUME Inv, NEW l \in Launches, Spawn(l, FALSE)
  PROVE  Inv'
  <1>1. /\ Goes(l, "done") /\ launch[l] = "starting" /\ Frame
        /\ UNCHANGED <<cur, runtime, letGo, strayed>> /\ Finish(l)
        /\ \E ls \in SUBSET Launches : proc' = Reaped(ls)
    BY DEF Spawn
  <1>2. /\ launch' \in [Launches -> Steps]
        /\ \A k \in Launches : launch'[k] = IF k = l THEN "done" ELSE launch[k]
    <2>1. "done" \in Steps
      BY DEF Steps
    <2> QED  BY <1>1, <2>1, Facts, Goings
  <1>3. /\ proc' \in [Launches -> Processes]
        /\ \A k \in Launches : /\ Alive(k)' <=> Alive(k)
                               /\ proc'[k].state = "none" <=> proc[k].state = "none"
    BY <1>1, Facts, Reapings DEF Alive
  <1>4. /\ rec' \in [Launches -> Records]
        /\ \A k \in Launches \ {l} : rec'[k] = rec[k]
        /\ rec'[l].ended /\ rec'[l].pid = rec[l].pid
    BY <1>1, Facts, Finishings
  <1>5. TypeOK'
    BY <1>1, <1>2, <1>3, <1>4, Facts DEF TypeOK, Frame, Steps, Processes, Records
  <1>6. proc[l].state = "none" /\ ~Alive(l)
    BY <1>1, Facts DEF Unreached, Alive
  <1>7. Unreached(l)' /\ Launching(l)' /\ Held(l)'
    BY <1>2, <1>3, <1>6 DEF Unreached, Early, Launching, Held
  <1>8. Onward(l)
    BY <1>2, <1>3, <1>4, <1>6 DEF Onward, Past, Early, Ended
  <1> QED  BY <1>1, <1>2, <1>3, <1>4, <1>5, <1>7, <1>8, Facts, RecordStepKeeps DEF Frame

LEMMA StartedKeeps ==
  ASSUME Inv, NEW l \in Launches, Started(l)
  PROVE  Inv'
  <1>1. /\ Goes(l, "done") /\ launch[l] = "started" /\ Frame /\ UNCHANGED cur
    BY DEF Started
  <1>2. /\ launch' \in [Launches -> Steps]
        /\ \A k \in Launches : launch'[k] = IF k = l THEN "done" ELSE launch[k]
    <2>1. "done" \in Steps
      BY DEF Steps
    <2> QED  BY <1>1, <2>1, Facts, Goings
  <1>3. CASE Ended(l)
    <2>1. CloseRuntime(l) /\ letGo' = Cut(l) /\ Finish(l) /\ proc' = Reaped({l})
      BY <1>3 DEF Started
    <2>2. /\ proc' \in [Launches -> Processes]
          /\ \A k \in Launches : /\ Alive(k)' <=> Alive(k)
                                 /\ proc'[k].state = "none" <=> proc[k].state = "none"
      BY <2>1, Facts, Reapings DEF Alive
    <2>3. /\ rec' \in [Launches -> Records]
          /\ \A k \in Launches \ {l} : rec'[k] = rec[k]
          /\ rec'[l].ended /\ rec'[l].pid = rec[l].pid
      BY <2>1, Facts, Finishings
    <2>4. /\ letGo \subseteq letGo' /\ letGo' \subseteq Launches
          /\ runtime' = None /\ strayed' \in BOOLEAN
      <3>1. strayed \in BOOLEAN
        BY Facts DEF TypeOK
      <3> QED  BY <2>1, <3>1, Facts, Cuts DEF CloseRuntime
    <2>5. TypeOK'
      BY <1>1, <1>2, <2>2, <2>3, <2>4, Facts DEF TypeOK, Frame, Steps, Processes, Records
    <2>6. \A k \in Launches \ Out' : k # l /\ Alive(k) => launch[k] # "spawned"
      BY <1>1, <2>1, Loses DEF Out, Frame
    <2>7. ~Alive(l) /\ ~Alive(l)'
      BY <1>3, <2>2 DEF Alive, Ended
    <2>8. Unreached(l)' /\ Launching(l)' /\ Held(l)'
      BY <1>2, <2>7 DEF Unreached, Early, Launching, Held
    <2>9. Onward(l)
      <3>1. Ended(l) => Ended(l)'
        BY <2>2, <2>5, <2>7, Facts, EndsStay
      <3> QED  BY <1>2, <2>3, <2>7, <3>1 DEF Onward, Past, Early
    <2> QED  BY <1>1, <1>2, <2>2, <2>3, <2>4, <2>5, <2>6, <2>8, <2>9, Facts, RecordStepKeeps
               DEF Frame
  <1>4. CASE ~Ended(l)
    <2> DEFINE r == [rec[l] EXCEPT !.started = TRUE]
    <2>1. rec' = [rec EXCEPT ![l] = r] /\ UNCHANGED <<runtime, proc, letGo, strayed>>
      BY <1>4 DEF Started
    <2>2. r \in Records /\ r.pid = rec[l].pid /\ r.status = rec[l].status /\ r.ended = rec[l].ended
      <3>1. rec[l] \in Records
        BY Facts
      <3> QED  BY <3>1 DEF Records
    <2> HIDE DEF r
    <2>3. /\ rec' \in [Launches -> Records]
          /\ \A k \in Launches : rec'[k] = IF k = l THEN r ELSE rec[k]
      BY <2>1, <2>2, Facts, RecordChange
    <2>4. TypeOK'
      BY <1>1, <1>2, <2>1, <2>3, Facts DEF TypeOK, Frame, Steps, Records
    <2>5. \A k \in Launches : Alive(k)' <=> Alive(k)
      BY <2>1 DEF Alive
    <2>6. Unreached(l)' /\ Launching(l)'
      BY <1>2 DEF Unreached, Early, Launching
    <2>7. l \notin Out' => Held(l)'
      BY <1>1, <2>1, <2>2, <2>3, <2>5, Facts DEF Held, Out, Frame
    <2>8. Onward(l)
      BY <1>2, <2>1, <2>2, <2>3, <2>5 DEF Onward, Past, Early, Ended
    <2> QED  BY <1>1, <1>2, <2>1, <2>3, <2>4, <2>5, <2>6, <2>7, <2>8, Facts, RecordStepKeeps
               DEF Frame
  <1> QED  BY <1>3, <1>4

----------------------------------------------------------------------------
(* The refresh.                                                            *)

LEMMA NoRefreshing ==
  ASSUME refresh' = NoRefresh
  PROVE  refresh' \in Refreshes /\ Refreshing'
  BY DEF NoRefresh, Refreshing, Refreshes, LockFree

LEMMA ReadsKeeps ==
  ASSUME Inv, NEW r \in Refreshes, Reads(r), Refreshing'
  PROVE  Inv'
  <1>1. /\ refresh' = r
        /\ UNCHANGED <<launch, rec, cur, runtime, proc, agent, stop, drain, deleting,
                       events, letGo, blind, strayed>>
    BY DEF Reads, Others
  <1>2. TypeOK'
    BY <1>1, Facts DEF TypeOK, Refreshes
  <1>3. \A k \in Launches : /\ Alive(k)' <=> Alive(k)
                            /\ proc'[k].state = "none" <=> proc[k].state = "none"
    BY <1>1 DEF Alive
  <1> QED  BY <1>1, <1>2, <1>3, Facts, RestKeeps

LEMMA RefreshStartKeeps ==
  ASSUME Inv, NEW gone \in BOOLEAN, RefreshStart(gone)
  PROVE  Inv'
  <1> DEFINE r == [NoRefresh EXCEPT !.pc = "lock", !.gone = gone]
  <1>1. Reads(r)
    BY DEF RefreshStart
  <1>2. /\ r \in Refreshes /\ r.pc = "lock" /\ r.of = None /\ ~r.pid
        /\ r.runtime = None /\ ~r.seen
    BY DEF NoRefresh, Refreshes
  <1> HIDE DEF r
  <1>3. Refreshing'
    BY <1>1, <1>2 DEF Reads, Refreshing, LockFree
  <1> QED  BY <1>1, <1>2, <1>3, ReadsKeeps

LEMMA RefreshPidKeeps ==
  ASSUME Inv, RefreshPid
  PROVE  Inv'
  <1>1. CASE cur = None
    <2>1. Reads(NoRefresh) /\ refresh' = NoRefresh
      BY <1>1 DEF RefreshPid, Reads
    <2> QED  BY <2>1, NoRefreshing, ReadsKeeps
  <1>2. CASE cur # None
    <2> DEFINE r == [refresh EXCEPT !.pc = "runtime", !.of = cur, !.pid = rec[cur].pid]
    <2>1. Reads(r) /\ LockFree
      BY <1>2 DEF RefreshPid, LockFree
    <2>2. cur \in Launches /\ rec[cur].pid \in BOOLEAN
      <3>1. cur \in Launches
        BY <1>2, Facts DEF TypeOK
      <3> QED  BY <3>1, Facts DEF Records
    <2>3. /\ r \in Refreshes /\ r.pc = "runtime" /\ r.of = cur /\ r.pid = rec[cur].pid
          /\ r.runtime = refresh.runtime /\ r.seen = refresh.seen
      <3>1. refresh \in Refreshes
        BY Facts
      <3> QED  BY <2>2, <3>1 DEF Refreshes
    <2> HIDE DEF r
    <2>4. ~refresh.seen
      BY <2>1, Facts DEF Refreshing
    <2>5. refresh' = r /\ UNCHANGED <<launch, rec, cur>>
      BY <2>1 DEF Reads, Others
    <2>6. Refreshing'
      BY <1>2, <2>3, <2>4, <2>5, Facts DEF Refreshing, LockFree, Past
    <2> QED  BY <2>1, <2>3, <2>6, ReadsKeeps
  <1> QED  BY <1>1, <1>2

LEMMA RefreshRuntimeKeeps ==
  ASSUME Inv, RefreshRuntime
  PROVE  Inv'
  <1> DEFINE r == [refresh EXCEPT !.pc = "test", !.runtime = runtime]
  <1>1. Reads(r) /\ ~LockFree
    BY DEF RefreshRuntime, LockFree
  <1>2. /\ r \in Refreshes /\ r.pc = "test" /\ r.of = refresh.of /\ r.pid = refresh.pid
        /\ r.runtime = runtime /\ r.seen = refresh.seen /\ r.alive = refresh.alive
    <2>1. refresh \in Refreshes /\ runtime \in Launches \cup {None}
      BY Facts DEF TypeOK
    <2> QED  BY <2>1 DEF Refreshes
  <1> HIDE DEF r
  <1>3. runtime # None => Past(runtime)
    <2>1. runtime \in Launches \cup {None}
      BY Facts DEF TypeOK
    <2> QED  BY <2>1, Facts DEF Unreached, Past
  <1>4. refresh' = r /\ UNCHANGED <<launch, rec, cur, proc>>
    BY <1>1 DEF Reads, Others
  <1>5. Refreshing'
    BY <1>1, <1>2, <1>3, <1>4, Facts DEF Refreshing, LockFree, Past, Alive
  <1> QED  BY <1>1, <1>2, <1>5, ReadsKeeps

\* What it has read tells of the launch, if that was the launch's own.
LEMMA RefreshTestKeeps ==
  ASSUME Inv, RefreshTest
  PROVE  Inv'
  <1>0. PICK l \in Launches, k \in Launches \cup {None} :
          refresh.of = l /\ refresh.runtime = k /\ cur = l /\ ~LockFree
    BY AtTask, Facts DEF Refreshes, RefreshTest, LockFree
  <1> DEFINE alive == IF k # None THEN Alive(k) ELSE refresh.pid /\ PidAlive(l)
             ended == IF k # None THEN Ended(k) ELSE refresh.pid /\ ~PidAlive(l)
             seen == k = l \/ (k = None /\ refresh.pid)
             r == [NoRefresh EXCEPT !.pc = "status", !.of = l, !.gone = refresh.gone,
                     !.alive = alive, !.ended = ended, !.seen = seen]
  <1>1. /\ ~LockFree /\ refresh' \in {NoRefresh, r} /\ proc' = Reaped({k})
        /\ UNCHANGED <<launch, rec, cur, runtime, agent, stop, drain, deleting, events,
                       letGo, blind, strayed>>
    BY <1>0 DEF RefreshTest, Others
  <1>2. refresh.gone \in BOOLEAN /\ refresh.pid \in BOOLEAN
    BY Facts DEF Refreshes
  <1>3. alive \in BOOLEAN /\ ended \in BOOLEAN /\ seen \in BOOLEAN
    <2>1. CASE k # None
      BY <2>1 DEF Alive, Ended
    <2>2. CASE k = None
      BY <1>2, <2>2
    <2> QED  BY <2>1, <2>2
  <1>4. seen => Past(l) /\ (Alive(l) => alive)
    <2>1. CASE k = l
      BY <1>0, <2>1, Facts DEF Refreshing
    <2>2. CASE k = None /\ refresh.pid
      <3>1. rec[l].pid
        BY <1>0, <2>2, Facts DEF Refreshing
      <3>2. Past(l)
        BY <1>0, <3>1, Facts DEF Unreached, Past
      <3> QED  BY <1>0, <2>2, <3>1, <3>2 DEF PidAlive, Alive
    <2> QED  BY <2>1, <2>2
  <1> HIDE DEF alive, ended, seen
  <1>5. /\ r \in Refreshes /\ r.pc = "status" /\ r.of = l /\ ~r.pid /\ r.runtime = None
        /\ r.alive = alive /\ r.seen = seen
    BY <1>0, <1>2, <1>3 DEF NoRefresh, Refreshes
  <1> HIDE DEF r
  <1>6. /\ proc' \in [Launches -> Processes]
        /\ \A m \in Launches : /\ Alive(m)' <=> Alive(m)
                               /\ proc'[m].state = "none" <=> proc[m].state = "none"
    BY <1>1, Facts, Reapings DEF Alive
  <1>7. Refreshing'
    <2>1. CASE refresh' = NoRefresh
      BY <2>1, NoRefreshing
    <2>2. CASE refresh' = r
      <3>1. Alive(l)' <=> Alive(l)
        BY <1>6
      <3> QED  BY <1>0, <1>1, <1>4, <1>5, <2>2, <3>1, Facts DEF Refreshing, LockFree, Past, Alive
    <2> QED  BY <1>1, <2>1, <2>2
  <1>8. TypeOK'
    <2>1. refresh' \in Refreshes
      BY <1>1, <1>5, NoRefreshing
    <2> QED  BY <1>1, <1>6, <2>1, Facts DEF TypeOK, Processes, Refreshes
  <1> QED  BY <1>1, <1>6, <1>7, <1>8, Facts, RestKeeps

LEMMA RefreshStatusKeeps ==
  ASSUME Inv, RefreshStatus
  PROVE  Inv'
  <1> DEFINE pc == IF rec[refresh.of].status \in Open THEN "probe" ELSE "forget"
             r == [refresh EXCEPT !.pc = pc]
  <1>1. Reads(r) /\ ~LockFree
    BY DEF RefreshStatus, LockFree
  <1>2. /\ r \in Refreshes /\ r.pc = pc /\ r.of = refresh.of /\ r.pid = refresh.pid
        /\ r.runtime = refresh.runtime /\ r.seen = refresh.seen /\ r.alive = refresh.alive
    <2>1. refresh \in Refreshes
      BY Facts
    <2> QED  BY <2>1 DEF Refreshes
  <1> HIDE DEF r
  <1>3. refresh' = r /\ UNCHANGED <<launch, rec, cur, proc>>
    BY <1>1 DEF Reads, Others
  <1>4. Refreshing'
    BY <1>1, <1>2, <1>3, Facts DEF Refreshing, LockFree, Past, Alive
  <1> QED  BY <1>1, <1>2, <1>4, ReadsKeeps

LEMMA RefreshProbeKeeps ==
  ASSUME Inv, NEW answers \in BOOLEAN, NEW online \in BOOLEAN, RefreshProbe(answers, online)
  PROVE  Inv'
  <1> DEFINE l == refresh.of
             fine == refresh.alive \/ (~refresh.ended /\ (answers \/ online))
             R(pc) == [refresh EXCEPT !.pc = pc]
  <1>1. /\ ~LockFree /\ Others /\ UNCHANGED <<cur, runtime, proc, letGo, strayed>>
    BY DEF RefreshProbe, LockFree
  <1>2. l \in Launches /\ cur = l
    BY <1>1, AtTask
  <1>3. ASSUME NEW pc \in {"up", "close"}
        PROVE  /\ R(pc) \in Refreshes /\ R(pc).pc = pc /\ R(pc).of = l
               /\ R(pc).pid = refresh.pid /\ R(pc).runtime = refresh.runtime
               /\ R(pc).seen = refresh.seen /\ R(pc).alive = refresh.alive
    <2>1. refresh \in Refreshes
      BY Facts
    <2> QED  BY <2>1 DEF Refreshes
  <1>4. CASE fine
    <2>1. /\ UNCHANGED <<rec, blind>>
          /\ \/ refresh' = NoRefresh
             \/ refresh' = R("up") /\ rec[l].status = "starting"
      BY <1>4 DEF RefreshProbe
    <2>2. CASE refresh' = NoRefresh
      <3>1. Reads(NoRefresh)
        BY <1>1, <2>1, <2>2 DEF Reads, Others
      <3> QED  BY <2>2, <3>1, NoRefreshing, ReadsKeeps
    <2>3. CASE refresh' = R("up") /\ rec[l].status = "starting"
      <3>1. Reads(R("up"))
        BY <1>1, <2>1, <2>3 DEF Reads, Others
      <3>2. l \notin Out => launch[l] # "pending"
        BY <1>2, <2>3, Facts DEF Launching
      <3> DEFINE r == R("up")
      <3>3. /\ r \in Refreshes /\ r.pc = "up" /\ r.of = l
            /\ r.pid = refresh.pid /\ r.runtime = refresh.runtime
            /\ r.seen = refresh.seen /\ r.alive = refresh.alive
        BY <1>3
      <3>4. refresh' = r /\ Reads(r) /\ UNCHANGED <<launch, rec, cur, proc, letGo, blind>>
        BY <1>1, <2>1, <2>3, <3>1 DEF Others
      <3> HIDE DEF r
      <3>5. Refreshing'
        BY <1>1, <3>2, <3>3, <3>4, Facts DEF Refreshing, LockFree, Past, Alive, Out
      <3> QED  BY <3>3, <3>4, <3>5, ReadsKeeps
    <2> QED  BY <2>1, <2>2, <2>3
  <1>5. CASE ~fine
    <2>1. /\ Finish(l) /\ refresh' = R("close") /\ ~refresh.alive
          /\ blind' = IF refresh.seen THEN blind ELSE blind \cup {l}
          /\ UNCHANGED <<launch, cur, runtime, proc, agent, stop, drain, deleting, events,
                         letGo, strayed>>
      BY <1>1, <1>5 DEF RefreshProbe, Others
    <2> DEFINE r == R("close")
    <2>2. /\ r \in Refreshes /\ r.pc = "close" /\ r.of = l
          /\ r.pid = refresh.pid /\ r.runtime = refresh.runtime
          /\ r.seen = refresh.seen /\ r.alive = refresh.alive /\ refresh' = r
      BY <1>3, <2>1
    <2> HIDE DEF r
    <2>3. /\ rec' \in [Launches -> Records]
          /\ \A k \in Launches \ {l} : rec'[k] = rec[k]
          /\ rec'[l].ended /\ rec'[l].pid = rec[l].pid
      BY <1>2, <2>1, Facts, Finishings
    <2>4. blind \subseteq blind' /\ blind' \subseteq Launches
      BY <1>2, <2>1, Facts DEF TypeOK
    <2>5. TypeOK'
      <3>1. UNCHANGED <<launch, cur, runtime, proc, agent, stop, drain, deleting, events,
                        letGo, strayed>>
        BY <2>1
      <3>2. refresh' \in Refreshes
        BY <2>2
      <3> QED  BY <2>3, <2>4, <3>1, <3>2, Facts DEF TypeOK, Records, Refreshes
    <2>6. l \notin Out' => ~Alive(l) /\ Past(l)
      BY <2>1, Facts DEF Refreshing, Out
    <2>7. \A k \in Launches : Alive(k)' <=> Alive(k)
      BY <2>1 DEF Alive
    <2>8. l \notin Out' => Launching(l)' /\ Held(l)'
      BY <1>2, <2>1, <2>6, <2>7 DEF Launching, Held, Past
    <2>9. Onward(l)
      BY <1>2, <2>1, <2>3, <2>7 DEF Onward, Past, Ended
    <2>10. Refreshing'
      <3>1. /\ refresh.pid => rec'[l].pid
            /\ refresh.runtime # None => Past(refresh.runtime)
            /\ refresh.seen => Past(l) /\ (Alive(l) => refresh.alive)
            /\ l # None
        BY <1>2, <2>3, Facts DEF Refreshing
      <3> QED  BY <1>2, <2>1, <2>2, <2>3, <3>1 DEF Refreshing, LockFree, Past, Alive
    <2>11. Unreached(l)'
      BY <1>2, <2>1, <2>3, Facts DEF Unreached, Early
    <2> QED  BY <1>2, <2>1, <2>3, <2>4, <2>5, <2>7, <2>8, <2>9, <2>10, <2>11, Facts,
               RecordStepKeeps
  <1> QED  BY <1>4, <1>5

LEMMA ComesUpKeeps ==
  ASSUME Inv, ComesUp
  PROVE  Inv'
  <1>0. PICK l \in Launches : refresh.of = l /\ cur = l /\ ~LockFree
    BY AtTask DEF ComesUp, LockFree
  <1>1. /\ Sets(l, "running") /\ refresh' = NoRefresh
        /\ UNCHANGED <<launch, cur, runtime, proc, agent, stop, drain, deleting, events,
                       letGo, blind, strayed>>
    BY <1>0 DEF ComesUp, Others
  <1>2. cur = l
    BY <1>0
  <1>3. l \notin Out => launch[l] # "pending"
    BY <1>0, Facts DEF ComesUp, Refreshing
  <1>4. /\ rec' \in [Launches -> Records]
        /\ \A k \in Launches \ {l} : rec'[k] = rec[k]
        /\ rec'[l].status = "running" /\ rec'[l].pid = rec[l].pid
        /\ rec'[l].started = rec[l].started /\ rec'[l].ended = rec[l].ended
    <2>1. "running" \in Open
      BY DEF Open
    <2> QED  BY <1>1, <1>2, <2>1, Facts, Settings
  <1>5. TypeOK'
    BY <1>1, <1>4, Facts, NoRefreshing DEF TypeOK, Records, Refreshes
  <1>6. Unreached(l)'
    BY <1>1, <1>2, <1>4, Facts DEF Unreached, Early
  <1>7. l \notin Out' => Launching(l)' /\ Held(l)'
    <2>1. l \notin Out' => Launching(l)'
      BY <1>1, <1>3, <1>4, Facts DEF Launching, Blank, Out
    <2>2. l \notin Out' => Held(l)'
      BY <1>1, <1>2, <1>4, Facts DEF Held, Alive, Open, Out
    <2> QED  BY <2>1, <2>2
  <1>8. \A k \in Launches : Alive(k)' <=> Alive(k)
    BY <1>1 DEF Alive
  <1>9. Onward(l)
    BY <1>1, <1>4, <1>8 DEF Onward, Past, Ended
  <1> QED  BY <1>1, <1>2, <1>4, <1>5, <1>6, <1>7, <1>8, <1>9, Facts, NoRefreshing,
             RecordStepKeeps

\* No process is lost with the runtime of a task that is finished.
LEMMA RefreshCloseKeeps ==
  ASSUME Inv, RefreshClose
  PROVE  Inv'
  <1> DEFINE r == [refresh EXCEPT !.pc = "forget"]
  <1>1. /\ ~LockFree /\ refresh' = r /\ runtime' = None
        /\ strayed' = (strayed \/ cur \notin {refresh.of, None})
        /\ UNCHANGED <<launch, rec, cur, proc, agent, stop, drain, deleting, events, letGo,
                       blind>>
    BY DEF RefreshClose, CloseRuntime, Others, LockFree
  <1>2. /\ r \in Refreshes /\ r.pc = "forget" /\ r.of = refresh.of /\ r.pid = refresh.pid
        /\ r.runtime = refresh.runtime /\ r.seen = refresh.seen /\ r.alive = refresh.alive
    <2>1. refresh \in Refreshes
      BY Facts
    <2> QED  BY <2>1 DEF Refreshes
  <1> HIDE DEF r
  <1>3. refresh.of \in Launches /\ cur = refresh.of /\ rec[refresh.of].ended
    BY <1>1, AtTask, Facts DEF RefreshClose, Refreshing
  <1>4. Refreshing'
    BY <1>1, <1>2, <1>3, Facts DEF Refreshing, LockFree, Past, Alive
  <1>5. strayed' \in BOOLEAN
    BY <1>1, Facts DEF TypeOK
  <1>6. TypeOK'
    BY <1>1, <1>2, <1>5, Facts DEF TypeOK, Refreshes
  <1>7. \A k \in Launches \ Out' : ~Alive(k)
    BY <1>1, <1>3, Facts DEF Held, Out
  <1>8. \A k \in Launches : /\ Alive(k)' <=> Alive(k)
                            /\ proc'[k].state = "none" <=> proc[k].state = "none"
    BY <1>1 DEF Alive
  <1> QED  BY <1>1, <1>4, <1>6, <1>7, <1>8, Facts, RestKeeps

LEMMA RefreshForgetKeeps ==
  ASSUME Inv, RefreshForget
  PROVE  Inv'
  <1> DEFINE l == refresh.of
             over == refresh.gone /\ rec[l].status = "finished" /\ ~refresh.alive
  <1>1. /\ ~LockFree /\ refresh' = NoRefresh
        /\ UNCHANGED <<launch, rec, proc, agent, stop, drain, deleting, events, letGo, blind>>
    BY DEF RefreshForget, Others, LockFree
  <1>2. l \in Launches /\ cur = l
    BY <1>1, AtTask
  <1>3. refresh' \in Refreshes /\ Refreshing'
    BY <1>1, NoRefreshing
  <1>4. \A k \in Launches : /\ Alive(k)' <=> Alive(k)
                            /\ proc'[k].state = "none" <=> proc[k].state = "none"
    BY <1>1 DEF Alive
  <1>5. CASE over
    <2>1. /\ runtime' = None /\ cur' = None
          /\ strayed' = (strayed \/ cur \notin {l, None})
      BY <1>5 DEF RefreshForget, CloseRuntime
    <2>2. strayed' \in BOOLEAN
      BY <2>1, Facts DEF TypeOK
    <2>3. TypeOK'
      BY <1>1, <1>3, <2>1, <2>2, Facts DEF TypeOK, Refreshes
    <2>4. IsFinished(l)
      BY <1>5 DEF IsFinished
    <2>5. \A k \in Launches \ Out' :
            k = l => ~Alive(k) /\ launch[k] \notin {"pending", "starting"}
      BY <1>1, <2>4, Facts, FinishedIsOver DEF Out
    <2>6. \A k \in Launches \ Out' : ~Alive(k)
      BY <1>1, <1>2, <2>5, Facts DEF Held, Out
    <2> QED  BY <1>1, <1>2, <1>3, <1>4, <2>1, <2>3, <2>5, <2>6, Facts, RestKeeps
  <1>6. CASE ~over
    <2>1. UNCHANGED <<cur, runtime, strayed>>
      BY <1>6 DEF RefreshForget
    <2>2. Reads(NoRefresh)
      BY <1>1, <2>1 DEF Reads, Others
    <2> QED  BY <1>1, <1>3, <2>2, ReadsKeeps
  <1> QED  BY <1>5, <1>6

----------------------------------------------------------------------------
(* Stop, delete, logs, restart.                                            *)

LEMMA StopKeeps ==
  ASSUME Inv, StopGet \/ StopCheck
  PROVE  Inv'
  <1>1. /\ UNCHANGED <<launch, rec, cur, runtime, proc, agent, refresh, drain, deleting,
                       letGo, blind, strayed>>
        /\ events' \in 0 .. MaxEvents
        /\ stop' \in [of : Launches \cup {None}, pc : {"idle", "check", "mark", "kill"}]
        /\ stop'.of \in {stop.of, cur, None} /\ (stop'.pc # "idle" => stop'.of # None)
    <2>1. CASE StopGet
      <3>1. events' \in 0 .. MaxEvents
        BY <2>1, Facts DEF StopGet, Event, Counts, TypeOK
      <3>2. stop' = [of |-> cur, pc |-> "check"] /\ cur \in Launches /\ cur # None
        BY <2>1, Facts DEF StopGet, TypeOK
      <3> QED  BY <2>1, <3>1, <3>2 DEF StopGet
    <2>2. CASE StopCheck
      <3> DEFINE s == [stop EXCEPT !.pc = "mark"]
      <3>1. /\ stop \in [of : Launches \cup {None}, pc : {"idle", "check", "mark", "kill"}]
            /\ stop.of # None
        BY <2>2, Facts DEF StopCheck, TypeOK
      <3>2. /\ s \in [of : Launches \cup {None}, pc : {"idle", "check", "mark", "kill"}]
            /\ s.of = stop.of
        BY <3>1
      <3>3. stop' = s \/ stop' = NoStop
        BY <2>2 DEF StopCheck
      <3> HIDE DEF s
      <3>4. UNCHANGED <<launch, rec, cur, runtime, proc, agent, refresh, drain, deleting,
                        events, letGo, blind, strayed>>
        BY <2>2 DEF StopCheck
      <3>5. events \in 0 .. MaxEvents
        BY Facts DEF TypeOK
      <3> QED  BY <3>1, <3>2, <3>3, <3>4, <3>5 DEF NoStop
    <2> QED  BY <2>1, <2>2
  <1>2. TypeOK'
    BY <1>1, Facts DEF TypeOK
  <1>3. \A k \in Launches : /\ Alive(k)' <=> Alive(k)
                            /\ proc'[k].state = "none" <=> proc[k].state = "none"
    BY <1>1 DEF Alive
  <1> QED  BY <1>1, <1>2, <1>3, Facts, RestKeeps

LEMMA StopMarkKeeps ==
  ASSUME Inv, StopMark
  PROVE  Inv'
  <1>0. PICK l \in Launches : stop.of = l
    BY Facts DEF StopMark, TypeOK
  <1> DEFINE s == [stop EXCEPT !.pc = "kill"]
  <1>1. /\ Sets(l, "stopping") /\ stop' = s
        /\ letGo' = IF launch[l] \in {"pending", "starting", "spawned"}
                    THEN letGo \cup {l} ELSE letGo
        /\ UNCHANGED <<launch, cur, runtime, proc, agent, refresh, drain, deleting, events,
                       blind, strayed>>
    BY <1>0 DEF StopMark
  <1>2. /\ s \in [of : Launches \cup {None}, pc : {"idle", "check", "mark", "kill"}]
        /\ s.of = stop.of /\ stop.of # None
    <2>1. stop \in [of : Launches \cup {None}, pc : {"idle", "check", "mark", "kill"}]
      BY Facts DEF TypeOK
    <2> QED  BY <1>0, <2>1, Facts
  <1> HIDE DEF s
  <1>3. /\ rec' \in [Launches -> Records]
        /\ \A k \in Launches \ {l} : rec'[k] = rec[k]
        /\ rec'[l].status = "stopping" /\ rec'[l].pid = rec[l].pid
        /\ rec'[l].ended = rec[l].ended
    <2>1. "stopping" \in Open
      BY DEF Open
    <2> QED  BY <1>1, <2>1, Facts, Settings
  <1>4. letGo \subseteq letGo' /\ letGo' \subseteq Launches
    BY <1>1, Facts DEF TypeOK
  <1>5. TypeOK'
    BY <1>1, <1>2, <1>3, <1>4, Facts DEF TypeOK, Records
  <1>6. Unreached(l)'
    BY <1>0, <1>1, <1>3, Facts DEF Unreached, Early
  <1>7. l \notin Out' => Launching(l)' /\ Held(l)'
    <2>1. l \notin Out' => launch'[l] \notin {"pending", "starting"}
      BY <1>1 DEF Out
    <2>2. l \notin Out' => Held(l)'
      BY <1>1, <1>3, <1>4, Facts DEF Held, Alive, Open, Out
    <2> QED  BY <2>1, <2>2 DEF Launching
  <1>8. \A k \in Launches : Alive(k)' <=> Alive(k)
    BY <1>1 DEF Alive
  <1>9. Onward(l)
    BY <1>1, <1>3, <1>8 DEF Onward, Past, Ended
  <1> QED  BY <1>1, <1>2, <1>3, <1>4, <1>5, <1>6, <1>7, <1>8, <1>9, Facts, RecordStepKeeps

LEMMA TerminateKeeps ==
  ASSUME Inv, Terminate
  PROVE  Inv'
  <1>0. PICK l \in Launches : stop.of = l
    BY Facts DEF Terminate, TypeOK
  <1> DEFINE p == [proc[l] EXCEPT !.killed = TRUE]
  <1>1. /\ proc' = proc \/ proc' = [proc EXCEPT ![l] = p]
        /\ stop' = NoStop
        /\ UNCHANGED <<launch, rec, cur, runtime, agent, refresh, drain, deleting, events,
                       letGo, blind, strayed>>
    BY <1>0 DEF Terminate
  <1>2. p \in Processes /\ p.state = proc[l].state
    <2>1. proc[l] \in Processes
      BY Facts
    <2> QED  BY <2>1 DEF Processes
  <1> HIDE DEF p
  <1>3. /\ proc' \in [Launches -> Processes]
        /\ \A k \in Launches : proc'[k].state = proc[k].state
    BY <1>1, <1>2, Facts
  <1>4. /\ stop' \in [of : Launches \cup {None}, pc : {"idle", "check", "mark", "kill"}]
        /\ stop'.of = None /\ stop'.pc = "idle"
    BY <1>1 DEF NoStop
  <1>5. TypeOK'
    BY <1>1, <1>3, <1>4, Facts DEF TypeOK, Processes
  <1>6. \A k \in Launches : /\ Alive(k)' <=> Alive(k)
                            /\ proc'[k].state = "none" <=> proc[k].state = "none"
    BY <1>3 DEF Alive
  <1> QED  BY <1>1, <1>4, <1>5, <1>6, Facts, RestKeeps

LEMMA DeleteKeeps ==
  ASSUME Inv, Delete \/ DeleteClose
  PROVE  Inv'
  <1>1. /\ UNCHANGED <<launch, rec, proc, agent, refresh, stop, drain, blind>>
        /\ deleting' \in BOOLEAN
    BY DEF Delete, DeleteClose
  <1>2. \A k \in Launches : /\ Alive(k)' <=> Alive(k)
                            /\ proc'[k].state = "none" <=> proc[k].state = "none"
    BY <1>1 DEF Alive
  <1>3. CASE Delete
    <2>1. /\ cur # None /\ LockFree /\ cur' = None /\ UNCHANGED <<runtime, strayed>>
          /\ letGo' = IF Alive(cur) \/ launch[cur] \in {"pending", "starting"}
                      THEN letGo \cup {cur} ELSE letGo
      BY <1>3 DEF Delete
    <2>2. events' \in 0 .. MaxEvents
      BY <1>3, Facts DEF Delete, Event, Counts, TypeOK
    <2>3. letGo \subseteq letGo' /\ letGo' \subseteq Launches
      BY <2>1, Facts DEF TypeOK
    <2>4. TypeOK'
      BY <1>1, <2>1, <2>2, <2>3, Facts DEF TypeOK
    <2>5. \A k \in Launches \ Out' :
            cur = k => ~Alive(k) /\ launch[k] \notin {"pending", "starting"}
      BY <2>1 DEF Out
    <2> QED  BY <1>1, <1>2, <2>1, <2>3, <2>4, <2>5, Facts, RestKeeps
  <1>4. CASE DeleteClose
    <2>1. /\ runtime' = None /\ strayed' = (strayed \/ cur \notin {None, None})
          /\ letGo' = Cut(None) /\ UNCHANGED <<cur, events>>
      BY <1>4 DEF DeleteClose, CloseRuntime
    <2>2. letGo \subseteq letGo' /\ letGo' \subseteq Launches /\ strayed' \in BOOLEAN
      <3>1. strayed \in BOOLEAN
        BY Facts DEF TypeOK
      <3> QED  BY <2>1, <3>1, Facts, Cuts
    <2>3. TypeOK'
      BY <1>1, <2>1, <2>2, Facts DEF TypeOK
    <2>4. \A k \in Launches \ Out' : Alive(k) => launch[k] # "spawned"
      BY <1>1, <2>1, Facts, Loses DEF Out
    <2> QED  BY <1>1, <1>2, <2>1, <2>2, <2>3, <2>4, Facts, RestKeeps
  <1> QED  BY <1>3, <1>4

LEMMA DrainGetKeeps ==
  ASSUME Inv, DrainGet
  PROVE  Inv'
  <1>1. /\ UNCHANGED <<launch, rec, cur, runtime, proc, agent, refresh, stop, deleting,
                       letGo, blind, strayed>>
        /\ drain' = [of |-> cur, pc |-> "poll"] /\ cur # None
        /\ events' \in 0 .. MaxEvents
    BY Facts DEF DrainGet, Event, Counts, TypeOK
  <1>2. drain' \in Drains /\ drain'.of = cur /\ drain'.pc = "poll"
    <2>1. cur \in Launches \cup {None}
      BY Facts DEF TypeOK
    <2> QED  BY <1>1, <2>1 DEF Drains
  <1>3. TypeOK'
    BY <1>1, <1>2, Facts DEF TypeOK, Drains
  <1>4. Draining'
    BY <1>1, <1>2 DEF Draining
  <1>5. \A k \in Launches : /\ Alive(k)' <=> Alive(k)
                            /\ proc'[k].state = "none" <=> proc[k].state = "none"
    BY <1>1 DEF Alive
  <1> QED  BY <1>1, <1>2, <1>3, <1>4, <1>5, Facts, RestKeeps

\* What ends the launch is the end of its process, or the launch is out.
LEMMA DrainPollKeeps ==
  ASSUME Inv, DrainPoll
  PROVE  Inv'
  <1>0. PICK l \in Launches : drain.of = l
    BY Facts DEF DrainPoll, Draining, Drains
  <1> DEFINE d == [drain EXCEPT !.pc = "close"]
             ends == runtime # None /\ Ended(runtime)
  <1>1. /\ proc' = Reaped({runtime})
        /\ drain' = IF ends THEN d ELSE NoDrain
        /\ blind' = IF ends /\ runtime # l THEN blind \cup {l} ELSE blind
        /\ UNCHANGED <<launch, rec, cur, runtime, agent, refresh, stop, deleting, events,
                       letGo, strayed>>
    BY <1>0 DEF DrainPoll
  <1>2. /\ d \in Drains /\ d.of = l /\ d.pc = "close"
        /\ NoDrain \in Drains /\ NoDrain.of = None /\ NoDrain.pc = "idle"
    <2>1. drain \in Drains
      BY Facts
    <2> QED  BY <1>0, <2>1 DEF Drains, NoDrain
  <1> HIDE DEF d
  <1>3. /\ proc' \in [Launches -> Processes]
        /\ \A k \in Launches : /\ Alive(k)' <=> Alive(k)
                               /\ proc'[k].state = "none" <=> proc[k].state = "none"
    BY <1>1, Facts, Reapings DEF Alive
  <1>4. blind \subseteq blind' /\ blind' \subseteq Launches
    BY <1>1, Facts DEF TypeOK
  <1>5. TypeOK'
    <2>1. drain' = d \/ drain' = NoDrain
      BY <1>1
    <2>2. drain' \in Drains
      BY <1>2, <2>1
    <2>3. UNCHANGED <<launch, rec, cur, runtime, agent, refresh, stop, deleting, events,
                      letGo, strayed>>
      BY <1>1
    <2> QED  BY <1>3, <1>4, <2>2, <2>3, Facts DEF TypeOK, Processes, Drains
  <1>6. Draining'
    <2>1. CASE ends
      <3>1. l \notin Out' => Ended(l)
        BY <1>1, <2>1 DEF Out
      <3>2. Ended(l) => Ended(l)'
        BY <1>3, <1>5, Facts, EndsStay
      <3>3. drain' = d /\ l # None
        BY <1>1, <2>1, Facts
      <3> QED  BY <1>2, <3>1, <3>2, <3>3 DEF Draining, Ended
    <2>2. CASE ~ends
      BY <1>1, <1>2, <2>2 DEF Draining
    <2> QED  BY <2>1, <2>2
  <1> QED  BY <1>0, <1>1, <1>2, <1>3, <1>4, <1>5, <1>6, Facts, RestKeeps

LEMMA DrainCloseKeeps ==
  ASSUME Inv, DrainClose
  PROVE  Inv'
  <1>0. PICK l \in Launches : drain.of = l
    BY Facts DEF DrainClose, Draining, Drains
  <1> DEFINE d == [drain EXCEPT !.pc = "finish"]
  <1>1. /\ runtime' = None /\ strayed' = (strayed \/ cur \notin {l, None})
        /\ letGo' = Cut(l) /\ drain' = d
        /\ UNCHANGED <<launch, rec, cur, proc, agent, refresh, stop, deleting, events, blind>>
    BY <1>0 DEF DrainClose, CloseRuntime
  <1>2. d \in Drains /\ d.of = l /\ d.pc = "finish"
    <2>1. drain \in Drains
      BY Facts
    <2> QED  BY <1>0, <2>1 DEF Drains
  <1> HIDE DEF d
  <1>3. letGo \subseteq letGo' /\ letGo' \subseteq Launches /\ strayed' \in BOOLEAN
    <2>1. strayed \in BOOLEAN
      BY Facts DEF TypeOK
    <2> QED  BY <1>1, <2>1, Facts, Cuts
  <1>4. TypeOK'
    BY <1>1, <1>2, <1>3, Facts DEF TypeOK, Drains
  <1>5. l \notin Out => Ended(l)
    BY <1>0, Facts DEF DrainClose, Draining
  <1>6. Draining'
    <2>1. l \notin Out' => Ended(l)'
      BY <1>1, <1>3, <1>5 DEF Out, Ended
    <2>2. l # None
      BY Facts
    <2> QED  BY <1>1, <1>2, <2>1, <2>2 DEF Draining
  <1>7. \A k \in Launches \ Out' : Alive(k) => launch[k] # "spawned"
    <2>1. \A k \in Launches \ Out' : Alive(k) /\ launch[k] = "spawned" => k = l
      BY <1>1, Loses DEF Out
    <2> QED  BY <1>1, <1>3, <1>5, <2>1 DEF Out, Alive, Ended
  <1>8. \A k \in Launches : /\ Alive(k)' <=> Alive(k)
                            /\ proc'[k].state = "none" <=> proc[k].state = "none"
    BY <1>1 DEF Alive
  <1> QED  BY <1>0, <1>1, <1>2, <1>3, <1>4, <1>6, <1>7, <1>8, Facts, RestKeeps

LEMMA DrainFinishKeeps ==
  ASSUME Inv, DrainFinish
  PROVE  Inv'
  <1>0. PICK l \in Launches : drain.of = l
    BY Facts DEF DrainFinish, Draining, Drains
  <1>1. /\ Finish(l) /\ drain' = NoDrain
        /\ UNCHANGED <<launch, cur, runtime, proc, agent, refresh, stop, deleting, events,
                       letGo, blind, strayed>>
    BY <1>0 DEF DrainFinish
  <1>2. drain' \in Drains /\ drain'.of = None /\ drain'.pc = "idle" /\ Draining'
    BY <1>1 DEF NoDrain, Drains, Draining
  <1>3. /\ rec' \in [Launches -> Records]
        /\ \A k \in Launches \ {l} : rec'[k] = rec[k]
        /\ rec'[l].ended /\ rec'[l].pid = rec[l].pid
    BY <1>1, Facts, Finishings
  <1>4. TypeOK'
    BY <1>1, <1>2, <1>3, Facts DEF TypeOK, Records, Drains
  <1>5. l \notin Out' => ~Alive(l) /\ Past(l)
    <2>1. l \notin Out' => Ended(l)
      BY <1>0, <1>1, Facts DEF DrainFinish, Draining, Out
    <2>2. Ended(l) => ~Alive(l) /\ Past(l)
      BY Facts DEF Ended, Alive, Unreached, Past
    <2> QED  BY <2>1, <2>2
  <1>6. \A k \in Launches : Alive(k)' <=> Alive(k)
    BY <1>1 DEF Alive
  <1>7. Unreached(l)'
    BY <1>0, <1>1, <1>3, Facts DEF Unreached, Early
  <1>8. l \notin Out' => Launching(l)' /\ Held(l)'
    BY <1>1, <1>5, <1>6 DEF Launching, Held, Past
  <1>9. Onward(l)
    BY <1>1, <1>3, <1>6 DEF Onward, Past, Ended
  <1> QED  BY <1>1, <1>2, <1>3, <1>4, <1>6, <1>7, <1>8, <1>9, Facts, RecordStepKeeps

LEMMA RestartKeeps ==
  ASSUME Inv, Restart
  PROVE  Inv'
  <1> DEFINE pc(k) == IF launch[k] = "idle" THEN "idle" ELSE "done"
             q == Reaped(Launches)
             p(k) == [q[k] EXCEPT !.child = proc[k].state = "none"]
  <1>1. /\ launch' = [k \in Launches |-> pc(k)] /\ proc' = [k \in Launches |-> p(k)]
        /\ runtime' = None /\ refresh' = NoRefresh /\ stop' = NoStop
        /\ drain' = NoDrain /\ deleting' = FALSE
        /\ letGo' = letGo \cup {k \in Launches : launch[k] = "spawned"}
        /\ strayed' \in BOOLEAN
        /\ UNCHANGED <<rec, cur, agent, blind>>
    <2>1. strayed \in BOOLEAN
      BY Facts DEF TypeOK
    <2> QED  BY <2>1 DEF Restart
  <1>2. /\ q \in [Launches -> Processes]
        /\ \A k \in Launches : /\ q[k].state = "alive" <=> Alive(k)
                               /\ q[k].state = "none" <=> proc[k].state = "none"
    BY Facts, Reapings
  <1> HIDE DEF q
  <1>3. ASSUME NEW k \in Launches  PROVE p(k) \in Processes /\ p(k).state = q[k].state
    <2>1. q[k] \in Processes
      BY <1>2
    <2> QED  BY <2>1 DEF Processes
  <1> HIDE DEF p
  <1>4. /\ proc' \in [Launches -> Processes]
        /\ \A k \in Launches : /\ Alive(k)' <=> Alive(k)
                               /\ proc'[k].state = "none" <=> proc[k].state = "none"
    BY <1>1, <1>2, <1>3 DEF Alive
  <1>5. /\ launch' \in [Launches -> Steps]
        /\ \A k \in Launches : launch'[k] = pc(k)
    BY <1>1 DEF Steps
  <1>6. TypeOK'
    <2>1. events' \in 0 .. MaxEvents
      BY Facts DEF Restart, Event, Counts, TypeOK
    <2>2. NoStop \in [of : Launches \cup {None}, pc : {"idle", "check", "mark", "kill"}]
      BY DEF NoStop
    <2>3. letGo' \subseteq Launches
      BY <1>1, Facts DEF TypeOK
    <2>4. NoDrain \in [of : Launches \cup {None}, pc : {"idle", "poll", "close", "finish"}]
      BY DEF NoDrain
    <2>5. refresh' \in Refreshes
      BY <1>1, NoRefreshing
    <2> QED  BY <1>1, <1>4, <1>5, <2>1, <2>2, <2>3, <2>4, <2>5, Facts
               DEF TypeOK, Processes, Steps, Refreshes
  <1>7. ASSUME NEW k \in Launches  PROVE Unreached(k)'
    <2>1. Unreached(k) /\ launch'[k] \in {"idle", "done"} /\ (launch'[k] = "idle" => launch[k] = "idle")
      BY <1>5, Facts
    <2> QED  BY <1>1, <1>4, <2>1, Facts DEF Unreached, Early, NoStop, NoDrain
  <1>8. ASSUME NEW k \in Launches \ Out'  PROVE Launching(k)' /\ Held(k)'
    <2>1. Held(k) /\ launch[k] # "spawned"
      BY <1>1, <1>8, Facts DEF Out
    <2> QED  BY <1>1, <1>4, <1>5, <2>1 DEF Launching, Held
  <1>9. stop'.pc = "idle" /\ Draining'
    BY <1>1 DEF NoStop, NoDrain, Draining
  <1> QED  BY <1>1, <1>6, <1>7, <1>8, <1>9, NoRefreshing DEF Inv

----------------------------------------------------------------------------
(* The theorem.                                                            *)

LEMMA InitInv == Init => Inv
  <1> SUFFICES ASSUME Init PROVE Inv
    OBVIOUS
  <1>1. Launches \subseteq Nat /\ None \notin Launches
    BY DEF Launches, None
  <1>2. \A l \in Launches :
          /\ launch[l] = "idle" /\ proc[l].state = "none" /\ rec[l].status = "none"
          /\ ~rec[l].pid /\ ~rec[l].started /\ ~rec[l].ended
    BY DEF Init
  <1>3. TypeOK
    <2>1. /\ launch \in [Launches -> Steps] /\ rec \in [Launches -> Records]
          /\ proc \in [Launches -> Processes]
          /\ agent \in [Launches -> {"none", "online", "exit"}]
      BY DEF Init, Steps, Records, Processes
    <2>2. refresh \in Refreshes /\ drain \in Drains
      BY DEF Init, NoRefresh, NoDrain, Refreshes, Drains
    <2>3. stop \in [of : Launches \cup {None}, pc : {"idle", "check", "mark", "kill"}]
      BY DEF Init, NoStop
    <2>4. /\ cur = None /\ runtime = None /\ deleting \in BOOLEAN
          /\ letGo = {} /\ blind = {} /\ strayed \in BOOLEAN
      BY DEF Init
    <2>5. events \in 0 .. MaxEvents
      BY DEF Init
    <2> QED  BY <2>1, <2>2, <2>3, <2>4, <2>5 DEF TypeOK, Steps, Records, Processes,
               Refreshes, Drains
  <1>4. ASSUME NEW l \in Launches  PROVE Unreached(l) /\ Launching(l) /\ Held(l)
    <2>1. cur = None /\ runtime = None /\ stop.of = None /\ drain.of = None
      BY DEF Init, NoStop, NoDrain
    <2> QED  BY <1>1, <1>2, <2>1
               DEF Unreached, Early, Launching, Held, Alive, Fresh, Blank
  <1>5. Refreshing /\ Draining /\ stop.pc = "idle"
    BY DEF Init, Refreshing, LockFree, NoRefresh, NoStop, Draining, NoDrain
  <1> QED  BY <1>3, <1>4, <1>5 DEF Inv

LEMMA NextInv == Inv /\ [Next]_vars => Inv'
  <1> SUFFICES ASSUME Inv, [Next]_vars PROVE Inv'
    OBVIOUS
  <1>1. ASSUME NEW l \in Launches,
               (\E what \in {"online", "exit"} : AgentTells(l, what)) \/ ProcessEnds(l)
                 \/ RemoveAgent(l)
        PROVE  Inv'
    BY <1>1, OtherKeeps
  <1>2. ASSUME NEW l \in Launches, NEW relaunch \in BOOLEAN, Request(l, relaunch)
        PROVE  Inv'
    BY <1>2, RequestKeeps
  <1>3. ASSUME NEW l \in Launches, LaunchStep(l)
        PROVE  Inv'
    <2>1. CASE RelaunchCheck(l)
      BY <2>1, RequestKeeps
    <2>2. CASE RelaunchDrop(l) \/ RelaunchClose(l)
      BY <2>2, RelaunchKeeps
    <2>3. CASE Create(l)
      BY <2>3, CreateKeeps
    <2>4. ASSUME NEW ok \in BOOLEAN, Prepare(l, ok)  PROVE Inv'
      BY <2>4, PrepareKeeps
    <2>5. ASSUME NEW ok \in BOOLEAN, Spawn(l, ok)  PROVE Inv'
      <3>1. CASE ok = TRUE
        BY <2>5, <3>1, SpawnKeeps
      <3>2. CASE ok = FALSE
        BY <2>5, <3>2, SpawnFailsKeeps
      <3> QED  BY <3>1, <3>2
    <2>6. CASE SetPid(l)
      BY <2>6, SetPidKeeps
    <2>7. CASE Started(l)
      BY <2>7, StartedKeeps
    <2> QED  BY <1>3, <2>1, <2>2, <2>3, <2>4, <2>5, <2>6, <2>7 DEF LaunchStep
  <1>4. CASE RefreshStep
    BY <1>4, RefreshStartKeeps, RefreshPidKeeps, RefreshRuntimeKeeps, RefreshTestKeeps,
       RefreshStatusKeeps, RefreshProbeKeeps, ComesUpKeeps, RefreshCloseKeeps,
       RefreshForgetKeeps DEF RefreshStep
  <1>5. CASE StopGet \/ StopCheck \/ StopMark \/ Terminate
    BY <1>5, StopKeeps, StopMarkKeeps, TerminateKeeps
  <1>6. CASE \/ Delete \/ DeleteClose \/ Restart
             \/ DrainGet \/ DrainPoll \/ DrainClose \/ DrainFinish
    BY <1>6, DeleteKeeps, RestartKeeps, DrainGetKeeps, DrainPollKeeps, DrainCloseKeeps,
       DrainFinishKeeps
  <1>7. CASE UNCHANGED vars
    <2>1. UNCHANGED <<launch, rec, cur, runtime, proc, agent, refresh, stop, drain,
                      deleting, events, letGo, blind, strayed>>
      BY <1>7 DEF vars
    <2>2. TypeOK'
      BY <2>1, Facts DEF TypeOK
    <2> QED  BY <2>1, <2>2, Facts, RestKeeps DEF Alive
  <1> QED  BY <1>1, <1>2, <1>3, <1>4, <1>5, <1>6, <1>7 DEF Next

\* Every reachable state satisfies the inductive invariant: the process of a
\* launch is always known by its runtime or by its pid, and what the refresh and
\* the reader of the logs under way have read of it stays true, unless the
\* launch was let go or ended blindly.
THEOREM InvariantHolds == Spec => []Inv
  BY InitInv, NextInv, PTL DEF Spec

\* While the process of a launch lives, its record is the task's and is not
\* finished, so that the task is shown, can be stopped and blocks another
\* launch; unless the record was deleted under the launch, a stop came before
\* the pid was known, a restart cut the launch off, or a refresh or a reader of
\* the logs ended the task without having seen its process.
THEOREM ProcessIsKnown == Spec => []HeldUntilEnd
  <1>1. Inv => HeldUntilEnd
    BY DEF Inv, Held, HeldUntilEnd, IsFinished, Open, Out
  <1> QED  BY <1>1, InvariantHolds, PTL

=============================================================================
