----------------------------- MODULE AgentLoop -----------------------------
(***************************************************************************)
(* The commands that make the agent work (loop and chat of verify_pdb.py), *)
(* run_loop, one_loop and do_work of verify_agent.py, what stops them      *)
(* (breaks, Ctrl-C, the cancellation of a running command, retries that    *)
(* are used up, a human who is needed), and the way from the Exit tool to  *)
(* the quit commands of --exit-on-completion.                              *)
(*                                                                         *)
(* In pdb's own console one thread runs the commands; in the text          *)
(* interface each command has a thread and the main one only waits to      *)
(* leave.  What a round says is in Conversation, what Complete and Exit    *)
(* decide is in StageManager: here the mission is complete.                *)
(***************************************************************************)
EXTENDS Naturals, Sequences

CONSTANTS
  Threads,    \* threads that run commands
  Main,       \* the main thread, which in pdb's console runs them all
  Loopers,    \* those that run loops in the text interface; others run chats
  External,   \* a client of the MCP server that is not a round of the agent
  MaxRetry,   \* max_loop_retry
  MaxEvents   \* bound: commands cancelled or posted, breaks, exits unset

ASSUME ThreadsAssumption ==
  Main \in Threads /\ External \notin Threads /\ Loopers \subseteq Threads
ASSUME BoundsAssumption == MaxRetry \in Nat \ {0} /\ MaxEvents \in Nat

VARIABLES
  tui,       \* the text interface is used (it never changes here)
  thread,    \* by thread: the command it runs
  running,   \* _running_commands: the threads, oldest command first
  needBreak, \* _need_break
  breaks,    \* _break_threads
  kicked,    \* threads with a KeyboardInterrupt on its way
  target,    \* the thread cancel_last_running_command has chosen
  needHuman, isExit, busy, \* _need_human, _is_exit, _is_work_busy
  exit,      \* the call of the Exit tool
  pending, queued, \* _exit_on_completion_pending, _exit_on_completion_queued
  closed,    \* the program has ended
  events,
  overlapped, \* history: two rounds were under way at a time
  missed,     \* history: pending was set, or left, when no round would see it
  late        \* history: a cancel reached a command it was not meant for

breakVars == <<running, needBreak, breaks, kicked, target, late>>
exitVars == <<isExit, exit, pending, queued, closed, missed>>
vars == <<tui, thread, breakVars, needHuman, busy, exitVars, events,
          overlapped>>

Nobody == "nobody"
Idle == [pc |-> "idle", cmd |-> "none", tries |-> 0, moved |-> FALSE,
         out |-> "none", chosen |-> FALSE, asked |-> FALSE]
Thread ==
  [pc : {"idle", "begin", "go", "work", "ending", "delay"},
   cmd : {"none", "loop", "chat"}, tries : 0 .. MaxRetry, moved : BOOLEAN,
   out : {"none", "ok", "bad", "error", "cut"},
   chosen : BOOLEAN,  \* history: the command was chosen for cancellation
   asked : BOOLEAN]   \* history: its round has called Exit
NoCall == [pc |-> "idle", by |-> Nobody]

TypeOK ==
  /\ tui \in BOOLEAN
  /\ thread \in [Threads -> Thread]
  /\ running \in Seq(Threads)
  /\ needBreak \in BOOLEAN /\ needHuman \in BOOLEAN /\ isExit \in BOOLEAN
  /\ breaks \subseteq Threads /\ kicked \subseteq Threads
  /\ target \in Threads \cup {Nobody}
  /\ busy \in BOOLEAN /\ pending \in BOOLEAN /\ queued \in BOOLEAN
  /\ exit \in [pc : {"idle", "ask", "mark", "queue"},
               by : Threads \cup {External, Nobody}]
  /\ closed \in BOOLEAN /\ overlapped \in BOOLEAN /\ missed \in BOOLEAN
  /\ late \in BOOLEAN
  /\ events \in 0 .. MaxEvents

Init ==
  /\ tui \in BOOLEAN
  /\ thread = [t \in Threads |-> Idle]
  /\ running = <<>>
  /\ needBreak = FALSE /\ needHuman = FALSE /\ isExit = FALSE
  /\ breaks = {} /\ kicked = {} /\ target = Nobody
  /\ busy = FALSE /\ pending = FALSE /\ queued = FALSE
  /\ exit = NoCall
  /\ closed = FALSE /\ overlapped = FALSE /\ missed = FALSE /\ late = FALSE
  /\ events = 0

IsBreak(t) == needBreak \/ t \in breaks
InRound(t) == thread[t].pc \in {"work", "ending"}
Goes(t, pc) == thread' = [thread EXCEPT ![t].pc = pc]

----------------------------------------------------------------------------
(* A command, from precmd to postcmd. *)

\* execute_command: the command is registered.  The main thread takes the
\* commands that are queued, and interrupts, first.
Run(t, cmd) ==
  /\ thread[t].pc = "idle" /\ ~closed
  /\ IF tui THEN t # Main /\ cmd = IF t \in Loopers THEN "loop" ELSE "chat"
            ELSE t = Main /\ ~queued /\ t \notin kicked
  /\ thread' = [thread EXCEPT ![t] = [Idle EXCEPT !.pc = "begin", !.cmd = cmd]]
  /\ running' = Append(running, t)
  /\ UNCHANGED <<tui, needBreak, breaks, kicked, target, late, needHuman,
                 busy, exitVars, events, overlapped>>

\* the command of the thread is taken out of _running_commands
Unregister(t) ==
  \E i \in DOMAIN running :
    /\ running[i] = t
    /\ running' = SubSeq(running, 1, i - 1) \o SubSeq(running, i + 1, Len(running))

\* mutant: the id of the thread is kept
FinishKeepsId(t) ==
  /\ thread' = [thread EXCEPT ![t] = Idle]
  /\ Unregister(t)
  /\ UNCHANGED breaks

\* postcmd, after an exception too: the command and the break of its thread
\* are forgotten
Finish(t) ==
  /\ thread' = [thread EXCEPT ![t] = Idle]
  /\ Unregister(t)
  /\ breaks' = breaks \ {t}

----------------------------------------------------------------------------
(* run_loop and one_loop. *)

Stay == UNCHANGED <<tui, kicked, target, late, needBreak, exitVars, events>>

\* is_exit is read before do_work begins
NextRound(t, th) ==
  IF isExit THEN Finish(t)
  ELSE /\ thread' = [thread EXCEPT ![t] = [th EXCEPT !.pc = "go"]]
       /\ UNCHANGED <<running, breaks>>

\* do_loop, which enters run_loop, and do_chat: both take back any break
Begin(t) ==
  /\ thread[t].pc = "begin" /\ t \notin kicked
  /\ needBreak' = FALSE
  /\ IF thread[t].cmd = "chat"
     THEN /\ Goes(t, "go") /\ UNCHANGED <<running, breaks, needHuman>>
     ELSE /\ NextRound(t, [thread[t] EXCEPT !.tries = MaxRetry])
          /\ needHuman' = FALSE
  /\ UNCHANGED <<tui, kicked, target, late, busy, exitVars, events, overlapped>>

\* do_work begins
Go(t) ==
  /\ thread[t].pc = "go" /\ t \notin kicked
  /\ busy' = TRUE
  /\ Goes(t, "work")
  /\ overlapped' = (overlapped \/ \E u \in Threads : InRound(u))
  /\ Stay /\ UNCHANGED <<running, breaks, needHuman>>

\* Complete asks for a human
AskHuman(t) ==
  /\ thread[t].pc = "work" /\ ~needHuman
  /\ needHuman' = TRUE
  /\ Stay /\ UNCHANGED <<thread, running, breaks, busy, overlapped>>

\* The round ends, a break ends it early; or a call of a tool was bad, or an
\* exception was raised.  It waits for the Exit it has called.
WorkEnds(t, out) ==
  /\ thread[t].pc = "work" /\ t \notin kicked /\ exit.by # t
  /\ thread[t].cmd = "chat" => out # "bad"
  /\ thread' = [thread EXCEPT ![t].pc = "ending", ![t].out = out,
                              ![t].asked = FALSE]
  /\ busy' = FALSE
  /\ Stay /\ UNCHANGED <<running, breaks, needHuman, overlapped>>

\* mutant: nothing is queued
NoQueue == UNCHANGED <<kicked, pending, queued>>

\* _queue_exit_on_completion, whose add_cmds wakes the main thread up
Queue ==
  /\ pending' = FALSE /\ queued' = TRUE
  /\ kicked' = IF queued \/ tui THEN kicked ELSE kicked \cup {Main}

\* mutant: run_loop does not look for a break
StopsDeaf(t) == isExit \/ needHuman

\* run_loop after a round
Stops(t) == isExit \/ IsBreak(t) \/ needHuman

\* the rest of the finally of do_work, and what one_loop and run_loop do next
Ending(t) ==
  LET th == [thread[t] EXCEPT !.out = "none", !.moved = @ \/ thread[t].out = "ok"]
      out == thread[t].out
  IN  /\ thread[t].pc = "ending" /\ t \notin kicked
      /\ IF pending THEN Queue ELSE UNCHANGED <<kicked, pending, queued>>
      /\ CASE th.cmd = "chat" \/ out = "cut" -> Finish(t)
           [] th.cmd = "loop" /\ out = "error" ->
                /\ thread' = [thread EXCEPT ![t] = [th EXCEPT !.pc = "delay"]]
                /\ UNCHANGED <<running, breaks>>
           [] th.cmd = "loop" /\ out = "ok" ->
                IF Stops(t) THEN Finish(t) ELSE NextRound(t, th)
           [] th.cmd = "loop" /\ out = "bad" ->
                IF IsBreak(t) THEN Finish(t) ELSE NextRound(t, th)
      /\ UNCHANGED <<tui, needBreak, target, late, needHuman, busy, isExit,
                     exit, closed, missed, events, overlapped>>

\* mutant: time alone gives the retries back
TriesLeftByTime(th, long) == IF long THEN MaxRetry ELSE th.tries - 1

\* the retries left when a round has failed; long: the loop has lived for
\* more than loop_alive_time
TriesLeft(th, long) == IF th.moved /\ long THEN MaxRetry ELSE th.tries - 1

\* do_loop after an exception: a delay, which a break shortens, then again
Delay(t, long) ==
  LET left == TriesLeft(thread[t], long)
  IN  /\ thread[t].pc = "delay" /\ t \notin kicked
      /\ IF left = 0 \/ IsBreak(t)
         THEN Finish(t) /\ UNCHANGED needHuman
         ELSE /\ NextRound(t, [thread[t] EXCEPT !.tries = left, !.moved = FALSE])
              /\ needHuman' = FALSE
      /\ Stay /\ UNCHANGED <<busy, overlapped>>

----------------------------------------------------------------------------
(* Breaks and interrupts. *)

Event == ~closed /\ events < MaxEvents /\ events' = events + 1

\* agent_break, agent_unbreak
SetBreak(value) ==
  /\ needBreak # value /\ Event
  /\ needBreak' = value
  /\ UNCHANGED <<tui, thread, running, breaks, kicked, target, late,
                 needHuman, busy, exitVars, overlapped>>

\* Ctrl-C in pdb's console, in its handler
CtrlC ==
  /\ ~tui /\ Event
  /\ needBreak' = TRUE
  /\ kicked' = IF thread[Main].pc = "idle" THEN kicked ELSE kicked \cup {Main}
  /\ UNCHANGED <<tui, thread, running, breaks, target, late, needHuman, busy,
                 exitVars, overlapped>>

\* a command is posted to the command server: add_cmds wakes the main thread
\* up, in the middle of a command too
PostCommand ==
  /\ ~tui /\ Event
  /\ kicked' = kicked \cup {Main}
  /\ UNCHANGED <<tui, thread, running, needBreak, breaks, target, late,
                 needHuman, busy, exitVars, overlapped>>

\* cancel_last_running_command, under the lock of the running commands
Choose ==
  /\ target = Nobody /\ running # <<>> /\ Event
  /\ target' = running[Len(running)]
  /\ thread' = [thread EXCEPT ![running[Len(running)]].chosen = TRUE]
  /\ UNCHANGED <<tui, running, needBreak, breaks, kicked, late, needHuman,
                 busy, exitVars, overlapped>>

\* mutant: the break of all is all
StrikeAll ==
  /\ target # Nobody
  /\ needBreak' = TRUE
  /\ target' = Nobody
  /\ UNCHANGED <<tui, thread, running, breaks, kicked, late, needHuman, busy,
                 exitVars, events, overlapped>>

\* request_thread_interrupt, after it
Strike ==
  /\ target # Nobody
  /\ needBreak' = TRUE
  /\ breaks' = breaks \cup {target}
  /\ kicked' = kicked \cup {target}
  /\ target' = Nobody
  /\ late' = (late \/ ~thread[target].chosen)
  /\ UNCHANGED <<tui, thread, running, needHuman, busy, exitVars, events,
                 overlapped>>

\* The KeyboardInterrupt arrives.  In do_work its finally still runs; within
\* this finally what is left of it does not.
Interrupted(t) ==
  /\ t \in kicked
  /\ kicked' = kicked \ {t}
  /\ IF thread[t].pc = "work"
     THEN /\ thread' = [thread EXCEPT ![t].pc = "ending", ![t].out = "cut",
                                      ![t].asked = FALSE]
          /\ busy' = FALSE
          /\ UNCHANGED <<running, breaks>>
     ELSE /\ IF thread[t].pc = "idle" THEN UNCHANGED <<thread, running, breaks>>
             ELSE Finish(t)
          /\ UNCHANGED busy
  /\ missed' = (missed \/ (thread[t].pc = "ending" /\ pending))
  /\ UNCHANGED <<tui, needBreak, target, late, needHuman, isExit, exit,
                 pending, queued, closed, events, overlapped>>

----------------------------------------------------------------------------
(* Exit. *)

ExitFrame ==
  UNCHANGED <<tui, running, breaks, target, late, needHuman, busy, closed,
              events, overlapped>>

\* The Exit tool: agent.exit().  Bound: a round calls it once, an external
\* client does not call it again.
ExitTool(by) ==
  /\ exit = NoCall /\ ~closed
  /\ IF by = External THEN ~isExit ELSE thread[by].pc = "work" /\ ~thread[by].asked
  /\ isExit' = TRUE
  /\ exit' = [pc |-> "ask", by |-> by]
  /\ thread' = [t \in Threads |-> [thread[t] EXCEPT !.asked = @ \/ t = by]]
  /\ ExitFrame /\ UNCHANGED <<needBreak, kicked, pending, queued, missed>>

\* mutant: the exit is queued at once
TryExitNow ==
  /\ exit.pc = "ask"
  /\ needBreak' = FALSE
  /\ exit' = [exit EXCEPT !.pc = "queue"]
  /\ ExitFrame /\ UNCHANGED <<thread, kicked, isExit, pending, queued, missed>>

\* try_exit_on_completion
TryExit ==
  /\ exit.pc = "ask"
  /\ needBreak' = FALSE
  /\ exit' = [exit EXCEPT !.pc = IF busy THEN "mark" ELSE "queue"]
  /\ ExitFrame /\ UNCHANGED <<thread, kicked, isExit, pending, queued, missed>>

\* the work was busy
MarkPending ==
  /\ exit.pc = "mark"
  /\ pending' = TRUE
  /\ exit' = NoCall
  /\ missed' = (missed \/ \A t \in Threads : ~InRound(t))
  /\ ExitFrame
  /\ UNCHANGED <<thread, needBreak, kicked, isExit, queued>>

\* it was not
QueueExit ==
  /\ exit.pc = "queue"
  /\ IF queued THEN UNCHANGED <<kicked, pending, queued>> ELSE Queue
  /\ exit' = NoCall
  /\ ExitFrame /\ UNCHANGED <<thread, needBreak, isExit, missed>>

\* exit_unset
ExitUnset ==
  /\ isExit /\ exit = NoCall /\ Event
  /\ isExit' = FALSE
  /\ UNCHANGED <<tui, thread, breakVars, needHuman, busy, exit, pending,
                 queued, closed, missed, overlapped>>

\* The main thread runs the quit commands: the program ends, and the other
\* threads, which are daemons, with it.
Quit ==
  /\ queued /\ ~closed
  /\ tui \/ thread[Main].pc = "idle"
  /\ closed' = TRUE /\ isExit' = TRUE
  /\ thread' = [t \in Threads |-> Idle]
  /\ running' = <<>> /\ kicked' = {} /\ breaks' = {} /\ target' = Nobody
  /\ exit' = NoCall
  /\ UNCHANGED <<tui, needBreak, needHuman, busy, pending, queued, missed,
                 events, overlapped, late>>

----------------------------------------------------------------------------

ThreadStep(t) ==
  \/ Begin(t) \/ Go(t)
  \/ \E out \in {"ok", "bad", "error"} : WorkEnds(t, out)
  \/ Ending(t)
  \/ \E long \in BOOLEAN : Delay(t, long)
  \/ Interrupted(t)
ExitStep == TryExit \/ MarkPending \/ QueueExit

Next ==
  \/ \E t \in Threads : \/ \E cmd \in {"loop", "chat"} : Run(t, cmd)
                        \/ ThreadStep(t) \/ AskHuman(t)
  \/ \E value \in BOOLEAN : SetBreak(value)
  \/ CtrlC \/ PostCommand \/ Choose \/ Strike
  \/ \E by \in Threads \cup {External} : ExitTool(by)
  \/ ExitStep \/ ExitUnset \/ Quit

\* Threads run, the model answers, the main thread takes its commands.
Fairness ==
  /\ \A t \in Threads : WF_vars(ThreadStep(t))
  /\ WF_vars(ExitStep)
  /\ WF_vars(Strike)
  /\ WF_vars(Quit)

Spec == Init /\ [][Next]_vars
LiveSpec == Spec /\ Fairness

----------------------------------------------------------------------------
(* Properties. *)

\* Every variable has its type, and the thread of a command is marked for a
\* break only when this command was chosen, or when the chosen one ended
\* before the cancel reached it.
OnlyChosenBreak ==
  /\ TypeOK
  /\ late \/ \A t \in breaks : thread[t].chosen

\* The quit commands are not queued while the round that called Exit is under
\* way, if rounds have not overlapped.
QuitAfterRound ==
  [][ ~queued /\ queued' /\ ~overlapped =>
        \A t \in Threads : ~thread[t].asked ]_vars

\* With --exit-on-completion the program ends after an Exit, unless the work
\* ended between two steps of it or of its own end.
ExitEnds == exit.pc = "ask" ~> closed \/ missed

Ended(t) == thread[t].pc = "idle" \/ closed

\* A command ends that was chosen for cancellation, that nobody takes back the
\* break from, or whose rounds all fail: the retries are used up.
CommandsEnd ==
  \A t \in Threads :
    /\ target = t ~> Ended(t)
    /\ <>[]needBreak => []<>Ended(t)
    /\ []<>(thread[t].out \in {"ok", "bad"}) \/ []<>Ended(t)

=============================================================================
