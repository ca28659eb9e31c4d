# Formal model of UCAgent

UCAgent drives an LLM through the verification of a chip: a configured list of
*stages*, each with *checkers*, is worked through by an LLM that calls *tools*,
supervised by an optional reviewer LLM and by a human at a console.  This
directory holds TLA+ modules translated from `src/ucagent`, TLC configurations
that check them on small instances, and TLAPS proofs for all values of the
constants.  `PROJECT.json` maps every definition to the lines it models, lists
the runs, the hazards and the properties that answer them.

To use it: `tlc -config sm_order.cfg MCStageManager` checks a run, and
`tlapm StageManagerProofs.tla`, or any other module named `*Proofs`, checks
proofs.

Contents: [the system](#1-the-system), [the modules](#2-the-modules),
[the runs](#3-the-runs), [where code and documents differ](#4-where-the-code-and-what-is-said-of-it-differ),
[the proofs](#5-what-is-proved), [what is not modelled](#6-what-is-not-modelled),
[the plan](#7-plan).

## 1. The system

### Components, their state and operations

| Component (`src/ucagent/`) | State | Operations | Correct when |
|---|---|---|---|
| Stage manager (`stage/vmanager.py`, `stage/vstage.py`) | `stage_index`; per stage: reached, completed, skip, journal, human check, review flag, approval; `.ucagent/ucagent_info.json` | tools Check, Complete, GoToStage, Exit, SetCurrentStageJournal, ApproveStagePass; commands skip, unskip, hmcheck, lmcheck, quit; start and restart | stages are done in order, gates hold, a restart loses and invents nothing, the mission ends only when all is done |
| Running checks (`VerifyStage._do_check`, `Checker.check`, `kill`) | `check_pass`, counters, `is_in_check`, `_process`, `_timeout`, `time_start` | Check, Complete, KillCheck in worker threads without a common lock | a pass is earned, a kill or an exception leaves the checker usable |
| Batch tasks (`checkers/base.py`, `checkers/unity_test.py`) | source, done, current batch and seen-done lists; checkpoint file; stage data | `do_check` per batch, synchronisation with documents, `on_init`, reload | a pass means all is done, live batches are not lost, nothing unreported counts, finished work can pass |
| MCP tools (`tools/uctool.py`) | locks per path and per tool, `is_in_streaming`, `is_in_call`, heartbeat threads | `ainvoke` with time limits, streaming, cancellation | conflicting bodies do not overlap, locks return, calls are answered |
| Conversation (`abackend/langchain/**`, `verify_agent.py`) | messages of the graph, pending answers to bad calls, reset and summary requests | rounds, trim, summarise, reset, recovery after errors, interruption | providers accept the messages: every call answered, a human message first, bounded length |
| Agent loop and exit (`verify_agent.py`, `verify_pdb.py`) | break flags and threads, running command, exit flags, retry counters | `run_loop`, `do_loop`, SIGINT, cancellation, exit on completion, injected commands | a break reaches only its target, the quit waits for the round, commands end |
| Command-line backend (`abackend/cmdline.py`) | one subprocess, counter of failed continuations | `do_work`, continue, restart | (sequential) |
| Agents of the master server, and its clients (`server/api_master.py`) | table of agents, removed agents, dirty saved files, heartbeat threads | register, heartbeat, exit, delete, save, restart | an exit sticks, saves lose nothing, a removed agent learns it |
| Tasks of the master server | record, runtime and process of each launch | launch, relaunch, refresh, stop, delete, restart | a living process has its record, its end is noted, a stop ends it |
| Workspaces of the master server | entry, directory, compiled outputs, markers | reserve, upload, compile, launch, sync back, release, cleanup | work in use is not removed, what is abandoned goes, outputs match files |
| Command and terminal servers (`server/api_cmd.py`, `api_terminal.py`, `api_mcp.py`) | request queue, output ring | HTTP and websocket front ends | no output or command is lost |
| Console (`verify_pdb.py`, `tui/`) | registry of running commands | command table, text interface | a cancel interrupts the command it names |
| Reviewer LLM (`stage/llm_suggestion/`) | prompts | approve, refuse, suggest, raise | (an environment of the stage manager; when it is asked after failures, of running checks) |
| Interaction modes (`interaction/`) | plan text | rounds wrapped in prompts | (text) |
| Content checkers (`checkers/*`) | none across calls | parse reports, documents and logs | (an environment of running checks) |
| File, test and memory tools, waveforms (`tools/*`) | the workspace | one file-system operation per call | (sequential) |
| Command line, utilities, templates (`cli.py`, `util/`, `lang/`) | configuration | start-up, helpers | (sequential, data) |

### How they interact

* The LLM client calls **tools** through langgraph or MCP.  `UCTool.ainvoke`
  serialises calls of *one* tool, or of tools that name the same paths.  Check,
  Complete, GoToStage and KillCheck are different tools without path arguments:
  nothing keeps *them* apart but the client.
* A tool body runs in a worker thread and calls `StageManager`, whose
  `complete()` reads `stage_index` three times around calls that last minutes:
  the checkers, the reviewer LLM, the post commands.
* The manager calls `VerifyStage.do_check`, which calls each `Checker.check`;
  batch checkers keep a checkpoint file beside the manager's own saved file.
* Completion calls back into the agent: it requests a soft reset of the
  conversation and, with a master client, a sync-back, which saves.
* The user's console and its web API act on the same objects from other
  threads at any moment.
* The console's `loop` runs the rounds of the conversation, in its own thread or
  in one of the text interface; the Exit tool, called in a round, leads to the
  quit commands behind it.
* A client thread of the agent sends heartbeats to the master, which starts
  agents as tasks, each in a workspace it has compiled, and gets the results
  back in it.

### What is hard

Overlapping calls on unprotected fields; state read before a wait or under a
lock and used after it; three copies of progress (memory, saved file, checkpoints) and a
crash between their updates; verdicts of three parties that arrive in any
order; cancellation of a request whose thread goes on; messages cut between a
call and its answer.  `PROJECT.json` ("hazards") lists each at its line, with
the properties that answer it, or a note where none does yet.

## 2. The modules

| Module | Models | Composes |
|---|---|---|
| `Mission` | what a list of stages promises, with no index, tool or file | |
| `StageManager` | the stage manager, the parties that act on it, crash and restart | `INSTANCE Mission` as a refinement |
| `StageManagerProofs` | theorems about it | extends `StageManager` |
| `CheckRun` | overlapping runs of one stage's checkers, and kills | |
| `BatchTask` | the operations of `UnityChipBatchTask` as operators on a record | |
| `BatchChecker` | eight checkers that work batch by batch, the edits of the LLM, crash and restart | extends `BatchTask` |
| `CheckerProofs` | theorems about both parts of checking | extends `CheckRun` and `BatchChecker` |
| `ToolCall` | `UCTool.ainvoke`, its locks, threads and cancellation | |
| `ToolCallProofs` | theorems about it | extends `ToolCall` |
| `Conversation` | rounds, backend, middleware, and their recovery | |
| `ConversationProofs` | theorems about it | extends `Conversation` |
| `AgentLoop` | the commands that make the agent work, breaks, retries, exit on completion | |
| `AgentLoopProofs` | theorems about it | extends `AgentLoop` |
| `MasterAgents` | agents of the master server, their clients, the saved files | |
| `MasterAgentsProofs` | theorems about it | extends `MasterAgents` |
| `MasterTasks` | the processes the master launches for one workspace | |
| `MasterTasksProofs` | theorems about it | extends `MasterTasks` |
| `MasterWorkspace` | one workspace: files, compiles, results, cleanup, crash | |
| `MasterWorkspaceProofs` | theorems about it | extends `MasterWorkspace` |
| `MC*` | constants of the instances TLC checks | |

In every module a definition that stands above the one it resembles (for
example `AcquireAny` above `Acquire`) is a faulty variant of it: replacing the
one by the other must break a property, which shows that the property depends
on that guard or assignment ("mutants" in `PROJECT.json`).

### StageManager

`idx` is `stage_index`, a set variable is a boolean field per stage (`done` is
`is_completed`, `refused` is an approval set to False), `saved` is what
`save_stage_info` last wrote.  Tools that only read (status, tips, details)
have no action.

* `Start` is `VerifyAgent.__init__` with `init_stage`: the explicit or saved
  index, the records that still count, skips restored in index order (a parent's
  value overwrites its substages', as in the code), `_go_skip_stage`, the
  `--skip` and `--unskip` lists, and the save.  A start-up that raises leaves
  `proc = "crashed"`.
* `Complete` is split where the code waits: `CompleteBegin` (checkers run),
  `CompleteCheckPasses` / `Fails`, `Approve`, `ReviewReturns`, `ReviewRaises`,
  `CompleteGate`, `CompleteClose` (post commands, callbacks), `CompleteAdvance`
  (`next_stage`).  The record `call` keeps which stage each part has read.
* The user's commands come in two forms, of the console and of the web API
  (`save = TRUE`), which refuses completed and earlier stages and saves.
* `waived` is a history variable: stages passed over while the user had them
  skipped, or by an explicit start index.  A stage is *accounted for* when it
  is completed or waived.

Abstracted: what checkers check (pass or fail is a choice), the reviewer's
reasons, texts, times, the reading of reference files, skill usage.

### CheckRun

(`CheckerProofs` extends this module and `BatchChecker`; hence the names `RunInit`,
`RunNext`, `RunSpec` and `RunTypeOK` here.)  One stage, `N` checkers, several calls.  Each read and each write of a shared
field that another thread can see in between is a step of its own (`Test` reads
`is_in_check`, `Enter` sets it).  `KillLook`, `KillProcess`, `KillClear` are the
reads and writes of `do_kill` and `kill`, which looks for the process twice.
`met` is the history of calls that overlapped another one: it separates what the
code guarantees to a lone call (with kills at any moment, exceptions, and
whatever earlier calls left behind) from what overlapping breaks.
A failed call goes on to `Suggest`, which reads `continue_fail_count` again and asks
another LLM for help from `MinFail` (`min_fail_count`) failures in a row on; the stage
is one for which such an LLM is configured.  `row` is the history that the count is
meant to be; it is `Unknown` from an overlap to the next pass or finished batch.

### BatchTask and BatchChecker

A task is a record of four sets; labels are integers in sorting order.
`DoComplete` returns the task, what is written to the checkpoint, and the
verdict.  `BatchChecker` has the document and the implementation edited at will
(also *back*: a label deleted, an implementation undone), the stage data saved by
whoever saves it, checkpoints reloaded at a restart, `on_init` run or not
(GoToStage makes a stage current without it) and run again in mid-work
(`StartAgain`, a Complete that leads to the stage anew).

`kind` is the checker.  They share `Finish` (`do_complete` and the checkpoint)
and differ in `OnInit` and in their check: `CheckGroups`, `CheckTemplate`,
`CheckStatic` and `CheckMock` read both lists from the workspace, `CheckRefined`
and `CheckRandom` share `Reported`, `CheckLabels` and `CheckFiles` keep the list
they began with.  `impl` is what the check of a file or label would find; the
parsing of documents, reports and sources is abstracted to it.

### ToolCall

`owner` is the owner of each asyncio lock, `body` the calls whose worker thread
runs.  The event loop runs one coroutine at a time, and a `join` of the
heartbeat thread stops it altogether: `LoopTurns` says so.  A cancellation can
strike at the two `await`s (`CancelWaiting`, `CancelRunning`); it is not caught by
`except Exception`, and the worker thread goes on.

### Conversation

A message is its kind with the identifiers of the calls it makes or answers.
`SafeCut` is langchain's `_find_safe_cutoff_point`, which moves a cut back to
keep a call with its answers; `BeforeTrim`, `BeforeReset`, `BeforeSummary` are
the branches of `before_model`.  langgraph, langchain and the model are outside
the repository and are modelled from how the code uses them: the model answers
well-formed messages with a request, or fails, and refuses malformed ones.
`Recover` is `recover_pending_tool_calls`.  The history variables `cut`, `early`
and `replaced` mark conversations that a console command, a silent exception or
a provided summary has already damaged (section 4); `Whole` is none of them.
The retention of skills is modelled for a stage that lists skills, the only case
in which the code keeps them.

### AgentLoop

`thread` is, for each thread that runs commands, the command, its place and its
retries.  With `tui` each command has a thread of its own, without it the main
thread runs them all.  A round is two steps, its begin and its end, whose outcome
is a choice; between them it may call Exit.  `Stops` is what ends a loop:
`_need_break`, the break of the thread, a human who is needed, exit.  Cancelling
is taken apart where the code leaves its lock: choose the newest command,
register the break, interrupt the thread.  The Exit tool is taken apart at its
read of `_is_work_busy` and its write of `_exit_on_completion_pending`.  The
mission is complete here: what Exit refuses before that is in `StageManager`.

### MasterAgents, MasterTasks, MasterWorkspace

The three parts of the server meet in few places, and each has its own locks;
they are separate modules, each with a free choice where it meets the others.

*Agents.*  A connection is a client instance with its thread.  A request is lost,
or is received and answered at any later time, when its sender may have given up.
`save` takes `_save_db` apart, by thread: copy of the table, temporary file,
replacement, and the clearing of `_dirty`.

*Tasks.*  All launches of a workspace use its task id: `cur` is the launch whose
record is in the table, `runtime` the one whose process is kept.  `_tasks_lock`
keeps the table from changing under a refresh, but not the fields of a task: a launch
writes status, runtime, pid and date of start, and a stop and a reader of the
logs write theirs, without the lock.  So the refresh is taken apart at each of its
reads (`RefreshPid`, `RefreshRuntime`; `RefreshTest`, which judges what was read;
`RefreshStatus`, which reads the status again; `RefreshProbe`, after the services
have been asked) and of its writes (`ComesUp`, `RefreshClose`, `RefreshForget`), and
launch, stop, delete and reader of the logs (`Drain*`) at theirs.  `finished`
is stopped or failed.  Launch mode "process" only.

*Workspace.*  `entry`, `dir` and `out` are the record, the directory with its
marker and status, and the compiled outputs; `pc`, `launch`, `sync` and `cleanup`
are the places of the threads.  Replacements of results are served one at a
time (the endpoint runs in the event loop).  A revision stands for the user's files.
The record of the task may go at any moment (`TaskGoes`), in mid-launch and while the
process lives too.

The history variables of the four modules (`late`, `missed`, `crossed`, `raced`,
`letGo`, `blind`, `strayed`, `stray`, `unsure`, `cut`) are set exactly when one of the
races of section 4 happens, so that the properties claim everything else.

## 3. The runs

"Passing" runs explore every reachable state of their instance; together they
take every action of every module.  Deadlock is checked except in four runs whose
instances really stop: `conv_calls` at its bound on the number of messages,
`agent_loop` and `ms_agents` when the program or the agent has ended, `ms_tasks`
when the processes have and the bound on requests is used up.

| Run | Properties | What it shows |
|---|---|---|
| `sm_order` | `NothingOvertaken`, `SavedAccounted`, `ExitAccounted`, `ImplementsMission` | three stages, one of them a parent of another, any index passed to GoToStage, start with skip lists, forced index, crash between any two steps, master attached: no stage is overtaken undone, the file never claims too much, and every step is a step of `Mission` |
| `sm_gates` | `ClosesWhatItChecked`, `ReviewDecides`, `GatesHold`, `MissionEnds` | a stage under human check and one under review, the flags switched on and off at any moment, sync-back and a crash: gates hold, and once the user leaves the flags alone the agent exits |
| `bt_checks` | `OnlyReported`, `PassMeansDone`, `BatchKept`, `StableWorkPasses` | eight checkers, one or two labels per batch, all edits and un-edits, any report, well-formed or not, any list in the stage data, restarts and re-initialisation; then stable work passes |
| `tc_calls` | `ConflictsSerialized`, `LocksReturned`, `BeatHasCall`, `CallsAreAnswered` | two calls with two paths each, one with one of them, two streaming calls of one tool |
| `tc_cancels` | `InProgressApart`, `OnlyCollectedLocksLost` | the same with cancellation of any call: what is left of the guarantees |
| `cr_calls` | `PassIsEarned`, `NoCheckerLockedOut`, `HelpAfterRow` | three calls over two checkers, a kill at any moment; another LLM is asked for help after two failures in a row, not before and not later |
| `conv_calls` | `CallsHaveAnswers`, `SkillsKept`, `ContextBounded`, `ModelIsReached` | rounds, good and bad calls, a skill read, trims, resets, one failure |
| `agent_loop` | `OnlyChosenBreak`, `QuitAfterRound`, `ExitEnds`, `CommandsEnd` | console and text interface, loops and a chat, cancellations and breaks at any moment, failing rounds, Exit called by the agent or by another client |
| `ms_agents` | `ExitSticks`, `FileReadable`, `RemovedApart`, `RemovalSaved`, `RemovedIsTold` | an agent that connects, sends and exits, requests lost and delayed, deletes, concurrent saves, stops and crashes of the server |
| `ms_tasks` | `HeldUntilEnd`, `EndIsNoted`, `StopEnds` | launch and relaunch between the reads and writes of a refresh, or with stops, deletes, readers of the logs and restarts |
| `ms_workspace` | `KeepsWorkspace`, `CompiledIsThere`, `AbandonedGoes` | uploads and compiles that overlap, a launch, results sent back, release, both cleanups, saves and a crash |
| `cr_false_pass` | `EveryPassIsEarned` (violated) | section 4, the finding |

`TypeOK` is the first conjunct of one invariant of each module.

### Bounds, and why they suffice

* **Stages** `N` = 3 with a parent and its substage in `sm_order`: one stage behind, one current,
  one ahead, and a skip that reaches a second stage.  The theorems hold for all
  `N` and all `Parts`.  `sm_gates` uses two stages, one per gate.
* **`MaxStarts`** = 2: a start from the initial file and one from whatever the
  first process saved.  What a second restart reads is again a file that
  `save_stage_info` wrote; the theorems do not depend on the bound.
* **Labels** 2, batches of 1 and 2: a batch in work and one to come, or a batch
  partly done.  The lists left in stage data are all subsets.  `MiniInputs` = 2
  makes both too few and enough files possible.
* **Calls** in `tc_*`: the smallest circle of waiting needs two calls with two
  paths; a third contends for one of them; two streaming calls of one tool meet
  at its heartbeat thread.
* **Calls** in `cr_calls`: three, so that a lone call can follow two that
  overlapped, or the threshold of two (`MinFail`) be missed, reached and exceeded;
  one kill, which can strike any check in any step.  Calls are
  interchangeable, so their permutations are used as symmetry (the run has no
  liveness property).
* **Conversation**: keep limits of 4 and 2 reach trims within two rounds and
  trims of trims after; at most two calls per AI message, one good and one bad
  among them; one failure, two orders (chat, reset, summary), one read of a
  skill; identifiers leave the messages with the trims and are used again.
  `MaxLength` (12, half that for a damaged conversation) is beyond what
  a `Whole` one reaches.
* **AgentLoop**: the main thread and two more, of which one loops and one chats;
  two retries; `MaxEvents` cancellations, breaks and exits unset.
* **MasterAgents**: one agent with one connection, two requests under way (a forced
  heartbeat against an exit, a save by a request against one by the monitor), two
  events: a delete and a crash, a crash and a new key, two answers given up.
  The safety properties were also found to hold with two connections and one
  event (1.3 million states), so for an old connection against a new one.
* **MasterTasks**: two launches, so that one can be taken for the other, or one
  launch and two events (stops, deletes, readers of the logs, restarts):
  `Weight` says for how many events the second launch counts.  Two launches *and*
  an event are too slow for the liveness of every day; of that instance
  `HeldUntilEnd` and the inductive invariant were found to hold (10.6 million states).
  A reader of the logs that ends a launch blindly takes these, so that part of
  `HeldUntilEnd` rests on the theorem and that run.  `EndIsNoted` and `StopEnds`
  have not been checked with two launches and an event.
* **MasterWorkspace**: one workspace, two compiles, one upload, three events.

### Fairness, and why the code justifies it

* `sm_gates`: the loop calls the model until the agent exits, so tools keep being
  called; checkers, reviews and post commands have time limits, so calls return
  (weak fairness); a stage tried for ever passes at some time, and a reviewer and
  a human asked for ever approve at some time (strong fairness of those
  outcomes).  These last are assumptions on the environment, without which no
  mission ends.  `MissionEnds` speaks of behaviours in which the user at some
  time leaves the flags of review and human check alone (`Undisturbed`).
* `bt_checks`: the LLM keeps calling Check, with the labels of the batch shown to
  it, tests that pass and a report in the right format.  Edits, saves and crashes
  are not fair; the property speaks of work that no longer changes.
* `tc_calls`: the event loop, the threads and the heartbeats proceed; asyncio
  locks are first come, first served, hence strong fairness of a waiting
  coroutine.  No time-out and no cancellation has to happen.
* `conv_calls`: some step of the round is taken as long as one is possible:
  `do_loop` retries failed rounds more often (`max_loop_retry`) than the
  bound on failures.  `LiveSpec` spells out weak fairness of `Step`.
* `agent_loop`: threads proceed, rounds return (requests to the model have time
  limits), a registered interrupt strikes.  No command, cancel or success of a
  round has to happen.
* `ms_agents`: heartbeat threads, requests under way, saves and deletes proceed,
  and another agent stays connected, whose heartbeats set the dirty mark again
  and again (`OthersMark`).  Weak fairness is enough, because answers are given
  up a bounded number of times.  Deletes, exits and crashes are not fair.
* `ms_tasks`, `ms_workspace`: requests are served, the monitor and the cleanup
  come round again, and a process ends when it is told to.

## 4. Where the code and what is said of it differ

One run shows a disagreement and is listed as a finding:

* `cr_false_pass`: `check_pass` is a field of the stage.  An overlapping call
  that begins sets it to True before a failed one reads it back: a failed
  Complete passes, though the tool promises to mark the stage "as complete if
  all checks pass" (`vmanager.py`).

The properties of the passing runs are stated around further behaviours met
while modelling, all of which the modules contain:

*Stage manager.*  After GoToStage to an earlier stage, quit and restart, the
completed stages from the saved index on count as not completed, though the FAQ
says the workflow continues (`init_stage`, the branch of `Start` that keeps the
records before the index).  A `--skip` entry that names the stage the agent starts at ends
the start-up with an `AttributeError` (`Start`, `proc = "crashed"`).  A stage
unskipped behind the index is never done, and Exit accepts (`ExitAccounted`
counts it as waived).  A reviewer that raises approves (`ReviewDecides` allows
"raised").  A refusal outlives the review it came from: with the review switched
off the stage stays refused, since `complete()` reads the approval all the same
(`RefusalLeft` in `MissionEnds`).
A saved skip of a parent overwrites those of its substages at a restart.
GoToStage runs no `on_init`, so after a restart a stage gone back to is checked
by checkers never initialised.  With a client that overlaps tools (`Parallel`),
a GoToStage during Complete makes it close a stage it did not check: the
theorems and runs about order assume that the client does not.

*Checks.*  Two overlapping calls can both pass the busy test; a kill clears the
flag of whatever runs by then, after which a check cannot be killed; a busy call
that meets a cleared `time_start` raises a `TypeError`; an overlapping failure
can turn a pass into a fail.

*Batches.*  `sync_source_task` reconciles the batch with the *old* source list:
with the checkers of groups, templates, static analysis and mocks, a label deleted
from the document while it is in the batch stays in it, and the stage fails
until the label is implemented after all; the checker of files never reconciles
(`Stuck` in `StableWorkPasses`).  The check that closes the last batch passes although
labels are implemented that the document does not list; only a check that
finds no open batch compares the two lists.  A template stage made current without
`on_init` has no batch task and raises; a label stage has an empty list and
fails.  Any failing mock fails the check whatever the batch is.  With
`mini_inputs` and no file at all, the file checker passes with a message that says
error.  The dictionary of callbacks (`Checker._cb_list`) is one for all
checkers, so setting the stage of any checker reloads the checkpoint of every batch
task built before; stages are set at the start only, before any work, where the
reload changes nothing.

*Tools.*  A cancelled request gives its locks back while its body goes on in its
thread, keeps the locks it had collected when cancelled while waiting for the
next, and leaves a streaming tool marked as running, so later calls of it are
refused; `is_in_call` of a tool with several calls is reset by the first to
return.

*Conversation.*  A break or Ctrl-C ends a round with calls unanswered, and no
recovery runs; a recovery caused by a later refusal appends the answers after
the human message in between, where a provider does not accept them, and the
conversation is refused until it is reset.  An exception with an empty text makes
the recovery raise `IndexError` itself.  A chat before the first loop puts the
system message in mid-conversation, and a soft reset may then open with an AI
message.  The summary that ArbitContextSummary provides never reaches the model,
all messages but the first being removed with it.  A chat and a forced reset
drop the answers to bad calls of the last round.

*Agent loop.*  When the work ends between the two steps of an Exit, or between the
read of the pending exit and the end of the round's mark, the exit stays
pending until another round ends (`missed`).  The thread of a cancelled command may
have begun another one when the interrupt reaches it (`late`).  A failed round that is
retried clears `_need_human`.  Rounds of two commands overlap with the text
interface, and the first to end clears the mark of both (`overlapped`).

*Master, agents.*  A forced heartbeat under way that arrives after the exit heartbeat
marks the agent as alive (`crossed`).  Two saves at a time write one temporary
file and may leave one that nobody can read, which the next start takes for an empty
table (`overlapped`).  A register that has passed its check puts an agent back that
a delete has removed meanwhile, so that it is both listed and removed (`raced`).
The dirty mark is cleared after the files are written: a change made in between
waits for the next one.

*Master, tasks.*  A refresh judges a task by a pid and a runtime it has read before
the launch set them, and by a status read after: it comes upon a pending record without
a pid, the launch then marks it as starting and starts its process while the
services are asked, and the refresh ends it and closes the runtime of a process that
lives.  A reader of the logs may likewise find the runtime of another launch and
end its own record by it (both `blind`).  Nobody waits for such a process when it
ends, so its pid seems alive and its task may stay in the table.  A stop before the pid of the process is known marks the task
as stopped while its process starts; a delete of a task that is pending or
stopping forgets the process, and its last step may close the runtime of a later
launch (`letGo`, `strayed`).  A launch that raises, or is cut off by a restart,
leaves its record pending or starting for ever, and no relaunch is allowed.

*Master, workspaces.* A crash between the two renames of a replacement leaves the
workspace under its backup name only (`cut`). An upload under way makes the
directory of a released workspace anew, without the marker by which a sweep would
find it (`stray`). A delete of a task that is pending or stopping takes its record
away in mid-launch; until the workspace is marked as launched nothing then keeps a
cleanup or a release from removing it, with the process alive in it (`letGo`). The
sweep of orphans goes by tables it has read before (`late`). A compile wipes the
outputs of the one before, and may then fail (`unsure`).

## 5. What is proved

TLAPS checks about 14,100 obligations in the eight modules named `*Proofs`, for
every value of the constants: any number of stages, calls, checkers, labels,
threads, agents, launches, starts and events.  The only assumptions are the
named `ASSUME`s of the modules (types of the constants, which TLC evaluates in
every run) and, where stated in a theorem, one of

* `Serial == Parallel = FALSE`: the client of the LLM runs one tool at a time,
  as the langchain backend and the usual MCP clients do;
* `NoCancel == Cancels = FALSE`: no request is cancelled.

Both are needed: the model without them violates the properties (section 4).

| Theorem | Property | Assumes |
|---|---|---|
| `StageManagerProofs!TypeCorrect` | `TypeOK` | |
| `StagesInOrder` | `NothingOvertaken` | `Serial` |
| `SavedFileSafe` | `SavedAccounted` | `Serial` |
| `FinishAccounted` | `ExitAccounted` | `Serial` |
| `ClosesCheckedStage` | `ClosesWhatItChecked` | `Serial` |
| `ReviewerDecides` | `ReviewDecides` | `Serial` |
| `GatesAreKept` | `GatesHold` | `Serial` |
| `MissionImplemented` | `ImplementsMission` | `Serial` |
| `CheckerProofs!CheckersComeFree` | `NoCheckerLockedOut` | |
| `PassesAreEarned` | `PassIsEarned` | |
| `HelpIsInTime` | `HelpAfterRow` | |
| `NothingElseReported` | `OnlyReported` | |
| `PassedWorkIsDone` | `PassMeansDone` | |
| `LiveBatchIsKept` | `BatchKept` | |
| `ToolCallProofs!TypeCorrect` | `TypeOK` | |
| `InProgressCallsApart` | `InProgressApart` | |
| `ConflictsAreSerialized` | `ConflictsSerialized` | `NoCancel` |
| `LocksAreReturned` | `LocksReturned` | `NoCancel` |
| `BeatsHaveCalls` | `BeatHasCall` | `NoCancel` |
| `OnlyCancelledCallsLose` | `OnlyCollectedLocksLost` | |
| `ConversationProofs!InvariantHolds` | `IInv` (with `TypeOK`) | |
| `EveryCallAnswered` | `CallsHaveAnswers` | |
| `SkillsStay` | `SkillsKept` | |
| `ContextStaysBounded` | `ContextBounded` | |
| `AgentLoopProofs!ChosenBreakOnly` | `OnlyChosenBreak` | |
| `ExitAfterRound` | `QuitAfterRound` | |
| `MasterAgentsProofs!AcknowledgedExitSticks` | `ExitSticks` | |
| `FileStaysReadable` | `FileReadable` | |
| `RemovedStaysApart` | `RemovedApart` | |
| `MasterTasksProofs!ProcessIsKnown` | `HeldUntilEnd` | |
| `MasterWorkspaceProofs!WorkspaceIsKept` | `KeepsWorkspace` | |
| `CompiledStays` | `CompiledIsThere` | |

These are all the invariants and all the action properties of the passing runs.
Several of them name their exceptions by history variables
(`crossed`, `overlapped`, `raced`, `letGo`, `blind`, `late`, `cut` and so on, section 4): the
theorem then says that nothing but the named race breaks the property.

The proofs have one shape.  A property says too little of the places where an
operation waits, so it is strengthened to an invariant that also says what holds
half-way; TLC checked each such invariant before its proof.  A lemma per action,
or per kind of action, shows what it keeps, and the last theorem combines them.

### The argument for the stage manager

`NothingOvertaken` is not inductive: it says nothing of the file a restart
reads, and nothing of a Complete that has read the index and not yet closed the
stage.  `OrderInv` adds

* `CallHolds`: while a Complete is under way the process is up and the stage it
  has read is the current one (here `Serial` enters: no GoToStage may come in
  between), and once it advances the stage is completed;
* `Recorded`: an ended stage is completed, and what the file records as completed
  has a record there;
* `SavedAccounted`: what the file promises, which `Start` turns into
  `NothingOvertaken` of the new process.

The step proof groups the actions that move neither index nor work (`Quiet`),
and takes GoToStage, the parts of Complete, Start, and the ends of the process
one by one.  GoToStage is safe because it only reaches *reached* stages, and
`NothingOvertaken` speaks of every stage before a reached one.  `GateInv` carries
the review through a Complete: a stage asked about is refused until an assent.

`MissionImplemented` maps every step to one of `Mission` or to a stutter.  The
mapped credit is what is accounted for, and `MapInv` adds to `OrderInv` that
it comes in order (`CreditInOrder`).  The file keeps the stages before its index:
a save keeps a beginning of the credit (`SaveMaps`), a start loses none of it,
and an Exit closes the mission only with everything credited.

### The argument for running checks

`NoCheckerLockedOut` follows from `BusyHasCall`: a checker marked as busy has a
call in it, which clears the mark whatever it returns or raises.  A kill leaves
the mark alone, and names a checker of the stage (`Victim`).  `PassIsEarned` and
`HelpAfterRow` are about a call that met no other: it is the only one running
(`Alone`), so that it finds the shared fields as it left them, and `Earned`
says at each of its places which checkers have passed, and what `check_pass` and
the count of failures are.  `RowCounted` carries the count from call to call: where
the row is known, nothing that runs has met another (`Unmet`: what has not begun
has met nobody), and the count is the row except for a call about to return.  An overlap
makes the row unknown, a lone pass or finished batch known again, since both
zero the count whatever it was.

### The argument for the batch checkers

The lemmas of the first part say what each method of `UnityChipBatchTask` does to
a task.  `FirstOfSome` is the one they rest on: a batch taken from a list
with undone labels is not empty; the first labels of a finite set exist because
taking one away ends.  From there on a check is a chain of tasks, from the one in
memory to the one it leaves.  Each link `Continues` the first: it has seen nothing
done that the first had not, and keeps the live labels of its batch.  `Sound` is
what each kind of checker makes of such a chain: types, the batch, a pass only
when all is done, and `Honest`, that memory, checkpoint and stage data hold
nothing that was not reported.  `Honest` speaks of all three because a restart
brings the one back from the others.

### The argument for the tools

`LockInv`: a lock is held only by a call that needs it, and a call past its
locking holds all it needs.  Two calls in conflict need a common lock
(`ConflictSharesLock`), hence `InProgressApart`, even with cancellation.
`QuietInv`: without cancellation a running body belongs to a call still in
progress, and a heartbeat thread to a streaming call that still holds its tool.
`LostInv`: with cancellation, a call that waits for one lock and loses another
needs two, so both are paths among its arguments; every other end of a call
gives its locks back.

### The argument for the conversation

`CallsHaveAnswers` speaks of one moment, the call of the model.  `IInv` says at every
place of a round what a `Whole` conversation looks like:

* `Shape`: it is empty before the first loop, and after that begins with the
  system message and a human one, with no other system message behind;
* `Ordered`: every answer stands behind the AI message that asked for it, with
  other answers at most in between (`Asked`); no identifier is used by two AI
  messages (`Distinct`) or answered twice (`Once`);
* `Calling`: only the calls of the last message may be open, and only between the
  model and the tools;
* `Waiting`: the answers kept for the next round are those of the bad calls of the
  last AI message, none of which is in the conversation yet;
* `Reading`: what there is of skills is counted by `reads`, and something is left
  of them once one was learned.

Three facts about sequences carry the proof.  *A cut*: `SafeCut` either leaves
the message behind the cut something other than an answer, or moves back to the
one AI message that asked for it (`SafeCutCases`, `RunAskersOne`: one, because of
`Distinct`).  So no answer in front of the cut belongs to a call behind it, nor
the other way round (`CutApart`), the tail is at most `CallsAtOnce` longer
than asked for (`SafeCutTail`, from `FewBehind`: only so many answers follow a call), and
parts of an ordered conversation that are put together again, with messages
without calls between them, are ordered and answered as they were (`Moved*`,
`SafeCutKeeps`).  *A head*: what stands before the tail after a trim or a reset is a
human message (`HumanFollows`, `LastHumanIs`), and what a trim removes of the
skills it retains (`RetainedIs`, `MovedReads`).  *An end*: answers appended at the
end, of tools, of bad calls or of a recovery, keep the order if their calls are those
of the last AI message and still open (`AppendOrdered`, `AnswersOrdered`);
`ClosedRecovers` says that `Recover` adds nothing where nothing is open.

The proof found an error of the model that TLC's bounds had hidden.  A soft reset
keeps a human message and a tail that may hold two messages and the answers of
one more call; with a small `max_keep_msgs` that is more than the bound
`ContextBounded` stated, which held with the constants of `conv_calls`.
The bound has a third part now (`1 + ResetKeep + CallsAtOnce`).

### The argument for the agent loop

`Threaded` says of each thread what its place implies: no mark without a command,
no retry without retries left, no pending Exit without a round under way.
`ChosenBreakOnly` also needs that the registry names threads that run, and each
once (`Registered`): the end of a command takes away its own entry and no other.
`ExitAfterRound` needs that there is one round at a time, which marks the
work as busy (`Rounds`); hence an exit that finds it idle has no round behind it
(`Asks`).

### The argument for the master's agents

`FileReadable` holds with one save at a time (`Solo`).  `RemovedApart` says too
little of the other copies of the table: `Apart` adds the file, the copies on
their way to it, and the requests that have passed their check.  `ExitSticks`
needs most: an exit settles the table before the file, so `Kept` follows its
request from the update of the record (`Settled`) to the file in place (`Stored`);
after it, no heartbeat may be left to undo it.  That is `Clients` (only the
instance in use sends, none of an agent that exits) and `Senders` (each sender
waits for the answer to one request); what remains is the forced heartbeat that
`crossed` names.  `DownIsIdle` carries them over a crash.

### The argument for the master's tasks

`HeldUntilEnd` says that a living process has its record.  It takes more: a launch that
has not come to the table left no trace (`Unreached`), and one that is about to
start its process has the task (`Launching`).  `Held` says how the process is known:
by the pid, or between its start and the write of the pid by the runtime.
`Refreshing` follows what a refresh has read through the writes of others: a pid is
not taken back, a launch that has had a runtime is past the start of its process,
and a process that was *seen*, by its pid or its runtime, and seen dead, stays dead.
A refresh that has seen nothing may end a living process; that is `blind`.
`Draining` says the same of a reader of the logs: it ends its record by the end of a
process, which is that of its record, or `blind`.  What a delete has let go, or
a stop has overtaken, is left out by name too (`Out`).

### The argument for the master's workspaces

`KeepsWorkspace` is about removals that go by what was read earlier.  `Removing`
says that it is still so when the removal is made, unless `late`; `Locked` says
what the lock of the directories guards, `Launched` what task, entry and
process say of the launch while its record has not gone in mid-launch (`letGo`),
and `Protected` that after it the directory is marked
as launched, or has no marker and gets none.  `CompiledIsThere` rests on
`Compiling` (a compile under way is alone and works on the files as they are) and
`Settled` (its results lie there or are about to be replaced by those of the
agent), where the entry counts (`Sure`).  `Counted` bounds the revisions
by the events, which the types need.

### Only model-checked

Liveness (`MissionEnds`, `StableWorkPasses`, `CallsAreAnswered`, `ModelIsReached`,
`ExitEnds`, `CommandsEnd`, `RemovalSaved`, `RemovedIsTold`, `EndIsNoted`, `StopEnds`,
`AbandonedGoes`) rests on fairness, which the prover does not treat, nor
`ENABLED`.  What a recursive definition computes would need induction over data,
also out of its reach; the modules have no recursive operator for that reason.  Every other
property of a passing run is a theorem.  The property of `cr_false_pass` is false.

## 6. What is not modelled

* The command-line backend: one thread, one subprocess, a counter.
* Command and terminal servers, web pages, text interface: routing, input and
  output; the commands they hand over are in `StageManager` and `AgentLoop`.
* Content checkers, file, test, memory and waveform tools, prompts of reviewer and
  interaction modes: sequential, over the file system or text; for the modelled
  parts they are choices of the environment.
* `StageManager`: groups of stages beyond one level, lists of indices in one web
  request, skill and reference bookkeeping.
* `BatchChecker`: the line-map checker, which recomputes its batch at each check and
  compares digests of files; the work of several stages together.
* `ToolCall`: the synchronous `invoke`, the hot-fix of argument types.
* `CheckRun`: what the LLM asked for help answers, its own conversation, and
  the marks kept while it is asked (`force_unactive`, the last suggestion).
* `MasterTasks`: launch modes other than "process"; several workspaces, whose tasks
  share only the locks.
* `Conversation`: token counting, statistics, a system message changed in
  mid-conversation.
* `AgentLoop`: the commands that only show things; Enter, tips and what comes after a round, which
  are one step with it; a second command injected while the first is being handed over.
* `MasterAgents`, `MasterTasks`, `MasterWorkspace`: launches in containers, proxies,
  logs, templates of tasks; one cleanup at a time; in `MasterWorkspace` a
  save is one step (its races are in `MasterAgents`); in `MasterTasks` "stopped"
  and "failed" are one status.

## 7. Plan

Done: stage order and gates, running checks, the batch checkers but one, tool calls,
conversation, agent loop and exit, and the master's agents, tasks and
workspaces; proofs of all their invariants and action properties.

To be modelled next, in this order:

1. `StageManager` with `BatchChecker`s for several stages: `on_init`, GoToStage
   and checkpoints together.
2. The command terminal and the web API as clients of the console: the queue of
   requests and its time limits.
3. Nested groups of stages, lists of indices, and the line-map checker.
