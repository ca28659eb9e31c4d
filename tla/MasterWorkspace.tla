-------------------------- MODULE MasterWorkspace --------------------------
(***************************************************************************)
(* A launch workspace of the master server (api_master.py): its entry in   *)
(* _workspaces and its directory, from the page that reserves it, through  *)
(* uploads and compiles, to the task launched in it and the results that   *)
(* the task's agent sends back; the cleanup of stale workspaces and of     *)
(* directories nobody knows; saves of the tables, and a crash.             *)
(*                                                                         *)
(* Requests, compile jobs and the cleanup run in threads.                  *)
(* _workspace_cleanup_lock is held while a directory is made or removed    *)
(* and while the launch status is written, in the table and in its file.   *)
(* Uploads, compiles, the second part of the cleanup and the replacement   *)
(* of results write to the directory without it.  Locks around one table   *)
(* hold for one step.  A revision stands for the files the user has given  *)
(* (0: none).  Reads that follow each other at once are one step, and so   *)
(* is a save of the tables (MasterAgents takes it apart).  A removal of a  *)
(* directory succeeds.                                                     *)
(***************************************************************************)
EXTENDS Naturals

CONSTANT MaxEvents \* bound: requests, deaths of the task, crashes, and so on

ASSUME EventsAssumption == MaxEvents \in Nat

VARIABLES
  entry,    \* the workspace in _workspaces
  task,     \* a task of the workspace is in _tasks
  saved,    \* both as they were saved last
  dir,      \* its directory, with the marker and the launch status in it
  out,      \* what lies in its picker_workspace, the compiled directory
  pc,       \* by worker, that is, an upload or a compile: its next step
  launch,   \* the next step of the launch
  proc,     \* the process of the task lives
  made,     \* by compile: the revision it was made from
  sync,     \* the replacement of the results under way, and what was there
  cleanup,  \* the next step of the cleanup
  lock,     \* who holds _workspace_cleanup_lock
  events,
  late,     \* history: the workspace was created, or its task recorded, after
            \* the tables were read that a removal goes by; or a crash came
            \* before the launch was marked
  letGo,    \* history: the record of the task was gone before its launch was
            \* marked
  stray,    \* history: the directory was made again after its removal, or
            \* a crash came before its marker was written
  unsure,   \* history: files were changed under a compile, two compiles
            \* overlapped, or one was given up; or a crash
  cut       \* history: a crash or a compile came into a replacement, or a
            \* replacement into a compile

vars == <<entry, task, saved, dir, out, pc, made, launch, proc, sync, cleanup,
          lock, events, late, letGo, stray, unsure, cut>>

Compiles == {"job", "stream"} \* compile/start; compile, compile/stream
Workers == Compiles \cup {"upload"}
Statuses == {"reserved", "active", "released", "launched"}
Revisions == 0 .. MaxEvents + 1

NoEntry == [in |-> FALSE, status |-> "reserved", fresh |-> FALSE, rev |-> 0,
            compile |-> 0]
NoDir == [is |-> FALSE, marker |-> FALSE, status |-> "unknown",
          fresh |-> FALSE]
Nothing == [kind |-> "none", rev |-> 0, by |-> "none"]
NoSync == [pc |-> "idle", old |-> Nothing]

TypeOK ==
  /\ entry \in [in : BOOLEAN, status : Statuses, fresh : BOOLEAN,
                rev : Revisions, compile : Revisions]
  /\ task \in BOOLEAN
  /\ saved \in [in : BOOLEAN, status : Statuses, rev : Revisions,
                compile : Revisions, task : BOOLEAN]
  /\ dir \in [is : BOOLEAN, marker : BOOLEAN, fresh : BOOLEAN,
              status : Statuses \cup {"unknown"}]
  /\ out \in [kind : {"none", "laid", "built", "mixed", "agent"},
              rev : Revisions, by : Compiles \cup {"none"}]
  /\ pc \in [Workers -> {"idle", "mkdir", "mark", "enter", "layout", "pick",
                         "write", "record"}]
  /\ launch \in {"idle", "create", "spawn", "mark", "done"}
  /\ proc \in BOOLEAN
  /\ made \in [Compiles -> Revisions]
  /\ sync.pc \in {"idle", "backup", "swap"}
  /\ sync.old.kind \in {"none", "laid", "built", "mixed", "agent"}
  /\ cleanup \in {"idle", "recheck", "remove", "pop", "known", "look",
                  "sweep"}
  /\ lock \in Workers \cup {"free", "cleanup"}
  /\ events \in 0 .. MaxEvents
  /\ late \in BOOLEAN /\ letGo \in BOOLEAN /\ stray \in BOOLEAN
  /\ unsure \in BOOLEAN /\ cut \in BOOLEAN

\* there is no workspace yet, or one with a file
Init ==
  /\ \/ entry = NoEntry /\ dir = NoDir
     \/ /\ entry = [NoEntry EXCEPT !.in = TRUE, !.status = "active",
                                   !.fresh = TRUE, !.rev = 1]
        /\ dir = [is |-> TRUE, marker |-> TRUE, status |-> "active",
                  fresh |-> TRUE]
  /\ task = FALSE /\ proc = FALSE
  /\ saved = [in |-> FALSE, status |-> "reserved", rev |-> 0, compile |-> 0,
              task |-> FALSE]
  /\ out = Nothing
  /\ pc = [w \in Workers |-> "idle"]
  /\ launch = "idle" /\ sync = NoSync /\ cleanup = "idle" /\ lock = "free"
  /\ made = [w \in Compiles |-> 0]
  /\ events = 0
  /\ late = FALSE /\ letGo = FALSE /\ stray = FALSE /\ unsure = FALSE /\ cut = FALSE

Event == events < MaxEvents /\ events' = events + 1
Goes(w, step) == pc' = [pc EXCEPT ![w] = step]

\* _normalize_workspace_locked: a launch noted in the directory counts
Status ==
  IF dir.is /\ dir.marker /\ dir.status = "launched" THEN "launched"
  ELSE entry.status

\* the launch status, in the table and, with a marker, in the directory
Marks(status) ==
  /\ entry' = [entry EXCEPT !.status = status, !.fresh = TRUE]
  /\ dir' = IF dir.is /\ dir.marker
            THEN [dir EXCEPT !.status = status, !.fresh = TRUE] ELSE dir

\* a directory is written to, made again if need be
Remade == IF dir.is THEN dir ELSE [NoDir EXCEPT !.is = TRUE]

----------------------------------------------------------------------------
(* The page of the workspace. *)

\* _create_workspace
Create ==
  /\ entry = NoEntry /\ events = 0 /\ Event
  /\ entry' = [entry EXCEPT !.in = TRUE, !.fresh = TRUE]
  /\ UNCHANGED <<task, saved, dir, out, pc, made, launch, proc, sync, cleanup,
                 lock, late, letGo, stray, unsure, cut>>

\* _touch_workspace_launch_session: a launched workspace stays launched
Touch(word) ==
  /\ entry.in /\ lock = "free" /\ Event
  /\ Marks(IF Status = "launched" THEN "launched"
           ELSE IF word = "release" THEN "released" ELSE word)
  /\ UNCHANGED <<task, saved, out, pc, made, launch, proc, sync, cleanup,
                 lock, late, letGo, stray, unsure, cut>>

\* ten minutes pass without a sign of the page
Expire ==
  /\ entry.fresh \/ dir.fresh
  /\ entry' = [entry EXCEPT !.fresh = FALSE]
  /\ dir' = [dir EXCEPT !.fresh = FALSE]
  /\ UNCHANGED <<task, saved, out, pc, made, launch, proc, sync, cleanup,
                 lock, events, late, letGo, stray, unsure, cut>>

\* a file is deleted, or its category changed
EditList ==
  /\ entry.in /\ entry.rev # 0 /\ Event
  /\ entry' = [entry EXCEPT !.rev = @ + 1, !.compile = 0]
  /\ unsure' = (unsure \/ \E w \in Compiles : pc[w] \in {"pick", "record"})
  /\ UNCHANGED <<task, saved, dir, out, pc, made, launch, proc, sync, cleanup,
                 lock, late, letGo, stray, cut>>

----------------------------------------------------------------------------
(* Uploads and compiles; first of all they have the directory made. *)

Starts(w) ==
  /\ entry.in /\ pc[w] = "idle" /\ Event
  /\ Goes(w, "mkdir")
  /\ UNCHANGED <<entry, task, saved, dir, out, made, launch, proc, sync,
                 cleanup, lock, late, letGo, stray, unsure, cut>>

\* _ensure_workspace_materialized
Mkdir(w) ==
  /\ pc[w] = "mkdir" /\ lock = "free"
  /\ IF entry.in /\ (dir.is => dir.marker)
     THEN dir' = Remade /\ lock' = w /\ Goes(w, "mark")
     ELSE Goes(w, "idle") /\ UNCHANGED <<dir, lock>>
  /\ entry' = IF entry.in THEN [entry EXCEPT !.status = Status] ELSE entry
  /\ UNCHANGED <<task, saved, out, made, launch, proc, sync, cleanup, events,
                 late, letGo, stray, unsure, cut>>

Mark(w) ==
  /\ pc[w] = "mark"
  /\ IF dir.is
     THEN dir' = [dir EXCEPT !.marker = TRUE] /\ Goes(w, "enter")
          /\ UNCHANGED lock
     ELSE Goes(w, "idle") /\ lock' = "free" /\ UNCHANGED dir
  /\ UNCHANGED <<entry, task, saved, out, made, launch, proc, sync, cleanup,
                 events, late, letGo, stray, unsure, cut>>

Enter(w) ==
  /\ pc[w] = "enter"
  /\ Marks(IF entry.status = "launched" THEN "launched" ELSE "active")
  /\ lock' = "free"
  /\ Goes(w, IF w = "upload" THEN "write" ELSE "layout")
  /\ UNCHANGED <<task, saved, out, made, launch, proc, sync, cleanup, events,
                 late, letGo, stray, unsure, cut>>

\* _store_file_bytes
Write ==
  /\ pc["upload"] = "write"
  /\ dir' = Remade /\ stray' = (stray \/ ~dir.is)
  /\ Goes("upload", "record")
  /\ UNCHANGED <<entry, task, saved, out, made, launch, proc, sync, cleanup,
                 lock, events, late, letGo, unsure, cut>>

\* _record_workspace_file
RecordFile ==
  /\ pc["upload"] = "record"
  /\ entry' = IF entry.in
              THEN [entry EXCEPT !.rev = @ + 1, !.compile = 0] ELSE entry
  /\ unsure' = (unsure \/ \E w \in Compiles : pc[w] \in {"pick", "record"})
  /\ Goes("upload", "idle")
  /\ UNCHANGED <<task, saved, dir, out, made, launch, proc, sync, cleanup,
                 lock, events, late, letGo, stray, cut>>

\* _prepare_workspace_layout, after it had the directory made.  What was
\* compiled is removed before the files are looked at; without a main file the
\* compile is given up.
Layout(w, main) ==
  /\ pc[w] = "layout"
  /\ dir' = Remade /\ stray' = (stray \/ ~dir.is)
  /\ out' = [kind |-> "laid", rev |-> entry.rev, by |-> w]
  /\ made' = [made EXCEPT ![w] = entry.rev]
  /\ Goes(w, IF main /\ entry.rev # 0 THEN "pick" ELSE "idle")
  /\ unsure' = (unsure \/ ~main \/
                \E v \in Compiles \ {w} : pc[v] \in {"pick", "record"})
  /\ cut' = (cut \/ sync # NoSync)
  /\ UNCHANGED <<entry, task, saved, launch, proc, sync, cleanup, lock,
                 events, late, letGo>>

\* The picker runs.  When it fails, that is recorded; in a directory that is
\* gone it does not start.
Pick(w, ok) ==
  /\ pc[w] = "pick" /\ (ok => dir.is)
  /\ out' = IF ~ok THEN out ELSE
      [out EXCEPT !.kind = IF @ = "laid" /\ out.by = w THEN "built" ELSE "mixed"]
  /\ Goes(w, IF ok THEN "record" ELSE "idle")
  /\ entry' = IF ok \/ ~dir.is THEN entry ELSE [entry EXCEPT !.compile = 0]
  /\ UNCHANGED <<task, saved, dir, made, launch, proc, sync, cleanup, lock,
                 events, late, letGo, stray, unsure, cut>>

\* the end of _run_compile_job, and of the other ways to compile
RecordCompile(w) ==
  /\ pc[w] = "record"
  /\ entry' = IF entry.in THEN [entry EXCEPT !.compile = made[w]] ELSE entry
  /\ Goes(w, "idle")
  /\ UNCHANGED <<task, saved, dir, out, made, launch, proc, sync, cleanup,
                 lock, events, late, letGo, stray, unsure, cut>>

----------------------------------------------------------------------------
(* The launch of a task in the workspace, once. *)

\* _run_task_launch finds a successful compile
LaunchStart ==
  /\ launch = "idle" /\ entry.in /\ entry.compile # 0
  /\ launch' = "create"
  /\ UNCHANGED <<entry, task, saved, dir, out, pc, made, proc, sync, cleanup,
                 lock, events, late, letGo, stray, unsure, cut>>

\* _create_task_record
LaunchCreate ==
  /\ launch = "create" /\ launch' = "spawn"
  /\ task' = TRUE
  /\ late' = (late \/ cleanup \in {"remove", "look", "sweep"})
  /\ UNCHANGED <<entry, saved, dir, out, pc, made, proc, sync, cleanup, lock,
                 events, letGo, stray, unsure, cut>>

\* the process starts in the directory, or not at all
Spawn(ok) ==
  /\ launch = "spawn" /\ (ok => dir.is)
  /\ proc' = ok
  /\ launch' = IF ok THEN "mark" ELSE "done"
  /\ UNCHANGED <<entry, task, saved, dir, out, pc, made, sync, cleanup, lock,
                 events, late, letGo, stray, unsure, cut>>

\* _mark_workspace_launched
MarkLaunched ==
  /\ launch = "mark" /\ launch' = "done" /\ lock = "free"
  /\ IF entry.in THEN Marks("launched") ELSE UNCHANGED <<entry, dir>>
  /\ UNCHANGED <<task, saved, out, pc, made, proc, sync, cleanup, lock,
                 events, late, letGo, stray, unsure, cut>>

ProcessEnds ==
  /\ proc /\ proc' = FALSE
  /\ UNCHANGED <<entry, task, saved, dir, out, pc, made, launch, sync,
                 cleanup, lock, events, late, letGo, stray, unsure, cut>>

\* The record of the task leaves _tasks: a finished one, or one that is deleted
\* while it is pending or being stopped, which may be at any point of the launch
\* and of the life of its process.
TaskGoes ==
  /\ task /\ task' = FALSE
  /\ letGo' = (letGo \/ launch \in {"spawn", "mark"})
  /\ UNCHANGED <<entry, saved, dir, out, pc, made, launch, proc, sync, cleanup,
                 lock, events, late, stray, unsure, cut>>

----------------------------------------------------------------------------
(* The agent sends its workspace back: _sync_workspace_archive_back. *)

\* the archive is unpacked beside the directory it is to replace
SyncStage ==
  /\ sync = NoSync /\ proc /\ task /\ entry.in /\ Event
  /\ dir' = Remade /\ stray' = (stray \/ ~dir.is)
  /\ sync' = [sync EXCEPT !.pc = "backup"]
  /\ UNCHANGED <<entry, task, saved, out, pc, made, launch, proc, cleanup,
                 lock, late, letGo, unsure, cut>>

SyncBackup(ok) ==
  /\ sync.pc = "backup"
  /\ IF ok THEN sync' = [pc |-> "swap", old |-> out] /\ out' = Nothing
           ELSE sync' = NoSync /\ UNCHANGED out
  /\ cut' = (cut \/ \E w \in Compiles : pc[w] \in {"pick", "record"})
  /\ UNCHANGED <<entry, task, saved, dir, pc, made, launch, proc, cleanup,
                 lock, events, late, letGo, stray, unsure>>

\* mutant: nothing is restored
SyncSwapOrLose(ok) ==
  /\ sync.pc = "swap" /\ (ok => dir.is /\ out.kind = "none")
  /\ out' = IF ok THEN [Nothing EXCEPT !.kind = "agent"] ELSE out
  /\ sync' = NoSync
  /\ UNCHANGED <<entry, task, saved, dir, pc, made, launch, proc, cleanup,
                 lock, events, late, letGo, stray, unsure, cut>>

\* The new directory gets the name.  When that fails, the old one gets it
\* back, unless the name was taken by a compile.
SyncSwap(ok) ==
  /\ sync.pc = "swap" /\ (ok => dir.is /\ out.kind = "none")
  /\ out' = IF ok THEN [Nothing EXCEPT !.kind = "agent"]
            ELSE IF out.kind = "none" /\ dir.is THEN sync.old ELSE out
  /\ sync' = NoSync
  /\ UNCHANGED <<entry, task, saved, dir, pc, made, launch, proc, cleanup,
                 lock, events, late, letGo, stray, unsure, cut>>

----------------------------------------------------------------------------
(* _cleanup_stale_workspaces: first the workspaces of the table, ... *)

Stale ==
  /\ entry.in /\ Status # "launched" /\ ~task /\ pc["job"] = "idle"
  /\ Status = "released" \/ ~entry.fresh

Scan ==
  /\ cleanup = "idle"
  /\ cleanup' = IF Stale THEN "recheck" ELSE "known"
  /\ UNCHANGED <<entry, task, saved, dir, out, pc, made, launch, proc, sync,
                 lock, events, late, letGo, stray, unsure, cut>>

\* mutant: what the scan found is removed
RecheckNot ==
  /\ cleanup = "recheck" /\ lock = "free"
  /\ lock' = "cleanup" /\ cleanup' = "remove"
  /\ UNCHANGED <<entry, task, saved, dir, out, pc, made, launch, proc, sync,
                 events, late, letGo, stray, unsure, cut>>

Recheck ==
  /\ cleanup = "recheck" /\ lock = "free"
  /\ IF Stale THEN lock' = "cleanup" /\ cleanup' = "remove"
              ELSE cleanup' = "known" /\ UNCHANGED lock
  /\ UNCHANGED <<entry, task, saved, dir, out, pc, made, launch, proc, sync,
                 events, late, letGo, stray, unsure, cut>>

\* a directory without its marker is left alone, and its entry with it
Remove ==
  /\ cleanup = "remove"
  /\ IF dir.is /\ ~dir.marker
     THEN cleanup' = "known" /\ lock' = "free" /\ UNCHANGED <<dir, out>>
     ELSE cleanup' = "pop" /\ dir' = NoDir /\ out' = Nothing /\ UNCHANGED lock
  /\ UNCHANGED <<entry, task, saved, pc, made, launch, proc, sync, events,
                 late, letGo, stray, unsure, cut>>

Pop ==
  /\ cleanup = "pop" /\ cleanup' = "known" /\ lock' = "free"
  /\ entry' = [entry EXCEPT !.in = FALSE]
  /\ UNCHANGED <<task, saved, dir, out, pc, made, launch, proc, sync, events,
                 late, letGo, stray, unsure, cut>>

(* ... then the directories that no table knows. *)

Known ==
  /\ cleanup = "known"
  /\ cleanup' = IF entry.in \/ task THEN "idle" ELSE "look"
  /\ UNCHANGED <<entry, task, saved, dir, out, pc, made, launch, proc, sync,
                 lock, events, late, letGo, stray, unsure, cut>>

\* mutant: without a status it is left alone
LookKnown ==
  /\ cleanup = "look"
  /\ cleanup' = IF /\ dir.is /\ dir.marker
                   /\ dir.status \notin {"launched", "unknown"}
                   /\ dir.status = "released" \/ ~dir.fresh
                THEN "sweep" ELSE "idle"
  /\ UNCHANGED <<entry, task, saved, dir, out, pc, made, launch, proc, sync,
                 lock, events, late, letGo, stray, unsure, cut>>

\* by the marker and the status in it; without a status it is old
Look ==
  /\ cleanup = "look"
  /\ cleanup' = IF /\ dir.is /\ dir.marker /\ dir.status # "launched"
                   /\ dir.status = "released" \/ ~dir.fresh
                THEN "sweep" ELSE "idle"
  /\ UNCHANGED <<entry, task, saved, dir, out, pc, made, launch, proc, sync,
                 lock, events, late, letGo, stray, unsure, cut>>

Sweep ==
  /\ cleanup = "sweep" /\ cleanup' = "idle"
  /\ dir' = NoDir /\ out' = Nothing /\ late' = (late \/ entry.in)
  /\ UNCHANGED <<entry, task, saved, pc, made, launch, proc, sync, lock,
                 events, letGo, stray, unsure, cut>>

----------------------------------------------------------------------------
(* Saves, and a crash of the server; processes of tasks go on. *)

Save ==
  LET now == [in |-> entry.in, status |-> entry.status, rev |-> entry.rev,
              compile |-> entry.compile, task |-> task]
  IN  /\ saved # now /\ saved' = now
      /\ UNCHANGED <<entry, task, dir, out, pc, made, launch, proc, sync,
                     cleanup, lock, events, late, letGo, stray, unsure, cut>>

Crash ==
  /\ Event
  /\ entry' = [in |-> saved.in, status |-> saved.status, fresh |-> FALSE,
               rev |-> saved.rev, compile |-> saved.compile]
  /\ task' = saved.task
  /\ pc' = [w \in Workers |-> "idle"]
  /\ launch' = IF launch = "idle" THEN "idle" ELSE "done"
  /\ sync' = NoSync /\ cleanup' = "idle" /\ lock' = "free"
  /\ late' = (late \/ launch = "mark")
  /\ stray' = (stray \/ \E w \in Workers : pc[w] = "mark")
  /\ unsure' = TRUE /\ cut' = (cut \/ sync # NoSync)
  /\ UNCHANGED <<saved, dir, out, made, proc, letGo>>

----------------------------------------------------------------------------

WorkerStep(w) == Mkdir(w) \/ Mark(w) \/ Enter(w)
UploadStep == WorkerStep("upload") \/ Write \/ RecordFile
CompileStep(w) ==
  \/ WorkerStep(w) \/ RecordCompile(w)
  \/ \E yes \in BOOLEAN : Layout(w, yes) \/ Pick(w, yes)
LaunchStep == LaunchCreate \/ MarkLaunched \/ \E ok \in BOOLEAN : Spawn(ok)
SyncStep == \E ok \in BOOLEAN : SyncBackup(ok) \/ SyncSwap(ok)
CleanupStep ==
  \/ Scan \/ Recheck \/ Remove \/ Pop
  \/ Known \/ Look \/ Sweep

Next ==
  \/ Create \/ Touch("active") \/ Touch("release") \/ Expire \/ EditList
  \/ \E w \in Workers : Starts(w)
  \/ UploadStep \/ \E w \in Compiles : CompileStep(w)
  \/ LaunchStart \/ LaunchStep \/ ProcessEnds \/ TaskGoes
  \/ SyncStage \/ SyncStep
  \/ CleanupStep \/ Save \/ Crash

\* requests and jobs go on, the monitor cleans up again and again, time passes
Fairness ==
  /\ WF_vars(UploadStep) /\ \A w \in Compiles : WF_vars(CompileStep(w))
  /\ WF_vars(LaunchStep) /\ WF_vars(SyncStep)
  /\ WF_vars(CleanupStep) /\ WF_vars(Expire)

Spec == Init /\ [][Next]_vars
LiveSpec == Spec /\ Fairness

----------------------------------------------------------------------------
(* Properties. *)

\* Every variable has its type, and the directory of a task whose process
\* lives is not removed, whatever was touched, released, cleaned up or
\* restarted, and also when its record is deleted once the launch was marked.
\* Not so when the task was recorded under a removal, its record was gone or a
\* crash came before the launch was marked.
KeepsWorkspace == TypeOK /\ (proc /\ ~late /\ ~letGo => dir.is)

\* The compile that a launch goes by is of the files the user sees, and what it
\* made is in the workspace, or what the agent made of it, also when a
\* replacement has failed.  Not so while a compile or a replacement is under
\* way, when files were changed under a compile, two compiles overlapped or one
\* was given up, or after a crash.
CompiledIsThere ==
  entry.in /\ entry.compile # 0 /\ sync = NoSync
  /\ (\A w \in Compiles : pc[w] \notin {"pick", "record"})
  /\ ~unsure /\ ~cut /\ ~late /\ cleanup # "pop" =>
    /\ entry.compile = entry.rev
    /\ \/ out.kind = "built" /\ out.rev = entry.rev
       \/ out.kind = "agent" /\ launch # "idle"

\* A directory that no task uses goes, with its entry or without, unless it
\* was launched or lost its marker.
AbandonedGoes ==
  dir.is ~> ~dir.is \/ Status = "launched" \/ task \/ stray
=============================================================================
