---------------------------- MODULE BatchChecker ----------------------------
(***************************************************************************)
(* The checkers that drive a stage batch by batch with a BatchTask, the    *)
(* LLM that edits the workspace between two checks, and the process that   *)
(* may end and start again in between.  They differ in where their two     *)
(* lists come from:                                                        *)
(*   groups, template, static, mock: what is to be done and what is done   *)
(*     are both read from the workspace at every check;                    *)
(*   refine, random: what is done is what the LLM has reported, batch by   *)
(*     batch, and what is to be done is read at every check;               *)
(*   labels: what is done is reported, what is to be done was read once;   *)
(*   files: what is to be done was read once, a batch is done when each of *)
(*     its files passes.                                                   *)
(***************************************************************************)
EXTENDS BatchTask

CONSTANTS
  Given,     \* label lists an earlier stage may have left in the stage data
  MiniInputs,\* mini_inputs of the file checker
  MaxStarts  \* bound: number of times the process is started

ASSUME CheckerAssumption ==
  /\ Given \subseteq SUBSET Items
  /\ MiniInputs \in Nat \ {0}
  /\ MaxStarts \in Nat

Observing == {"groups", "template", "static", "mock", "files"}
Reporting == {"refine", "random", "labels"}

VARIABLES
  kind,     \* which of the checkers (it never changes)
  doc,      \* labels of the document, or files of the pattern
  impl,     \* what the workspace implements, covers, marks done or passes
  up,       \* the stage is not current in a process, or is without ("bare")
            \* or with ("ready") its on_init
  task,     \* the checker's BatchTask
  refined,  \* refine_result, random_result: labels with a note, in memory
  point,    \* the checkpoint file
  data,     \* the stage data: the list of an earlier stage, and the notes
  saved,    \* ... in the saved stage information
  result,   \* "none", "fail" or "pass": the last check of this process
  starts,
  reported  \* history: labels ever reported as done, files ever seen to pass

vars == <<kind, doc, impl, up, task, refined, point, data, saved, result,
          starts, reported>>

StageData == [list : SUBSET Items, notes : SUBSET Items]

TypeOK ==
  /\ kind \in Observing \cup Reporting
  /\ doc \in SUBSET Items
  /\ impl \in SUBSET Items
  /\ up \in {"no", "bare", "ready"}
  /\ task \in Task
  /\ refined \in SUBSET Items
  /\ point \in Task
  /\ data \in StageData
  /\ saved \in StageData
  /\ result \in {"none", "fail", "pass"}
  /\ starts \in 0 .. MaxStarts
  /\ reported \in SUBSET Items

\* the two kinds that read the list of an earlier stage begin with one
Init ==
  /\ kind \in Observing \cup Reporting
  /\ \E list \in IF kind \in {"groups", "labels"} THEN Given ELSE {{}} :
       /\ doc = list
       /\ saved = [list |-> list, notes |-> {}]
  /\ data = saved
  /\ impl = {}
  /\ up = "no"
  /\ \E size \in BatchSizes : task = NewTask(size)
  /\ refined = {}
  /\ point = task
  /\ result = "none"
  /\ starts = 0
  /\ reported = {}

----------------------------------------------------------------------------
(* The workspace. *)

EditDoc(x) ==
  /\ doc' = IF x \in doc THEN doc \ {x} ELSE doc \cup {x}
  /\ UNCHANGED <<kind, impl, up, task, refined, point, data, saved, result,
                 starts, reported>>

EditImpl(x) ==
  /\ kind \in Observing
  /\ impl' = IF x \in impl THEN impl \ {x} ELSE impl \cup {x}
  /\ UNCHANGED <<kind, doc, up, task, refined, point, data, saved, result,
                 starts, reported>>

----------------------------------------------------------------------------
(* The process. *)

\* mutant: one pass over the old source list
SyncSourceFromDocOnce(t) ==
  UpdateCurrentTbd(SyncSourceTask([t EXCEPT !.gen = t.gen \cap doc], doc))

\* _sync_source_from_doc of the refinement and the random-test checker
SyncSourceFromDoc(t) ==
  LET synced == UpdateTbdAndCmp(SyncSourceTask(t, doc))
  IN  UpdateCurrentTbd(SyncGenTask(synced, synced.gen \cap doc))

\* _init_batch_state: what is in work stays in work unless it is done
InitBatchState(t) ==
  IF doc = {} THEN t
  ELSE UpdateCurrentTbd([t EXCEPT !.source = doc, !.gen = impl \cap doc,
                                  !.tbd = (t.tbd \cap doc) \ impl, !.cmp = {}])

\* init_batch_task: the files are listed once
InitBatchTask(t) ==
  IF doc = {} \/ t.source # {} \/ t.cmp # {} THEN t
  ELSE UpdateCurrentTbd([t EXCEPT !.source = doc])

\* the list of labels to refine, as an earlier stage or the document has it
ListToRefine(d) == IF d.list # {} THEN d.list ELSE doc

\* on_init of each checker, on the task in memory and the stage data
OnInit(t, d) ==
  CASE kind \in {"refine", "random"} -> SyncSourceFromDoc(t)
    [] kind = "groups" -> UpdateCurrentTbd([t EXCEPT !.source = d.list])
    [] kind = "template" ->
         UpdateCurrentTbd([NewTask(t.size) EXCEPT !.source = doc])
    [] kind = "mock" -> UpdateCurrentTbd([t EXCEPT !.source = doc])
    [] kind = "static" -> InitBatchState(t)
    [] kind = "files" -> InitBatchTask(t)
    [] kind = "labels" -> UpdateCurrentTbd(
         IF t.source # {} THEN t ELSE [t EXCEPT !.source = ListToRefine(d)])

\* what on_init does when the task in memory is t and the stage data d
RunOnInit(t, d) ==
  /\ task' = OnInit(t, d)
  /\ refined' = IF kind \in Reporting THEN d.notes ELSE {}
  /\ data' = IF kind = "labels" /\ t.source = {}
             THEN [d EXCEPT !.list = ListToRefine(d)]
             ELSE d

\* set_stage loads the checkpoint (the template checker builds its task
\* later, and has none); on_init runs unless the stage becomes current
\* through go_to_stage
Start(init) ==
  /\ up = "no"
  /\ starts < MaxStarts
  /\ up' = IF init THEN "ready" ELSE "bare"
  /\ starts' = starts + 1
  /\ \/ init /\ RunOnInit(point, saved)
     \/ ~init /\ task' = point /\ refined' = {} /\ data' = saved
  /\ UNCHANGED <<kind, doc, impl, point, saved, result, reported>>

\* a Complete of the stage before leads to this stage once more
StartAgain ==
  /\ up # "no"
  /\ up' = "ready"
  /\ RunOnInit(task, data)
  /\ UNCHANGED <<kind, doc, impl, point, saved, result, starts, reported>>

\* save_stage_info, whoever calls it
SaveStageInfo ==
  /\ up # "no"
  /\ saved' = data
  /\ UNCHANGED <<kind, doc, impl, up, task, refined, point, data, result,
                 starts, reported>>

Crash ==
  /\ up # "no"
  /\ starts < MaxStarts
  /\ up' = "no"
  /\ task' = NewTask(task.size)
  /\ refined' = {}
  /\ data' = saved
  /\ result' = "none"
  /\ UNCHANGED <<kind, doc, impl, point, saved, starts, reported>>

----------------------------------------------------------------------------
(* do_check *)

Verdict(pass) == result' = IF pass THEN "pass" ELSE "fail"

\* do_complete, whose pass some checkers still refuse
Finish(t, accepted) ==
  \E d \in {DoComplete(t)} :
    /\ task' = d.task
    /\ point' = IF d.closed /\ kind # "template" THEN d.point ELSE point
    /\ Verdict(d.pass /\ accepted)

\* a check that fails before do_complete, leaving the task t
Refuse(t) ==
  /\ task' = t
  /\ Verdict(FALSE)
  /\ UNCHANGED point

Checks(k) ==
  /\ kind = k
  /\ up # "no"
  /\ UNCHANGED <<kind, doc, impl, up, saved, starts>>

\* mutant: an implementation once seen counts for ever
CheckGroupsStale ==
  /\ Checks("groups")
  /\ doc # {}
  /\ Finish(SyncGenTask(SyncSourceTask(task, doc), impl \cup task.gen), TRUE)
  /\ UNCHANGED <<refined, data, reported>>

\* the coverage-group checker
CheckGroups ==
  /\ Checks("groups")
  /\ doc # {}
  /\ Finish(SyncGenTask(SyncSourceTask(task, doc), impl), TRUE)
  /\ UNCHANGED <<refined, data, reported>>

\* the test-template checker, once the tests cover the document and nothing
\* else; without its on_init it has no task
CheckTemplate ==
  /\ Checks("template")
  /\ up = "ready"
  /\ doc # {}
  /\ impl = doc
  /\ Finish(SyncGenTask(SyncSourceTask(task, doc), impl), TRUE)
  /\ UNCHANGED <<refined, data, reported>>

\* the static-analysis checker: the format of the report is checked after
\* the batch has been completed; without source files an explanation passes
CheckStatic(formatted) ==
  /\ Checks("static")
  /\ IF doc = {}
     THEN Verdict(formatted) /\ UNCHANGED <<task, point>>
     ELSE Finish(SyncGenTask(SyncSourceTask(task, doc), impl \cap doc),
                 formatted)
  /\ UNCHANGED <<refined, data, reported>>

\* mutant: a failing mock outside the batch is let through
CheckMockBatch ==
  /\ Checks("mock")
  /\ \E t \in {UpdateCurrentTbd([task EXCEPT !.source = doc])} :
       IF doc # {} /\ t.tbd \subseteq impl
       THEN Finish(SyncGenTask(t, doc), TRUE)
       ELSE Refuse(t)
  /\ UNCHANGED <<refined, data, reported>>

\* the mock checker: every mock is tested, and any that fails fails the
\* check; one of the batch without a test does so before the list is kept
CheckMock ==
  /\ Checks("mock")
  /\ \E t \in {UpdateCurrentTbd([task EXCEPT !.source = doc])} :
       \/ doc # {} /\ doc \subseteq impl /\ Finish(SyncGenTask(t, doc), TRUE)
       \/ ~(doc \subseteq impl) /\ Refuse(SyncGenTask(t, doc \cap impl))
       \/ (doc = {} \/ ~(t.tbd \cap doc \subseteq impl)) /\ Refuse(t)
  /\ UNCHANGED <<refined, data, reported>>

\* the file checker: no file passes, too few fail and are listed again
CheckFiles ==
  /\ Checks("files")
  /\ \E t \in {InitBatchTask(task)} :
       \/ /\ doc = {}
          /\ Verdict(TRUE)
          /\ UNCHANGED <<task, point, reported>>
       \/ /\ doc # {} /\ Cardinality(t.source) < MiniInputs
          /\ Refuse([t EXCEPT !.source = {}])
          /\ UNCHANGED reported
       \/ /\ doc # {} /\ Cardinality(t.source) >= MiniInputs
          /\ ~(t.tbd \subseteq impl)
          /\ Refuse(t)
          /\ UNCHANGED reported
       \/ /\ doc # {} /\ Cardinality(t.source) >= MiniInputs
          /\ t.tbd \subseteq impl
          /\ Finish(SyncGenTask(t, t.gen \cup t.tbd), TRUE)
          /\ reported' = reported \cup t.tbd
  /\ UNCHANGED <<refined, data>>

Record(valid) ==
  /\ refined' = refined \cup valid
  /\ reported' = reported \cup valid

\* mutant: any report counts for the whole batch
ReportedWholeBatch(R, malformed, tested) ==
  LET t == SyncSourceFromDoc(task)
      done == t.gen \cup (refined \cap doc) \cup t.tbd
  IN  /\ refined' = refined \cup t.tbd
      /\ data' = [data EXCEPT !.notes = refined']
      /\ reported' = reported \cup R
      /\ Finish(SyncGenTask(t, done), TRUE)

\* A report of the labels R: one that is no map is refused, and so are labels
\* outside the document or outside the batch, and a report with nothing of a
\* batch that is not done.  Only then are the labels recorded, and the batch
\* completed unless tests fail.
Reported(R, malformed, tested) ==
  \E t \in {SyncSourceFromDoc(task)} :
     LET before == t.gen \cup (refined \cap doc)
         t1 == UpdateCurrentTbd(SyncGenTask(t, before))
         valid == R \cap t1.tbd
         refused == \/ malformed
                    \/ ~(R \subseteq doc)
                    \/ t1.tbd # {} /\ ~(R \subseteq t1.tbd)
                    \/ valid = {} /\ ~(t1.tbd \subseteq before)
         t2 == SyncGenTask(t1, before \cup valid)
     IN  \/ refused /\ Refuse(t1) /\ UNCHANGED <<refined, data, reported>>
         \/ /\ ~refused
            /\ Record(valid)
            /\ data' = [data EXCEPT !.notes = refined']
            /\ IF tested THEN Finish(t2, TRUE) ELSE Refuse(t2)

\* the refinement checker
CheckRefined(R, malformed) ==
  /\ Checks("refine")
  /\ doc # {}
  /\ Reported(R, malformed, TRUE)

\* the random-test checker, which runs the tests once the labels are recorded
CheckRandom(R, malformed, tested) ==
  /\ Checks("random")
  /\ doc # {}
  /\ Reported(R, malformed, tested)

\* The label checker: a label outside its own list or outside the batch is
\* refused, and so is a report with nothing of a batch.  A Complete that
\* passes leaves the labels of the document to later stages.
CheckLabels(R, malformed, is_complete) ==
  /\ Checks("labels")
  /\ doc # {}
  /\ task.source # {}
  /\ \E t \in {UpdateCurrentTbd(task)} :
     LET valid == R \cap task.tbd
         refused == malformed \/ ~(R \subseteq task.source \cap task.tbd)
         idle == valid = {} /\ t.tbd # {}
     IN  \/ /\ refused \/ idle
            /\ Refuse(IF refused THEN task ELSE t)
            /\ UNCHANGED <<refined, data, reported>>
         \/ /\ ~refused /\ ~idle
            /\ Record(valid)
            /\ Finish(SyncGenTask(t, (t.gen \cap t.source) \cup valid), TRUE)
            /\ data' = [list |-> IF is_complete /\ result' = "pass" THEN doc
                                ELSE data.list,
                        notes |-> refined']

\* a document without labels, files that do not parse, tests that fail, a
\* checker without its list: the check fails before it touches the task
CheckUnreadable ==
  /\ Checks(kind)
  /\ Refuse(task)
  /\ UNCHANGED <<refined, data, reported>>

Edit == \E x \in Items : EditDoc(x) \/ EditImpl(x)

Report == \E R \in SUBSET Items, malformed, b \in BOOLEAN :
            \/ CheckRefined(R, malformed)
            \/ CheckRandom(R, malformed, b)
            \/ CheckLabels(R, malformed, b)

DoCheck ==
  \/ CheckGroups
  \/ CheckTemplate
  \/ CheckMock
  \/ CheckFiles
  \/ \E formatted \in BOOLEAN : CheckStatic(formatted)
  \/ Report
  \/ CheckUnreadable

Next ==
  \/ Edit
  \/ DoCheck
  \/ \E init \in BOOLEAN : Start(init)
  \/ StartAgain
  \/ SaveStageInfo
  \/ Crash

Spec == Init /\ [][Next]_vars

\* The LLM keeps calling Check, with the labels of the batch the last check
\* has shown to it, after it has formatted its report and made its tests
\* pass; nothing else is fair.
Fairness ==
  /\ WF_vars(CheckGroups)
  /\ WF_vars(CheckTemplate)
  /\ WF_vars(CheckMock)
  /\ WF_vars(CheckFiles)
  /\ WF_vars(CheckStatic(TRUE))
  /\ WF_vars(CheckRefined(task.tbd, FALSE))
  /\ WF_vars(CheckRandom(task.tbd, FALSE, TRUE))
  /\ WF_vars(CheckLabels(task.tbd, FALSE, TRUE))

FairSpec == Spec /\ Fairness

----------------------------------------------------------------------------
(* Properties *)

\* what a checker sets out to do, and what it knows to be done
Goal == IF kind \in {"labels", "files"} THEN task.source ELSE doc
Done == IF kind \in Reporting \cup {"files"} THEN task.gen
        ELSE impl \cap task.gen

\* A check passes only when nothing of its goal is left undone at that
\* moment, whatever was edited, undone or restarted between the batches
\* (do_complete; a label seen done earlier may have been undone since): what
\* the document lists now, for the label and the file checker what they
\* listed at first.  Where there is no file there is nothing to do.
PassMeansDone ==
  [][ DoCheck /\ result' = "pass"
        => \/ Goal' \subseteq Done'
           \/ kind = "files" /\ doc = {} ]_vars

\* The batch the LLM is told to work on is kept and is worth its work: a live
\* one is replaced only when each of its labels is done, was seen done, or was
\* not in the document at this check or at the one before (update_current_tbd
\* "never replaces a live batch mid-run"); after a check of the refinement or
\* the random-test checker that gets to its list it lies in the document.
BatchKept ==
  [][ /\ DoCheck /\ ~(task'.tbd \subseteq task.tbd)
           => task.tbd \cap task.source \cap doc
                \subseteq task'.gen \cup task.cmp
      /\ Report /\ kind # "labels" => task'.tbd \subseteq doc ]_vars

\* Every variable has its type, and nothing counts as refined that the LLM
\* never reported, nor a file as done that never passed, across batches,
\* edits of the document, checkpoints, re-initialisations and restarts.
OnlyReported ==
  /\ TypeOK
  /\ kind \in Reporting \cup {"files"} =>
       task.gen \cup point.gen \cup refined \cup saved.notes \subseteq reported

\* what keeps a stage from passing for ever: a deleted label or file in the
\* batch of a checker that reconciles it with its old list, or not at all;
\* too few files; and a stage made current without its on_init
Stuck ==
  \/ kind \in Observing /\ ~(task.tbd \subseteq doc)
  \/ kind = "files" /\ Cardinality(doc) < MiniInputs
  \/ kind = "template" /\ up = "bare"
  \/ kind = "labels" /\ task.source = {}

\* Once the document, and the work in it, stay as they are, the stage passes
\* whatever was edited, deleted, reported or restarted before, except where
\* Stuck says why not: for the refinement and the random-test checker no
\* label of the past keeps a batch open for ever.
StableWorkPasses ==
  \A D \in (SUBSET Items) \ {{}} :
    <>[](up # "no" /\ doc = D /\ (kind \in Observing => impl = D))
      => []<>(result = "pass" \/ Stuck)

=============================================================================
