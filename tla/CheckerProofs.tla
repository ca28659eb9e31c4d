--------------------------- MODULE CheckerProofs ---------------------------
(***************************************************************************)
(* Theorems about the checkers: about BatchTask and BatchChecker for any   *)
(* labels, batch sizes and lists of earlier stages, and any number of      *)
(* starts, then about CheckRun for any calls, any number of checkers and   *)
(* any number of kills.                                                    *)
(***************************************************************************)
EXTENDS BatchChecker, CheckRun, FiniteSetTheorems, TLAPS

USE ItemsAssumption, BatchSizesAssumption, CheckerAssumption

----------------------------------------------------------------------------
(* The methods of a task.                                                  *)

\* A batch is never empty while something is left to do: update_current_tbd
\* cannot leave a checker without a batch and with undone work.
LEMMA FirstOfSome ==
  ASSUME NEW R \in SUBSET Items, NEW size \in BatchSizes, R # {}
  PROVE  FirstBatch(R, size) # {}
  <1> DEFINE Below(x) == {y \in R : y < x}
             Lows == {Below(x) : x \in R}
  <1>1. IsFiniteSet(R)
    BY FS_Subset
  <1>2. Lows \subseteq FiniteSubsetsOf(R) /\ Lows # {}
    <2>1. \A x \in R : Below(x) \in SUBSET R
      OBVIOUS
    <2> HIDE DEF Below
    <2>2. \A x \in R : IsFiniteSet(Below(x))
      BY <1>1, <2>1, FS_Subset
    <2>3. \A x \in R : Below(x) \in FiniteSubsetsOf(R)
      BY <2>1, <2>2 DEF FiniteSubsetsOf
    <2>4. PICK x \in R : TRUE
      OBVIOUS
    <2>5. Below(x) \in Lows
      OBVIOUS
    <2> QED  BY <2>3, <2>5
  <1> HIDE DEF Below
  <1>3. PICK low \in Lows : \A other \in Lows :
               ~ (<<other, low>> \in StrictSubsetOrdering(R))
    <2> HIDE DEF Lows
    <2> QED  BY <1>2, FS_StrictSubsetOrderingWellFounded, WFMin
  <1>4. PICK x \in R : low = Below(x)
    BY <1>3
  <1>5. Below(x) = {}
    <2>1. SUFFICES ASSUME NEW y \in R, y < x  PROVE FALSE
      BY DEF Below
    <2>2. x \in Int /\ y \in Int /\ \A z \in R : z \in Int
      OBVIOUS
    <2>3. \A z \in R : z < y => z < x
      BY <2>1, <2>2
    <2>4. y \in Below(x) /\ y \notin Below(y)
      BY <2>1, <2>2 DEF Below
    <2>5. Below(x) \in SUBSET R /\ Below(y) \in SUBSET R
      BY DEF Below
    <2>6. <<Below(y), Below(x)>> \in StrictSubsetOrdering(R)
      BY <2>3, <2>4, <2>5 DEF StrictSubsetOrdering, Below
    <2> QED  BY <1>3, <1>4, <2>6
  <1>6. Cardinality(Below(x)) = 0
    BY <1>5, FS_EmptySet
  <1>7. x \in FirstBatch(R, size)
    BY <1>6 DEF FirstBatch, Below
  <1> QED  BY <1>7

\* What update_current_tbd does to each field.
LEMMA Updated ==
  ASSUME NEW t \in Task
  PROVE  /\ UpdateCurrentTbd(t) \in Task
         /\ UpdateCurrentTbd(t).size = t.size
         /\ UpdateCurrentTbd(t).source = t.source
         /\ UpdateCurrentTbd(t).gen = t.gen
         /\ UpdateCurrentTbd(t).cmp = t.cmp
         /\ t.tbd # {} => UpdateCurrentTbd(t).tbd = t.tbd
         /\ UpdateCurrentTbd(t).tbd \subseteq t.tbd \cup t.source
         /\ UpdateCurrentTbd(t).tbd = {} => t.source \subseteq t.gen
  <1> DEFINE R == t.source \ t.gen
  <1>1. R \in SUBSET Items /\ t.size \in BatchSizes
    BY DEF Task
  <1>2. FirstBatch(R, t.size) \subseteq R
    BY DEF FirstBatch
  <1>3. R # {} => FirstBatch(R, t.size) # {}
    BY <1>1, FirstOfSome
  <1> QED  BY <1>1, <1>2, <1>3 DEF UpdateCurrentTbd, Task

\* What reconciling a task with a source list does.
LEMMA Reconciled ==
  ASSUME NEW t \in Task
  PROVE  /\ UpdateTbdAndCmp(t) \in Task
         /\ UpdateTbdAndCmp(t).size = t.size
         /\ UpdateTbdAndCmp(t).source = t.source
         /\ UpdateTbdAndCmp(t).gen = t.gen
         /\ UpdateTbdAndCmp(t).tbd = t.tbd \cap t.source
         /\ UpdateTbdAndCmp(t).cmp \subseteq t.cmp
  BY DEF UpdateTbdAndCmp, Task

LEMMA SourceSynced ==
  ASSUME NEW t \in Task, NEW new \in SUBSET Items
  PROVE  /\ SyncSourceTask(t, new) \in Task
         /\ SyncSourceTask(t, new).size = t.size
         /\ SyncSourceTask(t, new).source = new
         /\ SyncSourceTask(t, new).gen = t.gen
         /\ SyncSourceTask(t, new).tbd \subseteq t.tbd
         /\ t.tbd \cap t.source \subseteq SyncSourceTask(t, new).tbd
         /\ SyncSourceTask(t, new).cmp \subseteq t.cmp
  BY Reconciled DEF SyncSourceTask, Task

LEMMA GenSynced ==
  ASSUME NEW t \in Task, NEW new \in SUBSET Items
  PROVE  /\ SyncGenTask(t, new) \in Task
         /\ SyncGenTask(t, new).size = t.size
         /\ SyncGenTask(t, new).source = t.source
         /\ SyncGenTask(t, new).gen = new
         /\ SyncGenTask(t, new).tbd = t.tbd
         /\ SyncGenTask(t, new).cmp = t.cmp
  BY DEF SyncGenTask, Task

\* do_complete passes only when everything is done, and closes a batch only
\* when each of its labels is done or was seen done.
LEMMA Completed ==
  ASSUME NEW t \in Task
  PROVE  /\ DoComplete(t).task \in Task
         /\ DoComplete(t).point \in Task
         /\ DoComplete(t).pass \in BOOLEAN
         /\ DoComplete(t).task.source = t.source
         /\ DoComplete(t).task.gen = t.gen
         /\ DoComplete(t).point.gen = t.gen
         /\ DoComplete(t).task.tbd \subseteq t.tbd \cup t.source
         /\ DoComplete(t).pass => t.source \subseteq t.gen
         /\ \/ DoComplete(t).task.tbd = UpdateCurrentTbd(t).tbd
            \/ UpdateCurrentTbd(t).tbd \subseteq t.cmp \cup t.gen
  <1> DEFINE u == UpdateCurrentTbd(t)
             seen == u.cmp \cup (u.tbd \cap u.gen)
             closed == [u EXCEPT !.tbd = {}, !.cmp = {}]
             next == UpdateCurrentTbd(closed)
  <1>1. /\ u \in Task /\ u.source = t.source /\ u.gen = t.gen /\ u.cmp = t.cmp
        /\ u.tbd \subseteq t.tbd \cup t.source
    BY Updated
  <1> HIDE DEF u
  <1>2. /\ closed \in Task /\ closed.source = t.source /\ closed.gen = t.gen
        /\ closed.tbd = {}
    BY <1>1 DEF Task
  <1> HIDE DEF closed
  <1>3. /\ next \in Task /\ next.source = t.source /\ next.gen = t.gen
        /\ next.tbd \subseteq t.source
        /\ next.tbd = {} => t.source \subseteq t.gen
    BY <1>2, Updated
  <1> HIDE DEF next
  <1>4. CASE u.tbd = {}
    <2>1. DoComplete(t) = [task |-> u, point |-> u, closed |-> FALSE,
                           pass |-> u.source = u.gen]
      BY <1>4 DEF DoComplete, u
    <2>2. /\ DoComplete(t).task = u /\ DoComplete(t).point = u
          /\ DoComplete(t).pass = (u.source = u.gen)
      BY <2>1
    <2> QED  BY <1>1, <2>2, Zenon DEF u
  <1>5. CASE u.tbd # {} /\ ~(u.tbd \subseteq seen)
    <2>1. DoComplete(t) = [task |-> [u EXCEPT !.cmp = seen], point |-> u,
                           closed |-> FALSE, pass |-> FALSE]
      BY <1>5 DEF DoComplete, u
    <2>2. /\ [u EXCEPT !.cmp = seen] \in Task
          /\ [u EXCEPT !.cmp = seen].source = u.source
          /\ [u EXCEPT !.cmp = seen].gen = u.gen
          /\ [u EXCEPT !.cmp = seen].tbd = u.tbd
      BY <1>1 DEF Task
    <2>3. /\ DoComplete(t).task = [u EXCEPT !.cmp = seen]
          /\ DoComplete(t).point = u /\ DoComplete(t).pass = FALSE
      BY <2>1
    <2> QED  BY <1>1, <2>2, <2>3, Zenon DEF u
  <1>6. CASE u.tbd # {} /\ u.tbd \subseteq seen
    <2>1. DoComplete(t) = [task |-> next, point |-> closed, closed |-> TRUE,
                           pass |-> next.tbd = {}]
      BY <1>6 DEF DoComplete, u, closed, next
    <2>2. /\ DoComplete(t).task = next /\ DoComplete(t).point = closed
          /\ DoComplete(t).pass = (next.tbd = {})
      BY <2>1
    <2>3. UpdateCurrentTbd(t).tbd \subseteq t.cmp \cup t.gen
      BY <1>1, <1>6 DEF u
    <2>4. next.tbd \subseteq t.tbd \cup t.source
      BY <1>3
    <2> QED  BY <1>2, <1>3, <2>2, <2>3, <2>4, Zenon
  <1> QED  BY <1>4, <1>5, <1>6

----------------------------------------------------------------------------
(* From the task to the one a check completes or leaves.                   *)

\* The labels of the batch that are worth keeping: in the source list before
\* the check, and in the document.
Live == task.tbd \cap task.source \cap doc

\* t continues the task in memory: it has seen nothing done that the task had
\* not, and a batch with a live label is the old one, less the dead labels.
Continues(t) ==
  /\ t \in Task
  /\ t.cmp \subseteq task.cmp
  /\ Live # {} => Live \subseteq t.tbd /\ t.tbd \subseteq task.tbd

LEMMA SyncContinues ==
  ASSUME TypeOK
  PROVE  /\ Continues(task)
         /\ Continues(SyncSourceTask(task, doc))
         /\ Continues([task EXCEPT !.source = doc])
         /\ [task EXCEPT !.source = doc].source = doc
  <1>1. task \in Task /\ doc \in SUBSET Items
    BY DEF TypeOK
  <1>2. Continues(task)
    BY <1>1 DEF Continues, Live
  <1>3. Continues(SyncSourceTask(task, doc))
    BY <1>1, SourceSynced DEF Continues, Live
  <1>4. /\ [task EXCEPT !.source = doc] \in Task
        /\ [task EXCEPT !.source = doc].tbd = task.tbd
        /\ [task EXCEPT !.source = doc].cmp = task.cmp
        /\ [task EXCEPT !.source = doc].source = doc
    BY <1>1 DEF Task
  <1> QED  BY <1>2, <1>3, <1>4 DEF Continues, Live

LEMMA UpdateContinues ==
  ASSUME NEW t, Continues(t)
  PROVE  Continues(UpdateCurrentTbd(t))
  BY Updated DEF Continues

LEMMA GenContinues ==
  ASSUME NEW t, Continues(t), NEW gen \in SUBSET Items
  PROVE  Continues(SyncGenTask(t, gen))
  BY GenSynced DEF Continues

LEMMA ReconciledContinues ==
  ASSUME NEW t, Continues(t), t.source = doc
  PROVE  Continues(UpdateTbdAndCmp(t))
  BY Reconciled DEF Continues, Live

\* What _sync_source_from_doc does.
LEMMA DocSynced ==
  ASSUME NEW t \in Task, doc \in SUBSET Items
  PROVE  /\ SyncSourceFromDoc(t) \in Task
         /\ SyncSourceFromDoc(t).source = doc
         /\ SyncSourceFromDoc(t).gen = t.gen \cap doc
         /\ SyncSourceFromDoc(t).tbd \subseteq doc
  <1> DEFINE a == SyncSourceTask(t, doc)
             b == UpdateTbdAndCmp(a)
             c == SyncGenTask(b, b.gen \cap doc)
  <1>1. a \in Task /\ a.source = doc /\ a.gen = t.gen
    BY SourceSynced
  <1> HIDE DEF a
  <1>2. b \in Task /\ b.source = doc /\ b.gen = t.gen /\ b.tbd \subseteq doc
    BY <1>1, Reconciled
  <1> HIDE DEF b
  <1>3. c \in Task /\ c.source = doc /\ c.gen = t.gen \cap doc /\ c.tbd \subseteq doc
    BY <1>2, GenSynced
  <1>4. SyncSourceFromDoc(t) = UpdateCurrentTbd(c)
    BY DEF SyncSourceFromDoc, a, b
  <1> HIDE DEF c
  <1>5. /\ UpdateCurrentTbd(c) \in Task /\ UpdateCurrentTbd(c).source = c.source
        /\ UpdateCurrentTbd(c).gen = c.gen
        /\ UpdateCurrentTbd(c).tbd \subseteq c.tbd \cup c.source
    BY <1>3, Updated
  <1> QED  BY <1>3, <1>4, <1>5, Zenon

LEMMA DocContinues ==
  ASSUME TypeOK
  PROVE  Continues(SyncSourceFromDoc(task))
  <1> DEFINE a == SyncSourceTask(task, doc)
             b == UpdateTbdAndCmp(a)
  <1>1. task \in Task /\ doc \in SUBSET Items
    BY DEF TypeOK
  <1>2. Continues(a) /\ a.source = doc
    BY <1>1, SyncContinues, SourceSynced
  <1>3. Continues(b) /\ b.gen \cap doc \in SUBSET Items
    BY <1>1, <1>2, ReconciledContinues
  <1> HIDE DEF a, b
  <1>4. Continues(SyncGenTask(b, b.gen \cap doc))
    BY <1>3, GenContinues
  <1>5. Continues(UpdateCurrentTbd(SyncGenTask(b, b.gen \cap doc)))
    BY <1>4, UpdateContinues
  <1> QED  BY <1>5 DEF SyncSourceFromDoc, a, b

----------------------------------------------------------------------------
(* What a check leaves.                                                    *)

\* Where the checker keeps what was reported or seen to pass, it keeps nothing
\* else, in memory, in the checkpoint and in the stage data.
Honest ==
  kind \in Reporting \cup {"files"} =>
    task.gen \cup point.gen \cup refined \cup saved.notes \cup data.notes
      \subseteq reported

\* The three things every check keeps and promises: types and honesty, the
\* batch, and a pass only when all is done.
Sound ==
  /\ TypeOK'
  /\ Honest'
  /\ ~(task'.tbd \subseteq task.tbd) => Live \subseteq task'.gen \cup task.cmp
  /\ result' = "pass" => \/ Goal' \subseteq Done'
                         \/ kind = "files" /\ doc = {}

LEMMA Left ==
  ASSUME TypeOK, NEW t, Continues(t), NEW accepted \in BOOLEAN,
         Finish(t, accepted) \/ Refuse(t)
  PROVE  /\ task' \in Task /\ point' \in Task /\ result' \in {"fail", "pass"}
         /\ task'.source = t.source /\ task'.gen = t.gen
         /\ point'.gen \subseteq point.gen \cup t.gen
         /\ result' = "pass" => t.source \subseteq t.gen
         /\ task'.tbd \subseteq t.tbd \cup t.source
         /\ ~(task'.tbd \subseteq task.tbd) => Live \subseteq task'.gen \cup task.cmp
  <1>1. CASE Refuse(t)
    BY <1>1 DEF Refuse, Verdict, Continues, TypeOK
  <1>2. CASE Finish(t, accepted)
    <2>1. t \in Task /\ t.cmp \subseteq task.cmp
      BY DEF Continues
    <2>2. /\ task' = DoComplete(t).task
          /\ point' = DoComplete(t).point \/ point' = point
          /\ result' = "pass" => DoComplete(t).pass
          /\ result' \in {"fail", "pass"}
      BY <1>2 DEF Finish, Verdict
    <2>3. point \in Task
      BY DEF TypeOK
    <2>4. /\ task' \in Task /\ point' \in Task
          /\ task'.source = t.source /\ task'.gen = t.gen
          /\ point'.gen \subseteq point.gen \cup t.gen
          /\ result' = "pass" => t.source \subseteq t.gen
          /\ task'.tbd \subseteq t.tbd \cup t.source
          /\ \/ task'.tbd = UpdateCurrentTbd(t).tbd
             \/ UpdateCurrentTbd(t).tbd \subseteq t.cmp \cup t.gen
      BY <2>1, <2>2, <2>3, Completed, Zenon
    <2>5. Live # {} => /\ UpdateCurrentTbd(t).tbd = t.tbd
                       /\ Live \subseteq t.tbd /\ t.tbd \subseteq task.tbd
      BY <2>1, Updated DEF Continues
    <2> QED  BY <2>1, <2>2, <2>4, <2>5
  <1> QED  BY <1>1, <1>2

\* The kinds for which nothing is reported, and which see what is done.
Seeing == {"groups", "template", "static", "mock"}

\* A check by seeing: what is done is in the workspace, and both lists come
\* from there.
LEMMA SeenSound ==
  ASSUME TypeOK, kind \in Seeing,
         UNCHANGED <<kind, doc, impl, up, saved, starts, refined, data, reported>>,
         NEW t, Continues(t), NEW accepted \in BOOLEAN,
         \/ Finish(t, accepted) /\ t.source = doc /\ t.gen \subseteq impl
         \/ Refuse(t)
  PROVE  Sound
  <1>1. /\ task' \in Task /\ point' \in Task /\ result' \in {"fail", "pass"}
        /\ task'.source = t.source /\ task'.gen = t.gen
        /\ result' = "pass" => t.source \subseteq t.gen
        /\ ~(task'.tbd \subseteq task.tbd) => Live \subseteq task'.gen \cup task.cmp
    BY Left, Zenon
  <1>2. result' = "pass" => doc \subseteq t.gen /\ t.gen \subseteq impl
    BY <1>1 DEF Refuse, Verdict
  <1>3. TypeOK'
    BY <1>1 DEF TypeOK
  <1>4. Honest'
    BY DEF Honest, Seeing, Reporting
  <1>5. result' = "pass" => Goal' \subseteq Done'
    BY <1>1, <1>2 DEF Goal, Done, Seeing, Reporting
  <1> QED  BY <1>1, <1>3, <1>4, <1>5 DEF Sound

LEMMA SyncedTask ==
  ASSUME TypeOK, NEW gen \in SUBSET Items
  PROVE  LET t == SyncGenTask(SyncSourceTask(task, doc), gen)
         IN  Continues(t) /\ t.source = doc /\ t.gen = gen
  <1>1. task \in Task /\ doc \in SUBSET Items
    BY DEF TypeOK
  <1> QED  BY <1>1, SyncContinues, GenContinues, SourceSynced, GenSynced

LEMMA SeeingSound ==
  ASSUME TypeOK, NEW formatted \in BOOLEAN,
         CheckGroups \/ CheckTemplate \/ CheckStatic(formatted)
  PROVE  Sound
  <1>1. impl \in SUBSET Items /\ impl \cap doc \in SUBSET Items
    BY DEF TypeOK
  <1>2. CASE CheckGroups \/ CheckTemplate
    <2>1. /\ kind \in Seeing
          /\ UNCHANGED <<kind, doc, impl, up, saved, starts, refined, data, reported>>
          /\ Finish(SyncGenTask(SyncSourceTask(task, doc), impl), TRUE)
      BY <1>2 DEF CheckGroups, CheckTemplate, Checks, Seeing
    <2>2. LET t == SyncGenTask(SyncSourceTask(task, doc), impl)
          IN  Continues(t) /\ t.source = doc /\ t.gen \subseteq impl
      BY <1>1, SyncedTask
    <2> QED  BY <2>1, <2>2, SeenSound
  <1>3. CASE CheckStatic(formatted)
    <2>1. /\ kind \in Seeing /\ kind = "static"
          /\ UNCHANGED <<kind, doc, impl, up, saved, starts, refined, data, reported>>
      BY <1>3 DEF CheckStatic, Checks, Seeing
    <2>2. CASE doc = {}
      <3>1. /\ UNCHANGED <<task, point>> /\ result' \in {"fail", "pass"}
        BY <1>3, <2>2 DEF CheckStatic, Verdict
      <3>2. TypeOK'
        BY <2>1, <3>1 DEF TypeOK
      <3> QED
        BY <2>1, <2>2, <3>1, <3>2 DEF Sound, Honest, Goal, Reporting
    <2>3. CASE doc # {}
      <3>1. Finish(SyncGenTask(SyncSourceTask(task, doc), impl \cap doc), formatted)
        BY <1>3, <2>3 DEF CheckStatic
      <3>2. LET t == SyncGenTask(SyncSourceTask(task, doc), impl \cap doc)
            IN  Continues(t) /\ t.source = doc /\ t.gen \subseteq impl
        BY <1>1, SyncedTask
      <3> QED  BY <2>1, <3>1, <3>2, SeenSound
    <2> QED  BY <2>2, <2>3
  <1> QED  BY <1>2, <1>3

LEMMA MockSound ==
  ASSUME TypeOK, CheckMock
  PROVE  Sound
  <1> DEFINE t == UpdateCurrentTbd([task EXCEPT !.source = doc])
  <1>1. /\ kind \in Seeing
        /\ UNCHANGED <<kind, doc, impl, up, saved, starts, refined, data, reported>>
    BY DEF CheckMock, Checks, Seeing
  <1>2. Continues(t) /\ t.source = doc /\ t \in Task
    BY SyncContinues, UpdateContinues, Updated DEF Continues
  <1>3. \/ doc \subseteq impl /\ Finish(SyncGenTask(t, doc), TRUE)
        \/ Refuse(SyncGenTask(t, doc \cap impl))
        \/ Refuse(t)
    BY DEF CheckMock
  <1> HIDE DEF t
  <1>4. \A gen \in SUBSET Items :
          /\ Continues(SyncGenTask(t, gen)) /\ SyncGenTask(t, gen).source = doc
          /\ SyncGenTask(t, gen).gen = gen
    BY <1>2, GenContinues, GenSynced
  <1>5. doc \in SUBSET Items /\ doc \cap impl \in SUBSET Items
    BY DEF TypeOK
  <1>6. CASE doc \subseteq impl /\ Finish(SyncGenTask(t, doc), TRUE)
    BY <1>1, <1>4, <1>5, <1>6, SeenSound
  <1>7. CASE Refuse(SyncGenTask(t, doc \cap impl))
    BY <1>1, <1>4, <1>5, <1>7, SeenSound
  <1>8. CASE Refuse(t)
    BY <1>1, <1>2, <1>8, SeenSound
  <1> QED  BY <1>3, <1>6, <1>7, <1>8

\* A check that adds the labels in "valid" to what it knows to be done.
LEMMA ReportedSound ==
  ASSUME TypeOK, Honest, kind \in Reporting \cup {"files"},
         UNCHANGED <<kind, doc, impl, up, saved, starts>>,
         NEW valid \in SUBSET Items,
         refined' \subseteq refined \cup valid, data' \in StageData,
         data'.notes \subseteq data.notes \cup refined \cup valid,
         reported' \in SUBSET Items, reported \subseteq reported',
         NEW t, Continues(t), NEW accepted \in BOOLEAN,
         t.gen \subseteq task.gen \cup refined \cup reported',
         valid \subseteq reported',
         \/ /\ Finish(t, accepted)
            /\ t.source = doc \/ kind \in {"labels", "files"}
         \/ Refuse(t)
  PROVE  Sound
  <1>1. /\ task' \in Task /\ point' \in Task /\ result' \in {"fail", "pass"}
        /\ task'.source = t.source /\ task'.gen = t.gen
        /\ point'.gen \subseteq point.gen \cup t.gen
        /\ result' = "pass" => t.source \subseteq t.gen
        /\ ~(task'.tbd \subseteq task.tbd) => Live \subseteq task'.gen \cup task.cmp
    BY Left, Zenon
  <1>2. refined' \in SUBSET Items
    BY DEF TypeOK
  <1>3. TypeOK'
    BY <1>1, <1>2 DEF TypeOK
  <1>4. Honest'
    BY <1>1 DEF Honest
  <1>5. result' = "pass" => Goal' \subseteq Done'
    BY <1>1 DEF Goal, Done, Refuse, Verdict
  <1> QED  BY <1>1, <1>3, <1>4, <1>5 DEF Sound

LEMMA FilesSound ==
  ASSUME TypeOK, Honest, CheckFiles
  PROVE  Sound
  <1> DEFINE t == InitBatchTask(task)
  <1>1. /\ kind = "files" /\ kind \in Reporting \cup {"files"}
        /\ UNCHANGED <<kind, doc, impl, up, saved, starts, refined, data>>
    BY DEF CheckFiles, Checks
  <1>2. Continues(t) /\ t.gen = task.gen
    <2>1. CASE t = task
      BY <2>1, SyncContinues
    <2>2. CASE t = UpdateCurrentTbd([task EXCEPT !.source = doc])
      <3>1. [task EXCEPT !.source = doc].gen = task.gen
        BY DEF TypeOK, Task
      <3>2. Continues([task EXCEPT !.source = doc])
        BY SyncContinues
      <3> HIDE DEF t
      <3> QED  BY <2>2, <3>1, <3>2, UpdateContinues, Updated DEF Continues
    <2> QED  BY <2>1, <2>2 DEF InitBatchTask
  <1>3. t \in Task
    BY <1>2 DEF Continues
  <1>4. \/ doc = {} /\ Verdict(TRUE) /\ UNCHANGED <<task, point, reported>>
        \/ Refuse([t EXCEPT !.source = {}]) /\ UNCHANGED reported
        \/ Refuse(t) /\ UNCHANGED reported
        \/ /\ Finish(SyncGenTask(t, t.gen \cup t.tbd), TRUE)
           /\ reported' = reported \cup t.tbd
    BY DEF CheckFiles
  <1>5. /\ t.tbd \in SUBSET Items /\ t.gen \cup t.tbd \in SUBSET Items
        /\ data \in StageData /\ reported \in SUBSET Items
    BY <1>3 DEF Task, TypeOK
  <1> HIDE DEF t
  <1>6. CASE doc = {} /\ Verdict(TRUE) /\ UNCHANGED <<task, point, reported>>
    <2>1. TypeOK'
      BY <1>1, <1>6 DEF TypeOK, Verdict
    <2> QED  BY <1>1, <1>6, <2>1 DEF Sound, Honest
  <1>7. CASE Refuse([t EXCEPT !.source = {}]) /\ UNCHANGED reported
    <2>1. /\ [t EXCEPT !.source = {}] \in Task
          /\ [t EXCEPT !.source = {}].cmp = t.cmp
          /\ [t EXCEPT !.source = {}].tbd = t.tbd
          /\ [t EXCEPT !.source = {}].gen = t.gen
      BY <1>3 DEF Task
    <2>2. Continues([t EXCEPT !.source = {}])
      BY <1>2, <2>1 DEF Continues
    <2> DEFINE e == [t EXCEPT !.source = {}]
    <2>3. Continues(e) /\ e.gen = task.gen /\ Refuse(e)
      BY <1>2, <1>7, <2>1, <2>2
    <2> HIDE DEF e
    <2> QED  BY <1>1, <1>5, <1>7, <2>3, ReportedSound
  <1>8. CASE Refuse(t) /\ UNCHANGED reported
    BY <1>1, <1>2, <1>5, <1>8, ReportedSound
  <1>9. CASE /\ Finish(SyncGenTask(t, t.gen \cup t.tbd), TRUE)
             /\ reported' = reported \cup t.tbd
    <2> DEFINE e == SyncGenTask(t, t.gen \cup t.tbd)
    <2>1. Continues(e) /\ e.gen = t.gen \cup t.tbd
      BY <1>2, <1>3, <1>5, GenContinues, GenSynced
    <2>2. e.gen \subseteq task.gen \cup refined \cup reported'
      BY <1>2, <1>9, <2>1
    <2>3. Finish(e, TRUE)
      BY <1>9
    <2> HIDE DEF e
    <2> QED  BY <1>1, <1>5, <1>9, <2>1, <2>2, <2>3, ReportedSound
  <1> QED  BY <1>4, <1>6, <1>7, <1>8, <1>9

\* The refinement and the random-test checker; the batch then lies in the
\* document.
LEMMA ReportSound ==
  ASSUME TypeOK, Honest, kind \in Reporting,
         UNCHANGED <<kind, doc, impl, up, saved, starts>>,
         NEW R \in SUBSET Items, NEW malformed \in BOOLEAN, NEW tested \in BOOLEAN,
         Reported(R, malformed, tested)
  PROVE  Sound /\ task'.tbd \subseteq doc
  <1> DEFINE t == SyncSourceFromDoc(task)
             before == t.gen \cup (refined \cap doc)
             t1 == UpdateCurrentTbd(SyncGenTask(t, before))
             valid == R \cap t1.tbd
             t2 == SyncGenTask(t1, before \cup valid)
  <1>1. /\ task \in Task /\ doc \in SUBSET Items /\ refined \in SUBSET Items
        /\ data \in StageData /\ reported \in SUBSET Items
    BY DEF TypeOK
  <1>2. \/ Refuse(t1) /\ UNCHANGED <<refined, data, reported>>
        \/ /\ Record(valid)
           /\ data' = [data EXCEPT !.notes = refined']
           /\ Finish(t2, TRUE) \/ Refuse(t2)
    BY DEF Reported
  <1>3. /\ Continues(t) /\ t \in Task /\ t.source = doc /\ t.gen \subseteq task.gen
        /\ t.tbd \subseteq doc
    BY <1>1, DocContinues, DocSynced
  <1> HIDE DEF t
  <1>4. before \in SUBSET Items /\ before \subseteq task.gen \cup refined
    BY <1>1, <1>3 DEF Task
  <1> HIDE DEF before
  <1>5. /\ Continues(t1) /\ t1 \in Task /\ t1.source = doc /\ t1.gen = before
        /\ t1.tbd \subseteq doc
    <2> DEFINE s == SyncGenTask(t, before)
    <2>1. /\ Continues(s) /\ s \in Task /\ s.source = doc /\ s.gen = before
          /\ s.tbd \subseteq doc
      BY <1>3, <1>4, GenContinues, GenSynced
    <2> HIDE DEF s
    <2>2. /\ Continues(UpdateCurrentTbd(s)) /\ UpdateCurrentTbd(s) \in Task
          /\ UpdateCurrentTbd(s).source = s.source
          /\ UpdateCurrentTbd(s).gen = s.gen
          /\ UpdateCurrentTbd(s).tbd \subseteq s.tbd \cup s.source
      BY <2>1, UpdateContinues, Updated
    <2> QED  BY <2>1, <2>2 DEF s
  <1> HIDE DEF t1
  <1>6. valid \in SUBSET Items /\ before \cup valid \in SUBSET Items
    BY <1>4
  <1> HIDE DEF valid
  <1>7. /\ Continues(t2) /\ t2 \in Task /\ t2.source = doc
        /\ t2.gen = before \cup valid /\ t2.tbd \subseteq doc
    BY <1>5, <1>6, GenContinues, GenSynced
  <1> HIDE DEF t2
  <1>8. CASE Refuse(t1) /\ UNCHANGED <<refined, data, reported>>
    <2>1. task'.tbd \subseteq doc
      BY <1>5, <1>8 DEF Refuse
    <2> QED  BY <1>1, <1>4, <1>5, <1>8, <2>1, ReportedSound
  <1>9. ASSUME Record(valid), data' = [data EXCEPT !.notes = refined'],
               NEW accepted \in BOOLEAN, Finish(t2, accepted) \/ Refuse(t2)
        PROVE  Sound /\ task'.tbd \subseteq doc
    <2>1. /\ refined' = refined \cup valid /\ reported' = reported \cup valid
          /\ reported' \in SUBSET Items /\ refined' \in SUBSET Items
      BY <1>1, <1>6, <1>9 DEF Record
    <2>2. data' \in StageData /\ data'.notes = refined'
      BY <1>1, <1>9, <2>1 DEF StageData
    <2>3. t2.gen \subseteq task.gen \cup refined \cup reported'
      BY <1>4, <1>7, <2>1
    <2>4. Sound
      BY <1>6, <1>7, <1>9, <2>1, <2>2, <2>3, ReportedSound
    <2>5. task'.tbd \subseteq t2.tbd \cup t2.source
      BY <1>7, <1>9, Left
    <2> QED  BY <1>7, <2>4, <2>5
  <1> QED  BY <1>2, <1>8, <1>9

LEMMA LabelsSound ==
  ASSUME TypeOK, Honest, NEW R \in SUBSET Items, NEW malformed \in BOOLEAN,
         NEW is_complete \in BOOLEAN, CheckLabels(R, malformed, is_complete)
  PROVE  Sound
  <1> DEFINE t == UpdateCurrentTbd(task)
             valid == R \cap task.tbd
             t2 == SyncGenTask(t, (t.gen \cap t.source) \cup valid)
  <1>1. /\ kind = "labels" /\ kind \in Reporting \cup {"files"}
        /\ UNCHANGED <<kind, doc, impl, up, saved, starts>>
    BY DEF CheckLabels, Checks, Reporting
  <1>2. /\ task \in Task /\ doc \in SUBSET Items /\ refined \in SUBSET Items
        /\ data \in StageData /\ reported \in SUBSET Items
    BY DEF TypeOK
  <1>3. \/ /\ Refuse(task) \/ Refuse(t)
           /\ UNCHANGED <<refined, data, reported>>
        \/ /\ Record(valid) /\ Finish(t2, TRUE)
           /\ data' = [list |-> IF is_complete /\ result' = "pass" THEN doc
                                ELSE data.list,
                       notes |-> refined']
    BY DEF CheckLabels
  <1>4. Continues(task) /\ Continues(t) /\ t \in Task /\ t.gen = task.gen
    BY <1>2, SyncContinues, UpdateContinues, Updated
  <1> HIDE DEF t
  <1>5. /\ valid \in SUBSET Items
        /\ (t.gen \cap t.source) \cup valid \in SUBSET Items
    BY <1>4 DEF Task
  <1>6. Continues(t2) /\ t2.gen = (t.gen \cap t.source) \cup valid
    BY <1>4, <1>5, GenContinues, GenSynced
  <1> HIDE DEF valid, t2
  <1>7. CASE /\ Refuse(task) \/ Refuse(t)
             /\ UNCHANGED <<refined, data, reported>>
    BY <1>1, <1>2, <1>4, <1>5, <1>7, ReportedSound
  <1>8. CASE /\ Record(valid) /\ Finish(t2, TRUE)
             /\ data' = [list |-> IF is_complete /\ result' = "pass" THEN doc
                                  ELSE data.list,
                         notes |-> refined']
    <2>1. /\ refined' = refined \cup valid /\ reported' = reported \cup valid
          /\ reported' \in SUBSET Items /\ refined' \in SUBSET Items
      BY <1>2, <1>5, <1>8 DEF Record
    <2>2. data.list \in SUBSET Items
      BY <1>2 DEF StageData
    <2>3. data' \in StageData /\ data'.notes = refined'
      BY <1>2, <1>8, <2>1, <2>2 DEF StageData
    <2>4. t2.gen \subseteq task.gen \cup refined \cup reported'
      BY <1>4, <1>6, <2>1
    <2> QED  BY <1>1, <1>5, <1>6, <1>8, <2>1, <2>3, <2>4, ReportedSound
  <1> QED  BY <1>3, <1>7, <1>8

LEMMA UnreadableSound ==
  ASSUME TypeOK, Honest, CheckUnreadable
  PROVE  Sound
  <1>1. /\ task' = task /\ result' = "fail"
        /\ UNCHANGED <<kind, doc, impl, up, saved, starts, point, refined, data,
                       reported>>
    BY DEF CheckUnreadable, Checks, Refuse, Verdict
  <1>2. TypeOK'
    BY <1>1 DEF TypeOK
  <1> QED  BY <1>1, <1>2 DEF Sound, Honest

\* Every check is sound.
LEMMA DoCheckSound ==
  ASSUME TypeOK, Honest, DoCheck
  PROVE  /\ Sound
         /\ Report /\ kind # "labels" => task'.tbd \subseteq doc
  <1>1. ASSUME NEW R \in SUBSET Items, NEW malformed \in BOOLEAN,
               NEW tested \in BOOLEAN,
               CheckRefined(R, malformed) \/ CheckRandom(R, malformed, tested)
        PROVE  Sound /\ task'.tbd \subseteq doc
    <2>1. /\ kind \in Reporting
          /\ UNCHANGED <<kind, doc, impl, up, saved, starts>>
          /\ \E b \in BOOLEAN : Reported(R, malformed, b)
      BY <1>1 DEF CheckRefined, CheckRandom, Checks, Reporting
    <2> QED  BY <2>1, ReportSound
  <1>2. Report => /\ Sound
                  /\ kind # "labels" => task'.tbd \subseteq doc
    <2>1. \A R \in SUBSET Items, malformed, b \in BOOLEAN :
            CheckLabels(R, malformed, b) => kind = "labels"
      BY DEF CheckLabels, Checks
    <2> QED  BY <1>1, <2>1, LabelsSound DEF Report
  <1> QED
    BY <1>2, SeeingSound, MockSound, FilesSound, UnreadableSound DEF DoCheck

----------------------------------------------------------------------------
(* Starting a stage, and the rest.                                         *)

LEMMA NewTaskType ==
  ASSUME NEW size \in BatchSizes
  PROVE  NewTask(size) \in Task /\ NewTask(size).gen = {}
  BY DEF NewTask, Task

\* on_init makes a task of a task, and adds nothing to what was reported.
LEMMA OnInitType ==
  ASSUME TypeOK, NEW t \in Task, NEW d \in StageData
  PROVE  /\ OnInit(t, d) \in Task
         /\ kind \in Reporting \cup {"files"} => OnInit(t, d).gen \subseteq t.gen
  <1>1. /\ doc \in SUBSET Items /\ impl \in SUBSET Items /\ d.list \in SUBSET Items
        /\ kind \in Observing \cup Reporting
    BY DEF TypeOK, StageData
  <1>2. CASE kind \in {"refine", "random"}
    <2>1. OnInit(t, d) = SyncSourceFromDoc(t)
      BY <1>2 DEF OnInit
    <2> QED  BY <1>1, <2>1, DocSynced
  \* update_current_tbd on a task with another source list
  <1>3. ASSUME NEW list \in SUBSET Items
        PROVE  /\ UpdateCurrentTbd([t EXCEPT !.source = list]) \in Task
               /\ UpdateCurrentTbd([t EXCEPT !.source = list]).gen = t.gen
    <2>1. /\ [t EXCEPT !.source = list] \in Task
          /\ [t EXCEPT !.source = list].gen = t.gen
      BY DEF Task
    <2> QED  BY <2>1, Updated
  <1>4. CASE kind = "groups"
    <2>1. OnInit(t, d) = UpdateCurrentTbd([t EXCEPT !.source = d.list])
      BY <1>4 DEF OnInit
    <2> QED  BY <1>1, <1>3, <1>4, <2>1 DEF Reporting
  <1>5. CASE kind = "template"
    <2>1. OnInit(t, d) = UpdateCurrentTbd([NewTask(t.size) EXCEPT !.source = doc])
      BY <1>5 DEF OnInit
    <2>2. [NewTask(t.size) EXCEPT !.source = doc] \in Task
      BY <1>1 DEF NewTask, Task
    <2> QED  BY <1>5, <2>1, <2>2, Updated DEF Reporting
  <1>6. CASE kind = "mock"
    <2>1. OnInit(t, d) = UpdateCurrentTbd([t EXCEPT !.source = doc])
      BY <1>6 DEF OnInit
    <2> QED  BY <1>1, <1>3, <1>6, <2>1 DEF Reporting
  <1>7. CASE kind = "static"
    <2>1. OnInit(t, d) = InitBatchState(t)
      BY <1>7 DEF OnInit
    <2>2. [t EXCEPT !.source = doc, !.gen = impl \cap doc,
                    !.tbd = (t.tbd \cap doc) \ impl, !.cmp = {}] \in Task
      BY <1>1 DEF Task
    <2> QED  BY <1>7, <2>1, <2>2, Updated DEF InitBatchState, Reporting
  <1>8. CASE kind = "files"
    <2>1. OnInit(t, d) = InitBatchTask(t)
      BY <1>8 DEF OnInit
    <2> QED  BY <1>1, <1>3, <2>1 DEF InitBatchTask
  <1>9. CASE kind = "labels"
    <2>1. OnInit(t, d) = UpdateCurrentTbd(
            IF t.source # {} THEN t ELSE [t EXCEPT !.source = ListToRefine(d)])
      BY <1>9 DEF OnInit
    <2>2. ListToRefine(d) \in SUBSET Items
      BY <1>1 DEF ListToRefine
    <2>3. CASE t.source # {}
      BY <2>1, <2>3, Updated
    <2>4. CASE t.source = {}
      BY <1>3, <2>1, <2>2, <2>4
    <2> QED  BY <2>3, <2>4
  <1> QED
    BY <1>1, <1>2, <1>4, <1>5, <1>6, <1>7, <1>8, <1>9 DEF Observing, Reporting

LEMMA RunOnInitKeeps ==
  ASSUME TypeOK, Honest, NEW t \in Task, NEW d \in StageData, RunOnInit(t, d),
         UNCHANGED <<kind, doc, impl, point, saved, result, reported>>,
         up' \in {"no", "bare", "ready"}, starts' \in 0 .. MaxStarts,
         kind \in Reporting \cup {"files"} =>
           t.gen \cup d.notes \subseteq reported
  PROVE  TypeOK' /\ Honest'
  <1>1. /\ task' \in Task
        /\ kind \in Reporting \cup {"files"} => task'.gen \subseteq t.gen
    BY OnInitType DEF RunOnInit
  <1>2. ListToRefine(d) \in SUBSET Items /\ d.notes \in SUBSET Items
    BY DEF ListToRefine, StageData, TypeOK
  <1>3. refined' \in SUBSET Items /\ refined' \subseteq d.notes
    BY <1>2 DEF RunOnInit
  <1>4. data' \in StageData /\ data'.notes = d.notes
    BY <1>2 DEF RunOnInit, StageData
  <1>5. TypeOK'
    BY <1>1, <1>3, <1>4 DEF TypeOK
  <1> QED  BY <1>1, <1>3, <1>4, <1>5 DEF Honest

LEMMA StartKeeps ==
  ASSUME TypeOK, Honest, NEW init \in BOOLEAN, Start(init) \/ StartAgain
  PROVE  TypeOK' /\ Honest'
  <1>1. /\ task \in Task /\ point \in Task /\ data \in StageData
        /\ saved \in StageData
        /\ UNCHANGED <<kind, doc, impl, point, saved, result, reported>>
        /\ up' \in {"no", "bare", "ready"}
    BY DEF TypeOK, Start, StartAgain
  <1>2. starts' \in 0 .. MaxStarts
    BY DEF TypeOK, Start, StartAgain
  <1>3. CASE RunOnInit(point, saved)
    BY <1>1, <1>2, <1>3, RunOnInitKeeps DEF Honest
  <1>4. CASE RunOnInit(task, data)
    BY <1>1, <1>2, <1>4, RunOnInitKeeps DEF Honest
  <1>5. CASE task' = point /\ refined' = {} /\ data' = saved
    BY <1>1, <1>2, <1>5 DEF TypeOK, Honest
  <1> QED  BY <1>3, <1>4, <1>5 DEF Start, StartAgain

LEMMA CrashKeeps ==
  ASSUME TypeOK, Honest, Crash
  PROVE  TypeOK' /\ Honest'
  <1>1. task.size \in BatchSizes
    BY DEF TypeOK, Task
  <1>2. task' \in Task /\ task'.gen = {}
    BY <1>1, NewTaskType DEF Crash
  <1> QED  BY <1>2 DEF Crash, TypeOK, Honest

LEMMA OthersKeep ==
  ASSUME TypeOK, Honest, Edit \/ SaveStageInfo \/ UNCHANGED vars
  PROVE  TypeOK' /\ Honest'
  <1>1. /\ UNCHANGED <<kind, up, task, refined, point, data, result, starts,
                       reported>>
        /\ saved' \in {saved, data}
        /\ doc' \in SUBSET Items /\ impl' \in SUBSET Items
    BY DEF Edit, EditDoc, EditImpl, SaveStageInfo, vars, TypeOK
  <1> QED  BY <1>1 DEF TypeOK, Honest

LEMMA InitKeeps == Init => TypeOK /\ Honest
  <1> SUFFICES ASSUME Init PROVE TypeOK /\ Honest
    OBVIOUS
  <1>1. PICK list \in IF kind \in {"groups", "labels"} THEN Given ELSE {{}} :
               doc = list /\ saved = [list |-> list, notes |-> {}]
    BY DEF Init
  <1>2. doc \in SUBSET Items /\ saved \in StageData /\ saved.notes = {}
    BY <1>1 DEF StageData
  <1>3. task \in Task /\ task.gen = {}
    BY NewTaskType DEF Init
  <1>4. 0 \in 0 .. MaxStarts
    OBVIOUS
  <1> QED  BY <1>2, <1>3, <1>4 DEF Init, TypeOK, Honest

LEMMA BatchInvariant == Spec => [](TypeOK /\ Honest)
  <1>1. TypeOK /\ Honest /\ [Next]_vars => TypeOK' /\ Honest'
    BY DoCheckSound, StartKeeps, CrashKeeps, OthersKeep DEF Next, Sound
  <1> QED  BY <1>1, InitKeeps, PTL DEF Spec

----------------------------------------------------------------------------
(* The theorems.                                                           *)

\* Nothing counts as refined that the LLM never reported, nor a file as done
\* that never passed, across batches, edits, checkpoints and restarts.
THEOREM NothingElseReported == Spec => []OnlyReported
  <1>1. TypeOK /\ Honest => OnlyReported
    BY DEF Honest, OnlyReported
  <1> QED  BY <1>1, BatchInvariant, PTL

\* A check passes only when nothing of its goal is left undone at that moment.
THEOREM PassedWorkIsDone == Spec => PassMeansDone
  <1>1. TypeOK /\ Honest =>
          [ DoCheck /\ result' = "pass"
              => \/ Goal' \subseteq Done'
                 \/ kind = "files" /\ doc = {} ]_vars
    BY DoCheckSound DEF Sound
  <1> QED  BY <1>1, BatchInvariant, PTL DEF PassMeansDone

\* A live batch is replaced only when each of its live labels is done or was
\* seen done, and the one the refinement or the random-test checker shows lies
\* in the document.
THEOREM LiveBatchIsKept == Spec => BatchKept
  <1>1. TypeOK /\ Honest =>
          [ /\ DoCheck /\ ~(task'.tbd \subseteq task.tbd)
                 => task.tbd \cap task.source \cap doc
                      \subseteq task'.gen \cup task.cmp
            /\ Report /\ kind # "labels" => task'.tbd \subseteq doc ]_vars
    <2>1. Report => DoCheck
      BY DEF DoCheck
    <2> QED  BY <2>1, DoCheckSound DEF Sound, Live
  <1> QED  BY <1>1, BatchInvariant, PTL DEF BatchKept

----------------------------------------------------------------------------
(* How the checkers of a stage are run: CheckRun, for any calls, any number *)
(* of checkers and any number of kills.                                     *)

USE NAssumption, MinFailAssumption, KillsAssumption, NoneAssumption
USE DEF checker, counts, history, killer, Checkers

(* Types.                                                                  *)

LEMMA InitType == RunInit => RunTypeOK
  <1>1. 1 \in 1 .. N /\ 0 \in 0 .. N /\ 0 \in 0 .. Kills
    OBVIOUS
  <1>2. RunInit => {failed, succeeded, continued} \subseteq Nat
    BY DEF RunInit
  <1> SUFFICES ASSUME RunInit PROVE RunTypeOK
    OBVIOUS
  <1>3. /\ pc \in [Calls -> Places] /\ at \in [Calls -> 1 .. N]
        /\ verdict \in [Calls -> {"none", "pass", "fail", "error"}]
        /\ asked \in SUBSET Calls /\ row \in Nat \cup {Unknown}
    BY <1>1 DEF RunInit, Places
  <1>4. /\ inCheck \in [1 .. N -> BOOLEAN] /\ timed \in [1 .. N -> BOOLEAN]
        /\ limit \in [1 .. N -> BOOLEAN] /\ ok \in [Calls -> BOOLEAN]
        /\ process \in [1 .. N -> Calls \cup {None}]
        /\ passed \in [Calls -> SUBSET (1 .. N)]
    BY DEF RunInit
  <1> QED  BY <1>1, <1>2, <1>3, <1>4 DEF RunInit, RunTypeOK

\* The first steps of a call, or its only one.
LEMMA BeginType ==
  ASSUME RunTypeOK, NEW c \in Calls, NEW counted \in BOOLEAN,
         Precheck(c, counted) \/ BadArgs(c) \/ Begin(c)
  PROVE  RunTypeOK'
  <1>1. met' \in SUBSET Calls
    BY DEF Precheck, BadArgs, Begin, Meets, Others, RunTypeOK
  <1>2. row' \in Nat \cup {Unknown}
    BY DEF Precheck, BadArgs, Begin, RowOf, Longer, Unknown, RunTypeOK
  <1>3. CASE Precheck(c, counted)
    BY <1>1, <1>2, <1>3 DEF Precheck, Goto, RunTypeOK, Places
  <1>4. CASE BadArgs(c)
    BY <1>1, <1>2, <1>4 DEF BadArgs, Goto, RunTypeOK, Places
  <1>5. CASE Begin(c)
    BY <1>1, <1>2, <1>5 DEF Begin, Goto, RunTypeOK, Places
  <1> QED  BY <1>3, <1>4, <1>5

LEMMA StepType ==
  ASSUME RunTypeOK, NEW c \in Calls,
         Step(c) \/ StartProcess(c) \/ ProcessEnds(c)
  PROVE  RunTypeOK'
  <1> USE DEF Goto
  <1>1. CASE Test(c)
    BY <1>1 DEF Test, RunTypeOK, Places
  <1>2. CASE Busy(c)
    BY <1>2 DEF Busy, RunTypeOK, Places
  <1>3. CASE Enter(c)
    BY <1>3 DEF Enter, RunTypeOK, Places
  <1>4. CASE StartProcess(c)
    BY <1>4 DEF StartProcess, RunTypeOK, Places
  <1>5. CASE ProcessEnds(c)
    BY <1>5 DEF ProcessEnds, RunTypeOK, Places
  <1>6. ASSUME NEW good \in BOOLEAN, NEW batch \in BOOLEAN,
               CheckReturns(c, good, batch)
        PROVE  RunTypeOK'
    <2>1. passed' \in [Calls -> SUBSET (1 .. N)]
      BY <1>6 DEF CheckReturns, RunTypeOK
    <2>2. row' \in Nat \cup {Unknown}
      BY <1>6 DEF CheckReturns, RunTypeOK
    <2> QED  BY <1>6, <2>1, <2>2 DEF CheckReturns, RunTypeOK, Places
  <1>7. CASE CheckRaises(c)
    BY <1>7 DEF CheckRaises, RunTypeOK, Places
  <1>8. CASE ResetProcess(c)
    BY <1>8 DEF ResetProcess, RunTypeOK, Places
  <1>9. CASE RecordResult(c)
    <2>1. at' \in [Calls -> 1 .. N]
      <3> DEFINE next == IF at[c] < N THEN at[c] + 1 ELSE at[c]
      <3>1. at \in [Calls -> 1 .. N]
        BY DEF RunTypeOK
      <3>2. next \in 1 .. N
        BY <3>1
      <3>3. at' = [at EXCEPT ![c] = next] \/ at' = at
        BY <1>9 DEF RecordResult
      <3> HIDE DEF next
      <3> QED  BY <3>1, <3>2, <3>3
    <2>2. failed' \in Nat
      BY <1>9 DEF RecordResult, RunTypeOK
    <2> QED  BY <1>9, <2>1, <2>2 DEF RecordResult, RunTypeOK, Places
  <1>10. CASE Final(c)
    BY <1>10 DEF Final, RunTypeOK, Places
  <1>11. CASE Return(c)
    <2>1. row' \in Nat \cup {Unknown}
      BY <1>11 DEF Return, Longer, Unknown, RunTypeOK
    <2> QED  BY <1>11, <2>1 DEF Return, RunTypeOK, Places
  <1>12. CASE Suggest(c)
    BY <1>12 DEF Suggest, RunTypeOK, Places
  <1> QED
    BY <1>1, <1>2, <1>3, <1>4, <1>5, <1>6, <1>7, <1>8, <1>9, <1>10, <1>11, <1>12
       DEF Step

\* A kill is at a checker except when it is idle.
Victim == kpc # "idle" => victim \in Checkers

LEMMA KillType ==
  ASSUME RunTypeOK, Victim, Kill
  PROVE  RunTypeOK' /\ Victim'
  <1>1. CASE KillBegin
    BY <1>1 DEF KillBegin, RunTypeOK, Victim
  <1>2. CASE KillLook
    BY <1>2 DEF KillLook, KillNext, RunTypeOK, Victim
  <1>3. CASE KillProcess
    <2>1. live' \in SUBSET Calls
      BY <1>3 DEF KillProcess, RunTypeOK
    <2>2. inCheck' \in [1 .. N -> BOOLEAN]
      BY <1>3 DEF KillProcess, RunTypeOK
    <2>3. /\ victim' \in 0 .. N /\ kpc' \in {"idle", "look", "kill", "clear"}
          /\ Victim'
      BY <1>3 DEF KillProcess, KillNext, RunTypeOK, Victim
    <2> QED  BY <1>3, <2>1, <2>2, <2>3 DEF KillProcess, RunTypeOK
  <1>4. CASE KillClear
    BY <1>4 DEF KillClear, KillNext, RunTypeOK, Victim
  <1> QED  BY <1>1, <1>2, <1>3, <1>4 DEF Kill

LEMMA CallsKeepVictim ==
  ASSUME Victim, NEW c \in Calls,
         \/ \E counted \in BOOLEAN : Precheck(c, counted)
         \/ BadArgs(c) \/ Begin(c) \/ Step(c) \/ StartProcess(c)
         \/ ProcessEnds(c)
  PROVE  Victim'
  BY DEF Precheck, BadArgs, Begin, Step, StartProcess, ProcessEnds, Test, Busy,
         Enter, CheckReturns, CheckRaises, ResetProcess, RecordResult, Final, Return,
         Suggest, Victim

LEMMA NextType ==
  ASSUME RunTypeOK, Victim, [RunNext]_runVars
  PROVE  RunTypeOK' /\ Victim'
  <1>1. ASSUME NEW c \in Calls, NEW counted \in BOOLEAN,
               Precheck(c, counted) \/ BadArgs(c) \/ Begin(c)
        PROVE  RunTypeOK' /\ Victim'
    BY <1>1, BeginType, CallsKeepVictim
  <1>2. ASSUME NEW c \in Calls, Step(c) \/ StartProcess(c) \/ ProcessEnds(c)
        PROVE  RunTypeOK' /\ Victim'
    BY <1>2, StepType, CallsKeepVictim
  <1>3. CASE Kill
    BY <1>3, KillType
  <1>4. CASE UNCHANGED runVars
    BY <1>4 DEF runVars, RunTypeOK, Victim
  <1> QED  BY <1>1, <1>2, <1>3, <1>4 DEF RunNext, Finished

----------------------------------------------------------------------------
(* No checker is locked out.                                               *)

\* A checker that is marked as busy has a call in it, which will clear the
\* mark whatever it returns or raises.
BusyHasCall ==
  \A k \in Checkers :
    inCheck[k] => \E c \in Calls : /\ at[c] = k
                                   /\ pc[c] \in {"checking", "waiting"}

LEMMA BusyStep ==
  ASSUME RunTypeOK, BusyHasCall, NEW c \in Calls,
         \/ \E counted \in BOOLEAN : Precheck(c, counted)
         \/ BadArgs(c) \/ Begin(c) \/ Step(c) \/ StartProcess(c)
         \/ ProcessEnds(c)
  PROVE  BusyHasCall'
  <1> USE DEF Goto
  \* a call that is in no checker, before the step and after it
  <1>1. CASE /\ pc[c] \notin {"checking", "waiting"}
             /\ \A d \in Calls \ {c} : pc'[d] = pc[d] /\ at'[d] = at[d]
             /\ inCheck' = inCheck
    BY <1>1 DEF BusyHasCall
  <1>2. CASE Enter(c)
    <2>1. SUFFICES ASSUME NEW k \in Checkers, inCheck'[k]
                   PROVE  \E d \in Calls : /\ at'[d] = k
                                           /\ pc'[d] \in {"checking", "waiting"}
      BY DEF BusyHasCall
    <2>2. CASE k = at[c]
      BY <1>2, <2>2 DEF Enter, RunTypeOK
    <2>3. CASE k # at[c]
      <3>1. inCheck[k]
        BY <1>2, <2>1, <2>3 DEF Enter, RunTypeOK
      <3>2. PICK d \in Calls : at[d] = k /\ pc[d] \in {"checking", "waiting"}
        BY <3>1 DEF BusyHasCall
      <3> QED  BY <1>2, <2>3, <3>2 DEF Enter, RunTypeOK
    <2> QED  BY <2>2, <2>3
  <1>3. CASE StartProcess(c) \/ ProcessEnds(c)
    <2>1. /\ at' = at /\ inCheck' = inCheck
          /\ \A d \in Calls : pc[d] \in {"checking", "waiting"}
                                => pc'[d] \in {"checking", "waiting"}
      BY <1>3 DEF StartProcess, ProcessEnds, RunTypeOK
    <2> QED  BY <2>1 DEF BusyHasCall
  <1>4. CASE /\ inCheck' = [inCheck EXCEPT ![at[c]] = FALSE]
             /\ at' = at
             /\ \A d \in Calls \ {c} : pc'[d] = pc[d]
    <2>1. SUFFICES ASSUME NEW k \in Checkers, inCheck'[k]
                   PROVE  \E d \in Calls : /\ at'[d] = k
                                           /\ pc'[d] \in {"checking", "waiting"}
      BY DEF BusyHasCall
    <2>2. k # at[c] /\ inCheck[k]
      BY <1>4, <2>1 DEF RunTypeOK
    <2>3. PICK d \in Calls : at[d] = k /\ pc[d] \in {"checking", "waiting"}
      BY <2>2 DEF BusyHasCall
    <2> QED  BY <1>4, <2>2, <2>3
  <1>5. ASSUME NEW good \in BOOLEAN, NEW batch \in BOOLEAN,
               CheckReturns(c, good, batch)
        PROVE  BusyHasCall'
    BY <1>4, <1>5 DEF CheckReturns, RunTypeOK
  <1>6. CASE CheckRaises(c)
    BY <1>4, <1>6 DEF CheckRaises, RunTypeOK
  <1>7. CASE (\E counted \in BOOLEAN : Precheck(c, counted))
             \/ BadArgs(c) \/ Begin(c)
    BY <1>1, <1>7 DEF Precheck, BadArgs, Begin, RunTypeOK
  <1>8. CASE Test(c) \/ Busy(c) \/ ResetProcess(c) \/ RecordResult(c) \/ Final(c)
             \/ Return(c) \/ Suggest(c)
    BY <1>1, <1>8 DEF Test, Busy, ResetProcess, RecordResult, Final, Return,
                      Suggest, RunTypeOK
  <1> QED  BY <1>2, <1>3, <1>5, <1>6, <1>7, <1>8 DEF Step

LEMMA BusyKill ==
  ASSUME RunTypeOK, Victim, BusyHasCall, Kill
  PROVE  BusyHasCall'
  <1>1. /\ UNCHANGED <<pc, at>>
        /\ \/ inCheck' = inCheck
           \/ inCheck' = [inCheck EXCEPT ![victim] = FALSE]
    BY DEF Kill, KillBegin, KillLook, KillProcess, KillClear
  <1>2. \A k \in Checkers : inCheck'[k] => inCheck[k]
    BY <1>1 DEF RunTypeOK
  <1> QED  BY <1>1, <1>2 DEF BusyHasCall

LEMMA BusyInvariant == RunSpec => [](RunTypeOK /\ Victim /\ BusyHasCall)
  <1>1. RunInit => RunTypeOK /\ Victim /\ BusyHasCall
    BY InitType DEF RunInit, Victim, BusyHasCall
  <1>2. RunTypeOK /\ Victim /\ BusyHasCall /\ [RunNext]_runVars
          => RunTypeOK' /\ Victim' /\ BusyHasCall'
    <2>1. SUFFICES ASSUME RunTypeOK, Victim, BusyHasCall, [RunNext]_runVars
                   PROVE  BusyHasCall'
      BY NextType
    <2>2. CASE Kill
      BY <2>1, <2>2, BusyKill
    <2>3. CASE UNCHANGED runVars
      BY <2>1, <2>3 DEF runVars, BusyHasCall
    <2> QED  BY <2>1, <2>2, <2>3, BusyStep DEF RunNext, Finished
  <1> QED  BY <1>1, <1>2, PTL DEF RunSpec

\* is_in_check never locks a checker out: when no call is in progress it is
\* not set, whatever was killed, raised or overlapped before.
THEOREM CheckersComeFree == RunSpec => []NoCheckerLockedOut
  <1>1. BusyHasCall => NoCheckerLockedOut
    BY DEF BusyHasCall, NoCheckerLockedOut, Running
  <1> QED  BY <1>1, BusyInvariant, PTL

----------------------------------------------------------------------------
(* A pass is earned by a call that met no other.                           *)

\* A call that has met no other is the only one running.
Alone ==
  \A c \in Calls \ met : Running(c) => \A d \in Calls \ {c} : ~Running(d)

\* What the shared and the private fields say of such a call: the checkers
\* before the one it is at have passed, and it only, and check_pass stands
\* until a failure is recorded.  At the end of the call the count of failures
\* is one ahead of the row, if it failed.
Earned(c) ==
  /\ pc[c] = "idle" => at[c] = 1 /\ passed[c] = {} /\ verdict[c] = "none"
  /\ pc[c] \in {"test", "busy", "enter", "checking", "waiting"} =>
       checkPass /\ passed[c] = 1 .. at[c] - 1
  /\ pc[c] \in {"left", "record"} =>
       /\ checkPass
       /\ passed[c] = IF ok[c] THEN 1 .. at[c] ELSE 1 .. at[c] - 1
  /\ pc[c] \in {"final", "return"} => (checkPass <=> passed[c] = Checkers)
  /\ pc[c] = "return" => IF checkPass THEN continued = 0
                         ELSE row # Unknown => continued = row + 1
  /\ pc[c] \in {"suggest", "done"} /\ verdict[c] \in {"pass", "fail"} =>
       (verdict[c] = "pass" <=> passed[c] = Checkers)
  /\ pc[c] \notin {"suggest", "done"} => verdict[c] = "none"
  /\ pc[c] # "done" => c \notin asked

\* A row that is known is the row of calls that met no other, and the count of
\* failures is that row but for a call about to return.
RowCounted ==
  row # Unknown =>
    /\ \A c \in Calls : Running(c) => c \notin met
    /\ (\A c \in Calls : pc[c] # "return") => continued = row

\* A call that has not begun has met no other.
Unmet == \A c \in Calls : pc[c] = "idle" => c \notin met

EarnInv ==
  /\ RunTypeOK
  /\ Victim
  /\ Alone
  /\ Unmet
  /\ RowCounted
  /\ \A c \in Calls \ met : Earned(c)

\* The checkers up to one that is not the last are not all checkers.
LEMMA NotAllCheckers ==
  /\ Checkers # {}
  /\ \A k \in Checkers : Checkers # 1 .. k - 1
  <1>1. N \in Checkers
    OBVIOUS
  <1>2. \A k \in Checkers : k \notin 1 .. k - 1
    OBVIOUS
  <1> QED  BY <1>1, <1>2

\* A call that begins, alone or not, leaves the calls of the past alone, and
\* makes all that run know of each other.
LEMMA BeginEarned ==
  ASSUME EarnInv, NEW c \in Calls, NEW counted \in BOOLEAN,
         Precheck(c, counted) \/ BadArgs(c) \/ Begin(c)
  PROVE  EarnInv'
  <1> USE DEF EarnInv, Goto
  <1>1. RunTypeOK' /\ Victim'
    BY BeginType, CallsKeepVictim
  <1>2. /\ pc[c] = "idle" /\ Meets(c)
        /\ \A d \in Calls \ {c} : pc'[d] = pc[d] /\ verdict'[d] = verdict[d]
        /\ UNCHANGED <<at, ok, passed, asked>>
        /\ pc'[c] \in {"test", "suggest"}
    BY DEF Precheck, BadArgs, Begin, RunTypeOK
  <1>3. met \subseteq met'
    BY <1>2 DEF Meets
  <1>4. \A d \in Calls \ met' : d # c => ~Running(d)
    BY <1>2 DEF Meets, Others
  <1>5. Alone'
    <2>1. \A d \in Calls \ {c} : Running(d)' <=> Running(d)
      BY <1>2 DEF Running
    <2>2. c \notin met' => \A d \in Calls \ {c} : ~Running(d)
      BY <1>2 DEF Meets, Others
    <2> QED  BY <1>4, <2>1, <2>2 DEF Alone
  <1>6. ASSUME NEW d \in Calls \ met', d # c  PROVE Earned(d)'
    <2>1. pc[d] \in {"idle", "done"} /\ Earned(d)
      BY <1>3, <1>4, <1>6 DEF Running
    <2> QED  BY <1>2, <1>6, <2>1 DEF Earned
  <1>7. c \notin met' => Earned(c)'
    <2>1. SUFFICES ASSUME c \notin met'  PROVE Earned(c)'
      OBVIOUS
    <2>2. at[c] = 1 /\ passed[c] = {} /\ verdict[c] = "none" /\ c \notin asked'
      BY <1>2, <1>3, <2>1 DEF Earned
    <2>3. CASE Begin(c)
      BY <2>2, <2>3 DEF Begin, Earned, RunTypeOK
    <2>4. CASE Precheck(c, counted) \/ BadArgs(c)
      <3>1. /\ pc'[c] = "suggest" /\ verdict'[c] = "fail"
            /\ passed'[c] = {}
        BY <2>2, <2>4 DEF Precheck, BadArgs, RunTypeOK
      <3> QED  BY <2>2, <3>1, NotAllCheckers DEF Earned
    <2> QED  BY <2>3, <2>4
  <1>8. RowCounted'
    <2>1. SUFFICES ASSUME row' # Unknown  PROVE RowCounted'
      BY DEF RowCounted
    <2>2. Others(c) = {} /\ row # Unknown
      BY <2>1 DEF Precheck, BadArgs, Begin, RowOf, Longer
    <2>3. \A d \in Calls \ {c} : ~Running(d)'
      BY <1>2, <2>2 DEF Others, Running
    <2>4. c \notin met'
      BY <1>2, <2>2 DEF Meets, Unmet
    <2>5. continued = row
      <3>1. \A d \in Calls : pc[d] # "return"
        BY <1>2, <2>2 DEF Others, Running
      <3> QED  BY <2>2, <3>1 DEF RowCounted
    <2>6. continued' = row'
      BY <2>2, <2>5 DEF Precheck, BadArgs, Begin, RowOf, Longer, RunTypeOK
    <2> QED  BY <2>3, <2>4, <2>6 DEF RowCounted
  <1>9. Unmet'
    <2>1. SUFFICES ASSUME NEW d \in Calls, pc'[d] = "idle"  PROVE d \notin met'
      BY DEF Unmet
    <2>2. d # c /\ pc[d] = "idle"
      BY <1>2, <2>1
    <2>3. d \notin met /\ d \notin Others(c)
      BY <2>2 DEF Unmet, Others, Running
    <2> QED  BY <1>2, <2>2, <2>3 DEF Meets
  <1> QED  BY <1>1, <1>5, <1>6, <1>7, <1>8, <1>9

\* A step of a running call: other calls that met none do not run.
LEMMA StepEarned ==
  ASSUME EarnInv, NEW c \in Calls,
         Step(c) \/ StartProcess(c) \/ (ProcessEnds(c) /\ Running(c))
  PROVE  EarnInv'
  <1> USE DEF EarnInv, Goto
  <1>1. RunTypeOK' /\ Victim'
    BY StepType, CallsKeepVictim
  <1>2. /\ Running(c) /\ met' = met
        /\ \A d \in Calls \ {c} :
             /\ pc'[d] = pc[d] /\ at'[d] = at[d] /\ passed'[d] = passed[d]
             /\ verdict'[d] = verdict[d] /\ (d \in asked' <=> d \in asked)
    BY DEF Step, StartProcess, ProcessEnds, Test, Busy, Enter, CheckReturns,
           CheckRaises, ResetProcess, RecordResult, Final, Return, Suggest,
           Returned, Running, RunTypeOK
  <1>3. Alone'
    BY <1>2 DEF Alone, Running
  <1>4. ASSUME NEW d \in Calls \ met, d # c  PROVE Earned(d)'
    <2>1. pc[d] \in {"idle", "done"} /\ Earned(d)
      BY <1>2, <1>4 DEF Alone, Running
    <2> QED  BY <1>2, <1>4, <2>1 DEF Earned
  <1>5. ASSUME c \notin met  PROVE Earned(c)'
    <2>1. Earned(c)
      BY <1>5
    <2>2. CASE Test(c)
      BY <2>1, <2>2 DEF Test, Earned, RunTypeOK
    <2>3. CASE Busy(c)
      BY <2>1, <2>3 DEF Busy, Earned, RunTypeOK
    <2>4. CASE Enter(c) \/ StartProcess(c) \/ ProcessEnds(c)
      BY <2>1, <2>4 DEF Enter, StartProcess, ProcessEnds, Earned, RunTypeOK
    <2>5. ASSUME NEW good \in BOOLEAN, NEW batch \in BOOLEAN,
                 CheckReturns(c, good, batch)
          PROVE  Earned(c)'
      <3>1. checkPass' /\ passed[c] = 1 .. at[c] - 1
        BY <2>1, <2>5 DEF CheckReturns, Returned, Earned
      <3>2. (1 .. at[c] - 1) \cup {at[c]} = 1 .. at[c]
        BY DEF RunTypeOK
      <3>3. pc'[c] = "left" /\ at' = at /\ ok'[c] = good
        BY <2>5 DEF CheckReturns, RunTypeOK
      <3>4. passed'[c] = IF good THEN 1 .. at[c] ELSE 1 .. at[c] - 1
        BY <2>5, <3>1, <3>2 DEF CheckReturns, RunTypeOK
      <3>5. verdict'[c] = "none" /\ c \notin asked'
        BY <2>1, <2>5 DEF CheckReturns, Returned, Earned
      <3> QED  BY <3>1, <3>3, <3>4, <3>5 DEF Earned
    <2>6. CASE CheckRaises(c)
      BY <2>1, <2>6 DEF CheckRaises, Returned, Earned, RunTypeOK
    <2>7. CASE ResetProcess(c)
      BY <2>1, <2>7 DEF ResetProcess, Earned, RunTypeOK
    <2>8. CASE RecordResult(c)
      <3>1. /\ checkPass /\ verdict[c] = "none" /\ c \notin asked
            /\ passed[c] = IF ok[c] THEN 1 .. at[c] ELSE 1 .. at[c] - 1
        BY <2>1, <2>8 DEF RecordResult, Earned
      <3>2. CASE ok[c] /\ at[c] < N
        BY <2>8, <3>1, <3>2 DEF RecordResult, Earned, RunTypeOK
      <3>3. CASE ok[c] /\ ~(at[c] < N)
        <4>1. at[c] = N
          BY <3>3 DEF RunTypeOK
        <4> QED  BY <2>8, <3>1, <3>3, <4>1 DEF RecordResult, Earned, RunTypeOK
      <3>4. CASE ~ok[c]
        <4>1. passed[c] # Checkers
          BY <3>1, <3>4, NotAllCheckers DEF RunTypeOK
        <4> QED  BY <2>8, <3>1, <3>4, <4>1 DEF RecordResult, Earned, RunTypeOK
      <3> QED  BY <3>2, <3>3, <3>4
    <2>9. CASE Final(c)
      <3>1. row # Unknown => continued = row
        <4>1. \A d \in Calls : pc[d] # "return"
          BY <1>2, <1>5, <2>9 DEF Alone, Final, Running
        <4> QED  BY <4>1 DEF RowCounted
      <3>2. /\ pc'[c] = "return" /\ row' = row /\ checkPass' = checkPass
            /\ continued' = IF checkPass THEN 0 ELSE continued + 1
            /\ passed' = passed /\ verdict' = verdict /\ asked' = asked
        BY <2>9 DEF Final, RunTypeOK
      <3>3. /\ checkPass <=> passed[c] = Checkers
            /\ verdict[c] = "none" /\ c \notin asked
        BY <2>1, <2>9 DEF Final, Earned
      <3> QED  BY <3>1, <3>2, <3>3 DEF Earned
    <2>10. CASE Return(c)
      BY <2>1, <2>10 DEF Return, Earned, RunTypeOK
    <2>11. CASE Suggest(c)
      BY <2>1, <2>11 DEF Suggest, Earned, RunTypeOK
    <2> QED
      BY <2>2, <2>3, <2>4, <2>5, <2>6, <2>7, <2>8, <2>9, <2>10, <2>11 DEF Step
  <1>6. Unmet'
    BY <1>2 DEF Unmet, Running, Step, StartProcess, ProcessEnds, Test, Busy,
            Enter, CheckReturns, CheckRaises, ResetProcess, RecordResult, Final,
            Return, Suggest, Returned, RunTypeOK
  <1>7. RowCounted'
    <2>1. SUFFICES ASSUME row' # Unknown  PROVE RowCounted'
      BY DEF RowCounted
    <2>2. c \notin met
      <3>1. CASE row # Unknown
        BY <1>2, <3>1 DEF RowCounted
      <3>2. CASE row' # row
        BY <3>2 DEF Step, StartProcess, ProcessEnds, Test, Busy, Enter,
                CheckReturns, CheckRaises, ResetProcess, RecordResult, Final,
                Return, Suggest
      <3> QED  BY <2>1, <3>1, <3>2
    <2>3. \A d \in Calls \ {c} : ~Running(d) /\ ~Running(d)' /\ pc'[d] # "return"
      BY <1>2, <2>2 DEF Alone, Running
    <2>4. \A d \in Calls : Running(d)' => d \notin met'
      BY <1>2, <2>2, <2>3
    <2>5. ASSUME pc'[c] # "return"  PROVE continued' = row'
      <3>1. row # Unknown /\ pc[c] # "return" => continued = row
        BY <1>2, <2>3 DEF RowCounted, Running
      <3>2. ~Final(c)
        BY <2>5 DEF Final, RunTypeOK
      <3>3. CASE Return(c)
        <4>1. /\ checkPass <=> passed[c] = Checkers
              /\ IF checkPass THEN continued = 0
                 ELSE row # Unknown => continued = row + 1
          BY <2>2, <3>3 DEF Return, Earned
        <4> QED  BY <2>1, <2>2, <3>3, <4>1 DEF Return, Longer, RunTypeOK
      <3>4. ASSUME NEW good \in BOOLEAN, NEW batch \in BOOLEAN,
                   CheckReturns(c, good, batch)
            PROVE  continued' = row'
        BY <2>1, <2>2, <3>1, <3>4 DEF CheckReturns, Returned
      <3>5. CASE ProcessEnds(c)
        BY <2>1, <2>5, <3>1, <3>5 DEF ProcessEnds
      <3>6. CASE \/ Test(c) \/ Busy(c) \/ Enter(c) \/ StartProcess(c)
                 \/ CheckRaises(c) \/ ResetProcess(c) \/ RecordResult(c)
                 \/ Suggest(c)
        BY <2>1, <3>1, <3>6
           DEF Test, Busy, Enter, StartProcess, CheckRaises, ResetProcess,
               RecordResult, Suggest, Returned
      <3> QED  BY <3>2, <3>3, <3>4, <3>5, <3>6 DEF Step
    <2> QED  BY <2>3, <2>4, <2>5 DEF RowCounted
  <1> QED  BY <1>1, <1>2, <1>3, <1>4, <1>5, <1>6, <1>7

\* Kills and subprocesses touch nothing a verdict depends on.
LEMMA OtherEarned ==
  ASSUME EarnInv,
         \/ Kill
         \/ \E c \in Calls : ProcessEnds(c)
         \/ UNCHANGED runVars
  PROVE  EarnInv'
  <1>1. UNCHANGED <<pc, at, checkPass, continued, ok, passed, met, verdict,
                    asked, row>>
    BY DEF Kill, KillBegin, KillLook, KillProcess, KillClear, ProcessEnds, runVars
  <1>2. RunTypeOK' /\ Victim'
    BY NextType DEF EarnInv, RunNext
  <1> QED
    BY <1>1, <1>2 DEF EarnInv, Alone, Unmet, RowCounted, Earned, Running

LEMMA EarnInvariant == RunSpec => []EarnInv
  <1>1. RunInit => EarnInv
    BY InitType DEF RunInit, EarnInv, Victim, Alone, Unmet, RowCounted, Earned,
                    Running, Unknown
  <1>2. EarnInv /\ [RunNext]_runVars => EarnInv'
    BY BeginEarned, StepEarned, OtherEarned DEF RunNext, Finished
  <1> QED  BY <1>1, <1>2, PTL DEF RunSpec

\* A call that met no other passes exactly when every checker of the stage has
\* passed in this very call, whatever earlier calls and kills left behind.
THEOREM PassesAreEarned == RunSpec => []PassIsEarned
  <1>1. EarnInv => PassIsEarned
    BY DEF EarnInv, Earned, PassIsEarned
  <1> QED  BY <1>1, EarnInvariant, PTL

\* The other LLM is asked for help exactly after MinFail failures in a row,
\* for any number of calls before and whatever they and the kills have left.
THEOREM HelpIsInTime == RunSpec => HelpAfterRow
  <1>1. ASSUME EarnInv, [RunNext]_runVars, NEW c \in Calls \ met,
               pc[c] = "suggest", pc'[c] = "done", row # Unknown
        PROVE  c \in asked' <=> row >= MinFail
    <2>1. Suggest(c)
      <3>1. \A d \in Calls \ {c} : ~Running(d)
        BY <1>1 DEF EarnInv, Alone, Running
      <3>2. ASSUME NEW d \in Calls, NEW counted \in BOOLEAN,
                   Precheck(d, counted) \/ BadArgs(d) \/ Begin(d)
            PROVE  FALSE
        BY <1>1, <3>2 DEF Precheck, BadArgs, Begin, Goto, EarnInv, RunTypeOK
      <3>3. ASSUME NEW d \in Calls, Step(d) \/ StartProcess(d)
            PROVE  d = c
        <4>1. Running(d)
          BY <3>3 DEF Step, StartProcess, Test, Busy, Enter, CheckReturns,
                      CheckRaises, ResetProcess, RecordResult, Final, Return,
                      Suggest, Returned, Running
        <4> QED  BY <3>1, <4>1
      <3>4. ~Kill /\ ~UNCHANGED runVars /\ \A d \in Calls : ~ProcessEnds(d)
        BY <1>1 DEF Kill, KillBegin, KillLook, KillProcess, KillClear,
                    ProcessEnds, runVars
      <3>5. ~StartProcess(c)
        BY <1>1 DEF StartProcess
      <3>6. Step(c) => Suggest(c)
        BY <1>1 DEF Step, Test, Busy, Enter, CheckReturns, CheckRaises,
                    ResetProcess, RecordResult, Final, Return, Returned
      <3> QED
        BY <1>1, <3>2, <3>3, <3>4, <3>5, <3>6 DEF RunNext, Finished
    <2>2. continued = row
      <3>1. \A d \in Calls : pc[d] # "return"
        BY <1>1 DEF EarnInv, Alone, Running
      <3> QED  BY <1>1, <3>1 DEF EarnInv, RowCounted
    <2>3. c \notin asked
      BY <1>1 DEF EarnInv, Earned
    <2> QED
      BY <1>1, <2>1, <2>2, <2>3 DEF Suggest, EarnInv, RunTypeOK, Unknown
  <1>2. EarnInv /\ [RunNext]_runVars =>
          [ \A c \in Calls \ met :
              pc[c] = "suggest" /\ pc'[c] = "done" /\ row # Unknown =>
                (c \in asked' <=> row >= MinFail) ]_runVars
    BY <1>1
  <1> QED  BY <1>2, EarnInvariant, PTL DEF RunSpec, HelpAfterRow
=============================================================================
