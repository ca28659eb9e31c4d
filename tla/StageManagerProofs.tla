------------------------ MODULE StageManagerProofs ------------------------
(***************************************************************************)
(* Theorems about StageManager for any number of stages, any stage tree,   *)
(* any configuration and any number of restarts.                           *)
(***************************************************************************)
EXTENDS StageManager, TLAPS

\* The LLM client runs one tool at a time.
Serial == Parallel = FALSE

USE StagesAssumption, PartsAssumption, ConfigAssumption, InputsAssumption
USE DEF place, work, flags, gate, agent, disk

----------------------------------------------------------------------------
(* Lemmas about the helpers of the code. *)

\* A manager settles inside the list.
LEMMA GoSkipRange ==
  ASSUME NEW a, NEW b, NEW skip, GoSkip(a, b, skip)
  PROVE  b \in a .. N /\ \A i \in a .. b - 1 : i \in skip
  BY DEF GoSkip

\* The index the manager starts with is an index or the end of the list.
LEMMA EntryInRange ==
  ASSUME TypeOK, NEW force \in ForceArgs
  PROVE  EntryIndex(force) \in 0 .. N
  BY DEF TypeOK, InfoType, EntryIndex

\* What is restored is a set of stages, all of them saved as completed.
LEMMA RestoredIsSaved ==
  ASSUME TypeOK, NEW force \in ForceArgs
  PROVE  /\ KnownFor(force) \in SUBSET Stage
         /\ RestoredDone(force) \in SUBSET Stage
         /\ RestoredDone(force) \subseteq saved.done
  BY DEF TypeOK, InfoType, KnownFor, RestoredDone

\* A snapshot of well-typed parts is a well-typed record.
LEMMA SnapshotType ==
  ASSUME NEW i \in 0 .. N, NEW d \in SUBSET Stage, NEW k \in SUBSET Stage,
         NEW j \in SUBSET Stage
  PROVE  Snapshot(i, d, k, j) \in InfoType
  BY DEF Snapshot, InfoType

LEMMA NoCallType == NoCall \in CallType
  <1>1. 0 \in Stage
    BY DEF Stage
  <1> QED  BY <1>1 DEF NoCall, CallType, PCs

\* The steps of a Complete call keep the record of the call well typed.
LEMMA CallMoves ==
  ASSUME NEW c \in CallType, NEW p \in PCs
  PROVE  [c EXCEPT !.pc = p] \in CallType
  BY DEF CallType

LEMMA CallVotes ==
  ASSUME NEW c \in CallType, NEW v \in {"none", "yes", "no", "raised"}
  PROVE  /\ [c EXCEPT !.vote = v] \in CallType
         /\ [c EXCEPT !.pc = "gating", !.vote = v] \in CallType
  <1>1. [c EXCEPT !.vote = v] \in CallType
    BY DEF CallType
  <1>2. [c EXCEPT !.pc = "gating", !.vote = v] \in CallType
    BY DEF CallType, PCs
  <1> QED  BY <1>1, <1>2

LEMMA CallReads ==
  ASSUME NEW c \in CallType, NEW s \in Stage
  PROVE  /\ [c EXCEPT !.pc = "gating", !.stage = s] \in CallType
         /\ [c EXCEPT !.pc = "closing", !.stage = s] \in CallType
         /\ [c EXCEPT !.pc = "review", !.stage = s, !.asked = TRUE]
              \in CallType
  <1>1. [c EXCEPT !.pc = "gating", !.stage = s] \in CallType
    BY DEF CallType, PCs
  <1>2. [c EXCEPT !.pc = "closing", !.stage = s] \in CallType
    BY DEF CallType, PCs
  <1>3. [c EXCEPT !.pc = "review", !.stage = s, !.asked = TRUE] \in CallType
    BY DEF CallType, PCs
  <1> QED  BY <1>1, <1>2, <1>3

\* A well-typed manager stays well typed when a process starts.
LEMMA StartType ==
  ASSUME TypeOK, NEW force \in ForceArgs, NEW add \in SkipArgs,
         NEW del \in UnskipArgs, Start(force, add, del)
  PROVE  TypeOK'
  <1>1. PICK b \in 0 .. N :
          LET skip0 == LoadedSkip(KnownFor(force))
          IN  /\ GoSkip(EntryIndex(force), b, skip0)
              /\ IF b \in add
                 THEN /\ proc' = "crashed"
                      /\ UNCHANGED <<memory, saved, starts, waived>>
                 ELSE /\ proc' = "up"
                      /\ starts' = starts + 1
                      /\ Load(force, b, skip0, add, del)
    BY DEF Start
  <1>2. CASE b \in add
    BY <1>1, <1>2 DEF TypeOK, memory
  <1>3. CASE b \notin add
    <2> DEFINE skip0 == LoadedSkip(KnownFor(force))
    <2> HIDE DEF skip0
    <2>1. /\ proc' = "up"
          /\ starts' = starts + 1
          /\ Load(force, b, skip0, add, del)
      BY <1>1, <1>3 DEF skip0
    <2>2. starts' \in 0 .. MaxStarts
      BY <2>1 DEF Start, TypeOK
    <2>3. skip0 \in SUBSET Stage
      BY DEF skip0, LoadedSkip
    <2>4. skipped' \in SUBSET Stage
      BY <2>1, <2>3 DEF Load
    <2>5. /\ idx' \in 0 .. N
          /\ reached' \in SUBSET Stage
          /\ inited' \in SUBSET Stage
          /\ ended' \in SUBSET Stage
          /\ done' \in SUBSET Stage
          /\ journal' \in SUBSET Stage
          /\ human' \in SUBSET Stage
          /\ refused' \in SUBSET Stage
      BY <2>1, RestoredIsSaved DEF Load, TypeOK, InfoType
    <2>6. waived' \in SUBSET Stage
      BY <2>1 DEF Load, TypeOK
    <2>7. saved' \in InfoType
      <3>1. saved' = Snapshot(idx', done', skipped', journal')
        BY <2>1 DEF Load
      <3> QED  BY <3>1, <2>4, <2>5, SnapshotType
    <2>8. /\ verdict' \in [Stage -> {"none", "pass", "fail"}]
          /\ review' \in [Stage -> {"default", "on", "off"}]
          /\ needHuman' \in BOOLEAN
          /\ exited' \in BOOLEAN
          /\ call' \in CallType
      <3>1. call' = NoCall
        BY <2>1 DEF Load
      <3> QED  BY <2>1, <3>1, NoCallType DEF Load
    <2> QED
      BY <2>1, <2>2, <2>4, <2>5, <2>6, <2>7, <2>8 DEF TypeOK
  <1> QED  BY <1>2, <1>3

\* The process ends: everything in memory is lost.
LEMMA BlankType ==
  ASSUME Blank
  PROVE  /\ idx' \in 0 .. N
         /\ reached' = {} /\ inited' = {} /\ ended' = {} /\ done' = {}
         /\ skipped' = {} /\ journal' = {} /\ human' = {} /\ refused' = {}
         /\ verdict' \in [Stage -> {"none", "pass", "fail"}]
         /\ review' \in [Stage -> {"default", "on", "off"}]
         /\ needHuman' \in BOOLEAN
         /\ exited' \in BOOLEAN
         /\ call' \in CallType
  <1>1. idx' \in 0 .. N
    BY DEF Blank
  <1>2. call' \in CallType
    BY NoCallType DEF Blank
  <1> QED  BY <1>1, <1>2 DEF Blank

LEMMA InitType == Init => TypeOK
  <1>1. SUFFICES ASSUME Init PROVE TypeOK
    OBVIOUS
  <1>2. NoCall \in CallType /\ 0 \in 0 .. N /\ 0 \in 0 .. MaxStarts
    BY NoCallType
  <1>3. NoInfo \in InfoType
    BY DEF NoInfo, InfoType
  <1> QED  BY <1>1, <1>2, <1>3 DEF Init, TypeOK, CallType

\* Every step keeps the state well typed.
LEMMA NextType ==
  ASSUME TypeOK, [Next]_vars
  PROVE  TypeOK'
  <1> USE DEF TypeOK
  <1>1. CASE Check
    BY <1>1 DEF Check, Stage
  <1>2. ASSUME NEW i \in GotoArgs, GoToStage(i)  PROVE TypeOK'
    BY <1>2 DEF GoToStage, Stage
  <1>3. CASE SetCurrentStageJournal
    BY <1>3 DEF SetCurrentStageJournal, Stage
  <1>4. CASE Exit
    BY <1>4, SnapshotType DEF Exit
  <1>5. CASE CompleteBegin
    <2>1. idx \in Stage
      BY <1>5 DEF CompleteBegin, Stage
    <2>2. call' \in CallType
      BY <1>5, <2>1 DEF CompleteBegin, Step, NoCall, CallType, PCs
    <2> QED  BY <1>5, <2>1, <2>2 DEF CompleteBegin
  <1>6. CASE CompleteCheckFails
    BY <1>6, NoCallType DEF CompleteCheckFails, Step
  <1>7. CASE CompleteCheckPasses
    <2>1. idx # N => idx \in Stage
      BY DEF Stage
    <2>3. call' \in CallType
      <3>1. \/ call' = NoCall
            \/ /\ idx # N
               /\ \/ call' = [call EXCEPT !.pc = "review", !.stage = idx,
                                          !.asked = TRUE]
                  \/ call' = [call EXCEPT !.pc = "gating", !.stage = idx]
        BY <1>7 DEF CompleteCheckPasses, Step
      <3>2. CASE call' = NoCall
        BY <3>2, NoCallType
      <3>3. CASE call' # NoCall
        <4>1. idx \in Stage /\ call \in CallType
          BY <2>1, <3>1, <3>3
        <4>2. /\ [call EXCEPT !.pc = "gating", !.stage = idx] \in CallType
              /\ [call EXCEPT !.pc = "review", !.stage = idx, !.asked = TRUE]
                   \in CallType
          BY <4>1, CallReads
        <4> QED  BY <3>1, <3>3, <4>2
      <3> QED  BY <3>2, <3>3
    <2>4. refused' \in SUBSET Stage
      BY <1>7, <2>1 DEF CompleteCheckPasses
    <2> QED  BY <1>7, <2>3, <2>4 DEF CompleteCheckPasses
  <1>8. ASSUME NEW yes \in BOOLEAN, Approve(yes)  PROVE TypeOK'
    <2>1. idx \in Stage
      BY <1>8 DEF Approve, Stage
    <2>2. \/ call' = [call EXCEPT !.vote = "yes"]
          \/ call' = [call EXCEPT !.vote = "no"]
      BY <1>8 DEF Approve, Step
    <2>3. call' \in CallType
      BY <2>2, CallVotes
    <2>4. refused' \in SUBSET Stage
      BY <1>8, <2>1 DEF Approve
    <2> QED  BY <1>8, <2>3, <2>4 DEF Approve
  <1>9. CASE ReviewReturns
    <2>1. call' = [call EXCEPT !.pc = "gating"] /\ "gating" \in PCs
      BY <1>9 DEF ReviewReturns, Step, PCs
    <2>2. call' \in CallType
      BY <2>1, CallMoves
    <2> QED  BY <1>9, <2>2 DEF ReviewReturns
  <1>10. CASE ReviewRaises
    <2>1. call' = [call EXCEPT !.pc = "gating", !.vote = "raised"]
      BY <1>10 DEF ReviewRaises, Step
    <2>3. call' \in CallType
      BY <2>1, CallVotes
    <2> QED  BY <1>10, <2>3 DEF ReviewRaises
  <1>11. CASE CompleteGate
    <2>1. idx < N => idx \in Stage
      BY DEF Stage
    <2>2. call' \in CallType
      <3>1. \/ call' = NoCall
            \/ idx < N /\ call' = [call EXCEPT !.pc = "closing", !.stage = idx]
        BY <1>11 DEF CompleteGate, Step
      <3>2. CASE call' = NoCall
        BY <3>2, NoCallType
      <3>3. CASE call' # NoCall
        <4>1. idx \in Stage /\ call \in CallType
          BY <2>1, <3>1, <3>3
        <4>2. [call EXCEPT !.pc = "closing", !.stage = idx] \in CallType
          BY <4>1, CallReads
        <4> QED  BY <3>1, <3>3, <4>2
      <3> QED  BY <3>2, <3>3
    <2>3. needHuman' \in BOOLEAN
      BY <1>11 DEF CompleteGate
    <2> QED  BY <1>11, <2>2, <2>3 DEF CompleteGate
  <1>12. CASE CompleteClose
    <2>1. call' \in CallType
      <3>1. \/ call' = NoCall
            \/ call' = [call EXCEPT !.pc = "advancing"]
        BY <1>12 DEF CompleteClose, Step
      <3>2. "advancing" \in PCs
        BY DEF PCs
      <3> QED  BY <3>1, <3>2, NoCallType, CallMoves
    <2>2. ended' \in SUBSET Stage /\ done' \in SUBSET Stage
      <3>1. call.stage \in Stage
        BY DEF CallType
      <3> QED  BY <1>12, <3>1 DEF CompleteClose
    <2>3. saved' = saved \/ saved' = Snapshot(idx, done', skipped, journal)
      BY <1>12 DEF CompleteClose
    <2>4. saved' \in InfoType
      BY <2>2, <2>3, SnapshotType
    <2> QED  BY <1>12, <2>1, <2>2, <2>4 DEF CompleteClose
  <1>13. CASE CompleteAdvance
    <2>1. PICK b \in 0 .. N :
            /\ idx' = b
            /\ waived' = waived \cup {s \in Stage : idx < s /\ s < b}
            /\ saved' = Snapshot(b, done, skipped, journal)
            /\ IF AllCompleted(b, done, skipped)
               THEN UNCHANGED <<reached, inited>>
               ELSE /\ reached' = reached \cup {b}
                    /\ inited' = inited \cup {b}
      BY <1>13 DEF CompleteAdvance
    <2>2. ~AllCompleted(b, done, skipped) => b \in Stage
      BY DEF AllCompleted, Stage
    <2>3. call' \in CallType
      BY <1>13, NoCallType DEF CompleteAdvance, Step
    <2>4. saved' \in InfoType
      BY <2>1, SnapshotType
    <2>5. reached' \in SUBSET Stage /\ inited' \in SUBSET Stage
      BY <2>1, <2>2
    <2> QED  BY <1>13, <2>1, <2>3, <2>4, <2>5 DEF CompleteAdvance
  <1>14. ASSUME NEW s \in SkipCmds, NEW save \in BOOLEAN,
                SkipStage(s, save)
         PROVE  TypeOK'
    <2>1. skipped' \in SUBSET Stage
      BY <1>14 DEF SkipStage
    <2>2. saved' \in InfoType
      BY <1>14, <2>1, SnapshotType DEF SkipStage, SaveIf
    <2> QED  BY <1>14, <2>1, <2>2 DEF SkipStage
  <1>15. ASSUME NEW s \in SkipCmds, NEW save \in BOOLEAN,
                UnskipStage(s, save)
         PROVE  TypeOK'
    <2>1. skipped' \in SUBSET Stage
      BY <1>15 DEF UnskipStage
    <2>2. saved' \in InfoType
      BY <1>15, <2>1, SnapshotType DEF UnskipStage, SaveIf
    <2> QED  BY <1>15, <2>1, <2>2 DEF UnskipStage
  <1>16. ASSUME NEW v \in {"pass", "fail"}, HumanVerdict(v)  PROVE TypeOK'
    BY <1>16 DEF HumanVerdict
  <1>17. ASSUME NEW s \in HumanCmds, NEW need \in BOOLEAN,
                NEW save \in BOOLEAN, HumanNeeded(s, need, save)
         PROVE  TypeOK'
    <2>1. human' \in SUBSET Stage
      BY <1>17 DEF HumanNeeded
    <2> QED  BY <1>17, <2>1, SnapshotType DEF HumanNeeded, SaveIf
  <1>18. ASSUME NEW s \in ReviewCmds, NEW v \in {"default", "on", "off"},
                NEW save \in BOOLEAN, ReviewSet(s, v, save)
         PROVE  TypeOK'
    <2>1. review' \in [Stage -> {"default", "on", "off"}]
      BY <1>18 DEF ReviewSet
    <2> QED  BY <1>18, <2>1, SnapshotType DEF ReviewSet, SaveIf
  <1>19. CASE ResumeLoop
    BY <1>19 DEF ResumeLoop
  <1>20. CASE ExitUnset
    BY <1>20 DEF ExitUnset
  <1>21. ASSUME NEW force \in ForceArgs, NEW add \in SkipArgs,
                NEW del \in UnskipArgs, Start(force, add, del)
         PROVE  TypeOK'
    BY <1>21, StartType
  <1>22. CASE Crash
    BY <1>22, BlankType DEF Crash
  <1>23. CASE Quit
    BY <1>23, BlankType, SnapshotType DEF Quit
  <1>24. CASE Retry
    BY <1>24 DEF Retry, memory
  <1>25. CASE UNCHANGED vars
    BY <1>25 DEF vars, memory
  <1> QED
    BY <1>1, <1>2, <1>3, <1>4, <1>5, <1>6, <1>7, <1>8, <1>9, <1>10, <1>11,
       <1>12, <1>13, <1>14, <1>15, <1>16, <1>17, <1>18, <1>19, <1>20,
       <1>21, <1>22, <1>23, <1>24, <1>25
       DEF Next, Tools, Complete, User, ChangeFlags, Process

\* Type correctness: the manager, the call in progress and the saved file
\* keep their shapes, stage_index among them in 0 .. N, whatever happens.
THEOREM TypeCorrect == Spec => []TypeOK
  BY InitType, NextType, PTL DEF Spec

----------------------------------------------------------------------------
(* The order of the stages, for a client that runs one tool at a time.     *)

\* While Complete is between two of its steps, stage_index stays where it
\* was when the checkers were started: only tools move it.
CallHolds ==
  /\ call.pc # "idle" => /\ proc = "up"
                         /\ idx \in Stage
                         /\ call.stage = idx
                         /\ call.checked = idx
  /\ call.pc = "advancing" => idx \in done

\* A stage that ended is complete; what is recorded as completed has a record.
Recorded == ended \subseteq done /\ saved.done \subseteq saved.known

OrderInv ==
  TypeOK /\ CallHolds /\ Recorded /\ NothingOvertaken /\ SavedAccounted

LEMMA InitOrder == Init => OrderInv
  <1>1. Init => TypeOK
    BY InitType
  <1>2. Init => CallHolds
    BY DEF Init, CallHolds, NoCall
  <1>3. Init => Recorded /\ NothingOvertaken /\ SavedAccounted
    BY DEF Init, Recorded, NothingOvertaken, SavedAccounted, NoInfo, Stage
  <1> QED  BY <1>1, <1>2, <1>3 DEF OrderInv

\* Steps that change nothing the order of the stages depends on, but may
\* write the file.
Quiet ==
  /\ UNCHANGED <<proc, idx, ended, done, waived, call>>
  /\ reached' \subseteq reached \cup {idx}
  /\ \/ UNCHANGED saved
     \/ /\ proc = "up"
        /\ \E k, j : saved' = Snapshot(idx, done, k, j)

LEMMA QuietSteps ==
  ASSUME TypeOK, [Next]_vars
  PROVE  \/ Quiet
         \/ Complete
         \/ \E i \in GotoArgs : GoToStage(i)
         \/ Process
  <1>1. Check \/ SetCurrentStageJournal \/ ResumeLoop \/ ExitUnset => Quiet
    BY DEF Quiet, Check, SetCurrentStageJournal, ResumeLoop, ExitUnset
  <1>2. Exit => Quiet
    BY DEF Quiet, Exit, ToolMayStart
  <1>3. ASSUME NEW s \in SkipCmds, NEW save \in BOOLEAN,
               SkipStage(s, save) \/ UnskipStage(s, save)
        PROVE  Quiet
    BY <1>3 DEF Quiet, SkipStage, UnskipStage, SaveIf
  <1>4. ASSUME NEW v \in {"pass", "fail"}, HumanVerdict(v)
        PROVE  Quiet
    BY <1>4 DEF Quiet, HumanVerdict
  <1>5. ASSUME NEW s \in HumanCmds, NEW need \in BOOLEAN,
               NEW save \in BOOLEAN, HumanNeeded(s, need, save)
        PROVE  Quiet
    BY <1>5 DEF Quiet, HumanNeeded, SaveIf
  <1>6. ASSUME NEW s \in ReviewCmds, NEW v \in {"default", "on", "off"},
               NEW save \in BOOLEAN, ReviewSet(s, v, save)
        PROVE  Quiet
    BY <1>6 DEF Quiet, ReviewSet, SaveIf
  <1>7. UNCHANGED vars => Quiet
    BY DEF vars, memory, Quiet
  <1>8. User => Quiet
    BY <1>1, <1>3, <1>4, <1>5, <1>6 DEF User, ChangeFlags
  <1> QED
    BY <1>1, <1>2, <1>7, <1>8 DEF Next, Tools

LEMMA QuietOrder ==
  ASSUME OrderInv, Quiet
  PROVE  CallHolds' /\ Recorded' /\ NothingOvertaken' /\ SavedAccounted'
  <1> USE DEF OrderInv
  <1>1. CallHolds'
    BY DEF CallHolds, Quiet
  <1>2. NothingOvertaken'
    BY DEF NothingOvertaken, Accounted, Quiet, TypeOK, Stage
  <1>3. CASE UNCHANGED saved
    BY <1>1, <1>2, <1>3 DEF Recorded, SavedAccounted, Quiet
  <1>4. ASSUME proc = "up", NEW k, NEW j, saved' = Snapshot(idx, done, k, j)
        PROVE  Recorded' /\ SavedAccounted'
    <2>1. saved'.index = idx /\ saved'.done = done /\ saved'.known = Stage
      BY <1>4 DEF Snapshot
    <2>2. \A s \in Stage : s < idx => s \in Accounted
      BY <1>4 DEF NothingOvertaken
    <2>3. done \subseteq Stage
      BY DEF TypeOK
    <2> QED  BY <2>1, <2>2, <2>3
             DEF Recorded, SavedAccounted, Accounted, Quiet
  <1> QED  BY <1>1, <1>2, <1>3, <1>4 DEF Quiet

\* GoToStage needs no call in progress and lands on a stage already reached.
LEMMA GoToOrder ==
  ASSUME OrderInv, Serial, NEW i \in GotoArgs, GoToStage(i)
  PROVE  CallHolds' /\ Recorded' /\ NothingOvertaken' /\ SavedAccounted'
  <1> USE DEF OrderInv
  <1>1. call.pc = "idle" /\ proc = "up"
    BY DEF GoToStage, ToolMayStart, Serial
  <1>2. CallHolds'
    BY <1>1 DEF CallHolds, GoToStage
  <1>3. NothingOvertaken'
    BY <1>1 DEF NothingOvertaken, Accounted, GoToStage
  <1> QED  BY <1>2, <1>3 DEF Recorded, SavedAccounted, GoToStage

\* The steps of Complete before the stage is closed move neither the index
\* nor what counts as done.
LEMMA CompletePrefixOrder ==
  ASSUME OrderInv, Serial,
         \/ CompleteBegin \/ CompleteCheckFails \/ CompleteCheckPasses
         \/ \E yes \in BOOLEAN : Approve(yes)
         \/ ReviewReturns \/ ReviewRaises \/ CompleteGate
  PROVE  CallHolds' /\ Recorded' /\ NothingOvertaken' /\ SavedAccounted'
  <1> USE DEF OrderInv
  <1>1. /\ UNCHANGED <<proc, idx, ended, done, waived, saved>>
        /\ proc = "up"
    BY DEF CompleteBegin, ToolMayStart, CompleteCheckFails,
           CompleteCheckPasses, Approve, ReviewReturns, ReviewRaises,
           CompleteGate
  <1>2. reached' \subseteq reached \cup {idx}
    BY DEF CompleteBegin, CompleteCheckFails, CompleteCheckPasses, Approve,
           ReviewReturns, ReviewRaises, CompleteGate
  <1>3. NothingOvertaken'
    BY <1>1, <1>2 DEF NothingOvertaken, Accounted, TypeOK, Stage
  <1>4. CallHolds'
    <2>1. CASE CompleteBegin
      BY <2>1, <1>1
         DEF CompleteBegin, Step, NoCall, CallHolds, TypeOK, Stage
    <2>2. CASE call' = NoCall
      BY <2>2, <1>1 DEF CallHolds, NoCall
    <2>3. CASE /\ call.pc \in {"checking", "review", "gating"}
               /\ call'.pc # "advancing"
               /\ call'.checked = call.checked
               /\ call'.stage \in {idx, call.stage}
      BY <2>3, <1>1 DEF CallHolds
    <2>4. CASE CompleteCheckPasses
      BY <2>2, <2>3, <2>4 DEF CompleteCheckPasses, Step, TypeOK, CallType
    <2>5. ASSUME NEW yes \in BOOLEAN, Approve(yes)  PROVE CallHolds'
      BY <2>3, <2>5 DEF Approve, Step, TypeOK, CallType
    <2>6. CASE ReviewReturns \/ ReviewRaises
      BY <2>3, <2>6 DEF ReviewReturns, ReviewRaises, Step, TypeOK, CallType
    <2>7. CASE CompleteGate
      BY <2>2, <2>3, <2>7 DEF CompleteGate, Step, TypeOK, CallType
    <2> QED
      BY <2>1, <2>2, <2>4, <2>5, <2>6, <2>7 DEF CompleteCheckFails, Step
  <1> QED  BY <1>1, <1>3, <1>4 DEF Recorded, SavedAccounted

LEMMA CloseOrder ==
  ASSUME OrderInv, CompleteClose
  PROVE  CallHolds' /\ Recorded' /\ NothingOvertaken' /\ SavedAccounted'
  <1> USE DEF OrderInv
  <1>1. /\ UNCHANGED <<proc, idx, reached, waived>>
        /\ proc = "up"
        /\ call.pc = "closing"
    BY DEF CompleteClose, Step
  <1>2. idx \in Stage /\ call.stage = idx /\ call.checked = idx
    BY <1>1 DEF CallHolds
  <1>3. done \subseteq done' /\ ended' \subseteq done' /\ done' \subseteq Stage
    BY <1>2 DEF CompleteClose, Recorded, TypeOK
  <1>4. CallHolds'
    <2>1. \/ call' = NoCall
          \/ /\ call' = [call EXCEPT !.pc = "advancing"]
             /\ idx \in done'
      BY <1>2 DEF CompleteClose, Step, Recorded
    <2> QED  BY <2>1, <1>1, <1>2 DEF CallHolds, NoCall, TypeOK, CallType
  <1>5. NothingOvertaken'
    BY <1>1, <1>3 DEF NothingOvertaken, Accounted
  <1>6. saved' = saved \/ saved' = Snapshot(idx, done', skipped, journal)
    BY DEF CompleteClose
  <1>7. Recorded' /\ SavedAccounted'
    <2>1. CASE saved' = saved
      BY <2>1, <1>1, <1>3 DEF Recorded, SavedAccounted
    <2>2. CASE saved' = Snapshot(idx, done', skipped, journal)
      <3>1. saved'.index = idx /\ saved'.done = done' /\ saved'.known = Stage
        BY <2>2 DEF Snapshot
      <3> QED  BY <3>1, <1>1, <1>3
               DEF Recorded, SavedAccounted, NothingOvertaken, Accounted
    <2> QED  BY <2>1, <2>2, <1>6
  <1> QED  BY <1>4, <1>5, <1>7

\* next_stage counts the stage behind it as done, and the skipped ones as
\* stepped over.
LEMMA AdvanceOrder ==
  ASSUME OrderInv, CompleteAdvance
  PROVE  CallHolds' /\ Recorded' /\ NothingOvertaken' /\ SavedAccounted'
  <1> USE DEF OrderInv
  <1>1. /\ UNCHANGED <<proc, ended, done>>
        /\ proc = "up"
        /\ call.pc = "advancing"
        /\ call' = NoCall
    BY DEF CompleteAdvance, Step
  <1>2. idx \in Stage /\ idx \in done
    BY <1>1 DEF CallHolds
  <1>3. PICK b \in 0 .. N :
          /\ GoSkip(idx + 1, b, skipped)
          /\ idx' = b
          /\ waived' = waived \cup {s \in Stage : idx < s /\ s < b}
          /\ saved' = Snapshot(b, done, skipped, journal)
          /\ IF AllCompleted(b, done, skipped)
             THEN UNCHANGED <<reached, inited>>
             ELSE /\ reached' = reached \cup {b}
                  /\ inited' = inited \cup {b}
    BY DEF CompleteAdvance
  <1>4. CallHolds'
    BY <1>1 DEF CallHolds, NoCall
  <1>5. \A s \in Stage : s < b => s \in done \cup waived'
    <2>1. SUFFICES ASSUME NEW s \in Stage, s < b
                   PROVE  s \in done \cup waived'
      OBVIOUS
    <2>2. CASE s < idx
      BY <1>1, <1>3, <2>2 DEF NothingOvertaken, Accounted
    <2>3. CASE s = idx
      BY <1>2, <2>3
    <2>4. CASE idx < s
      BY <1>3, <2>1, <2>4
    <2> QED  BY <1>2, <2>2, <2>3, <2>4 DEF Stage
  <1>6. reached' \subseteq reached \cup {b}
    BY <1>3
  <1>7. NothingOvertaken'
    <2>1. \A s \in Stage : (\E t \in reached : s < t) => s \in done \cup waived'
      BY <1>1, <1>3 DEF NothingOvertaken, Accounted
    <2> QED  BY <1>1, <1>3, <1>5, <1>6, <2>1 DEF NothingOvertaken, Accounted
  <1>8. saved'.index = b /\ saved'.done = done /\ saved'.known = Stage
    BY <1>3 DEF Snapshot
  <1>9. Recorded' /\ SavedAccounted'
    BY <1>1, <1>5, <1>8 DEF Recorded, SavedAccounted, TypeOK
  <1> QED  BY <1>4, <1>7, <1>9

\* A start settles behind what the file vouches for; what an explicit index
\* steps over is on the user's account.
LEMMA StartOrder ==
  ASSUME OrderInv, NEW force \in ForceArgs, NEW add \in SkipArgs,
         NEW del \in UnskipArgs, Start(force, add, del)
  PROVE  CallHolds' /\ Recorded' /\ NothingOvertaken' /\ SavedAccounted'
  <1> USE DEF OrderInv
  <1>1. PICK b \in 0 .. N :
          LET skip0 == LoadedSkip(KnownFor(force))
          IN  /\ GoSkip(EntryIndex(force), b, skip0)
              /\ IF b \in add
                 THEN /\ proc' = "crashed"
                      /\ UNCHANGED <<memory, saved, starts, waived>>
                 ELSE /\ proc' = "up"
                      /\ starts' = starts + 1
                      /\ Load(force, b, skip0, add, del)
    BY DEF Start
  <1>2. proc = "down"
    BY DEF Start
  <1>3. CASE b \in add
    <2>1. proc' = "crashed" /\ UNCHANGED <<memory, saved, waived>>
      BY <1>1, <1>3
    <2> QED  BY <1>2, <2>1 DEF memory, CallHolds, Recorded,
                               NothingOvertaken, SavedAccounted
  <1>4. CASE b \notin add
    <2> DEFINE a == EntryIndex(force)
               done0 == RestoredDone(force)
               known == KnownFor(force)
               skip0 == LoadedSkip(known)
    <2>1. /\ proc' = "up"
          /\ Load(force, b, skip0, add, del)
          /\ GoSkip(a, b, skip0)
      BY <1>1, <1>4
    <2>2. /\ idx' = b
          /\ reached' = {s \in Stage : s <= a}
          /\ ended' = {}
          /\ done' = done0
          /\ call' = NoCall
          /\ saved' = Snapshot(b, done0, skipped', journal')
          /\ waived' = {s \in waived : s < a}
                         \cup {s \in Stage : a <= s /\ s < b}
                         \cup {s \in Stage : force # 0 /\ s < a
                                               /\ s \notin done0}
      BY <2>1 DEF Load
    <2>3. a \in 0 .. N /\ b \in a .. N
      BY <2>1, EntryInRange DEF GoSkip
    <2>4. \A s \in Stage : s < a => s \in done0 \cup waived'
      <3>1. CASE force # 0
        BY <2>2, <3>1
      <3>2. CASE force = 0
        <4>1. a = saved.index
          BY <3>2 DEF EntryIndex, TypeOK, InfoType
        <4>2. done0 = saved.done \cap {s \in Stage : s < a}
          BY <3>2 DEF RestoredDone, KnownFor, Recorded, TypeOK, InfoType
        <4>3. SUFFICES ASSUME NEW s \in Stage, s < a
                       PROVE  s \in done0 \cup waived'
          OBVIOUS
        <4>4. s \in saved.done \cup waived
          BY <4>1, <4>3 DEF SavedAccounted
        <4> QED  BY <2>2, <4>2, <4>3, <4>4
      <3> QED  BY <3>1, <3>2
    <2>5. \A s \in Stage : s < b => s \in done0 \cup waived'
      BY <2>2, <2>3, <2>4 DEF Stage
    <2> HIDE DEF a, done0, known, skip0
    <2>6. CallHolds'
      BY <2>2 DEF CallHolds, NoCall
    <2>7. NothingOvertaken'
      <3>1. \A s \in Stage : (\E t \in reached' : s < t) => s < a
        BY <2>2, <2>3 DEF Stage
      <3> QED  BY <2>2, <2>4, <2>5, <3>1 DEF NothingOvertaken, Accounted
    <2>8. saved'.index = b /\ saved'.done = done0 /\ saved'.known = Stage
      BY <2>2 DEF Snapshot
    <2>9. done0 \subseteq Stage
      BY RestoredIsSaved DEF done0
    <2>10. Recorded' /\ SavedAccounted'
      BY <2>2, <2>5, <2>8, <2>9 DEF Recorded, SavedAccounted
    <2> QED  BY <2>6, <2>7, <2>10
  <1> QED  BY <1>3, <1>4

LEMMA StopOrder ==
  ASSUME OrderInv, Crash \/ Quit \/ Retry
  PROVE  CallHolds' /\ Recorded' /\ NothingOvertaken' /\ SavedAccounted'
  <1> USE DEF OrderInv
  <1>1. proc' = "down" /\ waived' = waived
    BY DEF Crash, Quit, Retry
  <1>2. NothingOvertaken'
    BY <1>1 DEF NothingOvertaken
  <1>3. CallHolds' /\ ended' \subseteq done'
    <2>1. CASE Blank
      BY <2>1 DEF Blank, CallHolds, NoCall
    <2>2. CASE Retry
      BY <2>2 DEF Retry, memory, CallHolds, Recorded
    <2> QED  BY <2>1, <2>2 DEF Crash, Quit
  <1>4. CASE saved' = saved
    BY <1>1, <1>2, <1>3, <1>4 DEF Recorded, SavedAccounted
  <1>5. CASE proc = "up" /\ saved' = Snapshot(idx, done, skipped, journal)
    <2>1. saved'.index = idx /\ saved'.done = done /\ saved'.known = Stage
      BY <1>5 DEF Snapshot
    <2> QED  BY <1>1, <1>2, <1>3, <1>5, <2>1
             DEF Recorded, SavedAccounted, NothingOvertaken, Accounted,
                 TypeOK
  <1> QED  BY <1>4, <1>5 DEF Crash, Quit, Retry

LEMMA NextOrder ==
  ASSUME OrderInv, Serial, [Next]_vars
  PROVE  OrderInv'
  <1>1. TypeOK'
    BY NextType DEF OrderInv
  <1>2. CASE Quiet
    BY <1>1, <1>2, QuietOrder DEF OrderInv
  <1>3. CASE Complete
    BY <1>1, <1>3, CompletePrefixOrder, CloseOrder, AdvanceOrder
       DEF Complete, OrderInv
  <1>4. ASSUME NEW i \in GotoArgs, GoToStage(i)  PROVE OrderInv'
    BY <1>1, <1>4, GoToOrder DEF OrderInv
  <1>5. CASE Process
    <2>1. ASSUME NEW force \in ForceArgs, NEW add \in SkipArgs,
                 NEW del \in UnskipArgs, Start(force, add, del)
          PROVE  OrderInv'
      BY <1>1, <2>1, StartOrder DEF OrderInv
    <2>2. CASE Crash \/ Quit \/ Retry
      BY <1>1, <2>2, StopOrder DEF OrderInv
    <2> QED  BY <1>5, <2>1, <2>2 DEF Process
  <1> QED  BY <1>2, <1>3, <1>4, <1>5, QuietSteps DEF OrderInv

LEMMA OrderInvariant ==
  ASSUME Serial
  PROVE  Spec => []OrderInv
  <1>1. OrderInv /\ [Next]_vars => OrderInv'
    BY NextOrder
  <1> QED  BY InitOrder, <1>1, PTL DEF Spec

\* No stage is overtaken, whatever the order of tools, commands, crashes and
\* restarts: a stage before the current one, or before one that was reached,
\* was completed or stepped over on the user's account.
THEOREM StagesInOrder ==
  ASSUME Serial
  PROVE  Spec => []NothingOvertaken
  <1>1. OrderInv => NothingOvertaken
    BY DEF OrderInv
  <1> QED  BY <1>1, OrderInvariant, PTL

\* Whenever the process dies, the saved index is covered by saved completions
\* and by what the user stepped over.
THEOREM SavedFileSafe ==
  ASSUME Serial
  PROVE  Spec => []SavedAccounted
  <1>1. OrderInv => SavedAccounted
    BY DEF OrderInv
  <1> QED  BY <1>1, OrderInvariant, PTL

\* complete() closes the stage it checked, as long as the client does not let
\* tools overlap (with overlap it does not).
THEOREM ClosesCheckedStage ==
  ASSUME Serial
  PROVE  Spec => []ClosesWhatItChecked
  <1>1. OrderInv => ClosesWhatItChecked
    BY DEF OrderInv, CallHolds, ClosesWhatItChecked
  <1> QED  BY <1>1, OrderInvariant, PTL

\* The mission is declared finished only with every stage completed, skipped
\* or stepped over on the user's account.
THEOREM FinishAccounted ==
  ASSUME Serial
  PROVE  Spec => ExitAccounted
  <1>1. ASSUME OrderInv, [Next]_vars, ~exited, exited'
        PROVE  Stage \subseteq done \cup skipped \cup waived
    <2>1. CASE Exit
      <3>1. CASE idx >= N
        BY <1>1, <2>1, <3>1
           DEF Exit, ToolMayStart, OrderInv, NothingOvertaken, Accounted,
               Stage, TypeOK
      <3>2. CASE ~(idx >= N)
        BY <2>1, <3>2 DEF Exit, AllCompleted
      <3> QED  BY <3>1, <3>2
    <2>2. CASE ~Exit
      <3>1. exited' = exited \/ exited' = FALSE
        <4>1. CASE Complete
          BY <4>1 DEF Complete, memory, CompleteBegin, CompleteCheckFails,
                      CompleteCheckPasses, Approve, ReviewReturns, ReviewRaises,
                      CompleteGate, CompleteClose, CompleteAdvance
        <4>2. CASE \/ Check \/ SetCurrentStageJournal
                   \/ \E i \in GotoArgs : GoToStage(i)
          BY <4>2 DEF memory, Check, GoToStage, SetCurrentStageJournal
        <4>3. CASE User
          <5>1. CASE ChangeFlags
            BY <5>1 DEF ChangeFlags, memory, SkipStage, UnskipStage, HumanNeeded,
                        ReviewSet
          <5> QED  BY <4>3, <5>1 DEF User, memory, HumanVerdict, ResumeLoop, ExitUnset
        <4>4. CASE Process
          <5>1. CASE Crash \/ Quit \/ Retry
            BY <5>1 DEF memory, Crash, Quit, Retry, Blank
          <5>2. ASSUME NEW force \in ForceArgs, NEW add \in SkipArgs,
                       NEW del \in UnskipArgs, Start(force, add, del)
                PROVE  exited' = exited \/ exited' = FALSE
            <6>1. ASSUME NEW b, NEW skip0, Load(force, b, skip0, add, del)
                  PROVE  exited' = FALSE
              BY <6>1 DEF Load
            <6> QED  BY <5>2, <6>1 DEF Start, memory
          <5> QED  BY <4>4, <5>1, <5>2 DEF Process
        <4>5. CASE UNCHANGED vars
          BY <4>5 DEF vars, memory
        <4> QED  BY <1>1, <2>2, <4>1, <4>2, <4>3, <4>4, <4>5 DEF Next, Tools
      <3> QED  BY <1>1, <3>1
    <2> QED  BY <2>1, <2>2
  <1>2. OrderInv /\ [Next]_vars =>
          [~exited /\ exited' => Stage \subseteq done \cup skipped \cup waived]_vars
    BY <1>1
  <1> QED  BY <1>2, OrderInvariant, PTL DEF Spec, ExitAccounted

----------------------------------------------------------------------------
(* The gates of Complete, for a client that runs one tool at a time.       *)

Assented == call.vote \in {"yes", "raised"}

GateInv ==
  /\ call.pc = "checking" => ~call.asked
  /\ call.pc \in {"review", "gating"} => call.stage \in journal
  /\ call.pc \in {"review", "gating"} /\ call.asked
       => call.stage \in refused \/ Assented
  /\ call.pc \in {"closing", "advancing"} /\ call.asked => Assented

\* Steps outside Complete leave a call in progress and its refusal alone.
LEMMA OtherSteps ==
  ASSUME TypeOK, [Next]_vars, ~Complete
  PROVE  \/ call' = NoCall
         \/ call' = call /\ refused' = refused /\ journal \subseteq journal'
         \/ call' = call /\ proc = "down"
  <1>1. ASSUME NEW force \in ForceArgs, NEW add \in SkipArgs,
               NEW del \in UnskipArgs, Start(force, add, del)
        PROVE  call' = NoCall \/ (call' = call /\ proc = "down")
    BY <1>1 DEF Start, Load, memory
  <1>2. CASE Crash \/ Quit
    BY <1>2 DEF Crash, Quit, Blank
  <1>3. CASE Retry \/ UNCHANGED vars
    BY <1>3 DEF Retry, memory, vars
  <1>4. CASE Tools
    BY <1>4 DEF Tools, Check, GoToStage, SetCurrentStageJournal, Exit
  <1>5. CASE User
    BY <1>5 DEF User, ChangeFlags, SkipStage, UnskipStage, HumanVerdict,
                HumanNeeded, ReviewSet, ResumeLoop, ExitUnset
  <1> QED  BY <1>1, <1>2, <1>3, <1>4, <1>5 DEF Next, Process

LEMMA NextGate ==
  ASSUME OrderInv, GateInv, Serial, [Next]_vars
  PROVE  GateInv'
  <1> USE DEF Step
  <1>1. call \in CallType
    BY DEF OrderInv, TypeOK
  <1>2. CASE call' = NoCall
    BY <1>2 DEF GateInv, NoCall
  <1>3. CASE CompleteBegin
    BY <1>3 DEF CompleteBegin, GateInv, NoCall
  <1>4. CASE CompleteCheckPasses
    <2>1. CASE call' = [call EXCEPT !.pc = "review", !.stage = idx,
                                    !.asked = TRUE]
               /\ idx \in refused' \cap journal'
      BY <1>1, <2>1 DEF GateInv, CallType
    <2>2. CASE /\ call' = [call EXCEPT !.pc = "gating", !.stage = idx]
               /\ call.pc = "checking"
               /\ idx \in journal'
      BY <1>1, <2>2 DEF GateInv, CallType
    <2> QED  BY <1>2, <1>4, <2>1, <2>2 DEF CompleteCheckPasses
  <1>5. ASSUME NEW yes \in BOOLEAN, Approve(yes)  PROVE GateInv'
    <2>1. call.stage = idx /\ call.pc = "review"
      BY <1>5 DEF Approve, OrderInv, CallHolds
    <2>2. CASE yes
      BY <1>1, <1>5, <2>1, <2>2 DEF Approve, GateInv, Assented, CallType
    <2>3. CASE ~yes
      BY <1>1, <1>5, <2>1, <2>3 DEF Approve, GateInv, Assented, CallType
    <2> QED  BY <2>2, <2>3
  <1>6. CASE ReviewReturns
    BY <1>1, <1>6 DEF ReviewReturns, GateInv, Assented, CallType
  <1>7. CASE ReviewRaises
    BY <1>1, <1>7 DEF ReviewRaises, GateInv, Assented, CallType
  <1>8. CASE CompleteGate
    BY <1>1, <1>2, <1>8 DEF CompleteGate, GateInv, Assented, CallType
  <1>9. CASE CompleteClose
    BY <1>1, <1>2, <1>9 DEF CompleteClose, GateInv, Assented, CallType
  <1>10. CASE ~Complete
    <2>1. CASE call' = call /\ refused' = refused /\ journal \subseteq journal'
      BY <2>1 DEF GateInv, Assented
    <2>2. CASE call' = call /\ proc = "down"
      BY <2>2 DEF GateInv, OrderInv, CallHolds
    <2> QED  BY <1>2, <1>10, <2>1, <2>2, OtherSteps DEF OrderInv
  <1> QED
    BY <1>2, <1>3, <1>4, <1>5, <1>6, <1>7, <1>8, <1>9, <1>10
       DEF Complete, CompleteCheckFails, CompleteAdvance

LEMMA GateInvariant ==
  ASSUME Serial
  PROVE  Spec => [](OrderInv /\ GateInv)
  <1>1. Init => GateInv
    BY DEF Init, GateInv, NoCall
  <1>2. OrderInv /\ GateInv /\ [Next]_vars => GateInv'
    BY NextGate
  <1> QED  BY <1>1, <1>2, OrderInvariant, PTL DEF Spec

\* A stage for which the reviewer was asked closes only on a yes, or on a
\* review that ended in an exception.
THEOREM ReviewerDecides ==
  ASSUME Serial
  PROVE  Spec => []ReviewDecides
  <1>1. GateInv => ReviewDecides
    BY DEF GateInv, ReviewDecides, Assented
  <1> QED  BY <1>1, GateInvariant, PTL

\* A stage starts to close only with its journal written, not refused, and
\* with the human check it needs passed.
THEOREM GatesAreKept ==
  ASSUME Serial
  PROVE  Spec => GatesHold
  <1>1. ASSUME OrderInv, GateInv, [Next]_vars,
               call.pc = "gating", call'.pc = "closing"
        PROVE  /\ call'.stage \in journal \ refused
               /\ call'.stage \in human => verdict[call'.stage] = "pass"
    <2>1. call.stage = idx /\ proc = "up"
      BY <1>1 DEF OrderInv, CallHolds
    <2>2. CASE Complete
      <3>1. CompleteGate
        BY <1>1, <2>2
           DEF Complete, Step, CompleteBegin, CompleteCheckFails,
               CompleteCheckPasses, Approve, ReviewReturns, ReviewRaises,
               CompleteClose, CompleteAdvance
      <3>2. call' # NoCall
        BY <1>1 DEF NoCall
      <3>3. /\ call.stage \notin refused
            /\ call.stage \in human => verdict[call.stage] = "pass"
            /\ call' = [call EXCEPT !.pc = "closing", !.stage = idx]
        BY <3>1, <3>2 DEF CompleteGate, Step
      <3>4. call'.stage = idx
        BY <1>1, <3>3 DEF OrderInv, TypeOK, CallType
      <3> QED  BY <1>1, <2>1, <3>3, <3>4 DEF GateInv
    <2>3. CASE ~Complete
      BY <1>1, <2>1, <2>3, OtherSteps DEF OrderInv, NoCall
    <2> QED  BY <2>2, <2>3
  <1>2. OrderInv /\ GateInv /\ [Next]_vars =>
          [ call.pc = "gating" /\ call'.pc = "closing" =>
              /\ call'.stage \in journal \ refused
              /\ call'.stage \in human => verdict[call'.stage] = "pass" ]_vars
    BY <1>1
  <1> QED  BY <1>2, GateInvariant, PTL DEF Spec, GatesHold

----------------------------------------------------------------------------
(* The refinement of the abstract mission, for a client that runs one tool *)
(* at a time.                                                              *)

\* Credit is earned in order: what lies before a stage accounted for is
\* accounted for.
CreditInOrder == proc = "up" => M!InOrder(Accounted)

MapInv == OrderInv /\ CreditInOrder

\* What the file keeps, as the mapping of StageManager gives it.
Kept == {s \in Stage : s < saved.index}

\* A file whose index lies behind credited stages keeps a beginning of them.
LEMMA SaveMaps ==
  ASSUME NEW C, NEW i \in 0 .. N, \A s \in Stage : s < i => s \in C,
         saved'.index = i
  PROVE  Kept' \in SUBSET C /\ M!InOrder(Kept')
  BY DEF Kept, M!InOrder, M!Stages, Stage

LEMMA SnapshotIndex ==
  ASSUME NEW i, NEW d, NEW k, NEW j
  PROVE  Snapshot(i, d, k, j).index = i
  BY DEF Snapshot

\* What a running manager may save at its index.
LEMMA SaveNow ==
  ASSUME OrderInv, proc = "up",
         saved' = saved \/ \E d, k, j : saved' = Snapshot(idx, d, k, j)
  PROVE  Kept' = Kept \/ (Kept' \in SUBSET Accounted /\ M!InOrder(Kept'))
  <1>1. CASE saved' = saved
    BY <1>1 DEF Kept
  <1>2. CASE \E d, k, j : saved' = Snapshot(idx, d, k, j)
    <2>1. saved'.index = idx /\ idx \in 0 .. N
      BY <1>2, SnapshotIndex DEF OrderInv, TypeOK
    <2>2. \A s \in Stage : s < idx => s \in Accounted
      BY DEF OrderInv, NothingOvertaken
    <2> QED  BY <2>1, <2>2, SaveMaps
  <1> QED  BY <1>1, <1>2

LEMMA InitMaps == Init => M!MInit /\ CreditInOrder
  BY DEF Init, M!MInit, NoInfo, CreditInOrder, Stage

\* Steps that touch nothing of the abstract state.
LEMMA StutterMaps ==
  ASSUME CreditInOrder, UNCHANGED <<proc, done, waived, skipped, saved, exited>>
  PROVE  UNCHANGED M!mvars /\ CreditInOrder'
  BY DEF M!mvars, Accounted, CreditInOrder

\* Flags may change what is excused, and save.
LEMMA FlagsMap ==
  ASSUME MapInv, proc = "up",
         UNCHANGED <<proc, done, waived, exited>>,
         skipped' \in SUBSET Stage,
         saved' = saved \/ \E d, k, j : saved' = Snapshot(idx, d, k, j)
  PROVE  M!MNext /\ CreditInOrder'
  <1>1. Kept' = Kept \/ (Kept' \in SUBSET Accounted /\ M!InOrder(Kept'))
    BY SaveNow DEF MapInv
  <1>2. M!Excuse
    BY <1>1 DEF M!Excuse, M!Save, M!Stages, Kept, Accounted, Stage
  <1> QED  BY <1>2 DEF M!MNext, CreditInOrder, MapInv, Accounted

LEMMA ExitMaps ==
  ASSUME MapInv, Exit
  PROVE  M!MNext /\ CreditInOrder'
  <1>1. /\ proc = "up" /\ exited' = TRUE
        /\ UNCHANGED <<proc, done, waived, skipped>>
        /\ saved' = Snapshot(idx, done, skipped, journal)
    BY DEF Exit, ToolMayStart
  <1>2. Stage \subseteq Accounted \cup skipped
    <2>1. CASE idx >= N
      BY <1>1, <2>1 DEF MapInv, OrderInv, NothingOvertaken, Stage, TypeOK
    <2>2. CASE ~(idx >= N)
      BY <2>2 DEF Exit, AllCompleted, Accounted
    <2> QED  BY <2>1, <2>2
  <1>3. Kept' \in SUBSET Accounted /\ M!InOrder(Kept')
    <2>1. saved'.index = idx /\ idx \in 0 .. N
      BY <1>1, SnapshotIndex DEF MapInv, OrderInv, TypeOK
    <2>2. \A s \in Stage : s < idx => s \in Accounted
      BY <1>1 DEF MapInv, OrderInv, NothingOvertaken
    <2> QED  BY <2>1, <2>2, SaveMaps
  <1>4. M!Close
    BY <1>1, <1>2, <1>3
       DEF M!Close, M!Save, M!Stages, Kept, Accounted, Stage
  <1> QED  BY <1>1, <1>4 DEF M!MNext, CreditInOrder, MapInv, Accounted

\* Closing a stage gives it credit, unless it has ended before.
LEMMA CloseMaps ==
  ASSUME MapInv, CompleteClose
  PROVE  (M!MNext \/ UNCHANGED M!mvars) /\ CreditInOrder'
  <1>1. /\ UNCHANGED <<proc, idx, waived, skipped, exited>>
        /\ proc = "up" /\ call.pc = "closing"
    BY DEF CompleteClose, Step
  <1>2. idx \in Stage /\ call.stage = idx
    BY <1>1 DEF MapInv, OrderInv, CallHolds
  <1>3. CASE UNCHANGED <<done, saved>>
    BY <1>1, <1>3, StutterMaps DEF MapInv
  <1>4. CASE /\ done' = done \cup {call.stage}
             /\ saved' \in {saved, Snapshot(idx, done', skipped, journal)}
    <2>1. Accounted' = Accounted \cup {idx}
      BY <1>1, <1>2, <1>4 DEF Accounted
    <2>2. \A s \in Stage : s < idx => s \in Accounted
      BY <1>1 DEF MapInv, OrderInv, NothingOvertaken
    <2>3. M!InOrder(Accounted')
      BY <1>1, <1>2, <2>1, <2>2
         DEF MapInv, CreditInOrder, M!InOrder, M!Stages, Stage
    <2>4. Kept' = Kept \/ (Kept' \in SUBSET Accounted /\ M!InOrder(Kept'))
      BY <1>1, <1>4, SaveNow DEF MapInv
    <2>5. PICK s \in Stage : s = idx
      BY <1>2
    <2>6. M!Complete(s)
      BY <1>1, <2>1, <2>3, <2>4, <2>5
         DEF M!Complete, M!Save, M!Stages, Kept, Stage
    <2>7. M!MNext
      BY <2>6 DEF M!MNext, M!Stages, Stage
    <2> QED  BY <2>3, <2>7 DEF CreditInOrder
  <1> QED  BY <1>3, <1>4 DEF CompleteClose

\* Advancing gives credit to the skipped stages it steps over.
LEMMA AdvanceMaps ==
  ASSUME MapInv, CompleteAdvance
  PROVE  M!MNext /\ CreditInOrder'
  <1>1. /\ UNCHANGED <<proc, done, skipped, exited>>
        /\ proc = "up" /\ call.pc = "advancing"
    BY DEF CompleteAdvance, Step
  <1>2. idx \in Stage /\ idx \in done
    BY <1>1 DEF MapInv, OrderInv, CallHolds
  <1>3. PICK b \in 0 .. N :
          /\ GoSkip(idx + 1, b, skipped)
          /\ waived' = waived \cup {s \in Stage : idx < s /\ s < b}
          /\ saved' = Snapshot(b, done, skipped, journal)
    BY DEF CompleteAdvance
  <1> DEFINE S == {s \in Stage : idx < s /\ s < b}
  <1>4. S \in SUBSET skipped
    BY <1>2, <1>3 DEF GoSkip, Stage
  <1>5. Accounted' = Accounted \cup S
    BY <1>1, <1>3 DEF Accounted
  <1>6. \A s \in Stage : s < b => s \in Accounted'
    <2>1. \A s \in Stage : s < idx => s \in Accounted
      BY <1>1 DEF MapInv, OrderInv, NothingOvertaken
    <2>2. idx \in Accounted
      BY <1>2 DEF Accounted
    <2> QED  BY <1>2, <1>5, <2>1, <2>2 DEF Stage
  <1>7. M!InOrder(Accounted')
    BY <1>1, <1>2, <1>5, <1>6
       DEF MapInv, CreditInOrder, M!InOrder, M!Stages, Stage
  <1>8. Kept' \in SUBSET Accounted' /\ M!InOrder(Kept')
    <2>1. saved'.index = b
      BY <1>3, SnapshotIndex
    <2> QED  BY <1>6, <2>1, SaveMaps
  <1>9. M!PassOver
    BY <1>1, <1>4, <1>5, <1>7, <1>8
       DEF M!PassOver, M!Save, M!Stages, Kept, Stage
  <1> QED  BY <1>1, <1>7, <1>9 DEF M!MNext, CreditInOrder

\* The process ends: credit is lost, the file is not.
LEMMA StopMaps ==
  ASSUME MapInv, Crash \/ Quit
  PROVE  M!MNext /\ CreditInOrder'
  <1>1. /\ proc = "up" /\ proc' = "down"
        /\ skipped' = {} /\ exited' = FALSE
        /\ saved' \in {saved, Snapshot(idx, done, skipped, journal)}
    BY DEF Crash, Quit, Blank
  <1>2. Kept' = Kept \/ (Kept' \in SUBSET Accounted /\ M!InOrder(Kept'))
    BY <1>1, SaveNow DEF MapInv
  <1>3. M!Stop
    BY <1>1, <1>2 DEF M!Stop, M!Save, M!Stages, Kept, Stage
  <1> QED  BY <1>1, <1>3 DEF M!MNext, CreditInOrder

\* A start has the credit of the stages before its index, and those are at
\* least what was kept, unless the user directs it.
LEMMA StartMaps ==
  ASSUME MapInv, NEW force \in ForceArgs, NEW add \in SkipArgs,
         NEW del \in UnskipArgs, Start(force, add, del)
  PROVE  (M!MNext \/ UNCHANGED M!mvars) /\ CreditInOrder'
  <1>1. OrderInv'
    BY StartOrder, StartType DEF MapInv, OrderInv
  <1>2. PICK b \in 0 .. N :
          LET skip0 == LoadedSkip(KnownFor(force))
          IN  /\ GoSkip(EntryIndex(force), b, skip0)
              /\ IF b \in add
                 THEN /\ proc' = "crashed"
                      /\ UNCHANGED <<memory, saved, starts, waived>>
                 ELSE /\ proc' = "up"
                      /\ starts' = starts + 1
                      /\ Load(force, b, skip0, add, del)
    BY DEF Start
  <1>3. proc = "down"
    BY DEF Start
  <1>4. CASE b \in add
    <2>1. proc' = "crashed" /\ UNCHANGED <<memory, saved, waived>>
      BY <1>2, <1>4
    <2> QED  BY <1>3, <2>1 DEF M!mvars, memory, CreditInOrder
  <1>5. CASE b \notin add
    <2> DEFINE a == EntryIndex(force)
               known == KnownFor(force)
    <2>1. /\ proc' = "up"
          /\ Load(force, b, LoadedSkip(known), add, del)
          /\ GoSkip(a, b, LoadedSkip(known))
      BY <1>2, <1>5
    <2>2. /\ idx' = b /\ exited' = FALSE
          /\ done' = RestoredDone(force)
          /\ saved' = Snapshot(b, done', skipped', journal')
          /\ waived' \subseteq {s \in Stage : s < b} \cup {s \in waived : s < a}
                                 \cup {s \in Stage : s < a}
      BY <2>1 DEF Load
    <2>3. a \in 0 .. N /\ b \in a .. N
      BY <2>1, EntryInRange DEF GoSkip, MapInv, OrderInv
    <2>4. \A s \in Stage : s < b => s \in Accounted'
      BY <1>1, <2>1, <2>2 DEF OrderInv, NothingOvertaken
    <2>5. Accounted' \subseteq {s \in Stage : s < b}
      <3>1. done' \subseteq {s \in Stage : s < b}
        BY <2>2, <2>3 DEF RestoredDone, MapInv, OrderInv, TypeOK, InfoType,
                          Stage
      <3>2. waived \subseteq Stage
        BY DEF MapInv, OrderInv, TypeOK
      <3>3. \A s \in Stage : s < a => s < b
        BY <2>3 DEF Stage
      <3>4. waived' \subseteq {s \in Stage : s < b}
        BY <2>2, <3>2, <3>3
      <3> QED  BY <3>1, <3>4 DEF Accounted
    <2>6. Accounted' = {s \in Stage : s < b}
      BY <2>4, <2>5
    <2>7. M!InOrder(Accounted')
      BY <2>6 DEF M!InOrder, M!Stages, Stage
    <2>8. Kept' \in SUBSET Accounted' /\ M!InOrder(Kept')
      <3>1. saved'.index = b
        BY <2>2, SnapshotIndex
      <3> QED  BY <2>4, <3>1, SaveMaps
    <2>9. force # 0 \/ Kept \subseteq Accounted'
      <3>1. force = 0 => a = saved.index
        BY DEF EntryIndex, MapInv, OrderInv, TypeOK, InfoType
      <3> QED  BY <2>3, <2>6, <3>1
               DEF Kept, MapInv, OrderInv, TypeOK, InfoType, Stage
    <2>10. skipped' \in SUBSET Stage
      BY <1>1 DEF OrderInv, TypeOK
    <2>11. M!Boot(force # 0)
      BY <1>3, <2>1, <2>2, <2>5, <2>7, <2>8, <2>9, <2>10
         DEF M!Boot, M!Save, M!Stages, Kept, Stage
    <2> QED  BY <2>1, <2>7, <2>11 DEF M!MNext, CreditInOrder
  <1> QED  BY <1>4, <1>5

LEMMA NextMaps ==
  ASSUME MapInv, Serial, [Next]_vars
  PROVE  (M!MNext \/ UNCHANGED M!mvars) /\ CreditInOrder'
  <1> USE DEF MapInv
  <1>1. TypeOK'
    BY NextType DEF OrderInv
  <1>2. CASE UNCHANGED vars
    BY <1>2, StutterMaps DEF vars, memory
  <1>3. CASE Check \/ SetCurrentStageJournal \/ ResumeLoop
    BY <1>3, StutterMaps DEF Check, SetCurrentStageJournal, ResumeLoop
  <1>4. ASSUME NEW i \in GotoArgs, GoToStage(i)
        PROVE  UNCHANGED M!mvars /\ CreditInOrder'
    BY <1>4, StutterMaps DEF GoToStage
  <1>5. CASE Exit
    BY <1>5, ExitMaps
  <1>6. CASE Complete
    <2>1. CASE CompleteClose
      BY <2>1, CloseMaps
    <2>2. CASE CompleteAdvance
      BY <2>2, AdvanceMaps
    <2>3. CASE \/ CompleteBegin \/ CompleteCheckFails \/ CompleteCheckPasses
               \/ \E yes \in BOOLEAN : Approve(yes)
               \/ ReviewReturns \/ ReviewRaises \/ CompleteGate
      <3>1. UNCHANGED <<proc, done, waived, skipped, saved, exited>>
        BY <2>3 DEF CompleteBegin, CompleteCheckFails, CompleteCheckPasses,
                    Approve, ReviewReturns, ReviewRaises, CompleteGate
      <3> QED  BY <3>1, StutterMaps
    <2> QED  BY <1>6, <2>1, <2>2, <2>3 DEF Complete
  <1>7. CASE User
    <2>1. ASSUME NEW s \in SkipCmds, NEW save \in BOOLEAN,
                 SkipStage(s, save) \/ UnskipStage(s, save)
          PROVE  M!MNext /\ CreditInOrder'
      BY <1>1, <2>1, FlagsMap DEF SkipStage, UnskipStage, SaveIf, TypeOK
    <2>2. ASSUME NEW s \in HumanCmds, NEW need \in BOOLEAN,
                 NEW save \in BOOLEAN, HumanNeeded(s, need, save)
          PROVE  M!MNext /\ CreditInOrder'
      BY <1>1, <2>2, FlagsMap DEF HumanNeeded, SaveIf, TypeOK
    <2>3. ASSUME NEW s \in ReviewCmds, NEW v \in {"default", "on", "off"},
                 NEW save \in BOOLEAN, ReviewSet(s, v, save)
          PROVE  M!MNext /\ CreditInOrder'
      BY <1>1, <2>3, FlagsMap DEF ReviewSet, SaveIf, TypeOK
    <2>4. ASSUME NEW v \in {"pass", "fail"}, HumanVerdict(v)
          PROVE  UNCHANGED M!mvars /\ CreditInOrder'
      BY <2>4, StutterMaps DEF HumanVerdict
    <2>5. CASE ExitUnset
      <3>1. M!Reopen
        BY <2>5 DEF ExitUnset, M!Reopen, Accounted
      <3> QED  BY <2>5, <3>1
               DEF M!MNext, ExitUnset, CreditInOrder, Accounted
    <2> QED
      BY <1>3, <1>7, <2>1, <2>2, <2>3, <2>4, <2>5 DEF User, ChangeFlags
  <1>8. CASE Process
    <2>1. ASSUME NEW force \in ForceArgs, NEW add \in SkipArgs,
                 NEW del \in UnskipArgs, Start(force, add, del)
          PROVE  (M!MNext \/ UNCHANGED M!mvars) /\ CreditInOrder'
      BY <2>1, StartMaps
    <2>2. CASE Crash \/ Quit
      BY <2>2, StopMaps
    <2>3. CASE Retry
      BY <2>3 DEF Retry, memory, M!mvars, CreditInOrder
    <2> QED  BY <1>8, <2>1, <2>2, <2>3 DEF Process
  <1> QED
    BY <1>2, <1>3, <1>4, <1>5, <1>6, <1>7, <1>8 DEF Next, Tools

\* The stage manager implements the abstract mission: credit is earned in
\* order, the file keeps a beginning of it, a start that the user does not
\* direct loses none of it, and the mission closes only when all is accounted
\* for or excused.
THEOREM MissionImplemented ==
  ASSUME Serial
  PROVE  Spec => ImplementsMission
  <1>1. Init => M!MInit /\ CreditInOrder
    BY InitMaps
  <1>2. OrderInv /\ CreditInOrder /\ [Next]_vars => CreditInOrder'
    BY NextMaps DEF MapInv
  <1>3. OrderInv /\ CreditInOrder /\ [Next]_vars => [M!MNext]_(M!mvars)
    BY NextMaps DEF MapInv
  <1> QED
    BY <1>1, <1>2, <1>3, OrderInvariant, PTL
       DEF Spec, ImplementsMission, M!Spec
=============================================================================
