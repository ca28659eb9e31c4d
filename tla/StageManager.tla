--------------------------- MODULE StageManager ---------------------------
(***************************************************************************)
(* The mission of ucagent/stage: a list of verification stages walked by   *)
(* StageManager (vmanager.py) over VerifyStage objects (vstage.py).        *)
(*                                                                         *)
(* Three parties act on one StageManager:                                  *)
(*   - the LLM, through the tools Check, Complete, GoToStage, Exit,        *)
(*     SetCurrentStageJournal.  Every tool has a lock of its own, none     *)
(*     protects the manager, so two different tools may overlap: constant  *)
(*     Parallel says whether the LLM client does that;                     *)
(*   - the reviewer LLM of check_pass_refinement, which votes through the  *)
(*     ApproveStagePass tool while a Complete call waits for it;           *)
(*   - the user, through the console and its web API (skip, unskip,        *)
(*     hmcheck, lmcheck, quit), at any moment.                             *)
(* The process may crash at any moment and restarts from the file written  *)
(* by save_stage_info.  Complete runs for minutes (checkers, an LLM review,*)
(* bash commands), so it is split where the code waits.                    *)
(***************************************************************************)
EXTENDS Integers, FiniteSets

CONSTANTS
  N,          \* number of stages; the stages are 0 .. N-1
  Parts,      \* Parts[s]: the stages VerifyStage.set_skip reaches from s
  CfgSkip,    \* stages with skip: true in the configuration
  CfgHuman,   \* stages whose configuration asks for a human check
  CfgReview,  \* stages check_pass_refinement applies to by configuration
  ReviewOn,   \* check_pass_refinement.enable
  Master,     \* a master API client is attached (sync-back on completion)
  Parallel,   \* the LLM client lets two tool calls overlap
  ForceArgs,  \* values tried for --force-stage-index (0: not given)
  SkipArgs,   \* sets of stages tried for --skip
  UnskipArgs, \* sets of stages tried for --unskip
  SkipCmds,   \* stages the user's skip and unskip commands are tried on
  HumanCmds,  \* stages hmcheck_set is tried on
  ReviewCmds, \* stages lmcheck_pset is tried on
  GotoArgs,   \* indices the LLM passes to GoToStage
  MaxStarts   \* bound: number of successful starts of the process (and one less
              \* for the times it ends)

Stage == 0 .. N - 1

ASSUME StagesAssumption == N \in Nat \ {0}
ASSUME PartsAssumption ==
  /\ Parts \in [Stage -> SUBSET Stage]
  /\ \A s \in Stage : s \in Parts[s] /\ Parts[s] \subseteq 0 .. s
ASSUME ConfigAssumption ==
  /\ CfgSkip \subseteq Stage
  /\ CfgHuman \subseteq Stage
  /\ CfgReview \subseteq Stage
  /\ {ReviewOn, Master, Parallel} \subseteq BOOLEAN
ASSUME InputsAssumption ==
  /\ ForceArgs \subseteq Nat
  /\ SkipArgs \subseteq SUBSET Stage
  /\ UnskipArgs \subseteq SUBSET Stage
  /\ SkipCmds \subseteq Stage
  /\ HumanCmds \subseteq Stage
  /\ ReviewCmds \subseteq Stage
  /\ GotoArgs \subseteq Int
  /\ MaxStarts \in Nat

VARIABLES
  proc,      \* "down", "up", or "crashed" (an exception ended the start-up)
  idx,       \* stage_index; N when no stage is left
  reached,   \* stages with _is_reached
  inited,    \* stages whose on_init ran in this process
  ended,     \* stages with time_end
  done,      \* stages with is_complete
  skipped,   \* stages with skip
  journal,   \* stages with a journal in meta_data
  human,     \* stages with need_human_check
  verdict,   \* _hum_check_passed: "none", "pass" or "fail"
  review,    \* need_pass_llm_suggestion: "default", "on" or "off"
  refused,   \* stages with llm_approved = False
  needHuman, \* agent._need_human
  exited,    \* agent._is_exit
  call,      \* the Complete call in progress
  saved,     \* what save_stage_info last wrote
  starts,    \* number of process starts
  waived     \* history: stages the index has stepped over while skipped,
             \* or that an explicit --force-stage-index stepped over

place == <<idx, reached, inited>>
work == <<ended, done>>
flags == <<skipped, human, review>>
gate == <<journal, verdict, refused>>
agent == <<needHuman, exited>>
disk == <<saved, starts, waived>>
memory == <<place, work, flags, gate, agent, call>>
vars == <<proc, memory, disk>>

NoCall == [pc |-> "idle", stage |-> 0, checked |-> 0,
           asked |-> FALSE, vote |-> "none"]
NoInfo == [index |-> 0, known |-> {}, done |-> {}, skipped |-> {},
           journal |-> {}]

PCs == {"idle", "checking", "review", "gating", "closing", "advancing"}

CallType == [pc : PCs, stage : Stage, checked : Stage, asked : BOOLEAN,
             vote : {"none", "yes", "no", "raised"}]
InfoType == [index : 0 .. N, known : SUBSET Stage, done : SUBSET Stage,
             skipped : SUBSET Stage, journal : SUBSET Stage]

TypeOK ==
  /\ proc \in {"down", "up", "crashed"}
  /\ idx \in 0 .. N
  /\ reached \in SUBSET Stage
  /\ inited \in SUBSET Stage
  /\ ended \in SUBSET Stage
  /\ done \in SUBSET Stage
  /\ skipped \in SUBSET Stage
  /\ journal \in SUBSET Stage
  /\ human \in SUBSET Stage
  /\ refused \in SUBSET Stage
  /\ waived \in SUBSET Stage
  /\ verdict \in [Stage -> {"none", "pass", "fail"}]
  /\ review \in [Stage -> {"default", "on", "off"}]
  /\ needHuman \in BOOLEAN
  /\ exited \in BOOLEAN
  /\ call \in CallType
  /\ saved \in InfoType
  /\ starts \in 0 .. MaxStarts

----------------------------------------------------------------------------
(* Helpers of the code. *)

\* _go_skip_stage: from index a the manager settles at b
GoSkip(a, b, skip) ==
  /\ b \in a .. N
  /\ \A i \in a .. b - 1 : i \in skip
  /\ b \notin skip

AllCompletedEarly(i, d, skip) == i >= N - 1 \/ Stage \subseteq d \cup skip

\* _compute_all_completed
AllCompleted(i, d, skip) == i >= N \/ Stage \subseteq d \cup skip

\* is_llm_suggestion_needed for the pass refinement
ReviewNeeded(s) ==
  /\ ReviewOn
  /\ \/ review[s] = "on"
     \/ review[s] = "default" /\ s \in CfgReview

SnapshotForgetful(i, d, skip, j) ==
  [index |-> i, known |-> Stage, done |-> {}, skipped |-> skip, journal |-> j]

\* save_stage_info: the fields a later start reads back
Snapshot(i, d, skip, j) ==
  [index |-> i, known |-> Stage, done |-> d, skipped |-> skip, journal |-> j]

\* a process that ends takes its memory with it
Blank ==
  /\ idx' = 0
  /\ reached' = {}
  /\ inited' = {}
  /\ ended' = {}
  /\ done' = {}
  /\ skipped' = {}
  /\ journal' = {}
  /\ human' = {}
  /\ verdict' = [s \in Stage |-> "none"]
  /\ review' = [s \in Stage |-> "default"]
  /\ refused' = {}
  /\ needHuman' = FALSE
  /\ exited' = FALSE
  /\ call' = NoCall

Init ==
  /\ proc = "down"
  /\ idx = 0
  /\ reached = {}
  /\ inited = {}
  /\ ended = {}
  /\ done = {}
  /\ skipped = {}
  /\ journal = {}
  /\ human = {}
  /\ verdict = [s \in Stage |-> "none"]
  /\ review = [s \in Stage |-> "default"]
  /\ refused = {}
  /\ needHuman = FALSE
  /\ exited = FALSE
  /\ call = NoCall
  /\ saved = NoInfo
  /\ starts = 0
  /\ waived = {}

----------------------------------------------------------------------------
(* Starting the process: VerifyAgent.__init__ and StageManager.init_stage. *)

\* The stage_index the manager is given: an explicit --force-stage-index
\* (any value but 0) or the saved one, clamped to the number of stages.
EntryIndex(force) ==
  LET wanted == IF force # 0 THEN force ELSE saved.index
  IN  IF wanted > N THEN N ELSE wanted

\* The stages whose saved record is still used: an explicit index before the
\* saved one clears the records from there on.
KnownFor(force) ==
  IF force # 0 /\ EntryIndex(force) < saved.index
  THEN {s \in saved.known : s < EntryIndex(force)}
  ELSE saved.known

RestoredDoneShort(force) ==
  {s \in saved.done \cap KnownFor(force) : s + 1 < EntryIndex(force)}

\* The stages that are complete again: only records before the index count.
RestoredDone(force) ==
  {s \in saved.done \cap KnownFor(force) : s < EntryIndex(force)}

\* set_skip of the saved value, stage by stage in index order; it reaches the
\* substages, which come before their parent, so the last one that reaches a
\* stage decides.
LoadedSkip(known) ==
  {t \in Stage :
     LET setters == {s \in known : t \in Parts[s]}
     IN  \/ setters = {} /\ t \in CfgSkip
         \/ \E s \in setters : /\ \A u \in setters : u <= s
                               /\ s \in saved.skipped}

\* The state init_stage has built when it settles at b with skip set skip0
\* and then applied the --skip and --unskip lists.
Load(force, b, skip0, add, del) ==
  LET a == EntryIndex(force)
      known == KnownFor(force)
      done0 == RestoredDone(force)
      skip1 == (skip0 \cup UNION {Parts[s] : s \in add})
                 \ UNION {Parts[s] : s \in del}
      over == {s \in Stage : a <= s /\ s < b}
      forced == {s \in Stage : force # 0 /\ s < a /\ s \notin done0}
  IN  /\ idx' = b
      /\ reached' = {s \in Stage : s <= a}
      /\ inited' = {b} \cap Stage
      /\ ended' = {}
      /\ done' = done0
      /\ skipped' = skip1
      /\ journal' = saved.journal \cap known
      /\ human' = CfgHuman
      /\ verdict' = [s \in Stage |-> "none"]
      /\ review' = [s \in Stage |-> "default"]
      /\ refused' = {}
      /\ needHuman' = FALSE
      /\ exited' = FALSE
      /\ call' = NoCall
      /\ saved' = Snapshot(b, done0, skip1, saved.journal \cap known)
      /\ waived' = {s \in waived : s < a} \cup over \cup forced

\* A --skip entry that names the stage the manager has just settled at goes
\* through next_stage to save_stage_info before time_begin is assigned: the
\* exception ends the start-up and nothing is written.
Start(force, add, del) ==
  /\ proc = "down"
  /\ starts < MaxStarts
  /\ \E b \in 0 .. N :
       LET skip0 == LoadedSkip(KnownFor(force))
       IN  /\ GoSkip(EntryIndex(force), b, skip0)
           /\ IF b \in add
              THEN /\ proc' = "crashed"
                   /\ UNCHANGED <<memory, disk>>
              ELSE /\ proc' = "up"
                   /\ starts' = starts + 1
                   /\ Load(force, b, skip0, add, del)

Crash ==
  /\ proc = "up"
  /\ starts < MaxStarts
  /\ proc' = "down"
  /\ Blank
  /\ UNCHANGED <<saved, starts, waived>>

\* the console's quit: save_stage_info, then the process ends
Quit ==
  /\ proc = "up"
  /\ starts < MaxStarts
  /\ proc' = "down"
  /\ saved' = Snapshot(idx, done, skipped, journal)
  /\ Blank
  /\ UNCHANGED <<starts, waived>>

\* the user starts again after a start-up that failed
Retry ==
  /\ proc = "crashed"
  /\ proc' = "down"
  /\ UNCHANGED <<memory, disk>>

----------------------------------------------------------------------------
(* The LLM's tools. *)

ToolMayStart == proc = "up" /\ (Parallel \/ call.pc = "idle")

\* Check: VerifyStage._do_check marks the stage reached; its verdict and its
\* counters are the subject of other modules.
Check ==
  /\ ToolMayStart
  /\ idx < N
  /\ reached' = reached \cup {idx}
  /\ UNCHANGED <<proc, idx, inited, work, flags, gate, agent, call, disk>>

\* mutant: reached is not asked for
GoToStageUnreached(i) ==
  /\ ToolMayStart
  /\ i \in Stage \ skipped
  /\ i # idx
  /\ idx' = i
  /\ UNCHANGED <<proc, reached, inited, work, flags, gate, agent, call, disk>>

GoToStage(i) ==
  /\ ToolMayStart
  /\ i \in reached \ skipped
  /\ i # idx
  /\ idx' = i
  /\ UNCHANGED <<proc, reached, inited, work, flags, gate, agent, call, disk>>

SetCurrentStageJournal ==
  /\ ToolMayStart
  /\ idx < N
  /\ journal' = journal \cup {idx}
  /\ UNCHANGED <<proc, place, work, flags, verdict, refused, agent, call,
                  disk>>

Exit ==
  /\ ToolMayStart
  /\ AllCompleted(idx, done, skipped)
  /\ exited' = TRUE
  /\ saved' = Snapshot(idx, done, skipped, journal)
  /\ UNCHANGED <<proc, place, work, flags, gate, needHuman, call, starts,
                  waived>>

----------------------------------------------------------------------------
(* Complete, in the steps between which it waits.                          *)

Step(from, to) == call.pc = from /\ call' = to

\* the checkers of the stage at stage_index are started
CompleteBegin ==
  /\ ToolMayStart
  /\ idx < N
  /\ Step("idle", [NoCall EXCEPT !.pc = "checking", !.stage = idx,
                                 !.checked = idx])
  /\ reached' = reached \cup {idx}
  /\ UNCHANGED <<proc, idx, inited, work, flags, gate, agent, disk>>

\* a checker fails: failure summary and suggestion, nothing else
CompleteCheckFails ==
  /\ proc = "up"
  /\ Step("checking", NoCall)
  /\ UNCHANGED <<proc, place, work, flags, gate, agent, disk>>

CompleteKeepsApproval ==
  /\ proc = "up"
  /\ idx < N
  /\ idx \in journal
  /\ Step("checking", [call EXCEPT !.pc = IF ReviewNeeded(idx) THEN "review"
                                         ELSE "gating",
                                   !.stage = idx,
                                   !.asked = ReviewNeeded(idx)])
  /\ UNCHANGED <<proc, place, work, flags, gate, agent, disk>>

\* all checkers pass: the stage is read again from stage_index, its journal
\* is required, and the reviewer LLM is asked when the stage needs it
CompleteCheckPasses ==
  /\ proc = "up"
  /\ \/ /\ idx = N \/ idx \notin journal
        /\ Step("checking", NoCall)
        /\ UNCHANGED refused
     \/ /\ idx < N
        /\ idx \in journal
        /\ IF ReviewNeeded(idx)
           THEN /\ Step("checking", [call EXCEPT !.pc = "review",
                                      !.stage = idx, !.asked = TRUE])
                /\ refused' = refused \cup {idx}
           ELSE /\ Step("checking", [call EXCEPT !.pc = "gating",
                                      !.stage = idx])
                /\ UNCHANGED refused
  /\ UNCHANGED <<proc, place, work, flags, journal, verdict, agent, disk>>

\* ApproveStagePass acts on whatever stage is current when it is called
Approve(yes) ==
  /\ proc = "up"
  /\ idx < N
  /\ Step("review", [call EXCEPT !.vote = IF yes THEN "yes" ELSE "no"])
  /\ refused' = IF yes THEN refused \ {idx} ELSE refused \cup {idx}
  /\ UNCHANGED <<proc, place, work, flags, journal, verdict, agent, disk>>

ReviewReturns ==
  /\ proc = "up"
  /\ Step("review", [call EXCEPT !.pc = "gating"])
  /\ UNCHANGED <<proc, place, work, flags, gate, agent, disk>>

\* gen_pass_suggestion catches any exception of the review and approves
ReviewRaises ==
  /\ proc = "up"
  /\ Step("review", [call EXCEPT !.pc = "gating", !.vote = "raised"])
  /\ refused' = refused \ {call.stage}
  /\ UNCHANGED <<proc, place, work, flags, journal, verdict, agent, disk>>

CompleteIgnoresPending ==
  /\ proc = "up"
  /\ call.stage \notin refused
  /\ call.stage \in human => verdict[call.stage] # "fail"
  /\ idx < N
  /\ Step("gating", [call EXCEPT !.pc = "closing", !.stage = idx])
  /\ UNCHANGED <<proc, place, work, flags, gate, agent, disk>>

\* the approval and the human check decide; then the stage at stage_index,
\* read a third time, starts to be completed (its post commands run)
CompleteGate ==
  /\ proc = "up"
  /\ \/ /\ call.stage \in refused
        /\ Step("gating", NoCall)
        /\ UNCHANGED needHuman
     \/ /\ call.stage \notin refused
        /\ call.stage \in human
        /\ verdict[call.stage] # "pass"
        /\ Step("gating", NoCall)
        /\ needHuman' = TRUE
     \/ /\ call.stage \notin refused
        /\ call.stage \in human => verdict[call.stage] = "pass"
        /\ IF idx < N
           THEN Step("gating", [call EXCEPT !.pc = "closing", !.stage = idx])
           ELSE Step("gating", NoCall)
        /\ UNCHANGED needHuman
  /\ UNCHANGED <<proc, place, work, flags, gate, exited, disk>>

CompleteStopsIfEnded ==
  /\ proc = "up"
  /\ \/ /\ call.stage \in ended
        /\ Step("closing", NoCall)
        /\ UNCHANGED <<ended, done>>
     \/ /\ call.stage \notin ended
        /\ ended' = ended \cup {call.stage}
        /\ done' = done \cup {call.stage}
        /\ \/ Step("closing", [call EXCEPT !.pc = "advancing"])
           \/ Step("closing", NoCall)
  /\ UNCHANGED <<proc, place, flags, gate, agent, disk>>

\* VerifyStage.on_complete: the post commands may raise; a stage that already
\* ended is left alone, else it is marked, its history committed (which may
\* raise) and its callbacks run, among them the sync-back, which saves the
\* stage information first
CompleteClose ==
  /\ proc = "up"
  /\ \/ /\ \/ Step("closing", NoCall)
           \/ /\ call.stage \in ended
              /\ Step("closing", [call EXCEPT !.pc = "advancing"])
        /\ UNCHANGED <<ended, done, saved>>
     \/ /\ call.stage \notin ended
        /\ ended' = ended \cup {call.stage}
        /\ done' = done \cup {call.stage}
        /\ \/ /\ Step("closing", [call EXCEPT !.pc = "advancing"])
              /\ saved' = IF Master
                          THEN Snapshot(idx, done', skipped, journal)
                          ELSE saved
           \/ /\ Step("closing", NoCall)
              /\ UNCHANGED saved
  /\ UNCHANGED <<proc, place, flags, gate, agent, starts, waived>>

\* next_stage, then set_reached and on_init of the new current stage
CompleteAdvance ==
  /\ proc = "up"
  /\ Step("advancing", NoCall)
  /\ \E b \in 0 .. N :
       /\ GoSkip(idx + 1, b, skipped)
       /\ idx' = b
       /\ waived' = waived \cup {s \in Stage : idx < s /\ s < b}
       /\ saved' = Snapshot(b, done, skipped, journal)
       /\ IF AllCompleted(b, done, skipped)
          THEN UNCHANGED <<reached, inited>>
          ELSE /\ reached' = reached \cup {b}
               /\ inited' = inited \cup {b}
  /\ UNCHANGED <<proc, work, flags, gate, agent, starts>>

----------------------------------------------------------------------------
(* The user's commands: console (save = FALSE) and web API (save = TRUE).  *)

SaveIf(save, skip) ==
  saved' = IF save THEN Snapshot(idx, done, skip, journal) ELSE saved

\* api_update_stage_flags refuses a completed stage and any stage before the
\* current one
ApiMayEdit(s) == s \notin done /\ s >= idx

SkipCurrentToo(s, save) ==
  /\ proc = "up"
  /\ s >= idx
  /\ skipped' = skipped \cup Parts[s]
  /\ idx' = IF s = idx THEN idx + 1 ELSE idx
  /\ SaveIf(save, skipped')
  /\ UNCHANGED <<proc, reached, inited, work, human, review, gate, agent, call,
                  starts, waived>>

SkipStage(s, save) ==
  /\ proc = "up"
  /\ s > idx
  /\ save => ApiMayEdit(s)
  /\ skipped' = skipped \cup Parts[s]
  /\ SaveIf(save, skipped')
  /\ UNCHANGED <<proc, place, work, human, review, gate, agent, call, starts,
                  waived>>

UnskipStage(s, save) ==
  /\ proc = "up"
  /\ save => s > idx /\ ApiMayEdit(s)
  /\ skipped' = skipped \ Parts[s]
  /\ SaveIf(save, skipped')
  /\ UNCHANGED <<proc, place, work, human, review, gate, agent, call, starts,
                  waived>>

\* hmcheck_pass and hmcheck_fail of the current stage
HumanVerdict(v) ==
  /\ proc = "up"
  /\ idx \in human
  /\ verdict' = [verdict EXCEPT ![idx] = v]
  /\ UNCHANGED <<proc, place, work, flags, journal, refused, agent, call,
                  disk>>

HumanNeeded(s, need, save) ==
  /\ proc = "up"
  /\ save => ApiMayEdit(s)
  /\ human' = IF need THEN human \cup {s} ELSE human \ {s}
  /\ SaveIf(save, skipped)
  /\ UNCHANGED <<proc, place, work, skipped, review, gate, agent, call, starts,
                  waived>>

\* set_llm_pass_suggestion: None ("default") stays on the stage itself
ReviewSet(s, v, save) ==
  /\ proc = "up"
  /\ save => ApiMayEdit(s) /\ v # "default"
  /\ review' = [t \in Stage |->
                  IF t = s \/ (v # "default" /\ t \in Parts[s])
                  THEN v ELSE review[t]]
  /\ SaveIf(save, skipped)
  /\ UNCHANGED <<proc, place, work, skipped, human, gate, agent, call, starts,
                  waived>>

\* run_loop, started again by the user after it returned to wait for them
ResumeLoop ==
  /\ proc = "up"
  /\ needHuman
  /\ needHuman' = FALSE
  /\ UNCHANGED <<proc, place, work, flags, gate, exited, call, disk>>

ExitUnset ==
  /\ proc = "up"
  /\ exited
  /\ exited' = FALSE
  /\ UNCHANGED <<proc, place, work, flags, gate, needHuman, call, disk>>

----------------------------------------------------------------------------
Complete ==
  \/ CompleteBegin
  \/ CompleteCheckFails
  \/ CompleteCheckPasses
  \/ \E yes \in BOOLEAN : Approve(yes)
  \/ ReviewReturns
  \/ ReviewRaises
  \/ CompleteGate
  \/ CompleteClose
  \/ CompleteAdvance

Tools ==
  \/ Check
  \/ \E i \in GotoArgs : GoToStage(i)
  \/ SetCurrentStageJournal
  \/ Exit
  \/ Complete

ChangeFlags ==
  \/ \E s \in SkipCmds, save \in BOOLEAN :
       SkipStage(s, save) \/ UnskipStage(s, save)
  \/ \E s \in HumanCmds, need, save \in BOOLEAN : HumanNeeded(s, need, save)
  \/ \E s \in ReviewCmds, v \in {"default", "on", "off"}, save \in BOOLEAN :
       ReviewSet(s, v, save)

User ==
  \/ ChangeFlags
  \/ \E v \in {"pass", "fail"} : HumanVerdict(v)
  \/ ResumeLoop
  \/ ExitUnset

Process ==
  \/ \E force \in ForceArgs, add \in SkipArgs, del \in UnskipArgs :
       Start(force, add, del)
  \/ Crash
  \/ Quit
  \/ Retry

Next == Tools \/ User \/ Process

Spec == Init /\ [][Next]_vars
----------------------------------------------------------------------------
(* What the code's scheduling and its users owe for progress: checkers, the *)
(* reviewer and post commands return (they have timeouts); the agent loop   *)
(* calls the LLM again until the agent exits, so it keeps calling its tools;*)
(* a stage that is tried for ever passes at some point, and the reviewer    *)
(* and the human, asked for ever, approve at some point; a process that     *)
(* ended is started again.                                                  *)
Fairness ==
  /\ WF_vars(\E force \in ForceArgs, add \in SkipArgs, del \in UnskipArgs :
               Start(force, add, del))
  /\ SF_vars(SetCurrentStageJournal)
  /\ WF_vars(CompleteBegin)
  /\ WF_vars(CompleteCheckPasses \/ CompleteCheckFails)
  /\ SF_vars(CompleteCheckPasses /\ call'.pc # "idle")
  /\ SF_vars(Approve(TRUE))
  /\ SF_vars(ReviewReturns /\ call.vote = "yes")
  /\ SF_vars(call.pc = "gating" /\ HumanVerdict("pass"))
  /\ WF_vars(CompleteGate)
  /\ SF_vars(CompleteGate /\ call'.pc = "closing")
  /\ WF_vars(CompleteClose)
  /\ SF_vars(CompleteClose /\ call'.pc = "advancing")
  /\ WF_vars(CompleteAdvance)
  /\ WF_vars(Exit)

FairSpec == Spec /\ Fairness

----------------------------------------------------------------------------
(* Properties *)

\* A stage is accounted for when it was completed or stepped over on the
\* user's account (skipped at that moment, or an explicit start index).
Accounted == done \cup waived

\* No stage is overtaken: whatever the order of Complete, GoToStage, skip,
\* unskip, crashes and restarts, every stage before the current one, and
\* every stage before one that was reached, is accounted for
\* (complete, next_stage, go_to_stage, init_stage).
NothingOvertaken ==
  proc = "up" =>
    \A s \in Stage :
      (s < idx \/ \E t \in reached : s < t) => s \in Accounted

\* A crash at any moment is survivable: the saved index never lies beyond a
\* stage that is neither saved as completed nor stepped over by the user
\* (save_stage_info against init_stage).
SavedAccounted ==
  \A s \in Stage : s < saved.index => s \in saved.done \cup waived

\* The stage a Complete call closes is the stage its checkers ran on: the
\* three reads of stage_index in complete() agree.
ClosesWhatItChecked ==
  call.pc \in {"closing", "advancing"} => call.stage = call.checked

\* The gates hold at the moment a stage starts to be closed: its journal is
\* there, it is not refused, and a needed human check has passed (complete).
GatesHold ==
  [][ call.pc = "gating" /\ call'.pc = "closing" =>
        /\ call'.stage \in journal \ refused
        /\ call'.stage \in human => verdict[call'.stage] = "pass" ]_vars

\* When the reviewer was asked, the stage closes only after its last vote was
\* a yes or the review ended in an exception (gen_pass_suggestion).
ReviewDecides ==
  call.pc \in {"closing", "advancing"} /\ call.asked
    => call.vote \in {"yes", "raised"}

\* The mission is declared finished only when every stage is completed,
\* skipped, or was stepped over on the user's account (exit).
ExitAccounted ==
  [][ ~exited /\ exited' => Stage \subseteq done \cup skipped \cup waived ]_vars

\* The abstract mission: what is kept on disk are the stages before the
\* saved index, and only a running process holds credit.
M == INSTANCE Mission
       WITH running <- proc = "up",
            credit <- IF proc = "up" THEN Accounted ELSE {},
            excused <- skipped,
            kept <- {s \in Stage : s < saved.index},
            closed <- exited

\* The manager implements the abstract mission.
ImplementsMission == M!Spec

\* The mission ends: when the LLM goes back no more and the user changes no
\* flag and refuses no stage any more, whatever they did before, the agent
\* exits, and exits again after an exit_unset or a crash, with tools, reviewer
\* and human answering (the whole chain from complete to exit).
Undisturbed ==
  [][~( \/ ChangeFlags
        \/ HumanVerdict("fail")
        \/ \E i \in GotoArgs : GoToStage(i) )]_vars

\* the user switched the review off after the reviewer had refused: nothing
\* takes the refusal back
RefusalLeft == \E s \in refused : ~ReviewNeeded(s)

MissionEnds == <>Undisturbed => []<>(exited \/ RefusalLeft)

=============================================================================
