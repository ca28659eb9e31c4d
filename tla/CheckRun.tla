------------------------------ MODULE CheckRun ------------------------------
(***************************************************************************)
(* Running the checkers of a stage: VerifyStage.do_check and do_kill,      *)
(* Checker.check and kill, and the question to another LLM after a failed  *)
(* call.  The calls (tools Check and Complete) and the kills (tool         *)
(* KillCheck) run in worker threads of their own and share the fields of   *)
(* the stage and of its checkers, without a lock.  RunInit,      *)
(* RunNext and the like are named apart from those of BatchChecker, which  *)
(* CheckerProofs extends as well.                                          *)
(***************************************************************************)
EXTENDS Integers, FiniteSets

CONSTANTS
  Calls,       \* the calls of Check and Complete
  N,           \* number of checkers of the stage
  MinFail,     \* min_fail_count of the LLM that is asked after a failure
  Kills        \* bound: number of KillCheck calls

ASSUME NAssumption == N \in Nat \ {0}
ASSUME MinFailAssumption == MinFail \in Nat
ASSUME KillsAssumption == Kills \in Nat

Checkers == 1 .. N
None == "none"
ASSUME NoneAssumption == None \notin Calls
Unknown == -1

VARIABLES
  pc, at,      \* of each call: its place, the checker it is at
  inCheck,     \* is_in_check of each checker
  timed,       \* its time_start is set
  limit,       \* its _timeout is set
  process,     \* its _process: the call that started it, or None
  live,        \* the calls whose subprocess runs
  checkPass,   \* check_pass of the stage
  failed, succeeded, continued, \* fail_count, succ_count, continue_fail_count
  batched,     \* is_batch_success of the stage
  ok,          \* what c.check returned to each call
  passed,      \* history: checkers whose do_check passed in the call
  met,         \* history: calls that overlapped another one
  verdict,     \* what the stage returned to each call
  asked,       \* history: failed calls for which the other LLM was asked
  row,         \* history: calls that failed since one passed or finished a
               \* batch; Unknown from an overlap to the next of these
  victim,      \* KillCheck in progress: the checker it is at, 0 for none
  kpc,         \* ... and its place
  kills        \* KillCheck calls made

history == <<passed, met, verdict, asked, row>>
checker == <<inCheck, timed, limit, process>>
counts == <<failed, succeeded, continued, batched>>
killer == <<victim, kpc, kills>>
runVars == <<pc, at, checker, live, checkPass, counts, ok, history, killer>>

Places == {"idle", "test", "busy", "enter", "checking", "waiting", "left",
           "record", "final", "return", "suggest", "done"}

RunTypeOK ==
  /\ pc \in [Calls -> Places]
  /\ at \in [Calls -> Checkers]
  /\ inCheck \in [Checkers -> BOOLEAN]
  /\ timed \in [Checkers -> BOOLEAN]
  /\ limit \in [Checkers -> BOOLEAN]
  /\ process \in [Checkers -> Calls \cup {None}]
  /\ live \in SUBSET Calls
  /\ checkPass \in BOOLEAN
  /\ {failed, succeeded, continued} \subseteq Nat
  /\ batched \in BOOLEAN
  /\ ok \in [Calls -> BOOLEAN]
  /\ passed \in [Calls -> SUBSET Checkers]
  /\ met \in SUBSET Calls
  /\ verdict \in [Calls -> {"none", "pass", "fail", "error"}]
  /\ asked \in SUBSET Calls
  /\ row \in Nat \cup {Unknown}
  /\ victim \in 0 .. N
  /\ kpc \in {"idle", "look", "kill", "clear"}
  /\ kills \in 0 .. Kills

RunInit ==
  /\ pc = [c \in Calls |-> "idle"]
  /\ at = [c \in Calls |-> 1]
  /\ inCheck = [k \in Checkers |-> FALSE]
  /\ timed = [k \in Checkers |-> FALSE]
  /\ limit = [k \in Checkers |-> FALSE]
  /\ process = [k \in Checkers |-> None]
  /\ live = {}
  /\ checkPass = FALSE
  /\ failed = 0 /\ succeeded = 0 /\ continued = 0
  /\ batched = FALSE
  /\ ok = [c \in Calls |-> FALSE]
  /\ passed = [c \in Calls |-> {}]
  /\ met = {}
  /\ verdict = [c \in Calls |-> "none"]
  /\ asked = {}
  /\ row = 0
  /\ victim = 0
  /\ kpc = "idle"
  /\ kills = 0

Goto(c, place) == pc' = [pc EXCEPT ![c] = place]
Running(c) == pc[c] \notin {"idle", "done"}
Others(c) == {d \in Calls \ {c} : Running(d)}
Meets(c) == met' = IF Others(c) = {} THEN met ELSE met \cup {c} \cup Others(c)

\* the row with one more failure, and the row when call c begins
Longer(n) == IF n = Unknown THEN Unknown ELSE n + 1
RowOf(c) == IF Others(c) = {} THEN row ELSE Unknown

IsProcessing(k) == inCheck[k] /\ process[k] # None

----------------------------------------------------------------------------
(* VerifyStage._do_check and Checker.check *)

\* skills unused, reference files unread or output files missing; the last
\* two count as a failure
Precheck(c, counted) ==
  /\ pc[c] = "idle"
  /\ Meets(c)
  /\ Goto(c, "suggest")
  /\ verdict' = [verdict EXCEPT ![c] = "fail"]
  /\ failed' = IF counted THEN failed + 1 ELSE failed
  /\ continued' = IF counted THEN continued + 1 ELSE continued
  /\ row' = IF counted THEN Longer(RowOf(c)) ELSE RowOf(c)
  /\ UNCHANGED <<at, checker, live, checkPass, succeeded, batched, ok, passed,
                 asked, killer>>

BeginKeepsPass(c) ==
  /\ pc[c] = "idle"
  /\ Meets(c)
  /\ Goto(c, "test")
  /\ row' = RowOf(c)
  /\ UNCHANGED <<at, checker, live, checkPass, counts, ok, passed, verdict,
                 asked, killer>>

Begin(c) ==
  /\ pc[c] = "idle"
  /\ Meets(c)
  /\ Goto(c, "test")
  /\ checkPass' = TRUE
  /\ row' = RowOf(c)
  /\ UNCHANGED <<at, checker, live, counts, ok, passed, verdict, asked, killer>>

\* stage_args that are no object
BadArgs(c) ==
  /\ pc[c] = "idle"
  /\ Meets(c)
  /\ Goto(c, "suggest")
  /\ checkPass' = TRUE
  /\ verdict' = [verdict EXCEPT ![c] = "fail"]
  /\ row' = RowOf(c)
  /\ UNCHANGED <<at, checker, live, counts, ok, passed, asked, killer>>

\* is_in_check is read here and set in the next step
Test(c) ==
  /\ pc[c] = "test"
  /\ Goto(c, IF inCheck[at[c]] THEN "busy" ELSE "enter")
  /\ batched' = FALSE
  /\ UNCHANGED <<at, checker, live, checkPass, failed, succeeded, continued, ok,
                 history, killer>>

\* "Previous check is still running", with the time left computed from
\* _timeout and time_start; without the latter that is a TypeError, which
\* nothing up to the tool catches
Busy(c) ==
  /\ pc[c] = "busy"
  /\ IF limit[at[c]] /\ ~timed[at[c]]
     THEN /\ Goto(c, "done")
          /\ verdict' = [verdict EXCEPT ![c] = "error"]
          /\ UNCHANGED ok
     ELSE /\ Goto(c, "record")
          /\ ok' = [ok EXCEPT ![c] = FALSE]
          /\ UNCHANGED verdict
  /\ UNCHANGED <<at, checker, live, checkPass, counts, passed, met, asked, row,
                 killer>>

Enter(c) ==
  /\ pc[c] = "enter"
  /\ Goto(c, "checking")
  /\ inCheck' = [inCheck EXCEPT ![at[c]] = TRUE]
  /\ timed' = [timed EXCEPT ![at[c]] = TRUE]
  /\ UNCHANGED <<at, limit, process, live, checkPass, counts, ok, history,
                 killer>>

\* do_check starts a subprocess and reports it with set_check_process
StartProcess(c) ==
  /\ pc[c] = "checking"
  /\ Goto(c, "waiting")
  /\ live' = live \cup {c}
  /\ process' = [process EXCEPT ![at[c]] = c]
  /\ limit' = [limit EXCEPT ![at[c]] = TRUE]
  /\ UNCHANGED <<at, inCheck, timed, checkPass, counts, ok, history, killer>>

\* the subprocess ends by itself, or by its time limit
ProcessEnds(c) ==
  /\ c \in live
  /\ live' = live \ {c}
  /\ UNCHANGED <<pc, at, checker, checkPass, counts, ok, history, killer>>

Returned(c) ==
  \/ pc[c] = "checking"
  \/ pc[c] = "waiting" /\ c \notin live

CheckReturnsLocked(c, good, batch) ==
  /\ Returned(c)
  /\ Goto(c, "left")
  /\ ok' = [ok EXCEPT ![c] = good]
  /\ passed' = IF good THEN [passed EXCEPT ![c] = @ \cup {at[c]}] ELSE passed
  /\ UNCHANGED <<at, checker, live, checkPass, counts, met, verdict, asked, row,
                 killer>>

CheckReturnsKeepsCount(c, good, batch) ==
  /\ Returned(c)
  /\ Goto(c, "left")
  /\ inCheck' = [inCheck EXCEPT ![at[c]] = FALSE]
  /\ ok' = [ok EXCEPT ![c] = good]
  /\ passed' = IF good THEN [passed EXCEPT ![c] = @ \cup {at[c]}] ELSE passed
  /\ batched' = (batch \/ batched)
  /\ row' = IF batch /\ c \notin met THEN 0 ELSE row
  /\ UNCHANGED <<at, timed, limit, process, live, checkPass, failed, succeeded,
                 continued, met, verdict, asked, killer>>

\* do_check may report a finished batch (reset_continue_fail_count_with_
\* batch_pass) whether or not it passes
CheckReturns(c, good, batch) ==
  /\ Returned(c)
  /\ Goto(c, "left")
  /\ inCheck' = [inCheck EXCEPT ![at[c]] = FALSE]
  /\ ok' = [ok EXCEPT ![c] = good]
  /\ passed' = IF good THEN [passed EXCEPT ![c] = @ \cup {at[c]}] ELSE passed
  /\ batched' = (batch \/ batched)
  /\ continued' = IF batch THEN 0 ELSE continued
  /\ row' = IF batch /\ c \notin met THEN 0 ELSE row
  /\ UNCHANGED <<at, timed, limit, process, live, checkPass, failed, succeeded,
                 met, verdict, asked, killer>>

\* the exception path forgets set_check_process(None, None)
CheckRaises(c) ==
  /\ Returned(c)
  /\ Goto(c, "record")
  /\ inCheck' = [inCheck EXCEPT ![at[c]] = FALSE]
  /\ ok' = [ok EXCEPT ![c] = FALSE]
  /\ UNCHANGED <<at, timed, limit, process, live, checkPass, counts, history,
                 killer>>

ResetProcess(c) ==
  /\ pc[c] = "left"
  /\ Goto(c, "record")
  /\ process' = [process EXCEPT ![at[c]] = None]
  /\ limit' = [limit EXCEPT ![at[c]] = FALSE]
  /\ UNCHANGED <<at, inCheck, timed, live, checkPass, counts, ok, history,
                 killer>>

RecordGoesOn(c) ==
  /\ pc[c] = "record"
  /\ Goto(c, IF at[c] < N THEN "test" ELSE "final")
  /\ at' = [at EXCEPT ![c] = IF @ < N THEN @ + 1 ELSE @]
  /\ checkPass' = ok[c]
  /\ failed' = IF ok[c] \/ batched THEN failed ELSE failed + 1
  /\ UNCHANGED <<checker, live, succeeded, continued, batched, ok, history,
                 killer>>

\* a failure ends the loop over the checkers, and counts unless a batch was
\* finished
RecordResult(c) ==
  /\ pc[c] = "record"
  /\ IF ok[c]
     THEN /\ Goto(c, IF at[c] < N THEN "test" ELSE "final")
          /\ at' = [at EXCEPT ![c] = IF @ < N THEN @ + 1 ELSE @]
          /\ UNCHANGED <<checkPass, failed>>
     ELSE /\ Goto(c, "final")
          /\ checkPass' = FALSE
          /\ failed' = IF batched THEN failed ELSE failed + 1
          /\ UNCHANGED at
  /\ UNCHANGED <<checker, live, succeeded, continued, batched, ok, history,
                 killer>>

Final(c) ==
  /\ pc[c] = "final"
  /\ Goto(c, "return")
  /\ succeeded' = IF checkPass THEN succeeded + 1 ELSE succeeded
  /\ continued' = IF checkPass THEN 0 ELSE continued + 1
  /\ UNCHANGED <<at, checker, live, checkPass, failed, batched, ok, history,
                 killer>>

\* check_pass is read once more
Return(c) ==
  /\ pc[c] = "return"
  /\ Goto(c, IF checkPass THEN "done" ELSE "suggest")
  /\ verdict' = [verdict EXCEPT ![c] = IF checkPass THEN "pass" ELSE "fail"]
  /\ row' = IF c \in met THEN row
            ELSE IF passed[c] = Checkers THEN 0 ELSE Longer(row)
  /\ UNCHANGED <<at, checker, live, checkPass, counts, ok, passed, met, asked,
                 killer>>

SuggestLate(c) ==
  /\ pc[c] = "suggest"
  /\ Goto(c, "done")
  /\ asked' = IF continued <= MinFail THEN asked ELSE asked \cup {c}
  /\ UNCHANGED <<at, checker, live, checkPass, counts, ok, passed, met, verdict,
                 row, killer>>

\* the count is read again to choose between the bare report and another
\* LLM's help, in a stage that has such an LLM
Suggest(c) ==
  /\ pc[c] = "suggest"
  /\ Goto(c, "done")
  /\ asked' = IF continued < MinFail THEN asked ELSE asked \cup {c}
  /\ UNCHANGED <<at, checker, live, checkPass, counts, ok, passed, met, verdict,
                 row, killer>>

----------------------------------------------------------------------------
(* VerifyStage.do_kill and Checker.kill *)

KillBegin ==
  /\ kpc = "idle"
  /\ kills < Kills
  /\ kills' = kills + 1
  /\ victim' = 1
  /\ kpc' = "look"
  /\ UNCHANGED <<pc, at, checker, live, checkPass, counts, ok, history>>

\* the next checker, or the end of the loop
KillNext ==
  IF victim < N THEN victim' = victim + 1 /\ kpc' = "look"
                ELSE victim' = 0 /\ kpc' = "idle"

KillLook ==
  /\ kpc = "look"
  /\ IF IsProcessing(victim) THEN kpc' = "kill" /\ UNCHANGED victim
                             ELSE KillNext
  /\ UNCHANGED <<pc, at, checker, live, checkPass, counts, ok, history, kills>>

\* kill reads both fields again
KillProcess ==
  /\ kpc = "kill"
  /\ IF IsProcessing(victim)
     THEN /\ live' = live \ {process[victim]}
          /\ kpc' = "clear"
          /\ UNCHANGED <<victim, inCheck>>
     ELSE /\ inCheck' = [inCheck EXCEPT ![victim] = FALSE]
          /\ KillNext
          /\ UNCHANGED live
  /\ UNCHANGED <<pc, at, timed, limit, process, checkPass, counts, ok, history,
                 kills>>

KillClear ==
  /\ kpc = "clear"
  /\ inCheck' = [inCheck EXCEPT ![victim] = FALSE]
  /\ timed' = [timed EXCEPT ![victim] = FALSE]
  /\ KillNext
  /\ UNCHANGED <<pc, at, limit, process, live, checkPass, counts, ok, history,
                 kills>>

Kill == KillBegin \/ KillLook \/ KillProcess \/ KillClear

Step(c) ==
  \/ Test(c)
  \/ Busy(c)
  \/ Enter(c)
  \/ \E good, batch \in BOOLEAN : CheckReturns(c, good, batch)
  \/ CheckRaises(c)
  \/ ResetProcess(c)
  \/ RecordResult(c)
  \/ Final(c)
  \/ Return(c)
  \/ Suggest(c)

Finished ==
  /\ \A c \in Calls : pc[c] = "done"
  /\ kpc = "idle"
  /\ UNCHANGED runVars

RunNext ==
  \/ \E c \in Calls :
       \/ \E counted \in BOOLEAN : Precheck(c, counted)
       \/ BadArgs(c)
       \/ Begin(c)
       \/ Step(c)
       \/ StartProcess(c)
       \/ ProcessEnds(c)
  \/ Kill
  \/ Finished

RunSpec == RunInit /\ [][RunNext]_runVars

----------------------------------------------------------------------------
(* Properties *)

\* Every variable has its type, and a call that met no other passes exactly
\* when every checker of the stage has passed in this very call, whatever
\* earlier calls and kills at any moment leave in the shared fields.
PassIsEarned ==
  /\ RunTypeOK
  /\ \A c \in Calls \ met :
       verdict[c] \in {"pass", "fail"} =>
         (verdict[c] = "pass" <=> passed[c] = Checkers)

\* is_in_check never locks a checker out: with no call in progress, it is
\* not set, whatever was killed, raised or overlapped before.
NoCheckerLockedOut ==
  (\A c \in Calls : ~Running(c)) => \A k \in Checkers : ~inCheck[k]

\* Another LLM is asked for help after a failed call exactly when at least
\* MinFail calls in a row have failed, this one included, with no pass and no
\* finished batch (of this call or an earlier one) in between; overlapping
\* calls leave the count wrong only until the next call that runs alone passes
\* or finishes a batch.
HelpAfterRow ==
  [][ \A c \in Calls \ met :
        pc[c] = "suggest" /\ pc'[c] = "done" /\ row # Unknown =>
          (c \in asked' <=> row >= MinFail) ]_runVars

\* The tool Complete: "mark the stage as complete if all checks pass".  Not so
\* for calls that overlap: check_pass is a field of the stage, and the call
\* that begins sets it for the one about to return.
EveryPassIsEarned ==
  \A c \in Calls : verdict[c] = "pass" => passed[c] = Checkers

=============================================================================
