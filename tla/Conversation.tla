---------------------------- MODULE Conversation ----------------------------
(***************************************************************************)
(* The conversation between the agent and the LLM: the rounds of           *)
(* VerifyAgent (one_loop, do_work), the langchain backend that runs them,  *)
(* and TrimAndSummaryMiddleware, which rewrites the messages before every  *)
(* call of the model.  The state graph of langgraph (model, tools, model,  *)
(* ...) and the model itself are external.                                 *)
(*                                                                         *)
(* A message is its kind, with the identifiers of the tool calls an AI     *)
(* message makes (calls), of those it makes with unusable arguments (bad), *)
(* or of the call a tool message answers.                                  *)
(***************************************************************************)
EXTENDS Integers, Sequences, FiniteSets, SequencesExt, FiniteSetsExt

CONSTANTS
  CallIds,    \* identifiers of tool calls
  SkillCalls, \* the calls that read a SKILL.md
  MaxKeep,    \* max_keep_msgs
  TailKeep,   \* tail_keep_msgs
  MaxFaults,  \* bound: calls of model or tools that fail, interruptions
  MaxOrders,  \* bound: resets, summaries and chats asked for
  MaxReads,   \* bound: reads of a SKILL.md
  MaxLength   \* bound: messages when a round begins

ASSUME CallsAssumption == CallIds \subseteq Nat /\ SkillCalls \subseteq CallIds
ASSUME KeepAssumption == MaxKeep \in Nat /\ TailKeep \in 1 .. MaxKeep
ASSUME BoundsAssumption ==
  {MaxFaults, MaxOrders, MaxReads, MaxLength} \subseteq Nat

VARIABLES
  msgs,       \* the messages in the state of the graph
  pc,         \* where the round is
  tips,       \* the system message still has to be sent
  toolErrors, \* _tool__call_error: answers to bad calls, for the next round
  reset,      \* _is_reset_chat and _is_reset_force: "no", "soft" or "force"
  arbit,      \* a summary is provided (arbit_summary_data)
  faults, orders, reads,
  cut,        \* history: a call and its answer were parted, by a console
              \* command, or a silent error
  early,      \* history: a chat came before the system message
  replaced,   \* history: the messages were replaced by a provided summary
  learned     \* history: a SKILL.md was read since the last reset

bounds == <<faults, orders, reads>>
history == <<cut, early, replaced>>
vars == <<msgs, pc, tips, toolErrors, reset, arbit, bounds, history, learned>>

Msg(kind) == [kind |-> kind, calls |-> {}, bad |-> {}]
AiMsg(calls, bad) == [kind |-> "ai", calls |-> calls, bad |-> bad]
ToolMsg(id) == [kind |-> "tool", calls |-> {id}, bad |-> {}]
\* in the order of the calls
ToolMsgs(ids) ==
  [i \in 1 .. Cardinality(ids) |->
     ToolMsg(CHOOSE id \in ids : Cardinality({j \in ids : j <= id}) = i)]

Kinds == {"system", "human", "summary", "skill", "ai", "tool"}
Message == [kind : Kinds, calls : SUBSET CallIds, bad : SUBSET CallIds]
Human == {"human", "summary", "skill"}

TypeOK ==
  /\ msgs \in Seq(Message)
  /\ pc \in {"idle", "before", "model", "answered", "tools"}
  /\ tips \in BOOLEAN
  /\ toolErrors \in Seq(Message)
  /\ reset \in {"no", "soft", "force"}
  /\ arbit \in BOOLEAN
  /\ faults \in 0 .. MaxFaults /\ orders \in 0 .. MaxOrders
  /\ reads \in 0 .. MaxReads
  /\ {cut, early, replaced, learned} \subseteq BOOLEAN

Init ==
  /\ msgs = <<>>
  /\ pc = "idle"
  /\ tips = TRUE
  /\ toolErrors = <<>>
  /\ reset = "no"
  /\ arbit = FALSE
  /\ faults = 0 /\ orders = 0 /\ reads = 0
  /\ cut = FALSE /\ early = FALSE /\ replaced = FALSE /\ learned = FALSE

\* no console command, silent error or provided summary parted the messages
Whole == ~cut /\ ~early /\ ~replaced

\* No whole conversation comes to the bound; the others are followed for half
\* as long.
AtBound == Len(msgs) >= IF Whole THEN MaxLength ELSE MaxLength \div 2

----------------------------------------------------------------------------
(* Helpers on messages. *)

AiCalls(ms) == UNION {ms[i].calls : i \in {j \in DOMAIN ms : ms[j].kind = "ai"}}
Answers(ms) ==
  UNION {ms[i].calls : i \in {j \in DOMAIN ms : ms[j].kind = "tool"}}

\* _pending_tool_calls
Pending(ms) == AiCalls(ms) \ Answers(ms)

\* SummarizationMiddleware._find_safe_cutoff_point of langchain: cut after the
\* first c messages, but not between an AI message and its answers
SafeCut(ms, c) ==
  IF c >= Len(ms) \/ ms[c + 1].kind # "tool"
  THEN c
  ELSE LET end == CHOOSE e \in c + 1 .. Len(ms) :
                    /\ \A i \in c + 1 .. e : ms[i].kind = "tool"
                    /\ e = Len(ms) \/ ms[e + 1].kind # "tool"
           ids == Answers(SubSeq(ms, c + 1, end))
           askers == {i \in 1 .. c : /\ ms[i].kind = "ai"
                                     /\ ms[i].calls \cap ids # {}}
       IN  IF askers = {} THEN end ELSE Max(askers) - 1

\* the tool messages that follow message i at once
Replies(ms, i) ==
  {ms[j] : j \in {k \in i + 1 .. Len(ms) :
                    \A l \in i + 1 .. k : ms[l].kind = "tool"}}

\* every valid call is answered at once, and no answer stands alone
CallsAnswered(ms) ==
  LET ais == {i \in DOMAIN ms : ms[i].kind = "ai"}
  IN  /\ \A i \in ais, id \in CallIds :
           id \in ms[i].calls => ToolMsg(id) \in Replies(ms, i)
      /\ \A j \in DOMAIN ms : ms[j].kind = "tool" =>
           \E i \in ais : /\ i < j
                          /\ ms[j].calls \subseteq ms[i].calls \cup ms[i].bad
                          /\ ms[j] \in Replies(ms, i)

\* what a provider answers: bad calls have their answers as well
WellFormed(ms) ==
  /\ CallsAnswered(ms)
  /\ \A i \in DOMAIN ms : \A id \in ms[i].bad : ToolMsg(id) \in Replies(ms, i)

\* retain_skill_read_messages_as_human: those retained before, and the reads
\* that were answered
Skills(ms) == {i \in DOMAIN ms : ms[i].kind = "skill"}
SkillsRead(ms) == AiCalls(ms) \cap Answers(ms) \cap SkillCalls
RetainedSkills(ms) ==
  [i \in 1 .. Cardinality(Skills(ms)) + Cardinality(SkillsRead(ms)) |->
     Msg("skill")]

----------------------------------------------------------------------------
(* A round: one_loop, get_current_tips, custom_chat and do_work. *)

\* mutant: always the tips
StartRoundTips ==
  /\ pc = "idle"
  /\ ~AtBound
  /\ pc' = "before"
  /\ msgs' = msgs \o (IF tips THEN <<Msg("system")>> ELSE <<>>)
                  \o <<Msg("human")>>
  /\ tips' = FALSE
  /\ toolErrors' = <<>>
  /\ UNCHANGED <<reset, arbit, bounds, history, learned>>

\* the answers to bad calls of the last round, if there are any, else the
\* tips, the first time with the system message
StartRound ==
  /\ pc = "idle"
  /\ ~AtBound
  /\ pc' = "before"
  /\ IF toolErrors # <<>>
     THEN msgs' = msgs \o toolErrors /\ UNCHANGED tips
     ELSE /\ msgs' = msgs \o (IF tips THEN <<Msg("system")>> ELSE <<>>)
                          \o <<Msg("human")>>
          /\ tips' = FALSE
  /\ toolErrors' = <<>>
  /\ UNCHANGED <<reset, arbit, bounds, history, learned>>

\* do_chat: answers to bad calls are dropped
Chat ==
  /\ pc = "idle"
  /\ orders < MaxOrders
  /\ orders' = orders + 1
  /\ pc' = "before"
  /\ msgs' = Append(msgs, Msg("human"))
  /\ toolErrors' = <<>>
  /\ cut' = (cut \/ toolErrors # <<>>)
  /\ early' = (early \/ tips)
  /\ UNCHANGED <<tips, reset, arbit, faults, reads, replaced, learned>>

----------------------------------------------------------------------------
(* TrimAndSummaryMiddleware.before_model. *)

\* the first message is taken for the role, or the known system message
Role == IF Head(msgs).kind = "system" \/ tips THEN <<Head(msgs)>>
                                              ELSE <<Msg("system")>>
Rest == Tail(msgs)

ResetKeep == 2 \* the messages a reset keeps
ResetCut ==
  SafeCut(Rest, IF Len(Rest) > ResetKeep THEN Len(Rest) - ResetKeep ELSE 0)

LastHuman(ms, end) ==
  Max({0} \cup {i \in DOMAIN ms : i <= end /\ ms[i].kind \in Human})

\* mutant: the tail begins where it is cut
SoftTailCut == SubSeq(Rest, ResetCut + 1, Len(Rest))

\* the tail after a reset, with the last human message before it
SoftTail ==
  LET h == LastHuman(Rest, ResetCut + 1)
      first == IF h = 0 THEN 1 ELSE h
      tail == SubSeq(Rest, ResetCut + 1, Len(Rest))
  IN  IF first <= ResetCut THEN <<Rest[first]>> \o tail ELSE tail

ResetTail ==
  LET h == LastHuman(SoftTail, Len(SoftTail))
  IN  IF reset = "force" /\ h > 0 THEN <<SoftTail[h]>> ELSE SoftTail

\* the search for a human message starts beyond the last message
ResetFails == Rest # <<>> /\ ResetCut = Len(Rest)

BeforeReset ==
  /\ pc = "before"
  /\ reset # "no"
  /\ ~ResetFails
  /\ pc' = "model"
  /\ msgs' = Role \o ResetTail
  /\ reset' = "no"
  /\ cut' = (cut \/ (reset = "force" /\ toolErrors # <<>>))
  /\ learned' = FALSE
  /\ UNCHANGED <<tips, toolErrors, arbit, bounds, early, replaced>>

TrimCut ==
  SafeCut(Rest, IF Len(Rest) > TailKeep THEN Len(Rest) - TailKeep ELSE 0)

\* the model that summarizes accepts the messages it is given
Summarizable == WellFormed(SubSeq(Rest, 1, TrimCut))

\* mutant: only the tokens count
TrimmingTokens(exceed) ==
  /\ pc = "before"
  /\ reset = "no"
  /\ ~arbit
  /\ exceed
  /\ TrimCut > 0

Trimming(exceed) ==
  /\ pc = "before"
  /\ reset = "no"
  /\ ~arbit
  /\ exceed \/ Len(Rest) > MaxKeep
  /\ TrimCut > 0

\* mutant: the skills read are summarized away
TrimmedNoSkill ==
  Role \o <<Msg("summary")>> \o SubSeq(Rest, TrimCut + 1, Len(Rest))

\* role, skills, summary, tail
Trimmed ==
  Role \o RetainedSkills(SubSeq(Rest, 1, TrimCut)) \o <<Msg("summary")>>
       \o SubSeq(Rest, TrimCut + 1, Len(Rest))

\* exceed: the messages exceed max_tokens
BeforeTrim(exceed) ==
  /\ Trimming(exceed)
  /\ Summarizable
  /\ pc' = "model"
  /\ msgs' = Trimmed
  /\ UNCHANGED <<tips, toolErrors, reset, arbit, bounds, history, learned>>

BeforeNothing(exceed) ==
  /\ pc = "before"
  /\ reset = "no"
  /\ ~arbit
  /\ ~Trimming(exceed)
  /\ pc' = "model"
  /\ UNCHANGED <<msgs, tips, toolErrors, reset, arbit, bounds, history,
                 learned>>

\* a provided summary: the messages are removed, the summary stays behind
BeforeSummary ==
  /\ pc = "before"
  /\ reset = "no"
  /\ arbit
  /\ pc' = "model"
  /\ msgs' = <<Head(msgs)>>
  /\ arbit' = FALSE
  /\ replaced' = TRUE
  /\ learned' = FALSE
  /\ UNCHANGED <<tips, toolErrors, reset, bounds, cut, early>>

----------------------------------------------------------------------------
(* The graph: model and tools; the backend sees what they return. *)

Used == AiCalls(msgs) \cup Answers(msgs)
          \cup UNION {msgs[i].bad : i \in DOMAIN msgs} \cup Answers(toolErrors)

ModelReturns(calls, bad) ==
  /\ pc = "model"
  /\ WellFormed(msgs)
  /\ msgs' = Append(msgs, AiMsg(calls, bad))
  /\ pc' = "answered"
  /\ reads' = reads + Cardinality(calls \cap SkillCalls)
  /\ UNCHANGED <<tips, toolErrors, reset, arbit, faults, orders, history,
                 learned>>

\* the event of the AI message: check_tool_call_error runs the bad calls
SeeAnswer ==
  /\ pc = "answered"
  /\ toolErrors' = toolErrors \o ToolMsgs(Last(msgs).bad)
  /\ pc' = IF Last(msgs).calls = {} THEN "idle" ELSE "tools"
  /\ UNCHANGED <<msgs, tips, reset, arbit, bounds, history, learned>>

ToolsReturn ==
  /\ pc = "tools"
  /\ msgs' = msgs \o ToolMsgs(Last(msgs).calls)
  /\ pc' = "before"
  /\ learned' = (learned \/ Last(msgs).calls \cap SkillCalls # {})
  /\ UNCHANGED <<tips, toolErrors, reset, arbit, bounds, history>>

\* mutant: nothing is recovered
RecoverNothing(ms) == ms

\* recover_pending_tool_calls, on the messages an exception left
Recover(ms) == ms \o ToolMsgs(Pending(ms))

\* a tool fails as the framework sees it, when some have returned; of a silent
\* error recover_pending_tool_calls cannot make a reason, and fails itself
ToolsRaise(finished, silent) ==
  LET left == msgs \o ToolMsgs(finished)
  IN  /\ pc = "tools"
      /\ faults < MaxFaults
      /\ faults' = faults + 1
      /\ finished \subseteq Last(msgs).calls
      /\ msgs' = IF silent THEN left ELSE Recover(left)
      /\ cut' = (cut \/ (silent /\ Pending(left) # {}))
      /\ pc' = "idle"
      /\ learned' = (learned \/ finished \cap SkillCalls # {})
      /\ UNCHANGED <<tips, toolErrors, reset, arbit, orders, reads, early,
                     replaced>>

\* the model fails, or refuses the messages
ModelRaises ==
  /\ pc = "model"
  /\ IF WellFormed(msgs) THEN faults < MaxFaults /\ faults' = faults + 1
                         ELSE UNCHANGED faults
  /\ msgs' = Recover(msgs)
  /\ pc' = "idle"
  /\ UNCHANGED <<tips, toolErrors, reset, arbit, orders, reads, history,
                 learned>>

\* before_model fails: a reset that finds no message to start from, or the
\* model that summarizes
BeforeRaises ==
  /\ pc = "before"
  /\ \/ /\ reset # "no"
        /\ ResetFails
        /\ UNCHANGED faults
     \/ /\ \E exceed \in BOOLEAN : Trimming(exceed)
        /\ IF Summarizable
           THEN faults < MaxFaults /\ faults' = faults + 1
           ELSE UNCHANGED faults
  /\ msgs' = Recover(msgs)
  /\ pc' = "idle"
  /\ UNCHANGED <<tips, toolErrors, reset, arbit, orders, reads, history,
                 learned>>

\* a break seen at an event, or Ctrl-C: the round ends where it is, without
\* recovery
Interrupt ==
  /\ pc \in {"before", "model", "answered", "tools"}
  /\ faults < MaxFaults
  /\ faults' = faults + 1
  /\ pc' = "idle"
  /\ cut' = (cut \/ Pending(msgs) # {}
                 \/ (pc = "answered" /\ Last(msgs).bad # {}))
  /\ UNCHANGED <<msgs, tips, toolErrors, reset, arbit, orders, reads, early,
                 replaced, learned>>

----------------------------------------------------------------------------
(* Orders from other threads, at any moment. *)

\* reset_chat: on_stage_complete (soft), messages_reset (soft or force)
ResetChat(force) ==
  /\ orders < MaxOrders
  /\ orders' = orders + 1
  /\ reset' = IF force THEN "force" ELSE "soft"
  /\ UNCHANGED <<msgs, pc, tips, toolErrors, arbit, faults, reads, history,
                 learned>>

\* set_arbit_summary: tool ArbitContextSummary, command messages_summary
SetArbitSummary ==
  /\ orders < MaxOrders
  /\ orders' = orders + 1
  /\ arbit' = TRUE
  /\ UNCHANGED <<msgs, pc, tips, toolErrors, reset, faults, reads, history,
                 learned>>

----------------------------------------------------------------------------

\* what the model may ask for: at most two calls, with the smallest free
\* identifiers, or a skill
CallsAtOnce == 2
Requests ==
  LET plain == CallIds \ (SkillCalls \cup Used)
      skills == IF reads < MaxReads THEN SkillCalls \ Used ELSE {}
      least == IF plain = {} THEN {} ELSE {Min(plain)}
      two == IF plain \ least = {} THEN least
                                   ELSE least \cup {Min(plain \ least)}
  IN  {[calls |-> {}, bad |-> {}], [calls |-> least, bad |-> {}],
       [calls |-> {}, bad |-> least], [calls |-> two, bad |-> {}],
       [calls |-> least, bad |-> two \ least], [calls |-> {}, bad |-> two]}
      \cup {[calls |-> {s}, bad |-> {}] : s \in skills}

Next ==
  \/ StartRound
  \/ Chat
  \/ BeforeReset
  \/ \E exceed \in BOOLEAN : BeforeTrim(exceed) \/ BeforeNothing(exceed)
  \/ BeforeSummary
  \/ \E r \in Requests : ModelReturns(r.calls, r.bad)
  \/ SeeAnswer
  \/ ToolsReturn
  \/ \E finished \in SUBSET CallIds, silent \in BOOLEAN :
       ToolsRaise(finished, silent)
  \/ ModelRaises
  \/ BeforeRaises
  \/ Interrupt
  \/ \E force \in BOOLEAN : ResetChat(force)
  \/ SetArbitSummary

Spec == Init /\ [][Next]_vars

\* The loop goes on: do_loop retries a round that failed (max_loop_retry, 10,
\* is more than MaxFaults), the model answers or refuses, tools return.  No
\* order and no fault has to happen.
Step ==
  \/ StartRound
  \/ BeforeReset
  \/ \E exceed \in BOOLEAN : BeforeTrim(exceed) \/ BeforeNothing(exceed)
  \/ BeforeSummary
  \/ \E r \in Requests : ModelReturns(r.calls, r.bad)
  \/ SeeAnswer
  \/ ToolsReturn
  \/ ModelRaises
  \/ BeforeRaises

\* This is WF_vars(Step): a Step is enabled except when idle AtBound.
LiveSpec == Spec /\ ([]<><<Step>>_vars \/ <>[](pc = "idle" /\ AtBound))

----------------------------------------------------------------------------
(* Properties.  Each is about calls of the model with a whole conversation. *)

\* Every variable has its type, and when the model is called, every tool call
\* the framework ran is answered right after it, every answer has its call
\* (before_model cuts, trims and resets between them, and
\* recover_pending_tool_calls repairs after an error), and the first message
\* after a system message is a human one (messages.py: some LLM APIs require
\* it).
CallsHaveAnswers ==
  LET talk == {i \in DOMAIN msgs : msgs[i].kind # "system"}
  IN  /\ TypeOK
      /\ pc = "model" /\ Whole => /\ CallsAnswered(msgs)
                                 /\ msgs[Min(talk)].kind \in Human

\* A SKILL.md that was read stays before the model until a reset, through any
\* number of trims.
SkillsKept ==
  pc = "model" /\ learned /\ Whole
    => Skills(msgs) \cup SkillsRead(msgs) # {}

\* The model never gets more than the role and max_keep_msgs messages, or,
\* after a trim, the role, the skills read, a summary and a tail that is longer
\* than tail_keep_msgs by the calls of one AI message only, or, after a reset,
\* the role, a human message and such a tail of two.
ContextBounded ==
  pc = "model" /\ Whole
    => Len(msgs) <= 1 + Max({MaxKeep, reads + 1 + TailKeep + CallsAtOnce,
                             1 + ResetKeep + CallsAtOnce})

\* A round that starts leads to a call of the model that a provider accepts,
\* bad calls, failures and resets in between notwithstanding.
ModelIsReached ==
  (pc = "before") ~> (~Whole \/ (pc = "model" /\ WellFormed(msgs)))

=============================================================================
