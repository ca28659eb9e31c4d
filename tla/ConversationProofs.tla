------------------------ MODULE ConversationProofs --------------------------
(***************************************************************************)
(* Theorems about Conversation for any tool calls, any sizes kept by a     *)
(* trim and any number of rounds, faults and orders.                       *)
(***************************************************************************)
EXTENDS Conversation, SequenceTheorems, FiniteSetTheorems, TLAPS

USE CallsAssumption, KeepAssumption, BoundsAssumption

----------------------------------------------------------------------------
(* The inductive invariant. *)

\* The messages whose sets of calls are finite: the only ones there are.
FiniteMessage == {m \in Message : IsFiniteSet(m.calls) /\ IsFiniteSet(m.bad)}
Talk == Seq(FiniteMessage)

Plain == {"system"} \cup Human
Ids(m) == m.calls \cup m.bad

\* A message without calls is nothing but its kind, a tool message answers one
\* call, an AI message makes at most CallsAtOnce.
Forms(ms) ==
  \A i \in DOMAIN ms :
    /\ ms[i].kind \in Plain => ms[i] = Msg(ms[i].kind)
    /\ ms[i].kind = "tool" => \E id \in CallIds : ms[i] = ToolMsg(id)
    /\ ms[i].kind = "ai" => /\ IsFiniteSet(Ids(ms[i]))
                            /\ Cardinality(Ids(ms[i])) <= CallsAtOnce
                            /\ ms[i].calls \cap ms[i].bad = {}

\* Only tool messages come after message i, up to message j.
Behind(ms, i, j) == i < j /\ \A l \in i + 1 .. j : ms[l].kind = "tool"

\* Every tool message comes right behind the AI message that asked for it.
Asked(ms) ==
  \A j \in DOMAIN ms : ms[j].kind = "tool" =>
    \E i \in DOMAIN ms : /\ ms[i].kind = "ai" /\ Behind(ms, i, j)
                         /\ ms[j].calls \subseteq Ids(ms[i])

\* No identifier is used by two AI messages, or answered twice.
Distinct(ms) ==
  \A i \in DOMAIN ms : \A k \in DOMAIN ms :
    (ms[i].kind = "ai" /\ ms[k].kind = "ai" /\ Ids(ms[i]) \cap Ids(ms[k]) # {})
      => i = k
Once(ms) ==
  \A j \in DOMAIN ms : \A k \in DOMAIN ms :
    (ms[j].kind = "tool" /\ ms[j] = ms[k]) => j = k

Ordered(ms) == Forms(ms) /\ Asked(ms) /\ Distinct(ms) /\ Once(ms)

\* Every valid call of message i is answered right behind it.
Answered(ms, i) ==
  \A id \in ms[i].calls :
    \E j \in DOMAIN ms : Behind(ms, i, j) /\ ms[j] = ToolMsg(id)

\* Message i is the last AI message, with nothing but answers behind it.
Ending(ms, i) ==
  /\ i \in DOMAIN ms /\ ms[i].kind = "ai"
  /\ \A l \in i + 1 .. Len(ms) : ms[l].kind = "tool"

\* A whole conversation begins with the system message and a human one.
Shape ==
  IF tips
  THEN msgs = <<>> /\ toolErrors = <<>> /\ pc = "idle"
  ELSE /\ Len(msgs) >= 2
       /\ msgs[1].kind = "system" /\ msgs[2].kind \in Human
       /\ \A i \in 2 .. Len(msgs) : msgs[i].kind # "system"

\* Only the calls that are being run have no answers yet.
Calling ==
  \A i \in DOMAIN msgs : msgs[i].kind = "ai" =>
     \/ Answered(msgs, i)
     \/ pc \in {"answered", "tools"} /\ i = Len(msgs)

\* The answers that wait for the next round belong to the last AI message.
Waiting ==
  /\ pc = "answered" => toolErrors = <<>>
  /\ toolErrors # <<>> =>
       \E i \in DOMAIN msgs : /\ Ending(msgs, i)
                              /\ toolErrors = ToolMsgs(msgs[i].bad)
                              /\ msgs[i].bad \cap Answers(msgs) = {}

\* The skills in the conversation were read, and stay there once learned.
Reading ==
  /\ Cardinality(Skills(msgs)) + Cardinality(AiCalls(msgs) \cap SkillCalls)
       <= reads
  /\ learned => Skills(msgs) \cup SkillsRead(msgs) # {}

\* What holds of the others as well.
Always ==
  /\ TypeOK
  /\ msgs \in Talk /\ toolErrors \in Talk
  /\ pc # "idle" => msgs # <<>>
  /\ pc \in {"answered", "tools"} => Last(msgs).kind = "ai"

IInv ==
  /\ Always
  /\ Whole => Shape /\ Ordered(msgs) /\ Calling /\ Waiting /\ Reading
  /\ ContextBounded

----------------------------------------------------------------------------
(* Least and greatest elements. *)

\* The operator lemmas of the library about naturals take operators; this one
\* follows from the order of finite sets.
LEMMA MinExists ==
  ASSUME NEW S \in SUBSET Nat, S # {}
  PROVE  \E m \in S : \A x \in S : m <= x
  <1> DEFINE Below(x) == 0 .. x
             Lows == {Below(x) : x \in S}
  <1>1. \A x \in Nat : IsFiniteSet(0 .. x)
    BY FS_Interval
  <1>2. ASSUME NEW x \in S PROVE Below(x) \in FiniteSubsetsOf(Nat)
    <2>1. Below(x) \in SUBSET Nat
      OBVIOUS
    <2>2. IsFiniteSet(Below(x))
      BY <1>1
    <2> QED  BY <2>1, <2>2 DEF FiniteSubsetsOf
  <1>3. Lows \subseteq FiniteSubsetsOf(Nat) /\ Lows # {}
    <2> HIDE DEF Below
    <2>1. PICK x \in S : TRUE
      OBVIOUS
    <2> QED  BY <1>2, <2>1
  <1>4. PICK low \in Lows : \A other \in Lows :
               ~ (<<other, low>> \in StrictSubsetOrdering(Nat))
    <2> HIDE DEF Lows
    <2> QED  BY <1>3, FS_StrictSubsetOrderingWellFounded, WFMin
  <1>5. PICK m \in S : low = Below(m)
    OBVIOUS
  <1>6. ASSUME NEW x \in S PROVE m <= x
    <2> SUFFICES ASSUME x < m PROVE FALSE
      OBVIOUS
    <2>1. /\ Below(x) \in SUBSET Below(m) /\ Below(x) # Below(m)
          /\ Below(m) \in SUBSET Nat
      OBVIOUS
    <2>2. Below(x) \in Lows
      OBVIOUS
    <2> QED  BY <1>4, <1>5, <2>1, <2>2 DEF StrictSubsetOrdering
  <1> QED  BY <1>6

LEMMA MinOf ==
  ASSUME NEW S \in SUBSET Nat, S # {}
  PROVE  Min(S) \in S /\ \A x \in S : Min(S) <= x
  BY MinExists DEF Min

LEMMA MaxExists ==
  ASSUME NEW S \in SUBSET Nat, NEW n \in Nat, S # {}, \A x \in S : x <= n
  PROVE  \E m \in S : \A x \in S : m >= x
  <1> DEFINE Gaps == {n - x : x \in S}
  <1>1. Gaps \in SUBSET Nat /\ Gaps # {}
    <2>1. PICK y \in S : TRUE
      OBVIOUS
    <2>2. n - y \in Gaps
      OBVIOUS
    <2>3. \A x \in S : n - x \in Nat
      OBVIOUS
    <2> QED  BY <2>2, <2>3
  <1>2. PICK g \in Gaps : \A x \in Gaps : g <= x
    <2> HIDE DEF Gaps
    <2> QED  BY <1>1, MinExists
  <1>3. PICK m \in S : g = n - m
    OBVIOUS
  <1>4. ASSUME NEW x \in S PROVE m >= x
    <2>1. n - x \in Gaps
      OBVIOUS
    <2>2. n - m <= n - x
      BY <1>2, <1>3, <2>1
    <2>3. n \in Nat /\ m \in Nat /\ x \in Nat
      OBVIOUS
    <2> HIDE DEF Gaps
    <2> QED  BY <2>2, <2>3
  <1> QED  BY <1>4

LEMMA MaxOf ==
  ASSUME NEW S \in SUBSET Nat, NEW n \in Nat, S # {}, \A x \in S : x <= n
  PROVE  Max(S) \in S /\ \A x \in S : Max(S) >= x
  BY MaxExists DEF Max

----------------------------------------------------------------------------
(* Messages and sequences of them. *)

LEMMA TalkIsMessages == Talk \subseteq Seq(Message)
  <1> SUFFICES ASSUME NEW ms \in Talk PROVE ms \in Seq(Message)
    OBVIOUS
  <1> QED  BY SeqMonotonic DEF Talk, FiniteMessage

LEMMA MessageTypes ==
  /\ \A kind \in Kinds : Msg(kind) \in FiniteMessage
  /\ \A id \in CallIds : ToolMsg(id) \in FiniteMessage
  /\ \A calls \in SUBSET CallIds : \A bad \in SUBSET CallIds :
       (IsFiniteSet(calls) /\ IsFiniteSet(bad)) =>
         AiMsg(calls, bad) \in FiniteMessage
  <1>1. IsFiniteSet({}) /\ \A id : IsFiniteSet({id})
    BY FS_EmptySet, FS_Singleton
  <1>2. \A kind \in Kinds : Msg(kind) \in FiniteMessage
    BY <1>1 DEF Msg, FiniteMessage, Message
  <1>3. \A id \in CallIds : ToolMsg(id) \in FiniteMessage
    BY <1>1 DEF ToolMsg, FiniteMessage, Message, Kinds
  <1>4. ASSUME NEW calls \in SUBSET CallIds, NEW bad \in SUBSET CallIds,
               IsFiniteSet(calls), IsFiniteSet(bad)
        PROVE  AiMsg(calls, bad) \in FiniteMessage
    BY <1>4 DEF AiMsg, FiniteMessage, Message, Kinds
  <1> QED  BY <1>2, <1>3, <1>4

LEMMA TalkTypes ==
  ASSUME NEW ms \in Talk
  PROVE  /\ Len(ms) \in Nat /\ DOMAIN ms = 1 .. Len(ms)
         /\ \A i \in 1 .. Len(ms) :
              /\ ms[i] \in FiniteMessage /\ ms[i].kind \in Kinds
              /\ ms[i].calls \in SUBSET CallIds /\ ms[i].bad \in SUBSET CallIds
              /\ IsFiniteSet(ms[i].calls) /\ IsFiniteSet(ms[i].bad)
  <1>1. Len(ms) \in Nat /\ DOMAIN ms = 1 .. Len(ms)
    BY LenProperties DEF Talk
  <1>2. \A i \in 1 .. Len(ms) : ms[i] \in FiniteMessage
    BY ElementOfSeq DEF Talk
  <1> QED  BY <1>1, <1>2 DEF FiniteMessage, Message

\* The answers to a finite set of calls: one for each, and nothing else.
LEMMA ToolMsgsAnswer ==
  ASSUME NEW ids \in SUBSET CallIds, IsFiniteSet(ids)
  PROVE  /\ ToolMsgs(ids) \in Talk
         /\ Len(ToolMsgs(ids)) = Cardinality(ids)
         /\ \A i \in 1 .. Len(ToolMsgs(ids)) :
              \E id \in ids : ToolMsgs(ids)[i] = ToolMsg(id)
         /\ \A id \in ids : \E i \in 1 .. Len(ToolMsgs(ids)) :
              ToolMsgs(ids)[i] = ToolMsg(id)
         /\ \A i \in 1 .. Len(ToolMsgs(ids)) :
              \A j \in 1 .. Len(ToolMsgs(ids)) :
                ToolMsgs(ids)[i] = ToolMsgs(ids)[j] => i = j
  <1> DEFINE n == Cardinality(ids)
             below(x) == {j \in ids : j <= x}
             rank == [x \in ids |-> Cardinality(below(x))]
             at(i) == CHOOSE id \in ids : Cardinality(below(id)) = i
  <1>1. n \in Nat /\ \A x \in ids : x \in Nat
    BY FS_CardinalityType
  <1>2. ASSUME NEW x \in ids
        PROVE  /\ IsFiniteSet(below(x)) /\ Cardinality(below(x)) \in 1 .. n
    <2>1. below(x) \in SUBSET ids /\ x \in below(x)
      BY <1>1
    <2>2. IsFiniteSet(below(x)) /\ Cardinality(below(x)) <= n
      BY <2>1, FS_Subset
    <2>3. Cardinality(below(x)) \in Nat /\ Cardinality(below(x)) # 0
      BY <2>1, <2>2, FS_CardinalityType, FS_EmptySet
    <2> QED  BY <1>1, <2>2, <2>3
  <1>3. ASSUME NEW x \in ids, NEW y \in ids, x < y
        PROVE  Cardinality(below(x)) < Cardinality(below(y))
    <2>1. \A j \in ids : j <= x => j <= y
      BY <1>1, <1>3
    <2>2. y \in below(y) /\ y \notin below(x)
      BY <1>1, <1>3
    <2>3. below(x) \in SUBSET below(y) /\ below(x) # below(y)
      BY <2>1, <2>2
    <2> HIDE DEF below
    <2>4. /\ Cardinality(below(x)) <= Cardinality(below(y))
          /\ Cardinality(below(x)) # Cardinality(below(y))
      BY <1>2, <2>3, FS_Subset
    <2>5. Cardinality(below(x)) \in Nat /\ Cardinality(below(y)) \in Nat
      BY <1>2
    <2> QED  BY <2>4, <2>5
  <1> HIDE DEF below
  <1>4. \A x, y \in ids : Cardinality(below(x)) = Cardinality(below(y)) => x = y
    <2> SUFFICES ASSUME NEW x \in ids, NEW y \in ids, x # y,
                        Cardinality(below(x)) = Cardinality(below(y))
                 PROVE  FALSE
      OBVIOUS
    <2>1. x \in Nat /\ y \in Nat
      BY <1>1
    <2>2. x < y \/ y < x
      BY <2>1
    <2>3. Cardinality(below(x)) \in Nat /\ Cardinality(below(y)) \in Nat
      BY <1>2
    <2>4. CASE x < y
      BY <1>3, <2>3, <2>4
    <2>5. CASE y < x
      BY <1>3, <2>3, <2>5
    <2> QED  BY <2>2, <2>4, <2>5
  <1>5. rank \in Injection(ids, 1 .. n)
    BY <1>2, <1>4 DEF Injection, IsInjective
  <1>6. rank \in Surjection(ids, 1 .. n)
    <2>1. IsFiniteSet(1 .. n) /\ Cardinality(1 .. n) = n
      BY <1>1, FS_Interval
    <2> HIDE DEF rank
    <2> QED  BY <1>5, <2>1, FS_Injection
  <1>7. \A i \in 1 .. n : at(i) \in ids /\ Cardinality(below(at(i))) = i
    BY <1>6 DEF Surjection
  <1>8. \A x \in ids : at(Cardinality(below(x))) = x
    BY <1>2, <1>4, <1>7
  <1>9. ToolMsgs(ids) = [i \in 1 .. n |-> ToolMsg(at(i))]
    BY DEF ToolMsgs, below
  <1> HIDE DEF at, rank
  <1>10. \A i \in 1 .. n : ToolMsg(at(i)) \in FiniteMessage
    BY <1>7, MessageTypes
  <1>11. ToolMsgs(ids) \in Talk /\ Len(ToolMsgs(ids)) = n
    BY <1>1, <1>9, <1>10 DEF Talk
  <1>12. \A i \in 1 .. n : ToolMsgs(ids)[i] = ToolMsg(at(i))
    BY <1>9
  <1>13. \A i, j \in 1 .. n : ToolMsg(at(i)) = ToolMsg(at(j)) => i = j
    <2> SUFFICES ASSUME NEW i \in 1 .. n, NEW j \in 1 .. n,
                        ToolMsg(at(i)) = ToolMsg(at(j))
                 PROVE  i = j
      OBVIOUS
    <2>1. ToolMsg(at(i)).calls = ToolMsg(at(j)).calls
      OBVIOUS
    <2>2. at(i) = at(j)
      BY <2>1 DEF ToolMsg
    <2> QED  BY <1>7, <2>2
  <1> QED  BY <1>1, <1>2, <1>7, <1>8, <1>11, <1>12, <1>13

LEMMA InAnswers ==
  ASSUME NEW ms \in Talk, NEW id
  PROVE  id \in Answers(ms) <=>
           \E j \in 1 .. Len(ms) : ms[j].kind = "tool" /\ id \in ms[j].calls
  BY TalkTypes DEF Answers

LEMMA InAiCalls ==
  ASSUME NEW ms \in Talk, NEW id
  PROVE  id \in AiCalls(ms) <=>
           \E i \in 1 .. Len(ms) : ms[i].kind = "ai" /\ id \in ms[i].calls
  BY TalkTypes DEF AiCalls

LEMMA AiCallsFinite ==
  ASSUME NEW ms \in Talk
  PROVE  AiCalls(ms) \in SUBSET CallIds /\ IsFiniteSet(AiCalls(ms))
  <1> DEFINE D == {j \in DOMAIN ms : ms[j].kind = "ai"}
             C == {ms[i].calls : i \in D}
             f == [i \in D |-> ms[i].calls]
  <1>1. D \subseteq 1 .. Len(ms) /\ IsFiniteSet(1 .. Len(ms))
    <2>1. Len(ms) \in Int /\ DOMAIN ms = 1 .. Len(ms)
      BY TalkTypes
    <2> QED  BY <2>1, FS_Interval
  <1>2. IsFiniteSet(D)
    BY <1>1, FS_Subset
  <1>3. f \in Surjection(D, C)
    BY DEF Surjection
  <1>4. IsFiniteSet(C)
    <2> HIDE DEF D, C, f
    <2> QED  BY <1>2, <1>3, FS_Surjection
  <1>5. \A T \in C : IsFiniteSet(T) /\ T \in SUBSET CallIds
    BY <1>1, TalkTypes
  <1>6. AiCalls(ms) = UNION C
    BY DEF AiCalls
  <1> HIDE DEF C
  <1>7. IsFiniteSet(UNION C)
    BY <1>4, <1>5, FS_UNION
  <1> QED  BY <1>5, <1>6, <1>7

----------------------------------------------------------------------------
(* Calls and the answers behind them. *)

LEMMA SameAsker ==
  ASSUME NEW ms \in Talk, NEW i \in 1 .. Len(ms), NEW a \in 1 .. Len(ms),
         NEW j \in 1 .. Len(ms), ms[i].kind = "ai", ms[a].kind = "ai",
         Behind(ms, i, j), Behind(ms, a, j)
  PROVE  i = a
  <1>1. i \in Nat /\ a \in Nat /\ j \in Nat
    BY TalkTypes
  <1>2. ~ (i < a)
    <2> SUFFICES ASSUME i < a PROVE FALSE
      OBVIOUS
    <2>1. a \in i + 1 .. j
      BY <1>1 DEF Behind
    <2> QED  BY <2>1 DEF Behind
  <1>3. ~ (a < i)
    <2> SUFFICES ASSUME a < i PROVE FALSE
      OBVIOUS
    <2>1. i \in a + 1 .. j
      BY <1>1 DEF Behind
    <2> QED  BY <2>1 DEF Behind
  <1> QED  BY <1>1, <1>2, <1>3

\* What comes right behind an AI message answers one of its calls.
LEMMA AskedBy ==
  ASSUME NEW ms \in Talk, Ordered(ms), NEW i \in 1 .. Len(ms),
         NEW j \in 1 .. Len(ms), ms[i].kind = "ai", Behind(ms, i, j)
  PROVE  /\ ms[j].kind = "tool" /\ ms[j].calls \subseteq Ids(ms[i])
         /\ \E id \in Ids(ms[i]) : id \in CallIds /\ ms[j] = ToolMsg(id)
  <1>1. DOMAIN ms = 1 .. Len(ms) /\ Len(ms) \in Nat
    BY TalkTypes
  <1>2. ms[j].kind = "tool"
    BY <1>1 DEF Behind
  <1>3. PICK a \in 1 .. Len(ms) :
               /\ ms[a].kind = "ai" /\ Behind(ms, a, j)
               /\ ms[j].calls \subseteq Ids(ms[a])
    BY <1>1, <1>2 DEF Ordered, Asked
  <1>4. a = i
    BY <1>3, SameAsker
  <1>5. PICK id \in CallIds : ms[j] = ToolMsg(id)
    BY <1>1, <1>2 DEF Ordered, Forms
  <1>6. id \in ms[j].calls
    BY <1>5 DEF ToolMsg
  <1> QED  BY <1>2, <1>3, <1>4, <1>5, <1>6

\* An answer to one of its calls is right behind the AI message.
LEMMA AnswerIsBehind ==
  ASSUME NEW ms \in Talk, Ordered(ms), NEW i \in 1 .. Len(ms),
         NEW j \in 1 .. Len(ms), ms[i].kind = "ai", ms[j].kind = "tool",
         NEW id, id \in ms[j].calls, id \in Ids(ms[i])
  PROVE  Behind(ms, i, j)
  <1>1. DOMAIN ms = 1 .. Len(ms)
    BY TalkTypes
  <1>2. PICK a \in 1 .. Len(ms) :
               /\ ms[a].kind = "ai" /\ Behind(ms, a, j)
               /\ ms[j].calls \subseteq Ids(ms[a])
    BY <1>1 DEF Ordered, Asked
  <1>3. a = i
    BY <1>1, <1>2 DEF Ordered, Distinct
  <1> QED  BY <1>2, <1>3

\* No more messages come right behind an AI message than it made calls.
LEMMA FewBehind ==
  ASSUME NEW ms \in Talk, Ordered(ms), NEW i \in 1 .. Len(ms),
         NEW j \in 1 .. Len(ms), ms[i].kind = "ai", Behind(ms, i, j)
  PROVE  j - i <= CallsAtOnce
  <1> DEFINE T == Ids(ms[i])
             f == [k \in i + 1 .. j |-> CHOOSE id \in T : ms[k] = ToolMsg(id)]
  <1>1. DOMAIN ms = 1 .. Len(ms) /\ Len(ms) \in Nat
    BY TalkTypes
  <1>2. \A k \in i + 1 .. j : k \in 1 .. Len(ms) /\ Behind(ms, i, k)
    BY <1>1 DEF Behind
  <1>3. \A k \in i + 1 .. j : \E id \in T : ms[k] = ToolMsg(id)
    BY <1>2, AskedBy
  <1>4. \A k \in i + 1 .. j : f[k] \in T /\ ms[k] = ToolMsg(f[k])
    BY <1>3
  <1>5. ASSUME NEW k \in i + 1 .. j, NEW l \in i + 1 .. j, f[k] = f[l]
        PROVE  k = l
    <2>1. ms[k] = ms[l]
      BY <1>4, <1>5
    <2>2. ms[k].kind = "tool"
      BY <1>2, AskedBy
    <2> QED  BY <1>1, <1>2, <2>1, <2>2 DEF Ordered, Once
  <1>6. f \in Injection(i + 1 .. j, T)
    BY <1>4, <1>5 DEF Injection, IsInjective
  <1>7. IsFiniteSet(T) /\ Cardinality(T) <= CallsAtOnce
    BY <1>1 DEF Ordered, Forms
  <1>8. IsFiniteSet(i + 1 .. j) /\ Cardinality(i + 1 .. j) = j - i
    <2>1. i + 1 \in Int /\ j \in Int /\ i + 1 <= j /\ j - (i + 1) + 1 = j - i
      BY <1>1 DEF Behind
    <2>2. /\ IsFiniteSet(i + 1 .. j)
          /\ Cardinality(i + 1 .. j) = IF i + 1 > j THEN 0 ELSE j - (i + 1) + 1
      BY <2>1, FS_Interval
    <2> QED  BY <1>1, <2>1, <2>2
  <1> HIDE DEF f, T
  <1>9. Cardinality(i + 1 .. j) <= Cardinality(T)
    BY <1>6, <1>7, FS_Injection
  <1>10. Cardinality(T) \in Nat
    BY <1>7, FS_CardinalityType
  <1> QED  BY <1>1, <1>7, <1>8, <1>9, <1>10 DEF CallsAtOnce

----------------------------------------------------------------------------
(* Where the messages may be cut. *)

\* The end of the answers at c + 1, and the AI messages before c that made the
\* calls they answer.
RunEnd(ms, c) ==
  CHOOSE e \in c + 1 .. Len(ms) :
    /\ \A i \in c + 1 .. e : ms[i].kind = "tool"
    /\ e = Len(ms) \/ ms[e + 1].kind # "tool"
RunAskers(ms, c) ==
  {i \in 1 .. c :
     /\ ms[i].kind = "ai"
     /\ ms[i].calls \cap Answers(SubSeq(ms, c + 1, RunEnd(ms, c))) # {}}

LEMMA SafeCutCases ==
  ASSUME NEW ms, NEW c
  PROVE  SafeCut(ms, c) =
           IF c >= Len(ms) \/ ms[c + 1].kind # "tool"
           THEN c
           ELSE IF RunAskers(ms, c) = {} THEN RunEnd(ms, c)
                                         ELSE Max(RunAskers(ms, c)) - 1
  BY DEF SafeCut, RunEnd, RunAskers

LEMMA RunEnds ==
  ASSUME NEW ms \in Talk, NEW c \in Nat, c < Len(ms), ms[c + 1].kind = "tool"
  PROVE  /\ RunEnd(ms, c) \in c + 1 .. Len(ms)
         /\ \A i \in c + 1 .. RunEnd(ms, c) : ms[i].kind = "tool"
         /\ RunEnd(ms, c) = Len(ms) \/ ms[RunEnd(ms, c) + 1].kind # "tool"
  <1> DEFINE E == {e \in c + 1 .. Len(ms) :
                     \A i \in c + 1 .. e : ms[i].kind = "tool"}
  <1>1. Len(ms) \in Nat
    BY TalkTypes
  <1>2. c + 1 \in E
    BY <1>1
  <1>3. E \in SUBSET Nat /\ \A x \in E : x <= Len(ms)
    BY <1>1
  <1>4. PICK e \in E : \A x \in E : e >= x
    <2> HIDE DEF E
    <2> QED  BY <1>1, <1>2, <1>3, MaxExists
  <1>5. ASSUME e # Len(ms), ms[e + 1].kind = "tool" PROVE FALSE
    <2>1. e + 1 \in c + 1 .. Len(ms)
      BY <1>1, <1>5
    <2>2. \A i \in c + 1 .. e + 1 : i \in c + 1 .. e \/ i = e + 1
      BY <1>1
    <2>3. \A i \in c + 1 .. e + 1 : ms[i].kind = "tool"
      BY <1>5, <2>2
    <2>4. e + 1 \in E
      BY <2>1, <2>3
    <2>5. e \in Nat /\ e >= e + 1
      BY <1>3, <1>4, <2>4
    <2> QED  BY <2>5
  <1>6. /\ e \in c + 1 .. Len(ms)
        /\ \A i \in c + 1 .. e : ms[i].kind = "tool"
        /\ e = Len(ms) \/ ms[e + 1].kind # "tool"
    BY <1>5
  <1> HIDE DEF E
  <1> QED  BY <1>6 DEF RunEnd

LEMMA RunAskersMax ==
  ASSUME NEW ms \in Talk, NEW c \in Nat, RunAskers(ms, c) # {}
  PROVE  /\ Max(RunAskers(ms, c)) \in RunAskers(ms, c)
         /\ \A x \in RunAskers(ms, c) : Max(RunAskers(ms, c)) >= x
  <1>1. RunAskers(ms, c) \in SUBSET Nat /\ \A x \in RunAskers(ms, c) : x <= c
    BY DEF RunAskers
  <1> QED  BY <1>1, MaxOf

\* A cut lies inside the messages, and does not leave an answer in front.
LEMMA SafeCutPlain ==
  ASSUME NEW ms \in Talk, NEW c \in 0 .. Len(ms)
  PROVE  /\ SafeCut(ms, c) \in 0 .. Len(ms)
         /\ SafeCut(ms, c) < Len(ms) => ms[SafeCut(ms, c) + 1].kind # "tool"
  <1>1. Len(ms) \in Nat /\ c \in Nat
    BY TalkTypes
  <1>2. CASE c >= Len(ms) \/ ms[c + 1].kind # "tool"
    BY <1>1, <1>2, SafeCutCases
  <1>3. CASE c < Len(ms) /\ ms[c + 1].kind = "tool" /\ RunAskers(ms, c) = {}
    <2>1. SafeCut(ms, c) = RunEnd(ms, c)
      BY <1>1, <1>3, SafeCutCases
    <2> QED  BY <1>1, <1>3, <2>1, RunEnds
  <1>4. CASE c < Len(ms) /\ ms[c + 1].kind = "tool" /\ RunAskers(ms, c) # {}
    <2>1. SafeCut(ms, c) = Max(RunAskers(ms, c)) - 1
      BY <1>1, <1>4, SafeCutCases
    <2>2. Max(RunAskers(ms, c)) \in RunAskers(ms, c)
      BY <1>1, <1>4, RunAskersMax
    <2>3. Max(RunAskers(ms, c)) \in 1 .. c /\ ms[Max(RunAskers(ms, c))].kind = "ai"
      BY <2>2 DEF RunAskers
    <2> QED  BY <1>1, <2>1, <2>3
  <1> QED  BY <1>1, <1>2, <1>3, <1>4

\* In an ordered conversation the askers of the answers at c + 1 are one.
LEMMA RunAskersOne ==
  ASSUME NEW ms \in Talk, Ordered(ms), NEW c \in Nat, c < Len(ms),
         ms[c + 1].kind = "tool", NEW i \in 1 .. Len(ms), ms[i].kind = "ai",
         Behind(ms, i, c + 1), NEW a \in RunAskers(ms, c)
  PROVE  a = i
  <1> DEFINE run == SubSeq(ms, c + 1, RunEnd(ms, c))
  <1>1. Len(ms) \in Nat /\ DOMAIN ms = 1 .. Len(ms)
    BY TalkTypes
  <1>2. /\ RunEnd(ms, c) \in c + 1 .. Len(ms)
        /\ \A k \in c + 1 .. RunEnd(ms, c) : ms[k].kind = "tool"
    BY RunEnds
  <1>3. /\ run \in Talk /\ Len(run) = RunEnd(ms, c) - c
        /\ \A k \in 1 .. Len(run) : run[k] = ms[c + k]
    <2>1. \A k \in c + 1 .. RunEnd(ms, c) : ms[k] \in FiniteMessage
      BY <1>1, <1>2, TalkTypes
    <2> QED  BY <1>1, <1>2, <2>1, SubSeqProperties DEF Talk
  <1>4. /\ a \in 1 .. c /\ ms[a].kind = "ai"
        /\ \E id : id \in ms[a].calls /\ id \in Answers(run)
    BY DEF RunAskers
  <1> HIDE DEF run
  <1>5. PICK id : id \in ms[a].calls /\ id \in Answers(run)
    BY <1>4
  <1>6. PICK k \in 1 .. Len(run) : id \in run[k].calls
    BY <1>3, <1>5, InAnswers
  <1>7. c + k \in c + 1 .. RunEnd(ms, c) /\ id \in ms[c + k].calls
    BY <1>1, <1>2, <1>3, <1>6
  <1>8. c + k \in 1 .. Len(ms) /\ a \in 1 .. Len(ms) /\ c + 1 \in 1 .. Len(ms)
    BY <1>1, <1>2, <1>4, <1>7
  <1>9. Behind(ms, a, c + k)
    BY <1>2, <1>4, <1>5, <1>7, <1>8, AnswerIsBehind DEF Ids
  <1>10. Behind(ms, a, c + 1)
    BY <1>1, <1>4, <1>7, <1>9 DEF Behind
  <1> QED  BY <1>4, <1>8, <1>10, SameAsker

\* A cut leaves no more behind it than it was asked to and the calls of one AI
\* message.
LEMMA SafeCutTail ==
  ASSUME NEW ms \in Talk, Ordered(ms), NEW c \in 0 .. Len(ms)
  PROVE  SafeCut(ms, c) >= c - CallsAtOnce
  <1>1. Len(ms) \in Nat /\ DOMAIN ms = 1 .. Len(ms) /\ c \in Nat
    BY TalkTypes
  <1>2. CASE c >= Len(ms) \/ ms[c + 1].kind # "tool"
    BY <1>1, <1>2, SafeCutCases DEF CallsAtOnce
  <1>3. CASE c < Len(ms) /\ ms[c + 1].kind = "tool" /\ RunAskers(ms, c) = {}
    <2>1. SafeCut(ms, c) = RunEnd(ms, c)
      BY <1>1, <1>3, SafeCutCases
    <2>2. RunEnd(ms, c) \in c + 1 .. Len(ms)
      BY <1>1, <1>3, RunEnds
    <2> QED  BY <1>1, <2>1, <2>2 DEF CallsAtOnce
  <1>4. CASE c < Len(ms) /\ ms[c + 1].kind = "tool" /\ RunAskers(ms, c) # {}
    <2>1. SafeCut(ms, c) = Max(RunAskers(ms, c)) - 1
      BY <1>1, <1>4, SafeCutCases
    <2>2. Max(RunAskers(ms, c)) \in RunAskers(ms, c)
      BY <1>1, <1>4, RunAskersMax
    <2>3. c + 1 \in 1 .. Len(ms)
      BY <1>1, <1>4
    <2>4. PICK i \in 1 .. Len(ms) : ms[i].kind = "ai" /\ Behind(ms, i, c + 1)
      BY <1>1, <1>4, <2>3 DEF Ordered, Asked
    <2>5. Max(RunAskers(ms, c)) = i
      BY <1>1, <1>4, <2>2, <2>4, RunAskersOne
    <2>6. c + 1 - i <= CallsAtOnce
      BY <2>3, <2>4, FewBehind
    <2> QED  BY <1>1, <2>1, <2>5, <2>6 DEF CallsAtOnce
  <1> QED  BY <1>1, <1>2, <1>3, <1>4

\* A cut before the end keeps the last AI message while one of its calls waits
\* for its answer.
LEMMA SafeCutKeeps ==
  ASSUME NEW ms \in Talk, Ordered(ms), NEW c \in Nat, c < Len(ms),
         NEW i, Ending(ms, i), ms[i].bad \cap Answers(ms) = {}
  PROVE  SafeCut(ms, c) < i
  <1>1. Len(ms) \in Nat /\ DOMAIN ms = 1 .. Len(ms)
    BY TalkTypes
  <1>2. i \in 1 .. Len(ms) /\ ms[i].kind = "ai"
        /\ \A l \in i + 1 .. Len(ms) : ms[l].kind = "tool"
    BY <1>1 DEF Ending
  <1>3. CASE ms[c + 1].kind # "tool"
    <2>1. SafeCut(ms, c) = c
      BY <1>1, <1>3, SafeCutCases
    <2>2. ~ (i <= c)
      <3> SUFFICES ASSUME i <= c PROVE FALSE
        OBVIOUS
      <3>1. c + 1 \in i + 1 .. Len(ms)
        BY <1>1, <1>2
      <3> QED  BY <1>2, <1>3, <3>1
    <2> QED  BY <1>1, <1>2, <2>1, <2>2
  <1>4. CASE ms[c + 1].kind = "tool" /\ RunAskers(ms, c) # {}
    <2>1. SafeCut(ms, c) = Max(RunAskers(ms, c)) - 1
      BY <1>1, <1>4, SafeCutCases
    <2>2. Max(RunAskers(ms, c)) \in RunAskers(ms, c)
      BY <1>4, RunAskersMax
    <2> DEFINE a == Max(RunAskers(ms, c))
    <2>3. a \in 1 .. c /\ ms[a].kind = "ai"
      BY <2>2 DEF RunAskers
    <2>4. a \notin i + 1 .. Len(ms)
      BY <1>2, <2>3
    <2> HIDE DEF a
    <2>5. SafeCut(ms, c) = a - 1
      BY <2>1 DEF a
    <2> QED  BY <1>1, <1>2, <2>3, <2>4, <2>5
  <1>5. CASE ms[c + 1].kind = "tool" /\ RunAskers(ms, c) = {}
    <2>1. SafeCut(ms, c) = RunEnd(ms, c)
      BY <1>1, <1>5, SafeCutCases
    <2>2. /\ RunEnd(ms, c) \in c + 1 .. Len(ms)
          /\ \A k \in c + 1 .. RunEnd(ms, c) : ms[k].kind = "tool"
      BY <1>5, RunEnds
    <2>3. CASE c < i
      <3>1. i \notin c + 1 .. RunEnd(ms, c)
        BY <1>2, <2>2
      <3> QED  BY <1>1, <1>2, <2>1, <2>2, <2>3, <3>1
    <2>4. CASE i <= c
      <3>1. c + 1 \in 1 .. Len(ms) /\ Behind(ms, i, c + 1)
        BY <1>1, <1>2, <2>4 DEF Behind
      <3>2. PICK id \in Ids(ms[i]) : id \in CallIds /\ ms[c + 1] = ToolMsg(id)
        BY <1>2, <3>1, AskedBy
      <3>3. id \in ms[c + 1].calls
        BY <3>2 DEF ToolMsg
      <3>4. id \in Answers(ms)
        BY <1>5, <3>1, <3>3, InAnswers
      <3>5. id \in ms[i].calls
        BY <3>2, <3>4 DEF Ids
      <3> DEFINE run == SubSeq(ms, c + 1, RunEnd(ms, c))
      <3>6. run \in Talk /\ Len(run) = RunEnd(ms, c) - c /\ run[1] = ms[c + 1]
        <4>1. \A k \in c + 1 .. RunEnd(ms, c) : ms[k] \in FiniteMessage
          BY <1>1, <2>2, TalkTypes
        <4> QED  BY <1>1, <2>2, <4>1, SubSeqProperties DEF Talk
      <3> HIDE DEF run
      <3>7. 1 \in 1 .. Len(run)
        BY <1>1, <2>2, <3>6
      <3>8. id \in Answers(run)
        BY <1>5, <3>3, <3>6, <3>7, InAnswers
      <3>9. i \in RunAskers(ms, c)
        BY <1>1, <1>2, <2>4, <3>5, <3>8 DEF RunAskers, run
      <3> QED  BY <1>5, <3>9
    <2> QED  BY <1>1, <1>2, <2>3, <2>4
  <1> QED  BY <1>3, <1>4, <1>5

----------------------------------------------------------------------------
(* What a cut with plain messages in front keeps. *)

\* new is ms without its first k messages, behind p plain ones.
Moved(ms, new, k, p) ==
  /\ k \in 0 .. Len(ms) /\ p \in Nat
  /\ Len(new) = p + Len(ms) - k
  /\ \A i \in 1 .. p : new[i].kind \in Plain /\ new[i] = Msg(new[i].kind)
  /\ \A i \in k + 1 .. Len(ms) : new[i - k + p] = ms[i]
  /\ k < Len(ms) => ms[k + 1].kind # "tool"

LEMMA MovedBack ==
  ASSUME NEW ms \in Talk, NEW new \in Talk, NEW k, NEW p, Moved(ms, new, k, p),
         NEW n \in 1 .. Len(new), n > p \/ new[n].kind \notin Plain
  PROVE  /\ n > p /\ n - p + k \in k + 1 .. Len(ms)
         /\ new[n] = ms[n - p + k]
  <1>1. Len(ms) \in Nat /\ k \in 0 .. Len(ms) /\ p \in Nat /\ k \in Nat
        /\ Len(new) = p + Len(ms) - k
    BY TalkTypes DEF Moved
  <1>2. n > p
    <2>1. n \in 1 .. p => new[n].kind \in Plain
      BY DEF Moved
    <2> QED  BY <1>1, <2>1
  <1>3. n - p + k \in k + 1 .. Len(ms)
    BY <1>1, <1>2
  <1>4. new[(n - p + k) - k + p] = ms[n - p + k]
    BY <1>3 DEF Moved
  <1>5. (n - p + k) - k + p = n
    BY <1>1
  <1> QED  BY <1>2, <1>3, <1>4, <1>5

LEMMA MovedForth ==
  ASSUME NEW ms \in Talk, NEW new \in Talk, NEW k, NEW p, Moved(ms, new, k, p),
         NEW i \in k + 1 .. Len(ms)
  PROVE  /\ i \in 1 .. Len(ms) /\ i - k + p \in p + 1 .. Len(new)
         /\ i - k + p \in 1 .. Len(new)
         /\ new[i - k + p] = ms[i]
  <1>1. Len(ms) \in Nat /\ k \in 0 .. Len(ms) /\ p \in Nat /\ k \in Nat
        /\ Len(new) = p + Len(ms) - k
    BY TalkTypes DEF Moved
  <1>2. new[i - k + p] = ms[i]
    <2>1. \A j \in k + 1 .. Len(ms) : new[j - k + p] = ms[j]
      BY DEF Moved
    <2> QED  BY <2>1
  <1>3. /\ i \in 1 .. Len(ms) /\ i - k + p \in p + 1 .. Len(new)
        /\ i - k + p \in 1 .. Len(new)
    BY <1>1, SMTT(20)
  <1> QED  BY <1>2, <1>3

LEMMA MovedBehind ==
  ASSUME NEW ms \in Talk, NEW new \in Talk, NEW k, NEW p, Moved(ms, new, k, p),
         NEW i \in k + 1 .. Len(ms), NEW j \in k + 1 .. Len(ms),
         Behind(ms, i, j)
  PROVE  Behind(new, i - k + p, j - k + p)
  <1>1. Len(ms) \in Nat /\ k \in 0 .. Len(ms) /\ p \in Nat /\ k \in Nat
        /\ Len(new) = p + Len(ms) - k
    BY TalkTypes DEF Moved
  <1>2. ASSUME NEW l \in i - k + p + 1 .. j - k + p
        PROVE  new[l].kind = "tool"
    <2>1. /\ l \in 1 .. Len(new) /\ l > p /\ l - p + k \in i + 1 .. j
      BY <1>1
    <2>2. new[l] = ms[l - p + k]
      BY <2>1, MovedBack
    <2> QED  BY <2>1, <2>2 DEF Behind
  <1>3. i - k + p < j - k + p
    BY <1>1 DEF Behind
  <1> QED  BY <1>2, <1>3 DEF Behind

\* No answer behind the cut has its call before it.
LEMMA CutApart ==
  ASSUME NEW ms \in Talk, NEW k \in 0 .. Len(ms),
         k < Len(ms) => ms[k + 1].kind # "tool",
         NEW i \in 1 .. Len(ms), NEW j \in 1 .. Len(ms), Behind(ms, i, j)
  PROVE  j > k <=> i > k
  <1>1. Len(ms) \in Nat /\ i < j /\ \A l \in i + 1 .. j : ms[l].kind = "tool"
    BY TalkTypes DEF Behind
  <1>2. CASE i > k
    BY <1>1, <1>2
  <1>3. CASE i <= k
    <2> SUFFICES ASSUME j > k PROVE FALSE
      BY <1>1, <1>3
    <2>1. k + 1 \in i + 1 .. j /\ k < Len(ms)
      BY <1>1, <1>3
    <2> QED  BY <1>1, <2>1
  <1> QED  BY <1>1, <1>2, <1>3

LEMMA MovedOrdered ==
  ASSUME NEW ms \in Talk, NEW new \in Talk, NEW k, NEW p, Moved(ms, new, k, p),
         Ordered(ms)
  PROVE  Ordered(new)
  <1>1. /\ DOMAIN ms = 1 .. Len(ms) /\ DOMAIN new = 1 .. Len(new)
        /\ Len(ms) \in Nat /\ Len(new) \in Nat /\ k \in Nat /\ p \in Nat
        /\ k \in 0 .. Len(ms) /\ (k < Len(ms) => ms[k + 1].kind # "tool")
    BY TalkTypes DEF Moved
  <1>2. \A kind \in Plain : kind # "tool" /\ kind # "ai"
    BY DEF Plain, Human
  <1>3. ASSUME NEW n \in 1 .. Len(new), new[n].kind \notin Plain
        PROVE  /\ n - p + k \in 1 .. Len(ms) /\ n - p + k \in k + 1 .. Len(ms)
               /\ new[n] = ms[n - p + k] /\ n > p
    <2>1. n > p /\ n - p + k \in k + 1 .. Len(ms) /\ new[n] = ms[n - p + k]
      BY <1>3, MovedBack
    <2> QED  BY <1>1, <2>1
  <1>4. Forms(new)
    <2> SUFFICES ASSUME NEW n \in 1 .. Len(new)
                 PROVE  /\ new[n].kind \in Plain => new[n] = Msg(new[n].kind)
                        /\ new[n].kind = "tool" =>
                             \E id \in CallIds : new[n] = ToolMsg(id)
                        /\ new[n].kind = "ai" =>
                             /\ IsFiniteSet(Ids(new[n]))
                             /\ Cardinality(Ids(new[n])) <= CallsAtOnce
                             /\ new[n].calls \cap new[n].bad = {}
      BY <1>1 DEF Forms
    <2>1. CASE n \in 1 .. p
      BY <1>2, <2>1 DEF Moved
    <2>2. CASE n \notin 1 .. p
      <3>1. n > p
        BY <1>1, <2>2
      <3>2. n - p + k \in k + 1 .. Len(ms) /\ new[n] = ms[n - p + k]
        BY <3>1, MovedBack
      <3>3. n - p + k \in 1 .. Len(ms)
        BY <1>1, <3>2
      <3> QED  BY <1>1, <3>2, <3>3 DEF Ordered, Forms
    <2> QED  BY <2>1, <2>2
  <1>5. Asked(new)
    <2> SUFFICES ASSUME NEW n \in 1 .. Len(new), new[n].kind = "tool"
                 PROVE  \E i \in 1 .. Len(new) :
                          /\ new[i].kind = "ai" /\ Behind(new, i, n)
                          /\ new[n].calls \subseteq Ids(new[i])
      BY <1>1 DEF Asked
    <2> DEFINE j == n - p + k
    <2>1. j \in 1 .. Len(ms) /\ j \in k + 1 .. Len(ms) /\ new[n] = ms[j]
      BY <1>2, <1>3
    <2>2. j - k + p = n
      BY <1>1
    <2> HIDE DEF j
    <2>3. PICK i \in 1 .. Len(ms) :
                 /\ ms[i].kind = "ai" /\ Behind(ms, i, j)
                 /\ ms[j].calls \subseteq Ids(ms[i])
      BY <1>1, <2>1 DEF Ordered, Asked
    <2>4. i \in k + 1 .. Len(ms)
      <3>1. j > k
        BY <1>1, <2>1
      <3>2. i > k
        BY <1>1, <2>1, <2>3, <3>1, CutApart
      <3> QED  BY <1>1, <3>2
    <2>5. i - k + p \in 1 .. Len(new) /\ new[i - k + p] = ms[i]
      BY <2>4, MovedForth
    <2>6. Behind(new, i - k + p, n)
      BY <2>1, <2>2, <2>3, <2>4, MovedBehind
    <2> QED  BY <2>1, <2>3, <2>5, <2>6
  <1>6. Distinct(new)
    <2> SUFFICES ASSUME NEW n \in 1 .. Len(new), NEW o \in 1 .. Len(new),
                        new[n].kind = "ai", new[o].kind = "ai",
                        Ids(new[n]) \cap Ids(new[o]) # {}
                 PROVE  n = o
      BY <1>1 DEF Distinct
    <2>1. n - p + k \in 1 .. Len(ms) /\ new[n] = ms[n - p + k]
      BY <1>2, <1>3
    <2>2. o - p + k \in 1 .. Len(ms) /\ new[o] = ms[o - p + k]
      BY <1>2, <1>3
    <2>3. n - p + k = o - p + k
      BY <1>1, <2>1, <2>2 DEF Ordered, Distinct
    <2> QED  BY <1>1, <2>3
  <1>7. Once(new)
    <2> SUFFICES ASSUME NEW n \in 1 .. Len(new), NEW o \in 1 .. Len(new),
                        new[n].kind = "tool", new[n] = new[o]
                 PROVE  n = o
      BY <1>1 DEF Once
    <2>1. n - p + k \in 1 .. Len(ms) /\ new[n] = ms[n - p + k]
      BY <1>2, <1>3
    <2>2. o - p + k \in 1 .. Len(ms) /\ new[o] = ms[o - p + k]
      BY <1>2, <1>3
    <2>3. n - p + k = o - p + k
      BY <1>1, <2>1, <2>2 DEF Ordered, Once
    <2> QED  BY <1>1, <2>3
  <1> QED  BY <1>4, <1>5, <1>6, <1>7 DEF Ordered

LEMMA MovedAnswered ==
  ASSUME NEW ms \in Talk, NEW new \in Talk, NEW k, NEW p, Moved(ms, new, k, p),
         NEW i \in k + 1 .. Len(ms), Answered(ms, i)
  PROVE  Answered(new, i - k + p)
  <1>1. /\ DOMAIN ms = 1 .. Len(ms) /\ DOMAIN new = 1 .. Len(new)
        /\ Len(ms) \in Nat /\ k \in Nat
    BY TalkTypes DEF Moved
  <1>2. new[i - k + p] = ms[i]
    BY MovedForth
  <1>3. ASSUME NEW id \in ms[i].calls
        PROVE  \E n \in DOMAIN new :
                 Behind(new, i - k + p, n) /\ new[n] = ToolMsg(id)
    <2>1. PICK j \in 1 .. Len(ms) : Behind(ms, i, j) /\ ms[j] = ToolMsg(id)
      BY <1>1 DEF Answered
    <2>2. j \in k + 1 .. Len(ms)
      BY <1>1, <2>1 DEF Behind
    <2>3. j - k + p \in 1 .. Len(new) /\ new[j - k + p] = ms[j]
      BY <2>2, MovedForth
    <2>4. Behind(new, i - k + p, j - k + p)
      BY <2>1, <2>2, MovedBehind
    <2> QED  BY <1>1, <2>1, <2>3, <2>4
  <1> QED  BY <1>2, <1>3 DEF Answered

\* All calls are answered.
Closed(ms) == \A i \in DOMAIN ms : ms[i].kind = "ai" => Answered(ms, i)

LEMMA MovedClosed ==
  ASSUME NEW ms \in Talk, NEW new \in Talk, NEW k, NEW p, Moved(ms, new, k, p),
         Closed(ms)
  PROVE  Closed(new)
  <1>1. /\ DOMAIN ms = 1 .. Len(ms) /\ DOMAIN new = 1 .. Len(new)
        /\ Len(ms) \in Nat /\ k \in Nat /\ p \in Nat
    BY TalkTypes DEF Moved
  <1> SUFFICES ASSUME NEW n \in 1 .. Len(new), new[n].kind = "ai"
               PROVE  Answered(new, n)
    BY <1>1 DEF Closed
  <1> DEFINE i == n - p + k
  <1>2. i \in k + 1 .. Len(ms) /\ new[n] = ms[i]
    BY MovedBack DEF Plain, Human
  <1>3. i - k + p = n
    BY <1>1
  <1> HIDE DEF i
  <1>4. i \in 1 .. Len(ms)
    BY <1>1, <1>2
  <1>5. Answered(ms, i)
    BY <1>1, <1>2, <1>4 DEF Closed
  <1> QED  BY <1>2, <1>3, <1>5, MovedAnswered

LEMMA MovedEnding ==
  ASSUME NEW ms \in Talk, NEW new \in Talk, NEW k, NEW p, Moved(ms, new, k, p),
         NEW i, Ending(ms, i), i > k
  PROVE  Ending(new, i - k + p) /\ new[i - k + p] = ms[i]
  <1>1. /\ DOMAIN ms = 1 .. Len(ms) /\ DOMAIN new = 1 .. Len(new)
        /\ Len(ms) \in Nat /\ k \in Nat /\ p \in Nat
        /\ Len(new) = p + Len(ms) - k
    BY TalkTypes DEF Moved
  <1>2. i \in k + 1 .. Len(ms)
    BY <1>1 DEF Ending
  <1>3. i - k + p \in 1 .. Len(new) /\ new[i - k + p] = ms[i]
    BY <1>2, MovedForth
  <1>4. ASSUME NEW n \in i - k + p + 1 .. Len(new) PROVE new[n].kind = "tool"
    <2>1. n \in 1 .. Len(new) /\ n > p /\ n - p + k \in i + 1 .. Len(ms)
      BY <1>1, <1>2
    <2>2. new[n] = ms[n - p + k]
      BY <2>1, MovedBack
    <2> QED  BY <2>1, <2>2 DEF Ending
  <1> QED  BY <1>1, <1>3, <1>4 DEF Ending

LEMMA MovedCalls ==
  ASSUME NEW ms \in Talk, NEW new \in Talk, NEW k, NEW p, Moved(ms, new, k, p),
         NEW id
  PROVE  /\ id \in AiCalls(new) <=>
              \E i \in k + 1 .. Len(ms) : ms[i].kind = "ai" /\ id \in ms[i].calls
         /\ id \in Answers(new) <=>
              \E j \in k + 1 .. Len(ms) : ms[j].kind = "tool" /\ id \in ms[j].calls
  <1>1. \A kind \in Plain : kind # "tool" /\ kind # "ai"
    BY DEF Plain, Human
  <1>2. ASSUME NEW n \in 1 .. Len(new), new[n].kind \notin Plain
        PROVE  n - p + k \in k + 1 .. Len(ms) /\ new[n] = ms[n - p + k]
    BY <1>2, MovedBack
  <1>3. \A i \in k + 1 .. Len(ms) :
          i - k + p \in 1 .. Len(new) /\ new[i - k + p] = ms[i]
    BY MovedForth
  <1>4. id \in AiCalls(new) <=>
          \E n \in 1 .. Len(new) : new[n].kind = "ai" /\ id \in new[n].calls
    BY InAiCalls
  <1>5. id \in Answers(new) <=>
          \E n \in 1 .. Len(new) : new[n].kind = "tool" /\ id \in new[n].calls
    BY InAnswers
  <1>6. ASSUME NEW n \in 1 .. Len(new), new[n].kind = "ai", id \in new[n].calls
        PROVE  \E i \in k + 1 .. Len(ms) : ms[i].kind = "ai" /\ id \in ms[i].calls
    BY <1>1, <1>2, <1>6
  <1>7. ASSUME NEW n \in 1 .. Len(new), new[n].kind = "tool",
               id \in new[n].calls
        PROVE  \E i \in k + 1 .. Len(ms) : ms[i].kind = "tool" /\ id \in ms[i].calls
    BY <1>1, <1>2, <1>7
  <1> QED  BY <1>3, <1>4, <1>5, <1>6, <1>7

LEMMA MovedFewer ==
  ASSUME NEW ms \in Talk, NEW new \in Talk, NEW k, NEW p, Moved(ms, new, k, p)
  PROVE  AiCalls(new) \subseteq AiCalls(ms) /\ Answers(new) \subseteq Answers(ms)
  <1>1. \A i \in k + 1 .. Len(ms) : i \in 1 .. Len(ms)
    BY MovedForth
  <1> QED  BY <1>1, MovedCalls, InAnswers, InAiCalls

----------------------------------------------------------------------------
(* What messages at the end keep. *)

Longer(ms, new) ==
  /\ Len(ms) <= Len(new)
  /\ \A j \in 1 .. Len(ms) : new[j] = ms[j]

LEMMA LongerBehind ==
  ASSUME NEW ms \in Talk, NEW new \in Talk, Longer(ms, new),
         NEW i \in 1 .. Len(ms), NEW j \in 1 .. Len(ms)
  PROVE  Behind(ms, i, j) <=> Behind(new, i, j)
  <1>1. Len(ms) \in Nat /\ \A l \in i + 1 .. j : l \in 1 .. Len(ms)
    BY TalkTypes
  <1>2. \A l \in i + 1 .. j : new[l] = ms[l]
    BY <1>1 DEF Longer
  <1> QED  BY <1>2 DEF Behind

LEMMA LongerAnswered ==
  ASSUME NEW ms \in Talk, NEW new \in Talk, Longer(ms, new),
         NEW i \in 1 .. Len(ms), Answered(ms, i)
  PROVE  Answered(new, i)
  <1>1. /\ DOMAIN ms = 1 .. Len(ms) /\ DOMAIN new = 1 .. Len(new)
        /\ Len(ms) \in Nat /\ Len(new) \in Nat
    BY TalkTypes
  <1>2. new[i] = ms[i]
    BY DEF Longer
  <1>3. ASSUME NEW id \in ms[i].calls
        PROVE  \E j \in 1 .. Len(new) :
                 Behind(new, i, j) /\ new[j] = ToolMsg(id)
    <2>1. PICK j \in 1 .. Len(ms) : Behind(ms, i, j) /\ ms[j] = ToolMsg(id)
      BY <1>1 DEF Answered
    <2>2. Behind(new, i, j) /\ new[j] = ms[j]
      BY <2>1, LongerBehind DEF Longer
    <2>3. j \in 1 .. Len(new)
      BY <1>1 DEF Longer
    <2> QED  BY <2>1, <2>2, <2>3
  <1> QED  BY <1>1, <1>2, <1>3 DEF Answered

\* A plain message, or an AI message with calls of its own, can always follow.
LEMMA AppendOrdered ==
  ASSUME NEW ms \in Talk, Ordered(ms), NEW m \in FiniteMessage,
         m.kind \in Plain \cup {"ai"},
         m.kind \in Plain => m = Msg(m.kind),
         m.kind = "ai" => /\ IsFiniteSet(Ids(m))
                          /\ Cardinality(Ids(m)) <= CallsAtOnce
                          /\ m.calls \cap m.bad = {},
         \A i \in 1 .. Len(ms) : ms[i].kind = "ai" => Ids(ms[i]) \cap Ids(m) = {}
  PROVE  /\ Append(ms, m) \in Talk /\ Len(Append(ms, m)) = Len(ms) + 1
         /\ Append(ms, m)[Len(ms) + 1] = m
         /\ Longer(ms, Append(ms, m)) /\ Ordered(Append(ms, m))
         /\ Answers(Append(ms, m)) = Answers(ms)
  <1> DEFINE new == Append(ms, m)
  <1>1. /\ new \in Talk /\ Len(new) = Len(ms) + 1 /\ new[Len(ms) + 1] = m
        /\ \A j \in 1 .. Len(ms) : new[j] = ms[j]
    BY AppendProperties DEF Talk
  <1>2. /\ DOMAIN ms = 1 .. Len(ms) /\ DOMAIN new = 1 .. Len(new)
        /\ Len(ms) \in Nat /\ Len(new) \in Nat
    BY <1>1, TalkTypes
  <1>3. Longer(ms, new)
    BY <1>1, <1>2 DEF Longer
  <1> HIDE DEF new
  <1>4. /\ \A n \in 1 .. Len(new) : n \in 1 .. Len(ms) \/ n = Len(ms) + 1
        /\ \A n \in 1 .. Len(ms) : n \in 1 .. Len(new)
    BY <1>1, <1>2
  <1>5. m.kind # "tool" /\ (m.kind = "ai" => m.kind \notin Plain)
    BY DEF Plain, Human
  <1>6. Forms(new)
    <2> SUFFICES ASSUME NEW n \in 1 .. Len(new)
                 PROVE  /\ new[n].kind \in Plain => new[n] = Msg(new[n].kind)
                        /\ new[n].kind = "tool" =>
                             \E id \in CallIds : new[n] = ToolMsg(id)
                        /\ new[n].kind = "ai" =>
                             /\ IsFiniteSet(Ids(new[n]))
                             /\ Cardinality(Ids(new[n])) <= CallsAtOnce
                             /\ new[n].calls \cap new[n].bad = {}
      BY <1>2 DEF Forms
    <2>1. CASE n \in 1 .. Len(ms)
      BY <1>1, <1>2, <2>1 DEF Ordered, Forms
    <2>2. CASE n = Len(ms) + 1
      BY <1>1, <1>5, <2>2
    <2> QED  BY <1>4, <2>1, <2>2
  <1>7. Asked(new)
    <2> SUFFICES ASSUME NEW n \in 1 .. Len(new), new[n].kind = "tool"
                 PROVE  \E i \in 1 .. Len(new) :
                          /\ new[i].kind = "ai" /\ Behind(new, i, n)
                          /\ new[n].calls \subseteq Ids(new[i])
      BY <1>2 DEF Asked
    <2>1. n \in 1 .. Len(ms) /\ new[n] = ms[n]
      BY <1>1, <1>4, <1>5
    <2>2. PICK i \in 1 .. Len(ms) :
                 /\ ms[i].kind = "ai" /\ Behind(ms, i, n)
                 /\ ms[n].calls \subseteq Ids(ms[i])
      BY <1>2, <2>1 DEF Ordered, Asked
    <2>3. Behind(new, i, n) /\ new[i] = ms[i]
      BY <1>1, <1>3, <2>1, <2>2, LongerBehind
    <2> QED  BY <1>4, <2>1, <2>2, <2>3
  <1>8. Distinct(new)
    <2> SUFFICES ASSUME NEW n \in 1 .. Len(new), NEW o \in 1 .. Len(new),
                        new[n].kind = "ai", new[o].kind = "ai",
                        Ids(new[n]) \cap Ids(new[o]) # {}
                 PROVE  n = o
      BY <1>2 DEF Distinct
    <2>1. CASE n \in 1 .. Len(ms) /\ o \in 1 .. Len(ms)
      BY <1>1, <1>2, <2>1 DEF Ordered, Distinct
    <2>2. CASE n \in 1 .. Len(ms) /\ o = Len(ms) + 1
      BY <1>1, <2>2
    <2>3. CASE n = Len(ms) + 1 /\ o \in 1 .. Len(ms)
      BY <1>1, <2>3
    <2> QED  BY <1>4, <2>1, <2>2, <2>3
  <1>9. Once(new)
    <2> SUFFICES ASSUME NEW n \in 1 .. Len(new), NEW o \in 1 .. Len(new),
                        new[n].kind = "tool", new[n] = new[o]
                 PROVE  n = o
      BY <1>2 DEF Once
    <2>1. n \in 1 .. Len(ms) /\ o \in 1 .. Len(ms)
      BY <1>1, <1>4, <1>5
    <2> QED  BY <1>1, <1>2, <2>1 DEF Ordered, Once
  <1>10. Answers(new) = Answers(ms)
    <2>1. \A id : id \in Answers(new) <=> id \in Answers(ms)
      BY <1>1, <1>4, <1>5, InAnswers
    <2> QED  BY <2>1
  <1> QED  BY <1>1, <1>3, <1>6, <1>7, <1>8, <1>9, <1>10 DEF Ordered, new

\* Behind ms, new answers ids, each once, and nothing else.
Joined(ms, new, ids) ==
  /\ new \in Talk /\ Longer(ms, new)
  /\ \A n \in 1 .. Len(new) : n \notin 1 .. Len(ms) =>
       \E id \in ids : new[n] = ToolMsg(id)
  /\ \A id \in ids : \E n \in Len(ms) + 1 .. Len(new) :
       new[n] = ToolMsg(id)
  /\ \A n \in Len(ms) + 1 .. Len(new) :
       \A o \in Len(ms) + 1 .. Len(new) : new[n] = new[o] => n = o

LEMMA AnswersJoined ==
  ASSUME NEW ms \in Talk, NEW ids \in SUBSET CallIds, IsFiniteSet(ids),
         NEW new, new = ms \o ToolMsgs(ids)
  PROVE  Joined(ms, new, ids)
  <1> DEFINE back == ToolMsgs(ids)
  <1>1. /\ back \in Talk
        /\ \A i \in 1 .. Len(back) : \E id \in ids : back[i] = ToolMsg(id)
        /\ \A id \in ids : \E i \in 1 .. Len(back) : back[i] = ToolMsg(id)
        /\ \A i \in 1 .. Len(back) :
             \A j \in 1 .. Len(back) : back[i] = back[j] => i = j
    BY ToolMsgsAnswer
  <1>2. Len(ms) \in Nat /\ Len(back) \in Nat
    BY <1>1, TalkTypes
  <1> HIDE DEF back
  <1>3. /\ new \in Talk /\ Len(new) = Len(ms) + Len(back)
        /\ \A i \in 1 .. Len(ms) + Len(back) :
             new[i] = IF i <= Len(ms) THEN ms[i] ELSE back[i - Len(ms)]
    BY <1>1, ConcatProperties DEF Talk, back
  <1>4. Longer(ms, new)
    BY <1>2, <1>3 DEF Longer
  <1>5. \A n \in 1 .. Len(new) : n \notin 1 .. Len(ms) =>
          n - Len(ms) \in 1 .. Len(back) /\ new[n] = back[n - Len(ms)]
    BY <1>2, <1>3
  <1>6. \A i \in 1 .. Len(back) :
          /\ Len(ms) + i \in Len(ms) + 1 .. Len(new)
          /\ new[Len(ms) + i] = back[i]
    <2> SUFFICES ASSUME NEW i \in 1 .. Len(back)
                 PROVE  /\ Len(ms) + i \in Len(ms) + 1 .. Len(new)
                        /\ new[Len(ms) + i] = back[i]
      OBVIOUS
    <2>1. /\ Len(ms) + i \in Len(ms) + 1 .. Len(new)
          /\ Len(ms) + i \in 1 .. Len(ms) + Len(back)
          /\ ~ (Len(ms) + i <= Len(ms)) /\ (Len(ms) + i) - Len(ms) = i
      BY <1>2, <1>3
    <2>2. new[Len(ms) + i] = back[(Len(ms) + i) - Len(ms)]
      BY <1>3, <2>1
    <2> QED  BY <2>1, <2>2
  <1>7. \A n \in Len(ms) + 1 .. Len(new) :
          n \in 1 .. Len(new) /\ n \notin 1 .. Len(ms) /\ n \in Nat
    BY <1>2, <1>3
  <1>8. ASSUME NEW n \in Len(ms) + 1 .. Len(new),
               NEW o \in Len(ms) + 1 .. Len(new), new[n] = new[o]
        PROVE  n = o
    <2>1. /\ n - Len(ms) \in 1 .. Len(back) /\ new[n] = back[n - Len(ms)]
          /\ o - Len(ms) \in 1 .. Len(back) /\ new[o] = back[o - Len(ms)]
      BY <1>5, <1>7
    <2>2. back[n - Len(ms)] = back[o - Len(ms)]
      BY <1>8, <2>1
    <2>3. n - Len(ms) = o - Len(ms)
      BY <1>1, <2>1, <2>2
    <2> QED  BY <1>2, <1>7, <2>3
  <1>9. ASSUME NEW n \in 1 .. Len(new), n \notin 1 .. Len(ms)
        PROVE  \E id \in ids : new[n] = ToolMsg(id)
    <2>1. n - Len(ms) \in 1 .. Len(back) /\ new[n] = back[n - Len(ms)]
      BY <1>5, <1>9
    <2>2. PICK id \in ids : back[n - Len(ms)] = ToolMsg(id)
      BY <1>1, <2>1
    <2> QED  BY <2>1, <2>2
  <1>10. ASSUME NEW id \in ids
         PROVE  \E n \in Len(ms) + 1 .. Len(new) : new[n] = ToolMsg(id)
    <2>1. PICK i \in 1 .. Len(back) : back[i] = ToolMsg(id)
      BY <1>1
    <2> QED  BY <1>6, <2>1
  <1> QED  BY <1>3, <1>4, <1>8, <1>9, <1>10 DEF Joined

\* new is ms with the answers to the calls ids, which message i asked.
Answering(ms, new, i, ids) ==
  /\ new \in Talk /\ Longer(ms, new) /\ Ordered(new)
  /\ Ending(new, i) /\ new[i] = ms[i]
  /\ Answers(new) = Answers(ms) \cup ids /\ AiCalls(new) = AiCalls(ms)
  /\ \A id \in ids : \E n \in DOMAIN new :
       Behind(new, i, n) /\ new[n] = ToolMsg(id)
  /\ \A n \in DOMAIN new : n \notin DOMAIN ms => new[n].kind = "tool"

\* The answers to calls of the last AI message that had none fit behind it.
LEMMA AnswersOrdered ==
  ASSUME NEW ms \in Talk, Ordered(ms), NEW i, Ending(ms, i),
         NEW ids \in SUBSET CallIds, IsFiniteSet(ids),
         ids \subseteq Ids(ms[i]), ids \cap Answers(ms) = {},
         NEW new, new = ms \o ToolMsgs(ids)
  PROVE  Answering(ms, new, i, ids)
  <1>1. /\ new \in Talk /\ Longer(ms, new)
        /\ \A n \in 1 .. Len(new) : n \notin 1 .. Len(ms) =>
             \E id \in ids : new[n] = ToolMsg(id)
        /\ \A id \in ids : \E n \in Len(ms) + 1 .. Len(new) :
             new[n] = ToolMsg(id)
        /\ \A n \in Len(ms) + 1 .. Len(new) :
             \A o \in Len(ms) + 1 .. Len(new) : new[n] = new[o] => n = o
    <2>1. Joined(ms, new, ids)
      BY AnswersJoined
    <2> QED  BY <2>1 DEF Joined
  <1>2. /\ DOMAIN ms = 1 .. Len(ms) /\ DOMAIN new = 1 .. Len(new)
        /\ Len(ms) \in Nat /\ Len(new) \in Nat
        /\ \A n \in 1 .. Len(ms) : n \in 1 .. Len(new) /\ new[n] = ms[n]
    BY <1>1, TalkTypes DEF Longer
  <1>3. \A id : ToolMsg(id).kind = "tool" /\ ToolMsg(id).calls = {id}
    BY DEF ToolMsg
  <1>4. \A n \in 1 .. Len(new) : n \notin 1 .. Len(ms) => new[n].kind = "tool"
    BY <1>1, <1>3
  <1>5. /\ i \in 1 .. Len(ms) /\ i \in 1 .. Len(new) /\ ms[i].kind = "ai"
        /\ new[i] = ms[i] /\ \A l \in i + 1 .. Len(ms) : ms[l].kind = "tool"
    BY <1>2 DEF Ending
  <1>6. \A l \in i + 1 .. Len(new) : new[l].kind = "tool"
    <2> SUFFICES ASSUME NEW l \in i + 1 .. Len(new) PROVE new[l].kind = "tool"
      OBVIOUS
    <2>1. l \in 1 .. Len(new) /\ (l \in 1 .. Len(ms) => l \in i + 1 .. Len(ms))
      BY <1>2, <1>5
    <2>2. CASE l \in 1 .. Len(ms)
      BY <1>2, <1>5, <2>1, <2>2
    <2>3. CASE l \notin 1 .. Len(ms)
      BY <1>4, <2>1, <2>3
    <2> QED  BY <2>2, <2>3
  <1>7. Ending(new, i)
    BY <1>2, <1>5, <1>6 DEF Ending
  <1>8. \A n \in 1 .. Len(new) : n > i => Behind(new, i, n)
    BY <1>2, <1>5, <1>6 DEF Behind
  <1>9. \A n \in 1 .. Len(new) :
          n \notin 1 .. Len(ms) => n \in Len(ms) + 1 .. Len(new) /\ n > i
    BY <1>2, <1>5
  <1>10. Forms(new)
    <2> SUFFICES ASSUME NEW n \in 1 .. Len(new)
                 PROVE  /\ new[n].kind \in Plain => new[n] = Msg(new[n].kind)
                        /\ new[n].kind = "tool" =>
                             \E id \in CallIds : new[n] = ToolMsg(id)
                        /\ new[n].kind = "ai" =>
                             /\ IsFiniteSet(Ids(new[n]))
                             /\ Cardinality(Ids(new[n])) <= CallsAtOnce
                             /\ new[n].calls \cap new[n].bad = {}
      BY <1>2 DEF Forms
    <2>1. CASE n \in 1 .. Len(ms)
      BY <1>2, <2>1 DEF Ordered, Forms
    <2>2. CASE n \notin 1 .. Len(ms)
      BY <1>1, <1>4, <2>2 DEF Plain, Human
    <2> QED  BY <2>1, <2>2
  <1>11. Asked(new)
    <2> SUFFICES ASSUME NEW n \in 1 .. Len(new), new[n].kind = "tool"
                 PROVE  \E a \in 1 .. Len(new) :
                          /\ new[a].kind = "ai" /\ Behind(new, a, n)
                          /\ new[n].calls \subseteq Ids(new[a])
      BY <1>2 DEF Asked
    <2>1. CASE n \in 1 .. Len(ms)
      <3>1. PICK a \in 1 .. Len(ms) :
                   /\ ms[a].kind = "ai" /\ Behind(ms, a, n)
                   /\ ms[n].calls \subseteq Ids(ms[a])
        BY <1>2, <2>1 DEF Ordered, Asked
      <3>2. Behind(new, a, n)
        BY <1>1, <2>1, <3>1, LongerBehind
      <3> QED  BY <1>2, <2>1, <3>1, <3>2
    <2>2. CASE n \notin 1 .. Len(ms)
      <3>1. PICK id \in ids : new[n] = ToolMsg(id)
        BY <1>1, <2>2
      <3>2. new[n].calls \subseteq Ids(new[i])
        BY <1>3, <1>5, <3>1
      <3> QED  BY <1>5, <1>8, <1>9, <2>2, <3>2
    <2> QED  BY <2>1, <2>2
  <1>12. Distinct(new)
    <2> SUFFICES ASSUME NEW n \in 1 .. Len(new), NEW o \in 1 .. Len(new),
                        new[n].kind = "ai", new[o].kind = "ai",
                        Ids(new[n]) \cap Ids(new[o]) # {}
                 PROVE  n = o
      BY <1>2 DEF Distinct
    <2>1. n \in 1 .. Len(ms) /\ o \in 1 .. Len(ms)
      BY <1>4
    <2> QED  BY <1>2, <2>1 DEF Ordered, Distinct
  <1>13. ASSUME NEW n \in 1 .. Len(new), NEW o \in 1 .. Len(new),
                n \in 1 .. Len(ms), o \notin 1 .. Len(ms), new[n] = new[o],
                new[n].kind = "tool"
         PROVE  FALSE
    <2>1. PICK id \in ids : new[o] = ToolMsg(id)
      BY <1>1, <1>13
    <2>2. ms[n].kind = "tool" /\ id \in ms[n].calls
      BY <1>2, <1>3, <1>13, <2>1
    <2>3. id \in Answers(ms)
      BY <1>13, <2>2, InAnswers
    <2> QED  BY <2>3
  <1>14. Once(new)
    <2> SUFFICES ASSUME NEW n \in 1 .. Len(new), NEW o \in 1 .. Len(new),
                        new[n].kind = "tool", new[n] = new[o]
                 PROVE  n = o
      BY <1>2 DEF Once
    <2>1. CASE n \in 1 .. Len(ms) /\ o \in 1 .. Len(ms)
      BY <1>2, <2>1 DEF Ordered, Once
    <2>2. CASE n \notin 1 .. Len(ms) /\ o \notin 1 .. Len(ms)
      BY <1>1, <1>9, <2>2
    <2> QED  BY <1>13, <2>1, <2>2
  <1>15. Answers(new) = Answers(ms) \cup ids
    <2>1. ASSUME NEW id, id \in Answers(new) PROVE id \in Answers(ms) \cup ids
      <3>1. PICK n \in 1 .. Len(new) : new[n].kind = "tool" /\ id \in new[n].calls
        BY <1>1, <2>1, InAnswers
      <3>2. CASE n \in 1 .. Len(ms)
        BY <1>2, <3>1, <3>2, InAnswers
      <3>3. CASE n \notin 1 .. Len(ms)
        BY <1>1, <1>3, <3>1, <3>3
      <3> QED  BY <3>2, <3>3
    <2>2. ASSUME NEW id, id \in Answers(ms) PROVE id \in Answers(new)
      <3>1. PICK n \in 1 .. Len(ms) : ms[n].kind = "tool" /\ id \in ms[n].calls
        BY <2>2, InAnswers
      <3>2. n \in 1 .. Len(new) /\ new[n].kind = "tool" /\ id \in new[n].calls
        BY <1>2, <3>1
      <3> QED  BY <1>1, <3>2, InAnswers
    <2>3. ASSUME NEW id \in ids PROVE id \in Answers(new)
      <3>1. PICK n \in Len(ms) + 1 .. Len(new) : new[n] = ToolMsg(id)
        BY <1>1
      <3>2. n \in 1 .. Len(new)
        BY <1>2
      <3>3. new[n].kind = "tool" /\ id \in new[n].calls
        BY <1>3, <3>1
      <3> QED  BY <1>1, <3>2, <3>3, InAnswers
    <2> QED  BY <2>1, <2>2, <2>3
  <1>16. AiCalls(new) = AiCalls(ms)
    <2>1. ASSUME NEW id, id \in AiCalls(new) PROVE id \in AiCalls(ms)
      <3>1. PICK n \in 1 .. Len(new) : new[n].kind = "ai" /\ id \in new[n].calls
        BY <1>1, <2>1, InAiCalls
      <3>2. n \in 1 .. Len(ms)
        BY <1>4, <3>1
      <3> QED  BY <1>2, <3>1, <3>2, InAiCalls
    <2>2. ASSUME NEW id, id \in AiCalls(ms) PROVE id \in AiCalls(new)
      <3>1. PICK n \in 1 .. Len(ms) : ms[n].kind = "ai" /\ id \in ms[n].calls
        BY <2>2, InAiCalls
      <3>2. n \in 1 .. Len(new) /\ new[n].kind = "ai" /\ id \in new[n].calls
        BY <1>2, <3>1
      <3> QED  BY <1>1, <3>2, InAiCalls
    <2> QED  BY <2>1, <2>2
  <1>17. ASSUME NEW id \in ids
         PROVE  \E n \in 1 .. Len(new) :
                  Behind(new, i, n) /\ new[n] = ToolMsg(id)
    <2>1. PICK n \in Len(ms) + 1 .. Len(new) : new[n] = ToolMsg(id)
      BY <1>1
    <2>2. n \in 1 .. Len(new) /\ n > i
      BY <1>2, <1>5
    <2> QED  BY <1>8, <2>1, <2>2
  <1> QED  BY <1>1, <1>2, <1>4, <1>5, <1>7, <1>10, <1>11, <1>12, <1>14, <1>15,
              <1>16, <1>17 DEF Ordered, Answering

----------------------------------------------------------------------------
(* The parts the middleware builds the messages of. *)

LEMMA TalkConcat ==
  ASSUME NEW s \in Talk, NEW t \in Talk
  PROVE  /\ s \o t \in Talk /\ Len(s \o t) = Len(s) + Len(t)
         /\ Len(s) \in Nat /\ Len(t) \in Nat
         /\ \A i \in 1 .. Len(s) : (s \o t)[i] = s[i]
         /\ \A i \in 1 .. Len(t) : (s \o t)[Len(s) + i] = t[i]
  <1>1. /\ s \o t \in Talk /\ Len(s \o t) = Len(s) + Len(t)
        /\ \A i \in 1 .. Len(s) + Len(t) :
             (s \o t)[i] = IF i <= Len(s) THEN s[i] ELSE t[i - Len(s)]
    BY ConcatProperties DEF Talk
  <1>2. Len(s) \in Nat /\ Len(t) \in Nat
    BY TalkTypes
  <1>3. \A i \in 1 .. Len(s) : (s \o t)[i] = s[i]
    BY <1>1, <1>2
  <1>4. ASSUME NEW i \in 1 .. Len(t) PROVE (s \o t)[Len(s) + i] = t[i]
    <2>1. /\ Len(s) + i \in 1 .. Len(s) + Len(t)
          /\ ~ (Len(s) + i <= Len(s)) /\ (Len(s) + i) - Len(s) = i
      BY <1>2
    <2>2. (s \o t)[Len(s) + i] = t[(Len(s) + i) - Len(s)]
      BY <1>1, <2>1
    <2> QED  BY <2>1, <2>2
  <1> QED  BY <1>1, <1>2, <1>3, <1>4

LEMMA TalkOne ==
  ASSUME NEW m \in FiniteMessage
  PROVE  <<m>> \in Talk /\ Len(<<m>>) = 1 /\ <<m>>[1] = m
  BY DEF Talk

LEMMA TalkAppend ==
  ASSUME NEW ms \in Talk, NEW m \in FiniteMessage
  PROVE  Append(ms, m) \in Talk /\ Append(ms, m) # <<>>
  BY AppendProperties DEF Talk

LEMMA TalkNonempty ==
  ASSUME NEW ms \in Talk
  PROVE  ms # <<>> <=> Len(ms) >= 1
  <1>1. Len(<<>>) = 0 /\ (ms # <<>> => Len(ms) \in Nat \ {0})
    BY EmptySeq DEF Talk
  <1> QED  BY <1>1

\* The messages behind a cut.
LEMMA Behindhand ==
  ASSUME NEW ms \in Talk, NEW k \in 0 .. Len(ms)
  PROVE  LET back == SubSeq(ms, k + 1, Len(ms))
         IN  /\ back \in Talk /\ Len(back) = Len(ms) - k
             /\ \A i \in 1 .. Len(back) : back[i] = ms[k + i]
  <1>1. Len(ms) \in Nat /\ k \in Nat
    BY TalkTypes
  <1>2. \A i \in k + 1 .. Len(ms) : ms[i] \in FiniteMessage
    BY <1>1, TalkTypes
  <1> DEFINE back == SubSeq(ms, k + 1, Len(ms))
  <1>3. /\ back \in Seq(FiniteMessage)
        /\ Len(back) = IF k + 1 <= Len(ms) THEN Len(ms) - (k + 1) + 1 ELSE 0
        /\ \A i \in 1 .. Len(ms) - (k + 1) + 1 : back[i] = ms[(k + 1) + i - 1]
    BY <1>1, <1>2, SubSeqProperties
  <1> HIDE DEF back
  <1>4. Len(back) = Len(ms) - k
    BY <1>1, <1>3
  <1>5. \A i \in 1 .. Len(back) : (k + 1) + i - 1 = k + i
    BY <1>1
  <1>6. \A i \in 1 .. Len(back) : back[i] = ms[k + i]
    BY <1>1, <1>3, <1>4, <1>5
  <1> QED  BY <1>3, <1>4, <1>6 DEF Talk, back

\* The messages before a cut.
LEMMA Before ==
  ASSUME NEW ms \in Talk, NEW k \in 0 .. Len(ms)
  PROVE  LET front == SubSeq(ms, 1, k)
         IN  /\ front \in Talk /\ Len(front) = k
             /\ \A i \in 1 .. k : front[i] = ms[i]
  <1>1. Len(ms) \in Nat /\ k \in Nat
    BY TalkTypes
  <1>2. \A i \in 1 .. k : ms[i] \in FiniteMessage
    BY <1>1, TalkTypes
  <1> DEFINE front == SubSeq(ms, 1, k)
  <1>3. /\ front \in Seq(FiniteMessage)
        /\ Len(front) = IF 1 <= k THEN k - 1 + 1 ELSE 0
        /\ \A i \in 1 .. k - 1 + 1 : front[i] = ms[1 + i - 1]
    BY <1>1, <1>2, SubSeqProperties
  <1> HIDE DEF front
  <1>4. Len(front) = k /\ \A i \in 1 .. k : front[i] = ms[i]
    BY <1>1, <1>3
  <1> QED  BY <1>3, <1>4 DEF Talk, front

LEMMA RestIs ==
  ASSUME msgs \in Talk, msgs # <<>>
  PROVE  /\ Head(msgs) \in FiniteMessage /\ Head(msgs) = msgs[1]
         /\ Rest \in Talk /\ Len(Rest) = Len(msgs) - 1
         /\ \A i \in 1 .. Len(Rest) : Rest[i] = msgs[i + 1]
  <1>1. /\ Head(msgs) \in FiniteMessage /\ Tail(msgs) \in Seq(FiniteMessage)
        /\ Len(Tail(msgs)) = Len(msgs) - 1
    BY HeadTailProperties DEF Talk
  <1>2. Head(msgs) = msgs[1]
    BY DEF Talk
  <1>3. Len(msgs) \in Nat
    BY TalkTypes
  <1>4. \A i \in 1 .. Len(msgs) - 1 : Tail(msgs)[i] = msgs[i + 1]
    BY <1>3 DEF Talk
  <1> QED  BY <1>1, <1>2, <1>4 DEF Rest, Talk

LEMMA RoleIs ==
  ASSUME msgs \in Talk, msgs # <<>>
  PROVE  /\ Role \in Talk /\ Len(Role) = 1
         /\ msgs[1].kind = "system" => Role[1] = msgs[1]
  <1>1. Msg("system") \in FiniteMessage
    BY MessageTypes DEF Kinds
  <1>2. <<Msg("system")>> \in Talk /\ Len(<<Msg("system")>>) = 1
    BY <1>1, TalkOne
  <1>3. Head(msgs) \in FiniteMessage /\ Head(msgs) = msgs[1]
    BY RestIs
  <1>4. <<Head(msgs)>> \in Talk /\ Len(<<Head(msgs)>>) = 1
        /\ <<Head(msgs)>>[1] = msgs[1]
    BY <1>3, TalkOne
  <1> QED  BY <1>2, <1>3, <1>4 DEF Role

LEMMA SkillsFinite ==
  ASSUME NEW ms \in Talk
  PROVE  /\ Skills(ms) \subseteq 1 .. Len(ms) /\ IsFiniteSet(Skills(ms))
         /\ Cardinality(Skills(ms)) \in Nat
         /\ IsFiniteSet(SkillsRead(ms)) /\ Cardinality(SkillsRead(ms)) \in Nat
         /\ IsFiniteSet(AiCalls(ms) \cap SkillCalls)
         /\ Cardinality(AiCalls(ms) \cap SkillCalls) \in Nat
         /\ SkillsRead(ms) \subseteq AiCalls(ms) \cap SkillCalls
         /\ Cardinality(SkillsRead(ms)) <= Cardinality(AiCalls(ms) \cap SkillCalls)
  <1>1. Len(ms) \in Int /\ DOMAIN ms = 1 .. Len(ms)
    BY TalkTypes
  <1>2. IsFiniteSet(1 .. Len(ms)) /\ Skills(ms) \in SUBSET (1 .. Len(ms))
    BY <1>1, FS_Interval DEF Skills
  <1>3. IsFiniteSet(Skills(ms))
    BY <1>2, FS_Subset
  <1>4. IsFiniteSet(AiCalls(ms))
    BY AiCallsFinite
  <1>5. IsFiniteSet(AiCalls(ms) \cap SkillCalls)
    BY <1>4, FS_Intersection
  <1>6. SkillsRead(ms) \in SUBSET (AiCalls(ms) \cap SkillCalls)
    BY DEF SkillsRead
  <1>7. /\ IsFiniteSet(SkillsRead(ms))
        /\ Cardinality(SkillsRead(ms)) <= Cardinality(AiCalls(ms) \cap SkillCalls)
    BY <1>5, <1>6, FS_Subset
  <1> QED  BY <1>2, <1>3, <1>5, <1>6, <1>7, FS_CardinalityType

LEMMA RetainedIs ==
  ASSUME NEW ms \in Talk
  PROVE  /\ RetainedSkills(ms) \in Talk
         /\ Len(RetainedSkills(ms)) =
              Cardinality(Skills(ms)) + Cardinality(SkillsRead(ms))
         /\ \A i \in 1 .. Len(RetainedSkills(ms)) :
              RetainedSkills(ms)[i] = Msg("skill")
  <1> DEFINE n == Cardinality(Skills(ms)) + Cardinality(SkillsRead(ms))
  <1>1. n \in Nat
    <2>1. Cardinality(Skills(ms)) \in Nat /\ Cardinality(SkillsRead(ms)) \in Nat
      BY SkillsFinite
    <2> QED  BY <2>1
  <1>2. Msg("skill") \in FiniteMessage
    BY MessageTypes DEF Kinds
  <1>3. RetainedSkills(ms) = [i \in 1 .. n |-> Msg("skill")]
    BY DEF RetainedSkills
  <1> HIDE DEF n
  <1>4. RetainedSkills(ms) \in Talk /\ Len(RetainedSkills(ms)) = n
    BY <1>1, <1>2, <1>3 DEF Talk
  <1>5. \A i \in 1 .. n : RetainedSkills(ms)[i] = Msg("skill")
    BY <1>3
  <1> QED  BY <1>4, <1>5 DEF n

LEMMA LastHumanIs ==
  ASSUME NEW ms \in Talk, NEW end \in Nat
  PROVE  LET h == LastHuman(ms, end)
         IN  /\ h \in 0 .. Len(ms)
             /\ h > 0 => h <= end /\ ms[h].kind \in Human
             /\ \A i \in 1 .. Len(ms) :
                  (i <= end /\ ms[i].kind \in Human) => h >= i
  <1> DEFINE S == {0} \cup {i \in DOMAIN ms : i <= end /\ ms[i].kind \in Human}
             h == LastHuman(ms, end)
  <1>1. Len(ms) \in Nat /\ DOMAIN ms = 1 .. Len(ms)
    BY TalkTypes
  <1>2. S \in SUBSET Nat /\ S # {} /\ \A x \in S : x <= Len(ms)
    BY <1>1
  <1>3. h = Max(S)
    BY DEF LastHuman
  <1> HIDE DEF h
  <1>4. h \in S /\ \A x \in S : h >= x
    <2> HIDE DEF S
    <2> QED  BY <1>1, <1>2, <1>3, MaxOf
  <1>5. h \in 0 .. Len(ms) /\ (h > 0 => h <= end /\ ms[h].kind \in Human)
    BY <1>1, <1>4
  <1>6. \A i \in 1 .. Len(ms) : (i <= end /\ ms[i].kind \in Human) => h >= i
    BY <1>1, <1>4
  <1> QED  BY <1>5, <1>6 DEF h

LEMMA TrimCutIs ==
  ASSUME msgs \in Talk, msgs # <<>>
  PROVE  /\ TrimCut \in 0 .. Len(Rest)
         /\ TrimCut < Len(Rest) => Rest[TrimCut + 1].kind # "tool"
  <1>1. Rest \in Talk /\ Len(Rest) \in Nat /\ TailKeep \in Nat
    BY RestIs, TalkTypes
  <1>2. (IF Len(Rest) > TailKeep THEN Len(Rest) - TailKeep ELSE 0) \in 0 .. Len(Rest)
    BY <1>1
  <1> QED  BY <1>1, <1>2, SafeCutPlain DEF TrimCut

LEMMA ResetCutIs ==
  ASSUME msgs \in Talk, msgs # <<>>
  PROVE  /\ ResetCut \in 0 .. Len(Rest)
         /\ ResetCut < Len(Rest) => Rest[ResetCut + 1].kind # "tool"
  <1>1. Rest \in Talk /\ Len(Rest) \in Nat /\ ResetKeep \in Nat
    BY RestIs, TalkTypes DEF ResetKeep
  <1>2. (IF Len(Rest) > ResetKeep THEN Len(Rest) - ResetKeep ELSE 0) \in 0 .. Len(Rest)
    BY <1>1
  <1> QED  BY <1>1, <1>2, SafeCutPlain DEF ResetCut

\* The message in front of the tail of a soft reset, if there is one.
SoftFirst ==
  IF LastHuman(Rest, ResetCut + 1) = 0 THEN 1
                                       ELSE LastHuman(Rest, ResetCut + 1)

LEMMA SoftTailIs ==
  ASSUME msgs \in Talk, msgs # <<>>
  PROVE  LET tail == SubSeq(Rest, ResetCut + 1, Len(Rest))
         IN  /\ SoftTail = IF SoftFirst <= ResetCut
                           THEN <<Rest[SoftFirst]>> \o tail ELSE tail
             /\ tail \in Talk
             /\ SoftFirst <= ResetCut =>
                  /\ SoftFirst \in 1 .. Len(Rest)
                  /\ <<Rest[SoftFirst]>> \in Talk
             /\ SoftTail \in Talk
  <1> DEFINE tail == SubSeq(Rest, ResetCut + 1, Len(Rest))
  <1>1. /\ Rest \in Talk /\ ResetCut \in 0 .. Len(Rest) /\ ResetCut \in Nat
        /\ Len(Rest) \in Nat
    BY RestIs, ResetCutIs, TalkTypes
  <1>2. tail \in Talk
    BY <1>1, Behindhand
  <1>3. LastHuman(Rest, ResetCut + 1) \in 0 .. Len(Rest)
    <2>1. ResetCut + 1 \in Nat
      BY <1>1
    <2> QED  BY <1>1, <2>1, LastHumanIs
  <1>4. SoftFirst <= ResetCut => SoftFirst \in 1 .. Len(Rest)
    BY <1>1, <1>3 DEF SoftFirst
  <1>5. SoftFirst <= ResetCut => <<Rest[SoftFirst]>> \in Talk
    BY <1>1, <1>4, TalkTypes, TalkOne
  <1>6. SoftTail = IF SoftFirst <= ResetCut
                   THEN <<Rest[SoftFirst]>> \o tail ELSE tail
    BY DEF SoftTail, SoftFirst
  <1> HIDE DEF tail
  <1>7. SoftTail \in Talk
    BY <1>2, <1>5, <1>6, TalkConcat
  <1> QED  BY <1>2, <1>4, <1>5, <1>6, <1>7 DEF tail

LEMMA ResetTailIs ==
  ASSUME msgs \in Talk, msgs # <<>>
  PROVE  /\ LastHuman(SoftTail, Len(SoftTail)) \in 0 .. Len(SoftTail)
         /\ LastHuman(SoftTail, Len(SoftTail)) > 0 =>
              /\ SoftTail[LastHuman(SoftTail, Len(SoftTail))] \in FiniteMessage
              /\ SoftTail[LastHuman(SoftTail, Len(SoftTail))].kind \in Human
         /\ ResetTail \in Talk
  <1> DEFINE h == LastHuman(SoftTail, Len(SoftTail))
  <1>1. SoftTail \in Talk /\ Len(SoftTail) \in Nat
    BY SoftTailIs, TalkTypes
  <1>2. h \in 0 .. Len(SoftTail) /\ (h > 0 => SoftTail[h].kind \in Human)
    BY <1>1, LastHumanIs
  <1>3. ResetTail = IF reset = "force" /\ h > 0 THEN <<SoftTail[h]>> ELSE SoftTail
    BY DEF ResetTail
  <1> HIDE DEF h
  <1>4. h > 0 => SoftTail[h] \in FiniteMessage
    BY <1>1, <1>2, TalkTypes
  <1>5. ResetTail \in Talk
    BY <1>1, <1>3, <1>4, TalkOne
  <1> QED  BY <1>2, <1>4, <1>5 DEF h

LEMMA TrimmedIs ==
  ASSUME msgs \in Talk, msgs # <<>>
  PROVE  LET front == SubSeq(Rest, 1, TrimCut)
             skills == RetainedSkills(front)
             tail == SubSeq(Rest, TrimCut + 1, Len(Rest))
         IN  /\ front \in Talk /\ skills \in Talk /\ tail \in Talk
             /\ Trimmed = ((Role \o skills) \o <<Msg("summary")>>) \o tail
             /\ Trimmed \in Talk
             /\ Len(Trimmed) = 2 + Len(skills) + (Len(Rest) - TrimCut)
             /\ Trimmed[1] = Role[1]
             /\ \A i \in 1 .. Len(skills) : Trimmed[1 + i] = Msg("skill")
             /\ Trimmed[2 + Len(skills)] = Msg("summary")
             /\ \A i \in 1 .. Len(tail) :
                  Trimmed[2 + Len(skills) + i] = Rest[TrimCut + i]
  <1> DEFINE front == SubSeq(Rest, 1, TrimCut)
             skills == RetainedSkills(front)
             tail == SubSeq(Rest, TrimCut + 1, Len(Rest))
             s1 == Role \o skills
             s2 == s1 \o <<Msg("summary")>>
  <1>1. Rest \in Talk /\ TrimCut \in 0 .. Len(Rest)
    BY RestIs, TrimCutIs
  <1>2. front \in Talk
    BY <1>1, Before
  <1>3. /\ tail \in Talk /\ Len(tail) = Len(Rest) - TrimCut
        /\ \A i \in 1 .. Len(tail) : tail[i] = Rest[TrimCut + i]
    BY <1>1, Behindhand
  <1>4. /\ skills \in Talk
        /\ \A i \in 1 .. Len(skills) : skills[i] = Msg("skill")
    <2> HIDE DEF front
    <2> QED  BY <1>2, RetainedIs
  <1>5. Role \in Talk /\ Len(Role) = 1
    BY RoleIs
  <1>6. /\ <<Msg("summary")>> \in Talk /\ Len(<<Msg("summary")>>) = 1
        /\ <<Msg("summary")>>[1] = Msg("summary")
    <2>1. Msg("summary") \in FiniteMessage
      BY MessageTypes DEF Kinds
    <2> QED  BY <2>1, TalkOne
  <1>7. Trimmed = s2 \o tail
    BY DEF Trimmed
  <1> HIDE DEF front, skills, tail
  <1>8. /\ s1 \in Talk /\ Len(s1) = 1 + Len(skills) /\ Len(skills) \in Nat
        /\ s1[1] = Role[1]
        /\ \A i \in 1 .. Len(skills) : s1[1 + i] = skills[i]
    <2>1. /\ s1 \in Talk /\ Len(s1) = Len(Role) + Len(skills)
          /\ Len(skills) \in Nat
          /\ \A i \in 1 .. Len(Role) : s1[i] = Role[i]
          /\ \A i \in 1 .. Len(skills) : s1[Len(Role) + i] = skills[i]
      BY <1>4, <1>5, TalkConcat
    <2> HIDE DEF s1
    <2>2. 1 \in 1 .. Len(Role)
      BY <1>5
    <2> QED  BY <1>5, <2>1, <2>2
  <1> HIDE DEF s1
  <1>9. /\ s2 \in Talk /\ Len(s2) = 2 + Len(skills)
        /\ \A i \in 1 .. Len(s1) : s2[i] = s1[i]
        /\ s2[Len(s1) + 1] = Msg("summary")
    <2> DEFINE one == <<Msg("summary")>>
    <2>1. /\ s2 \in Talk /\ Len(s2) = Len(s1) + Len(one)
          /\ \A i \in 1 .. Len(s1) : s2[i] = s1[i]
          /\ \A i \in 1 .. Len(one) : s2[Len(s1) + i] = one[i]
      BY <1>6, <1>8, TalkConcat
    <2>2. Len(one) = 1 /\ one[1] = Msg("summary")
      BY <1>6
    <2> HIDE DEF s2, one
    <2>3. 1 \in 1 .. Len(one)
      BY <2>2
    <2> QED  BY <1>8, <2>1, <2>2, <2>3
  <1> HIDE DEF s2
  <1>10. /\ Trimmed \in Talk /\ Len(Trimmed) = 2 + Len(skills) + Len(tail)
         /\ \A i \in 1 .. Len(s2) : Trimmed[i] = s2[i]
         /\ \A i \in 1 .. Len(tail) : Trimmed[Len(s2) + i] = tail[i]
         /\ Len(tail) \in Nat
    <2>1. /\ Trimmed \in Talk /\ Len(Trimmed) = Len(s2) + Len(tail)
          /\ Len(tail) \in Nat
          /\ \A i \in 1 .. Len(s2) : Trimmed[i] = s2[i]
          /\ \A i \in 1 .. Len(tail) : Trimmed[Len(s2) + i] = tail[i]
      BY <1>3, <1>7, <1>9, TalkConcat
    <2> QED  BY <1>9, <2>1
  <1>11. /\ 1 \in 1 .. Len(s1) /\ 1 \in 1 .. Len(s2)
         /\ Len(s1) + 1 = 2 + Len(skills) /\ 2 + Len(skills) \in 1 .. Len(s2)
         /\ \A i \in 1 .. Len(skills) :
              1 + i \in 1 .. Len(s1) /\ 1 + i \in 1 .. Len(s2)
    BY <1>8, <1>9
  <1>12. Trimmed[1] = Role[1]
    BY <1>8, <1>9, <1>10, <1>11
  <1>13. \A i \in 1 .. Len(skills) : Trimmed[1 + i] = Msg("skill")
    BY <1>4, <1>8, <1>9, <1>10, <1>11
  <1>14. Trimmed[2 + Len(skills)] = Msg("summary")
    BY <1>9, <1>10, <1>11
  <1>15. \A i \in 1 .. Len(tail) :
           Trimmed[2 + Len(skills) + i] = Rest[TrimCut + i]
    BY <1>3, <1>9, <1>10
  <1> QED  BY <1>2, <1>3, <1>4, <1>7, <1>10, <1>12, <1>13, <1>14, <1>15
           DEF s1, s2, front, skills, tail

----------------------------------------------------------------------------
(* What the model asks for. *)

LEMMA RequestsAre ==
  ASSUME Always, NEW r \in Requests
  PROVE  /\ r.calls \in SUBSET CallIds /\ r.bad \in SUBSET CallIds
         /\ IsFiniteSet(r.calls) /\ IsFiniteSet(r.bad)
         /\ IsFiniteSet(r.calls \cup r.bad)
         /\ Cardinality(r.calls \cup r.bad) <= CallsAtOnce
         /\ r.calls \cap r.bad = {} /\ (r.calls \cup r.bad) \cap Used = {}
         /\ IsFiniteSet(r.calls \cap SkillCalls)
         /\ Cardinality(r.calls \cap SkillCalls) \in Nat
         /\ reads + Cardinality(r.calls \cap SkillCalls) <= MaxReads
  <1> DEFINE plain == CallIds \ (SkillCalls \cup Used)
             skills == IF reads < MaxReads THEN SkillCalls \ Used ELSE {}
             least == IF plain = {} THEN {} ELSE {Min(plain)}
             two == IF plain \ least = {} THEN least
                                          ELSE least \cup {Min(plain \ least)}
             A == {[calls |-> {}, bad |-> {}], [calls |-> least, bad |-> {}],
                   [calls |-> {}, bad |-> least], [calls |-> two, bad |-> {}],
                   [calls |-> least, bad |-> two \ least],
                   [calls |-> {}, bad |-> two]}
             B == {[calls |-> {s}, bad |-> {}] : s \in skills}
  <1>1. r \in A \cup B
    BY DEF Requests
  <1>2. reads \in 0 .. MaxReads /\ MaxReads \in Nat
    BY DEF Always, TypeOK
  <1>3. /\ plain \subseteq CallIds /\ plain \cap SkillCalls = {}
        /\ plain \cap Used = {}
    OBVIOUS
  <1> HIDE DEF plain
  <1>4. plain \in SUBSET Nat /\ plain \ least \in SUBSET Nat
    BY <1>3
  <1>5. least \subseteq plain
    BY <1>4, MinOf
  <1>6. plain \ least # {} => Min(plain \ least) \in plain \ least
    BY <1>4, MinOf
  <1>7. two \subseteq plain /\ least \subseteq two
    BY <1>5, <1>6
  <1>8. IsFiniteSet(least) /\ Cardinality(least) \in Nat /\ Cardinality(least) <= 1
    <2>1. least = {} \/ \E x : least = {x}
      OBVIOUS
    <2> HIDE DEF least
    <2>2. CASE least = {}
      BY <2>2, FS_EmptySet
    <2>3. CASE \E x : least = {x}
      <3>1. PICK x : least = {x}
        BY <2>3
      <3>2. IsFiniteSet({x}) /\ Cardinality({x}) = 1
        BY FS_Singleton
      <3> QED  BY <3>1, <3>2
    <2> QED  BY <2>1, <2>2, <2>3
  <1>9. IsFiniteSet(two) /\ Cardinality(two) \in Nat /\ Cardinality(two) <= 2
    <2>1. two = least \/ \E x : two = least \cup {x}
      OBVIOUS
    <2> HIDE DEF least, two
    <2>2. CASE two = least
      BY <1>8, <2>2
    <2>3. CASE \E x : two = least \cup {x}
      <3>1. PICK x : two = least \cup {x}
        BY <2>3
      <3>2. /\ IsFiniteSet(two)
            /\ Cardinality(two) = IF x \in least THEN Cardinality(least)
                                                 ELSE Cardinality(least) + 1
        BY <1>8, <3>1, FS_AddElement
      <3> QED  BY <1>8, <3>2
    <2> QED  BY <2>1, <2>2, <2>3
  <1> HIDE DEF least, two
  <1>10. CASE r \in A
    <2>1. /\ r.calls \subseteq two /\ r.bad \subseteq two
          /\ r.calls \cap r.bad = {}
      BY <1>7, <1>10
    <2>2. r.calls \cup r.bad \in SUBSET two
      BY <2>1
    <2>3. r.calls \cap SkillCalls = {}
      BY <1>3, <1>7, <2>1
    <2>4. IsFiniteSet(r.calls) /\ IsFiniteSet(r.bad)
      BY <1>9, <2>1, FS_Subset
    <2>5. /\ IsFiniteSet(r.calls \cup r.bad)
          /\ Cardinality(r.calls \cup r.bad) <= Cardinality(two)
          /\ Cardinality(r.calls \cup r.bad) \in Nat
      BY <1>9, <2>2, FS_Subset, FS_CardinalityType
    <2>6. Cardinality(r.calls \cup r.bad) <= CallsAtOnce
      BY <1>9, <2>5 DEF CallsAtOnce
    <2>7. /\ IsFiniteSet(r.calls \cap SkillCalls)
          /\ Cardinality(r.calls \cap SkillCalls) \in Nat
          /\ reads + Cardinality(r.calls \cap SkillCalls) <= MaxReads
      <3>1. IsFiniteSet({}) /\ Cardinality({}) = 0
        BY FS_EmptySet
      <3>2. reads + 0 <= MaxReads
        BY <1>2
      <3> QED  BY <2>3, <3>1, <3>2
    <2>8. /\ r.calls \in SUBSET CallIds /\ r.bad \in SUBSET CallIds
          /\ (r.calls \cup r.bad) \cap Used = {}
      BY <1>3, <1>7, <2>1
    <2> HIDE DEF A
    <2> QED  BY <2>1, <2>4, <2>5, <2>6, <2>7, <2>8
  <1>11. CASE r \in B
    <2>1. PICK s \in skills : r = [calls |-> {s}, bad |-> {}]
      BY <1>11
    <2>2. s \in SkillCalls /\ s \notin Used /\ reads < MaxReads
      BY <2>1
    <2>3. r.calls = {s} /\ r.bad = {} /\ r.calls \cup r.bad = {s}
          /\ r.calls \cap SkillCalls = {s}
      BY <2>1, <2>2
    <2>4. IsFiniteSet({s}) /\ Cardinality({s}) = 1 /\ IsFiniteSet({})
      BY FS_EmptySet, FS_Singleton
    <2>5. /\ r.calls \in SUBSET CallIds /\ r.bad \in SUBSET CallIds
          /\ (r.calls \cup r.bad) \cap Used = {}
      BY <2>2, <2>3
    <2>6. Cardinality(r.calls \cup r.bad) <= CallsAtOnce
      BY <2>3, <2>4 DEF CallsAtOnce
    <2>7. reads + Cardinality(r.calls \cap SkillCalls) <= MaxReads
      <3>1. Cardinality(r.calls \cap SkillCalls) = 1
        BY <2>3, <2>4
      <3>2. reads + 1 <= MaxReads
        BY <1>2, <2>2
      <3> QED  BY <3>1, <3>2
    <2>8. /\ IsFiniteSet(r.calls) /\ IsFiniteSet(r.bad)
          /\ IsFiniteSet(r.calls \cup r.bad) /\ r.calls \cap r.bad = {}
          /\ IsFiniteSet(r.calls \cap SkillCalls)
          /\ Cardinality(r.calls \cap SkillCalls) \in Nat
      BY <2>3, <2>4
    <2> HIDE DEF B
    <2> QED  BY <2>5, <2>6, <2>7, <2>8
  <1> QED  BY <1>1, <1>10, <1>11

----------------------------------------------------------------------------
(* Types. *)

LEMMA PendingFinite ==
  ASSUME NEW ms \in Talk
  PROVE  Pending(ms) \in SUBSET CallIds /\ IsFiniteSet(Pending(ms))
  <1>1. AiCalls(ms) \in SUBSET CallIds /\ IsFiniteSet(AiCalls(ms))
    BY AiCallsFinite
  <1>2. Pending(ms) \in SUBSET AiCalls(ms)
    BY DEF Pending
  <1> QED  BY <1>1, <1>2, FS_Subset

LEMMA JoinedTalk ==
  ASSUME NEW ms \in Talk, NEW ids \in SUBSET CallIds, IsFiniteSet(ids)
  PROVE  ms \o ToolMsgs(ids) \in Talk /\ Longer(ms, ms \o ToolMsgs(ids))
  BY AnswersJoined DEF Joined

LEMMA RecoverTalk ==
  ASSUME NEW ms \in Talk
  PROVE  Recover(ms) \in Talk
  BY PendingFinite, JoinedTalk DEF Recover

LEMMA LastIs ==
  ASSUME NEW ms \in Talk, ms # <<>>
  PROVE  /\ Len(ms) \in 1 .. Len(ms) /\ Last(ms) = ms[Len(ms)]
         /\ Last(ms).calls \in SUBSET CallIds /\ IsFiniteSet(Last(ms).calls)
         /\ Last(ms).bad \in SUBSET CallIds /\ IsFiniteSet(Last(ms).bad)
  <1>1. Len(ms) >= 1 /\ Len(ms) \in Nat
    BY TalkNonempty, TalkTypes
  <1>2. Len(ms) \in 1 .. Len(ms)
    BY <1>1
  <1>3. Last(ms) = ms[Len(ms)]
    BY DEF Last
  <1> QED  BY <1>2, <1>3, TalkTypes

LEMMA ConcatNonempty ==
  ASSUME NEW s \in Talk, NEW t \in Talk, s # <<>> \/ t # <<>>
  PROVE  s \o t # <<>>
  <1>1. s \o t \in Talk /\ Len(s \o t) = Len(s) + Len(t)
        /\ Len(s) \in Nat /\ Len(t) \in Nat
    BY TalkConcat
  <1>2. Len(s) >= 1 \/ Len(t) >= 1
    BY TalkNonempty
  <1> QED  BY <1>1, <1>2, TalkNonempty

\* The messages of a state, without the other variables.
MsgsTypes ==
  /\ msgs \in Talk /\ toolErrors \in Talk
  /\ pc # "idle" => msgs # <<>>
  /\ pc \in {"answered", "tools"} => Last(msgs).kind = "ai"
OtherTypes ==
  /\ pc \in {"idle", "before", "model", "answered", "tools"}
  /\ tips \in BOOLEAN
  /\ reset \in {"no", "soft", "force"}
  /\ arbit \in BOOLEAN
  /\ faults \in 0 .. MaxFaults /\ orders \in 0 .. MaxOrders
  /\ reads \in 0 .. MaxReads
  /\ {cut, early, replaced, learned} \subseteq BOOLEAN

LEMMA AlwaysParts == Always <=> MsgsTypes /\ OtherTypes
  <1>1. MsgsTypes => msgs \in Seq(Message) /\ toolErrors \in Seq(Message)
    BY TalkIsMessages DEF MsgsTypes
  <1> QED  BY <1>1 DEF Always, TypeOK, MsgsTypes, OtherTypes

LEMMA InitAlways == Init => Always
  <1> SUFFICES ASSUME Init PROVE Always
    OBVIOUS
  <1>1. <<>> \in Talk
    BY EmptySeq DEF Talk
  <1>2. MsgsTypes
    BY <1>1 DEF Init, MsgsTypes
  <1>3. 0 \in 0 .. MaxFaults /\ 0 \in 0 .. MaxOrders /\ 0 \in 0 .. MaxReads
    OBVIOUS
  <1>4. OtherTypes
    BY <1>3 DEF Init, OtherTypes
  <1> QED  BY <1>2, <1>4, AlwaysParts

LEMMA OtherTypesStep ==
  ASSUME Always, Next
  PROVE  OtherTypes'
  <1>1. OtherTypes
    BY AlwaysParts
  <1> USE <1>1 DEF OtherTypes, bounds, history
  <1>2. CASE StartRound
    BY <1>2 DEF StartRound
  <1>3. CASE Chat
    BY <1>3 DEF Chat
  <1>4. CASE BeforeReset
    BY <1>4 DEF BeforeReset
  <1>5. CASE \E exceed \in BOOLEAN : BeforeTrim(exceed) \/ BeforeNothing(exceed)
    BY <1>5 DEF BeforeTrim, BeforeNothing
  <1>6. CASE BeforeSummary
    BY <1>6 DEF BeforeSummary
  <1>7. ASSUME NEW r \in Requests, ModelReturns(r.calls, r.bad)
        PROVE  OtherTypes'
    <2>1. reads' \in 0 .. MaxReads
      <3>1. /\ Cardinality(r.calls \cap SkillCalls) \in Nat
            /\ reads + Cardinality(r.calls \cap SkillCalls) <= MaxReads
        BY RequestsAre
      <3>2. reads' = reads + Cardinality(r.calls \cap SkillCalls)
        BY <1>7 DEF ModelReturns
      <3> QED  BY <3>1, <3>2
    <2> QED  BY <1>7, <2>1 DEF ModelReturns
  <1>8. CASE SeeAnswer
    BY <1>8 DEF SeeAnswer
  <1>9. CASE ToolsReturn
    BY <1>9 DEF ToolsReturn
  <1>10. ASSUME NEW finished \in SUBSET CallIds, NEW silent \in BOOLEAN,
                ToolsRaise(finished, silent)
         PROVE  OtherTypes'
    BY <1>10 DEF ToolsRaise
  <1>11. CASE ModelRaises
    BY <1>11 DEF ModelRaises
  <1>12. CASE BeforeRaises
    BY <1>12 DEF BeforeRaises
  <1>13. CASE Interrupt
    BY <1>13 DEF Interrupt
  <1>14. ASSUME NEW force \in BOOLEAN, ResetChat(force)
         PROVE  OtherTypes'
    BY <1>14 DEF ResetChat
  <1>15. CASE SetArbitSummary
    BY <1>15 DEF SetArbitSummary
  <1> QED  BY <1>2, <1>3, <1>4, <1>5, <1>6, <1>7, <1>8, <1>9, <1>10, <1>11,
              <1>12, <1>13, <1>14, <1>15 DEF Next

LEMMA MsgsTypesStep ==
  ASSUME Always, Next
  PROVE  MsgsTypes'
  <1>1. /\ msgs \in Talk /\ toolErrors \in Talk
        /\ pc # "idle" => msgs # <<>>
        /\ pc \in {"answered", "tools"} => Last(msgs).kind = "ai"
    BY DEF Always
  <1>2. /\ <<Msg("system")>> \in Talk /\ <<Msg("human")>> \in Talk
        /\ <<>> \in Talk /\ <<Msg("human")>> # <<>>
        /\ Msg("human") \in FiniteMessage
    BY MessageTypes, TalkOne, EmptySeq DEF Kinds, Talk
  <1>3. CASE StartRound
    <2> DEFINE tipped == msgs \o (IF tips THEN <<Msg("system")>> ELSE <<>>)
    <2>1. tipped \in Talk
      BY <1>1, <1>2, TalkConcat
    <2>2. CASE toolErrors # <<>>
      <3>1. msgs' = msgs \o toolErrors /\ toolErrors' = <<>> /\ pc' = "before"
        BY <1>3, <2>2 DEF StartRound
      <3>2. msgs \o toolErrors \in Talk /\ msgs \o toolErrors # <<>>
        BY <1>1, <2>2, TalkConcat, ConcatNonempty
      <3> QED  BY <1>2, <3>1, <3>2 DEF MsgsTypes
    <2>3. CASE toolErrors = <<>>
      <3>1. /\ msgs' = tipped \o <<Msg("human")>>
            /\ toolErrors' = <<>> /\ pc' = "before"
        BY <1>3, <2>3 DEF StartRound
      <3> HIDE DEF tipped
      <3>2. /\ tipped \o <<Msg("human")>> \in Talk
            /\ tipped \o <<Msg("human")>> # <<>>
        BY <1>2, <2>1, TalkConcat, ConcatNonempty
      <3> QED  BY <1>2, <3>1, <3>2 DEF MsgsTypes
    <2> QED  BY <2>2, <2>3
  <1>4. CASE Chat
    <2>1. Append(msgs, Msg("human")) \in Talk /\ Append(msgs, Msg("human")) # <<>>
      BY <1>1, <1>2, TalkAppend
    <2> QED  BY <1>2, <1>4, <2>1 DEF Chat, MsgsTypes
  <1>5. CASE BeforeReset
    <2>1. msgs # <<>>
      BY <1>1, <1>5 DEF BeforeReset
    <2>2. Role \in Talk /\ Len(Role) = 1 /\ ResetTail \in Talk
      BY <1>1, <2>1, RoleIs, ResetTailIs
    <2>3. Role # <<>>
      <3>1. Len(Role) >= 1
        BY <2>2
      <3> QED  BY <2>2, <3>1, TalkNonempty
    <2>4. Role \o ResetTail \in Talk /\ Role \o ResetTail # <<>>
      BY <2>2, <2>3, TalkConcat, ConcatNonempty
    <2> QED  BY <1>1, <1>5, <2>4 DEF BeforeReset, MsgsTypes
  <1>6. ASSUME NEW exceed \in BOOLEAN, BeforeTrim(exceed) PROVE MsgsTypes'
    <2>1. msgs # <<>>
      BY <1>1, <1>6 DEF BeforeTrim, Trimming
    <2> DEFINE skills == RetainedSkills(SubSeq(Rest, 1, TrimCut))
    <2>2. /\ Trimmed \in Talk /\ skills \in Talk
          /\ Len(Trimmed) = 2 + Len(skills) + (Len(Rest) - TrimCut)
      BY <1>1, <2>1, TrimmedIs
    <2>3. /\ TrimCut \in 0 .. Len(Rest) /\ Len(Rest) \in Nat
          /\ Len(skills) \in Nat
      BY <1>1, <2>1, <2>2, TrimCutIs, RestIs, TalkTypes
    <2> HIDE DEF skills
    <2>4. Len(Trimmed) >= 1
      BY <2>2, <2>3
    <2>5. Trimmed # <<>>
      BY <2>2, <2>4, TalkNonempty
    <2> QED  BY <1>1, <1>6, <2>2, <2>5 DEF BeforeTrim, MsgsTypes
  <1>7. ASSUME NEW exceed \in BOOLEAN, BeforeNothing(exceed) PROVE MsgsTypes'
    BY <1>1, <1>7 DEF BeforeNothing, MsgsTypes
  <1>8. CASE BeforeSummary
    <2>1. msgs # <<>>
      BY <1>1, <1>8 DEF BeforeSummary
    <2>2. <<Head(msgs)>> \in Talk /\ Len(<<Head(msgs)>>) = 1
      BY <1>1, <2>1, RestIs, TalkOne
    <2>3. <<Head(msgs)>> # <<>>
      BY <2>2, TalkNonempty
    <2> QED  BY <1>1, <1>8, <2>2, <2>3 DEF BeforeSummary, MsgsTypes
  <1>9. ASSUME NEW r \in Requests, ModelReturns(r.calls, r.bad)
        PROVE  MsgsTypes'
    <2> DEFINE m == AiMsg(r.calls, r.bad)
    <2>1. m \in FiniteMessage
      BY RequestsAre, MessageTypes
    <2>2. m.kind = "ai"
      BY DEF AiMsg
    <2>3. msgs' = Append(msgs, m) /\ toolErrors' = toolErrors
      BY <1>9 DEF ModelReturns
    <2> HIDE DEF m
    <2>4. /\ Append(msgs, m) \in Talk /\ Append(msgs, m) # <<>>
          /\ Len(Append(msgs, m)) = Len(msgs) + 1
          /\ Append(msgs, m)[Len(msgs) + 1] = m
      BY <1>1, <2>1, AppendProperties DEF Talk
    <2>5. Last(msgs') = m
      BY <2>3, <2>4, LastIs
    <2> QED  BY <1>1, <2>2, <2>3, <2>4, <2>5 DEF MsgsTypes
  <1>10. CASE SeeAnswer
    <2>1. msgs # <<>> /\ Last(msgs).kind = "ai"
      BY <1>1, <1>10 DEF SeeAnswer
    <2>2. Last(msgs).bad \in SUBSET CallIds /\ IsFiniteSet(Last(msgs).bad)
      BY <1>1, <2>1, LastIs
    <2>3. toolErrors \o ToolMsgs(Last(msgs).bad) \in Talk
      BY <1>1, <2>2, JoinedTalk
    <2> QED  BY <1>1, <1>10, <2>1, <2>3 DEF SeeAnswer, MsgsTypes
  <1>11. CASE ToolsReturn
    <2>1. msgs # <<>>
      BY <1>1, <1>11 DEF ToolsReturn
    <2>2. Last(msgs).calls \in SUBSET CallIds /\ IsFiniteSet(Last(msgs).calls)
      BY <1>1, <2>1, LastIs
    <2>3. msgs \o ToolMsgs(Last(msgs).calls) \in Talk
      BY <1>1, <2>2, JoinedTalk
    <2>4. msgs \o ToolMsgs(Last(msgs).calls) # <<>>
      BY <1>1, <2>1, <2>2, ToolMsgsAnswer, ConcatNonempty
    <2> QED  BY <1>1, <1>11, <2>3, <2>4 DEF ToolsReturn, MsgsTypes
  <1>12. ASSUME NEW finished \in SUBSET CallIds, NEW silent \in BOOLEAN,
                ToolsRaise(finished, silent)
         PROVE  MsgsTypes'
    <2>1. msgs # <<>> /\ finished \in SUBSET Last(msgs).calls
      BY <1>1, <1>12 DEF ToolsRaise
    <2>2. Last(msgs).calls \in SUBSET CallIds /\ IsFiniteSet(Last(msgs).calls)
      BY <1>1, <2>1, LastIs
    <2>3. IsFiniteSet(finished)
      BY <2>1, <2>2, FS_Subset
    <2> DEFINE left == msgs \o ToolMsgs(finished)
    <2>4. left \in Talk
      BY <1>1, <2>3, JoinedTalk
    <2>5. Recover(left) \in Talk
      BY <2>4, RecoverTalk
    <2>6. /\ msgs' = IF silent THEN left ELSE Recover(left)
          /\ toolErrors' = toolErrors /\ pc' = "idle"
      BY <1>12 DEF ToolsRaise
    <2> HIDE DEF left
    <2> QED  BY <1>1, <2>4, <2>5, <2>6 DEF MsgsTypes
  <1>13. CASE ModelRaises
    BY <1>1, <1>13, RecoverTalk DEF ModelRaises, MsgsTypes
  <1>14. CASE BeforeRaises
    BY <1>1, <1>14, RecoverTalk DEF BeforeRaises, MsgsTypes
  <1>15. CASE Interrupt
    BY <1>1, <1>15 DEF Interrupt, MsgsTypes
  <1>16. ASSUME NEW force \in BOOLEAN, ResetChat(force)
         PROVE  MsgsTypes'
    BY <1>1, <1>16 DEF ResetChat, MsgsTypes
  <1>17. CASE SetArbitSummary
    BY <1>1, <1>17 DEF SetArbitSummary, MsgsTypes
  <1> QED  BY <1>3, <1>4, <1>5, <1>6, <1>7, <1>8, <1>9, <1>10, <1>11, <1>12,
              <1>13, <1>14, <1>15, <1>16, <1>17 DEF Next

LEMMA AlwaysStep ==
  ASSUME Always, Next
  PROVE  Always'
  <1>1. MsgsTypes' /\ OtherTypes'
    BY MsgsTypesStep, OtherTypesStep
  <1>2. msgs' \in Seq(Message) /\ toolErrors' \in Seq(Message)
    BY <1>1, TalkIsMessages DEF MsgsTypes
  <1> QED  BY <1>1, <1>2 DEF Always, TypeOK, MsgsTypes, OtherTypes

----------------------------------------------------------------------------
(* Steps of a whole conversation. *)

LEMMA NoToolMsgs == ToolMsgs({}) = <<>>
  <1>1. IsFiniteSet({}) /\ Cardinality({}) = 0
    BY FS_EmptySet
  <1>2. ToolMsgs({}) \in Talk /\ Len(ToolMsgs({})) = 0
    BY <1>1, ToolMsgsAnswer
  <1> QED  BY <1>2, TalkNonempty

LEMMA ConcatNothing ==
  ASSUME NEW ms \in Talk
  PROVE  ms \o <<>> = ms /\ <<>> \o ms = ms
  BY ConcatEmptySeq DEF Talk

LEMMA AnsweredCalls ==
  ASSUME NEW ms \in Talk, NEW i \in 1 .. Len(ms), Answered(ms, i)
  PROVE  ms[i].calls \subseteq Answers(ms)
  <1> SUFFICES ASSUME NEW id \in ms[i].calls PROVE id \in Answers(ms)
    OBVIOUS
  <1>1. PICK j \in 1 .. Len(ms) : ms[j] = ToolMsg(id)
    BY TalkTypes DEF Answered
  <1>2. ms[j].kind = "tool" /\ id \in ms[j].calls
    BY <1>1 DEF ToolMsg
  <1> QED  BY <1>2, InAnswers

\* Nothing is recovered of a conversation without open calls.
LEMMA ClosedRecovers ==
  ASSUME NEW ms \in Talk, Closed(ms)
  PROVE  Pending(ms) = {} /\ Recover(ms) = ms
  <1>1. ASSUME NEW id \in AiCalls(ms) PROVE id \in Answers(ms)
    <2>1. PICK i \in 1 .. Len(ms) : ms[i].kind = "ai" /\ id \in ms[i].calls
      BY InAiCalls
    <2>2. Answered(ms, i)
      BY <2>1, TalkTypes DEF Closed
    <2> QED  BY <2>1, <2>2, AnsweredCalls
  <1>2. Pending(ms) = {}
    BY <1>1 DEF Pending
  <1>3. Recover(ms) = ms \o <<>>
    BY <1>2, NoToolMsgs DEF Recover
  <1> QED  BY <1>2, <1>3, ConcatNothing

\* The calls of an AI message at the end have no answers yet.
LEMMA LastFresh ==
  ASSUME NEW ms \in Talk, Ordered(ms), ms # <<>>, Last(ms).kind = "ai"
  PROVE  /\ Ending(ms, Len(ms)) /\ Len(ms) \in 1 .. Len(ms)
         /\ Last(ms) = ms[Len(ms)]
         /\ Ids(Last(ms)) \cap Answers(ms) = {}
         /\ \A i : Ending(ms, i) => i = Len(ms)
  <1>1. /\ Len(ms) \in 1 .. Len(ms) /\ Last(ms) = ms[Len(ms)]
        /\ Len(ms) \in Nat /\ DOMAIN ms = 1 .. Len(ms)
    BY LastIs, TalkTypes
  <1>2. Ending(ms, Len(ms))
    BY <1>1 DEF Ending
  <1>3. ASSUME NEW id \in Ids(Last(ms)), id \in Answers(ms) PROVE FALSE
    <2>1. PICK j \in 1 .. Len(ms) : ms[j].kind = "tool" /\ id \in ms[j].calls
      BY <1>3, InAnswers
    <2>2. Behind(ms, Len(ms), j)
      BY <1>1, <1>3, <2>1, AnswerIsBehind
    <2> QED  BY <1>1, <2>2 DEF Behind
  <1>4. ASSUME NEW i, Ending(ms, i), i # Len(ms) PROVE FALSE
    <2>1. Len(ms) \in i + 1 .. Len(ms)
      BY <1>1, <1>4 DEF Ending
    <2> QED  BY <1>1, <1>4, <2>1 DEF Ending
  <1> QED  BY <1>1, <1>2, <1>3, <1>4

LEMMA CallingClosed ==
  ASSUME msgs \in Talk, Calling, pc \notin {"answered", "tools"}
  PROVE  Closed(msgs)
  BY DEF Calling, Closed

LEMMA ClosedCalling ==
  ASSUME Closed(msgs)
  PROVE  Calling
  BY DEF Calling, Closed

\* A system or human message can always follow.
LEMMA AppendPlain ==
  ASSUME NEW ms \in Talk, Ordered(ms), Closed(ms),
         NEW kind \in {"system", "human"}
  PROVE  LET new == Append(ms, Msg(kind))
         IN  /\ new \in Talk /\ Len(new) = Len(ms) + 1
             /\ new[Len(ms) + 1] = Msg(kind) /\ new[Len(ms) + 1].kind = kind
             /\ Longer(ms, new) /\ Ordered(new) /\ Closed(new)
             /\ Answers(new) = Answers(ms) /\ AiCalls(new) = AiCalls(ms)
             /\ Skills(new) = Skills(ms)
  <1> DEFINE m == Msg(kind)
             new == Append(ms, m)
  <1>1. /\ m \in FiniteMessage /\ m.kind = kind /\ m = Msg(m.kind)
        /\ m.kind \in Plain \cup {"ai"} /\ m.kind # "ai" /\ Ids(m) = {}
        /\ m.kind # "skill"
    BY MessageTypes DEF Msg, Kinds, Plain, Human, Ids
  <1> HIDE DEF m
  <1>2. /\ new \in Talk /\ Len(new) = Len(ms) + 1 /\ new[Len(ms) + 1] = m
        /\ Longer(ms, new) /\ Ordered(new) /\ Answers(new) = Answers(ms)
    BY <1>1, AppendOrdered
  <1> HIDE DEF new
  <1>3. /\ DOMAIN ms = 1 .. Len(ms) /\ DOMAIN new = 1 .. Len(new)
        /\ Len(ms) \in Nat
        /\ \A n \in 1 .. Len(new) : n \in 1 .. Len(ms) \/ n = Len(ms) + 1
        /\ \A n \in 1 .. Len(ms) : n \in 1 .. Len(new) /\ new[n] = ms[n]
    BY <1>2, TalkTypes DEF Longer
  <1>4. Closed(new)
    <2> SUFFICES ASSUME NEW n \in 1 .. Len(new), new[n].kind = "ai"
                 PROVE  Answered(new, n)
      BY <1>3 DEF Closed
    <2>1. n \in 1 .. Len(ms) /\ ms[n].kind = "ai"
      BY <1>1, <1>2, <1>3
    <2>2. Answered(ms, n)
      BY <1>3, <2>1 DEF Closed
    <2> QED  BY <1>2, <2>1, <2>2, LongerAnswered
  <1>5. AiCalls(new) = AiCalls(ms)
    <2>1. ASSUME NEW id, id \in AiCalls(new) PROVE id \in AiCalls(ms)
      <3>1. PICK n \in 1 .. Len(new) : new[n].kind = "ai" /\ id \in new[n].calls
        BY <1>2, <2>1, InAiCalls
      <3>2. n \in 1 .. Len(ms)
        BY <1>1, <1>2, <1>3, <3>1
      <3> QED  BY <1>3, <3>1, <3>2, InAiCalls
    <2>2. ASSUME NEW id, id \in AiCalls(ms) PROVE id \in AiCalls(new)
      <3>1. PICK n \in 1 .. Len(ms) : ms[n].kind = "ai" /\ id \in ms[n].calls
        BY <2>2, InAiCalls
      <3>2. n \in 1 .. Len(new) /\ new[n].kind = "ai" /\ id \in new[n].calls
        BY <1>3, <3>1
      <3> QED  BY <1>2, <3>2, InAiCalls
    <2> QED  BY <2>1, <2>2
  <1>6. Skills(new) = Skills(ms)
    <2>1. \A n : n \in Skills(new) <=> n \in Skills(ms)
      BY <1>1, <1>2, <1>3 DEF Skills
    <2> QED  BY <2>1
  <1> QED  BY <1>1, <1>2, <1>4, <1>5, <1>6 DEF m, new

\* What is read stays read when messages come that are no skills and no calls.
LEMMA ReadingKept ==
  ASSUME Reading, Skills(msgs)' = Skills(msgs), AiCalls(msgs)' = AiCalls(msgs),
         Answers(msgs) \subseteq Answers(msgs)', reads' = reads,
         learned' => learned \/ SkillsRead(msgs)' # {}
  PROVE  Reading'
  <1>1. SkillsRead(msgs) \subseteq SkillsRead(msgs)'
    BY DEF SkillsRead
  <1>2. (Cardinality(Skills(msgs)) + Cardinality(AiCalls(msgs) \cap SkillCalls)
           <= reads)'
    BY DEF Reading
  <1>3. (learned => Skills(msgs) \cup SkillsRead(msgs) # {})'
    BY <1>1 DEF Reading
  <1> QED  BY <1>2, <1>3 DEF Reading

WholeInv == Shape /\ Ordered(msgs) /\ Calling /\ Waiting /\ Reading

LEMMA HumanFollows ==
  ASSUME Always, WholeInv, pc = "idle", ~tips, msgs' = Append(msgs, Msg("human")),
         tips' = tips, pc' = "before", toolErrors' = <<>>, reads' = reads,
         learned' = learned
  PROVE  WholeInv'
  <1>1. msgs \in Talk /\ Ordered(msgs) /\ Closed(msgs)
    BY CallingClosed DEF Always, WholeInv
  <1>2. /\ msgs' \in Talk /\ Len(msgs') = Len(msgs) + 1
        /\ msgs'[Len(msgs) + 1].kind = "human"
        /\ Longer(msgs, msgs') /\ Ordered(msgs') /\ Closed(msgs')
        /\ Answers(msgs') = Answers(msgs) /\ AiCalls(msgs') = AiCalls(msgs)
        /\ Skills(msgs') = Skills(msgs)
    BY <1>1, AppendPlain
  <1>3. Len(msgs) \in Nat
    BY <1>1, TalkTypes
  <1>4. Shape'
    <2>1. /\ Len(msgs) >= 2 /\ msgs[1].kind = "system" /\ msgs[2].kind \in Human
          /\ \A i \in 2 .. Len(msgs) : msgs[i].kind # "system"
      BY DEF WholeInv, Shape
    <2>2. \A i \in 1 .. Len(msgs) : msgs'[i] = msgs[i]
      BY <1>2 DEF Longer
    <2>3. \A i \in 2 .. Len(msgs') : i \in 2 .. Len(msgs) \/ i = Len(msgs) + 1
      BY <1>2, <1>3
    <2>4. \A i \in 2 .. Len(msgs) : i \in 1 .. Len(msgs)
      BY <1>3
    <2>5. \A i \in 2 .. Len(msgs') : msgs'[i].kind # "system"
      BY <1>2, <2>1, <2>2, <2>3, <2>4
    <2>6. msgs'[1] = msgs[1] /\ msgs'[2] = msgs[2] /\ Len(msgs') >= 2
      BY <1>2, <1>3, <2>1, <2>2
    <2> QED  BY <2>1, <2>5, <2>6 DEF Shape
  <1>5. Calling'
    BY <1>2, ClosedCalling DEF Calling, Closed
  <1>6. Waiting'
    BY DEF Waiting
  <1>7. Reading'
    BY <1>2, ReadingKept DEF WholeInv
  <1> QED  BY <1>2, <1>4, <1>5, <1>6, <1>7 DEF WholeInv

\* A skill is of the messages behind the cut or of those put before them, a
\* call of those behind: the count of what was read never grows.
LEMMA MovedReads ==
  ASSUME NEW ms \in Talk, NEW new \in Talk, NEW k, NEW p, Moved(ms, new, k, p),
         Ordered(ms),
         Cardinality({n \in 1 .. p : new[n].kind = "skill"})
           <= Cardinality(Skills(SubSeq(ms, 1, k)))
                + Cardinality(SkillsRead(SubSeq(ms, 1, k)))
  PROVE  Cardinality(Skills(new)) + Cardinality(AiCalls(new) \cap SkillCalls)
           <= Cardinality(Skills(ms)) + Cardinality(AiCalls(ms) \cap SkillCalls)
  <1> DEFINE front == SubSeq(ms, 1, k)
             put == {n \in 1 .. p : new[n].kind = "skill"}
             behind == {n \in p + 1 .. Len(new) : new[n].kind = "skill"}
             back == {i \in k + 1 .. Len(ms) : ms[i].kind = "skill"}
             soon == AiCalls(front) \cap SkillCalls
             late == AiCalls(new) \cap SkillCalls
             all == AiCalls(ms) \cap SkillCalls
  <1>1. /\ k \in 0 .. Len(ms) /\ p \in Nat /\ Len(ms) \in Nat /\ k \in Nat
        /\ Len(new) = p + Len(ms) - k /\ Len(new) \in Nat
        /\ DOMAIN ms = 1 .. Len(ms) /\ DOMAIN new = 1 .. Len(new)
    BY TalkTypes DEF Moved
  <1>2. /\ front \in Talk /\ Len(front) = k /\ DOMAIN front = 1 .. k
        /\ \A i \in 1 .. k : front[i] = ms[i]
    <2>1. /\ front \in Talk /\ Len(front) = k
          /\ \A i \in 1 .. k : front[i] = ms[i]
      BY <1>1, Before
    <2>2. DOMAIN front = 1 .. k
      BY <2>1, TalkTypes
    <2> QED  BY <2>1, <2>2
  <1>3. /\ IsFiniteSet(Skills(front)) /\ IsFiniteSet(soon)
        /\ Cardinality(SkillsRead(front)) \in Nat
        /\ Cardinality(SkillsRead(front)) <= Cardinality(soon)
        /\ IsFiniteSet(Skills(ms)) /\ IsFiniteSet(all)
        /\ IsFiniteSet(Skills(new)) /\ IsFiniteSet(late)
    BY <1>2, SkillsFinite
  <1>4. Skills(ms) = Skills(front) \cup back /\ Skills(front) \cap back = {}
    <2>1. Skills(front) = {i \in 1 .. k : ms[i].kind = "skill"}
      BY <1>2 DEF Skills
    <2>2. Skills(ms) = {i \in 1 .. Len(ms) : ms[i].kind = "skill"}
      BY <1>1 DEF Skills
    <2>3. \A i : i \in 1 .. Len(ms) <=> i \in 1 .. k \/ i \in k + 1 .. Len(ms)
      BY <1>1
    <2>4. \A i \in 1 .. k : i \notin k + 1 .. Len(ms)
      BY <1>1
    <2> QED  BY <2>1, <2>2, <2>3, <2>4
  <1>5. Skills(new) = put \cup behind /\ put \cap behind = {}
    <2>1. Skills(new) = {i \in 1 .. Len(new) : new[i].kind = "skill"}
      BY <1>1 DEF Skills
    <2>2. \A i : i \in 1 .. Len(new) <=> i \in 1 .. p \/ i \in p + 1 .. Len(new)
      BY <1>1
    <2>3. \A i \in 1 .. p : i \notin p + 1 .. Len(new)
      BY <1>1
    <2> QED  BY <2>1, <2>2, <2>3
  <1>6. \A n \in behind : n \in Int /\ n - p + k \in back
    <2> SUFFICES ASSUME NEW n \in behind PROVE n \in Int /\ n - p + k \in back
      OBVIOUS
    <2>1. n \in 1 .. Len(new) /\ n > p /\ n \in Int
      BY <1>1
    <2>2. n - p + k \in k + 1 .. Len(ms) /\ new[n] = ms[n - p + k]
      BY <2>1, MovedBack
    <2> QED  BY <2>1, <2>2
  <1>7. /\ IsFiniteSet(behind) /\ IsFiniteSet(put) /\ IsFiniteSet(back)
    BY <1>3, <1>4, <1>5, FS_Subset
  <1> HIDE DEF put, behind, back, soon, late, all, front
  <1>8. Cardinality(behind) <= Cardinality(back)
    <2> DEFINE f == [n \in behind |-> n - p + k]
    <2>1. f \in [behind -> back]
      BY <1>6
    <2>2. \A a \in behind : \A b \in behind : f[a] = f[b] => a = b
      BY <1>1, <1>6
    <2> HIDE DEF f
    <2>3. f \in Injection(behind, back)
      BY <2>1, <2>2 DEF Injection, IsInjective
    <2> QED  BY <1>7, <2>3, FS_Injection
  <1>9. soon \cup late \subseteq all /\ soon \cap late = {}
    <2>1. soon \subseteq all
      <3>1. ASSUME NEW id \in AiCalls(front) PROVE id \in AiCalls(ms)
        <4>1. PICK i \in 1 .. k : front[i].kind = "ai" /\ id \in front[i].calls
          BY <1>2, InAiCalls
        <4>2. i \in 1 .. Len(ms) /\ front[i] = ms[i]
          BY <1>1, <1>2, <4>1
        <4> QED  BY <4>1, <4>2, InAiCalls
      <3> QED  BY <3>1 DEF soon, all
    <2>2. late \subseteq all
      BY MovedFewer DEF late, all
    <2>3. ASSUME NEW id, id \in AiCalls(front), id \in AiCalls(new) PROVE FALSE
      <3>1. PICK i \in 1 .. k : front[i].kind = "ai" /\ id \in front[i].calls
        BY <1>2, <2>3, InAiCalls
      <3>2. PICK j \in k + 1 .. Len(ms) : ms[j].kind = "ai" /\ id \in ms[j].calls
        BY <2>3, MovedCalls
      <3>3. i \in 1 .. Len(ms) /\ ms[i] = front[i] /\ j \in 1 .. Len(ms) /\ i # j
        BY <1>1, <1>2
      <3>4. Ids(ms[i]) \cap Ids(ms[j]) # {}
        BY <3>1, <3>2, <3>3 DEF Ids
      <3> QED  BY <1>1, <3>1, <3>2, <3>3, <3>4 DEF Ordered, Distinct
    <2> QED  BY <2>1, <2>2, <2>3 DEF soon, late
  <1>10. /\ Cardinality(Skills(ms)) = Cardinality(Skills(front)) + Cardinality(back)
         /\ Cardinality(Skills(front)) \in Nat /\ Cardinality(back) \in Nat
    <2>1. Cardinality(Skills(front) \cap back) = 0
      BY <1>4, FS_EmptySet
    <2>2. Cardinality(Skills(front)) \in Nat /\ Cardinality(back) \in Nat
      BY <1>3, <1>7, FS_CardinalityType
    <2>3. Cardinality(Skills(front) \cup back) =
            Cardinality(Skills(front)) + Cardinality(back)
              - Cardinality(Skills(front) \cap back)
      BY <1>3, <1>7, FS_Union
    <2> QED  BY <1>4, <2>1, <2>2, <2>3
  <1>11. /\ Cardinality(Skills(new)) = Cardinality(put) + Cardinality(behind)
         /\ Cardinality(put) \in Nat /\ Cardinality(behind) \in Nat
    <2>1. Cardinality(put \cap behind) = 0
      BY <1>5, FS_EmptySet
    <2>2. Cardinality(put) \in Nat /\ Cardinality(behind) \in Nat
      BY <1>7, FS_CardinalityType
    <2>3. Cardinality(put \cup behind) =
            Cardinality(put) + Cardinality(behind) - Cardinality(put \cap behind)
      BY <1>7, FS_Union
    <2> QED  BY <1>5, <2>1, <2>2, <2>3
  <1>12. /\ Cardinality(soon) + Cardinality(late) <= Cardinality(all)
         /\ Cardinality(soon) \in Nat /\ Cardinality(late) \in Nat
         /\ Cardinality(all) \in Nat
    <2>1. Cardinality(soon \cap late) = 0
      BY <1>9, FS_EmptySet
    <2>2. /\ Cardinality(soon) \in Nat /\ Cardinality(late) \in Nat
          /\ Cardinality(all) \in Nat
      BY <1>3, FS_CardinalityType
    <2>3. Cardinality(soon \cup late) =
            Cardinality(soon) + Cardinality(late) - Cardinality(soon \cap late)
      BY <1>3, FS_Union
    <2>4. Cardinality(soon \cup late) <= Cardinality(all)
      BY <1>3, <1>9, FS_Subset
    <2> QED  BY <2>1, <2>2, <2>3, <2>4
  <1>13. Cardinality(put)
           <= Cardinality(Skills(front)) + Cardinality(SkillsRead(front))
    BY DEF put, front
  <1>14. Cardinality(Skills(new)) + Cardinality(late)
           <= Cardinality(Skills(ms)) + Cardinality(all)
    BY <1>3, <1>8, <1>10, <1>11, <1>12, <1>13
  <1> QED  BY <1>14 DEF late, all

\* What was read stays, if the messages put before stand for what is cut off.
LEMMA MovedKeeps ==
  ASSUME NEW ms \in Talk, NEW new \in Talk, NEW k, NEW p, Moved(ms, new, k, p),
         Ordered(ms), Skills(ms) \cup SkillsRead(ms) # {},
         Skills(SubSeq(ms, 1, k)) \cup SkillsRead(SubSeq(ms, 1, k)) # {}
           => \E n \in 1 .. p : new[n].kind = "skill"
  PROVE  Skills(new) \cup SkillsRead(new) # {}
  <1> DEFINE front == SubSeq(ms, 1, k)
  <1>1. /\ k \in 0 .. Len(ms) /\ p \in Nat /\ Len(ms) \in Nat
        /\ Len(new) = p + Len(ms) - k
        /\ DOMAIN ms = 1 .. Len(ms) /\ DOMAIN new = 1 .. Len(new)
        /\ k < Len(ms) => ms[k + 1].kind # "tool"
    BY TalkTypes DEF Moved
  <1>2. /\ front \in Talk /\ Len(front) = k /\ DOMAIN front = 1 .. k
        /\ \A i \in 1 .. k : front[i] = ms[i]
    <2>1. /\ front \in Talk /\ Len(front) = k
          /\ \A i \in 1 .. k : front[i] = ms[i]
      BY <1>1, Before
    <2>2. DOMAIN front = 1 .. k
      BY <2>1, TalkTypes
    <2> QED  BY <2>1, <2>2
  <1>3. CASE \E n \in 1 .. p : new[n].kind = "skill"
    <2>1. PICK n \in 1 .. p : new[n].kind = "skill"
      BY <1>3
    <2>2. n \in 1 .. Len(new)
      BY <1>1
    <2>3. n \in Skills(new)
      BY <1>1, <2>1, <2>2 DEF Skills
    <2> QED  BY <2>3
  <1>4. CASE Skills(front) \cup SkillsRead(front) = {}
    <2> HIDE DEF front
    <2>1. ASSUME NEW i \in Skills(ms) PROVE Skills(new) # {}
      <3>1. i \in 1 .. Len(ms) /\ ms[i].kind = "skill"
        BY <1>1 DEF Skills
      <3>2. i \notin 1 .. k
        BY <1>2, <1>4, <3>1 DEF Skills
      <3>3. i \in k + 1 .. Len(ms)
        BY <1>1, <3>1, <3>2
      <3>4. i - k + p \in 1 .. Len(new) /\ new[i - k + p] = ms[i]
        BY <3>3, MovedForth
      <3>5. i - k + p \in Skills(new)
        BY <1>1, <3>1, <3>4 DEF Skills
      <3> QED  BY <3>5
    <2>2. ASSUME NEW id \in SkillsRead(ms) PROVE id \in SkillsRead(new)
      <3>1. id \in AiCalls(ms) /\ id \in Answers(ms) /\ id \in SkillCalls
        BY DEF SkillsRead
      <3>2. PICK i \in 1 .. Len(ms) : ms[i].kind = "ai" /\ id \in ms[i].calls
        BY <3>1, InAiCalls
      <3>3. PICK j \in 1 .. Len(ms) : ms[j].kind = "tool" /\ id \in ms[j].calls
        BY <3>1, InAnswers
      <3>4. id \in Ids(ms[i])
        BY <3>2 DEF Ids
      <3>5. Behind(ms, i, j)
        BY <3>2, <3>3, <3>4, AnswerIsBehind
      <3>6. j > k <=> i > k
        BY <1>1, <3>5, CutApart
      <3>7. CASE i > k
        <4>1. i \in k + 1 .. Len(ms) /\ j \in k + 1 .. Len(ms)
          BY <1>1, <3>6, <3>7
        <4>2. id \in AiCalls(new) /\ id \in Answers(new)
          BY <3>2, <3>3, <4>1, MovedCalls
        <4> QED  BY <3>1, <4>2 DEF SkillsRead
      <3>8. CASE ~(i > k)
        <4>1. i \in 1 .. k /\ j \in 1 .. k
          BY <1>1, <3>6, <3>8
        <4>2. id \in AiCalls(front) /\ id \in Answers(front)
          BY <1>2, <3>2, <3>3, <4>1, InAiCalls, InAnswers
        <4> QED  BY <1>4, <3>1, <4>2 DEF SkillsRead
      <3> QED  BY <3>7, <3>8
    <2> QED  BY <2>1, <2>2
  <1> QED  BY <1>3, <1>4

\* The messages behind the role of a whole conversation.
LEMMA RestWhole ==
  ASSUME Always, WholeInv, pc = "before"
  PROVE  /\ msgs \in Talk /\ msgs # <<>> /\ ~tips
         /\ Role \in Talk /\ Len(Role) = 1 /\ Role[1].kind = "system"
         /\ Role[1] = Msg("system")
         /\ Rest \in Talk /\ Len(Rest) >= 1 /\ Len(Rest) = Len(msgs) - 1
         /\ Rest[1].kind \in Human
         /\ \A i \in 1 .. Len(Rest) : Rest[i].kind # "system"
         /\ \A i \in 1 .. Len(Rest) : Rest[i] = msgs[i + 1]
         /\ Moved(msgs, Rest, 1, 0) /\ Ordered(Rest) /\ Closed(Rest)
         /\ Cardinality(Skills(Rest)) + Cardinality(AiCalls(Rest) \cap SkillCalls)
              <= reads
         /\ learned => Skills(Rest) \cup SkillsRead(Rest) # {}
         /\ \A i : Ending(msgs, i) => Ending(Rest, i - 1) /\ Rest[i - 1] = msgs[i]
  <1>1. msgs \in Talk /\ msgs # <<>>
    BY DEF Always
  <1>2. /\ ~tips /\ Len(msgs) >= 2
        /\ msgs[1].kind = "system" /\ msgs[2].kind \in Human
        /\ \A i \in 2 .. Len(msgs) : msgs[i].kind # "system"
    BY DEF WholeInv, Shape
  <1>3. /\ Rest \in Talk /\ Len(Rest) = Len(msgs) - 1
        /\ \A i \in 1 .. Len(Rest) : Rest[i] = msgs[i + 1]
        /\ Len(msgs) \in Nat /\ DOMAIN msgs = 1 .. Len(msgs)
    BY <1>1, RestIs, TalkTypes
  <1>4. Role \in Talk /\ Len(Role) = 1 /\ Role[1] = msgs[1]
    BY <1>1, <1>2, RoleIs
  <1>5. msgs[1] = Msg("system")
    <2>1. 1 \in DOMAIN msgs
      BY <1>2, <1>3
    <2>2. Forms(msgs) /\ msgs[1].kind \in Plain
      BY <1>2 DEF WholeInv, Ordered, Plain
    <2> QED  BY <1>2, <2>1, <2>2 DEF Forms
  <1>6. /\ Len(Rest) >= 1 /\ Rest[1].kind \in Human
        /\ \A i \in 1 .. Len(Rest) : Rest[i].kind # "system"
    <2>1. Len(Rest) >= 1 /\ 1 \in 1 .. Len(Rest) /\ 1 + 1 = 2
      BY <1>2, <1>3
    <2>2. \A i \in 1 .. Len(Rest) : i + 1 \in 2 .. Len(msgs)
      BY <1>3
    <2>3. Rest[1] = msgs[2]
      BY <1>3, <2>1
    <2> QED  BY <1>2, <1>3, <2>1, <2>2, <2>3
  <1>7. Moved(msgs, Rest, 1, 0)
    <2>1. 1 \in 0 .. Len(msgs) /\ 0 \in Nat /\ Len(Rest) = 0 + Len(msgs) - 1
      BY <1>2, <1>3
    <2>2. \A i \in 1 .. 0 : FALSE
      OBVIOUS
    <2>3. ASSUME NEW i \in 1 + 1 .. Len(msgs) PROVE Rest[i - 1 + 0] = msgs[i]
      <3>1. i - 1 \in 1 .. Len(Rest) /\ i - 1 + 0 = i - 1 /\ (i - 1) + 1 = i
        BY <1>3
      <3>2. Rest[i - 1] = msgs[(i - 1) + 1]
        BY <1>3, <3>1
      <3> QED  BY <3>1, <3>2
    <2>4. msgs[1 + 1].kind # "tool"
      BY <1>2 DEF Human
    <2> QED  BY <2>1, <2>2, <2>3, <2>4 DEF Moved
  <1>8. Ordered(msgs) /\ Closed(msgs)
    BY <1>1, CallingClosed DEF WholeInv
  <1>9. Ordered(Rest) /\ Closed(Rest)
    BY <1>1, <1>3, <1>7, <1>8, MovedOrdered, MovedClosed
  <1>10. /\ Cardinality({n \in 1 .. 0 : Rest[n].kind = "skill"})
              <= Cardinality(Skills(SubSeq(msgs, 1, 1)))
                   + Cardinality(SkillsRead(SubSeq(msgs, 1, 1)))
         /\ Skills(SubSeq(msgs, 1, 1)) \cup SkillsRead(SubSeq(msgs, 1, 1)) = {}
    <2> DEFINE front == SubSeq(msgs, 1, 1)
    <2>1. 1 \in 0 .. Len(msgs)
      BY <1>2, <1>3
    <2>2. front \in Talk /\ Len(front) = 1 /\ front[1] = msgs[1]
      BY <1>1, <2>1, Before
    <2> HIDE DEF front
    <2>3. /\ Cardinality(Skills(front)) \in Nat
          /\ Cardinality(SkillsRead(front)) \in Nat
          /\ Skills(front) \subseteq 1 .. Len(front)
      BY <2>2, SkillsFinite
    <2>4. {n \in 1 .. 0 : Rest[n].kind = "skill"} = {}
      OBVIOUS
    <2>5. Cardinality({n \in 1 .. 0 : Rest[n].kind = "skill"}) = 0
      BY <2>4, FS_EmptySet
    <2>6. \A n \in 1 .. Len(front) : front[n].kind = "system"
      BY <1>2, <2>2
    <2>7. Skills(front) = {}
      BY <2>3, <2>6 DEF Skills
    <2>8. SkillsRead(front) = {}
      <3>1. ASSUME NEW id \in AiCalls(front) PROVE FALSE
        BY <2>2, <2>6, InAiCalls
      <3> QED  BY <3>1 DEF SkillsRead
    <2>9. 0 <= Cardinality(Skills(front)) + Cardinality(SkillsRead(front))
      BY <2>3
    <2> QED  BY <2>5, <2>7, <2>8, <2>9 DEF front
  <1>11. Cardinality(Skills(Rest)) + Cardinality(AiCalls(Rest) \cap SkillCalls)
           <= Cardinality(Skills(msgs)) + Cardinality(AiCalls(msgs) \cap SkillCalls)
    BY <1>1, <1>3, <1>7, <1>8, <1>10, MovedReads
  <1>12. Cardinality(Skills(Rest)) + Cardinality(AiCalls(Rest) \cap SkillCalls)
           <= reads
    <2>1. Cardinality(Skills(msgs)) + Cardinality(AiCalls(msgs) \cap SkillCalls)
            <= reads
      BY DEF WholeInv, Reading
    <2>2. /\ Cardinality(Skills(Rest)) \in Nat /\ Cardinality(Skills(msgs)) \in Nat
          /\ Cardinality(AiCalls(Rest) \cap SkillCalls) \in Nat
          /\ Cardinality(AiCalls(msgs) \cap SkillCalls) \in Nat
          /\ reads \in Nat
      <3>1. reads \in Nat
        BY BoundsAssumption DEF Always, TypeOK
      <3> QED  BY <1>1, <1>3, <3>1, SkillsFinite
    <2> QED  BY <1>11, <2>1, <2>2
  <1>13. learned => Skills(Rest) \cup SkillsRead(Rest) # {}
    BY <1>1, <1>3, <1>7, <1>8, <1>10, MovedKeeps DEF WholeInv, Reading
  <1>14. ASSUME NEW i, Ending(msgs, i)
         PROVE  Ending(Rest, i - 1) /\ Rest[i - 1] = msgs[i]
    <2>1. i \in 1 .. Len(msgs) /\ i # 1
      BY <1>2, <1>3, <1>14 DEF Ending
    <2>2. i > 1 /\ i - 1 + 0 = i - 1
      BY <2>1
    <2> QED  BY <1>1, <1>3, <1>7, <1>14, <2>2, MovedEnding
  <1> QED  BY <1>1, <1>2, <1>3, <1>4, <1>5, <1>6, <1>7, <1>9, <1>12, <1>13, <1>14

\* What before_model builds is the role, some human messages, and the messages
\* behind a safe cut.
LEMMA Rebuilt ==
  ASSUME Always, WholeInv, pc = "before", msgs' \in Talk, NEW k, NEW p,
         Moved(Rest, msgs', k, p), Len(msgs') >= 2,
         msgs'[1].kind = "system", msgs'[2].kind \in Human,
         \A n \in 2 .. p : msgs'[n].kind # "system",
         toolErrors # <<>> => \E c \in Nat : c < Len(Rest) /\ k = SafeCut(Rest, c),
         Cardinality({n \in 1 .. p : msgs'[n].kind = "skill"})
           <= Cardinality(Skills(SubSeq(Rest, 1, k)))
                + Cardinality(SkillsRead(SubSeq(Rest, 1, k))),
         learned' =>
           /\ learned
           /\ Skills(SubSeq(Rest, 1, k)) \cup SkillsRead(SubSeq(Rest, 1, k)) # {}
                => \E n \in 1 .. p : msgs'[n].kind = "skill",
         tips' = tips, toolErrors' = toolErrors, reads' = reads, pc' = "model"
  PROVE  WholeInv'
  <1>1. /\ msgs \in Talk /\ Rest \in Talk /\ ~tips /\ Ordered(Rest) /\ Closed(Rest)
        /\ \A i \in 1 .. Len(Rest) : Rest[i].kind # "system"
        /\ Moved(msgs, Rest, 1, 0)
    BY RestWhole
  <1>2. Cardinality(Skills(Rest)) + Cardinality(AiCalls(Rest) \cap SkillCalls)
          <= reads
    BY RestWhole
  <1>3. learned => Skills(Rest) \cup SkillsRead(Rest) # {}
    BY RestWhole
  <1>4. \A i : Ending(msgs, i) => Ending(Rest, i - 1) /\ Rest[i - 1] = msgs[i]
    BY RestWhole
  <1>5. Ordered(msgs') /\ Closed(msgs')
    BY <1>1, MovedOrdered, MovedClosed
  <1>6. Shape'
    <2>1. ASSUME NEW n \in 2 .. Len(msgs') PROVE msgs'[n].kind # "system"
      <3>1. n \in 1 .. Len(msgs') /\ p \in Nat /\ k \in 0 .. Len(Rest)
            /\ Len(Rest) \in Nat
        <4>1. p \in Nat /\ k \in 0 .. Len(Rest)
          BY DEF Moved
        <4>2. Len(Rest) \in Nat
          BY <1>1, TalkTypes
        <4> QED  BY <4>1, <4>2
      <3>2. CASE n > p
        <4>1. n - p + k \in k + 1 .. Len(Rest) /\ msgs'[n] = Rest[n - p + k]
          BY <1>1, <3>1, <3>2, MovedBack, SMTT(20)
        <4>2. n - p + k \in 1 .. Len(Rest)
          BY <3>1, <4>1
        <4> QED  BY <1>1, <4>1, <4>2
      <3>3. CASE ~(n > p)
        <4>1. n \in 2 .. p
          BY <3>1, <3>3
        <4> QED  BY <4>1
      <3> QED  BY <3>2, <3>3
    <2> QED  BY <1>1, <2>1 DEF Shape
  <1>7. Calling'
    BY <1>5, ClosedCalling DEF Calling, Closed
  <1>8. Waiting'
    <2> SUFFICES ASSUME toolErrors # <<>>
                 PROVE  \E i \in DOMAIN msgs' :
                          /\ Ending(msgs', i)
                          /\ toolErrors = ToolMsgs(msgs'[i].bad)
                          /\ msgs'[i].bad \cap Answers(msgs') = {}
      BY DEF Waiting
    <2>1. PICK i \in DOMAIN msgs : /\ Ending(msgs, i)
                                   /\ toolErrors = ToolMsgs(msgs[i].bad)
                                   /\ msgs[i].bad \cap Answers(msgs) = {}
      BY DEF WholeInv, Waiting
    <2>2. Ending(Rest, i - 1) /\ Rest[i - 1] = msgs[i]
      BY <1>4, <2>1
    <2>3. Answers(Rest) \subseteq Answers(msgs)
      BY <1>1, MovedFewer
    <2>4. Rest[i - 1].bad \cap Answers(Rest) = {}
      BY <2>1, <2>2, <2>3
    <2>5. PICK c \in Nat : c < Len(Rest) /\ k = SafeCut(Rest, c)
      OBVIOUS
    <2>6. k < i - 1
      BY <1>1, <2>2, <2>4, <2>5, SafeCutKeeps
    <2>7. i - 1 > k
      <3>1. i - 1 \in 1 .. Len(Rest) /\ k \in Int
        <4>1. i - 1 \in DOMAIN Rest
          BY <2>2 DEF Ending
        <4>2. DOMAIN Rest = 1 .. Len(Rest) /\ k \in 0 .. Len(Rest)
          BY <1>1, TalkTypes DEF Moved
        <4> QED  BY <4>1, <4>2
      <3> QED  BY <2>6, <3>1
    <2> DEFINE a == (i - 1) - k + p
    <2>8. Ending(msgs', a) /\ msgs'[a] = msgs[i]
      BY <1>1, <2>2, <2>7, MovedEnding
    <2>9. Answers(msgs') \subseteq Answers(Rest)
      BY <1>1, MovedFewer
    <2>10. a \in DOMAIN msgs'
      BY <2>8 DEF Ending
    <2> HIDE DEF a
    <2> QED  BY <2>1, <2>3, <2>8, <2>9, <2>10
  <1>9. Reading'
    <2>1. Cardinality(Skills(msgs')) + Cardinality(AiCalls(msgs') \cap SkillCalls)
            <= Cardinality(Skills(Rest)) + Cardinality(AiCalls(Rest) \cap SkillCalls)
      BY <1>1, MovedReads
    <2>2. /\ Cardinality(Skills(Rest)) \in Nat
          /\ Cardinality(AiCalls(Rest) \cap SkillCalls) \in Nat
      BY <1>1, SkillsFinite
    <2>3. /\ Cardinality(Skills(msgs')) \in Nat
          /\ Cardinality(AiCalls(msgs') \cap SkillCalls) \in Nat
      BY SkillsFinite
    <2>4. reads \in Nat
      BY BoundsAssumption DEF Always, TypeOK
    <2>5. Cardinality(Skills(msgs')) + Cardinality(AiCalls(msgs') \cap SkillCalls)
            <= reads'
      BY <1>2, <2>1, <2>2, <2>3, <2>4
    <2>6. learned' => Skills(msgs') \cup SkillsRead(msgs') # {}
      BY <1>1, <1>3, MovedKeeps
    <2>7. Skills(msgs') = Skills(msgs)' /\ AiCalls(msgs') = AiCalls(msgs)'
          /\ SkillsRead(msgs') = SkillsRead(msgs)'
      BY DEF Skills, AiCalls, SkillsRead, Answers
    <2> QED  BY <2>5, <2>6, <2>7 DEF Reading
  <1> QED  BY <1>5, <1>6, <1>7, <1>8, <1>9 DEF WholeInv

\* A reset keeps messages behind the cut, with at most one in front of them.
LEMMA SoftWhole ==
  ASSUME Always, WholeInv, pc = "before", ~ResetFails
  PROVE  /\ ResetCut \in 0 .. Len(Rest) /\ ResetCut < Len(Rest)
         /\ \E c \in Nat : /\ c < Len(Rest) /\ c >= Len(Rest) - ResetKeep
                           /\ ResetCut = SafeCut(Rest, c)
         /\ \E q \in 0 .. 1 :
              /\ Len(SoftTail) = q + Len(Rest) - ResetCut
              /\ SoftTail[1].kind \in Human
              /\ q = 1 => \E h \in 1 .. ResetCut : SoftTail[1] = Rest[h]
              /\ \A i \in ResetCut + 1 .. Len(Rest) :
                   SoftTail[i - ResetCut + q] = Rest[i]
  <1>1. /\ msgs \in Talk /\ msgs # <<>> /\ Rest \in Talk /\ Len(Rest) >= 1
        /\ Rest[1].kind \in Human /\ Len(Rest) \in Nat
    BY RestWhole, TalkTypes
  <1>2. ResetCut \in 0 .. Len(Rest) /\ ResetCut \in Int
    BY <1>1, ResetCutIs
  <1>3. Rest # <<>>
    BY <1>1, TalkNonempty
  <1>4. ResetCut < Len(Rest)
    BY <1>1, <1>2, <1>3 DEF ResetFails
  <1>5. \E c \in Nat : /\ c < Len(Rest) /\ c >= Len(Rest) - ResetKeep
                       /\ ResetCut = SafeCut(Rest, c)
    <2> DEFINE c == IF Len(Rest) > ResetKeep THEN Len(Rest) - ResetKeep ELSE 0
    <2>1. c \in Nat /\ c < Len(Rest) /\ c >= Len(Rest) - ResetKeep
      BY <1>1 DEF ResetKeep
    <2>2. ResetCut = SafeCut(Rest, c)
      BY DEF ResetCut
    <2> HIDE DEF c
    <2> QED  BY <2>1, <2>2
  <1> DEFINE tail == SubSeq(Rest, ResetCut + 1, Len(Rest))
  <1>6. /\ tail \in Talk /\ Len(tail) = Len(Rest) - ResetCut
        /\ \A i \in 1 .. Len(tail) : tail[i] = Rest[ResetCut + i]
    BY <1>1, <1>2, Behindhand
  <1>7. /\ SoftTail = IF SoftFirst <= ResetCut
                      THEN <<Rest[SoftFirst]>> \o tail ELSE tail
        /\ SoftFirst <= ResetCut =>
             SoftFirst \in 1 .. Len(Rest) /\ <<Rest[SoftFirst]>> \in Talk
    BY <1>1, SoftTailIs
  <1>8. /\ SoftFirst \in 1 .. Len(Rest) /\ SoftFirst <= ResetCut + 1
        /\ Rest[SoftFirst].kind \in Human
    <2> DEFINE h == LastHuman(Rest, ResetCut + 1)
    <2>1. ResetCut + 1 \in Nat /\ 1 \in 1 .. Len(Rest) /\ 1 <= ResetCut + 1
      BY <1>1, <1>2
    <2>2. /\ h \in 0 .. Len(Rest)
          /\ h > 0 => h <= ResetCut + 1 /\ Rest[h].kind \in Human
          /\ \A i \in 1 .. Len(Rest) :
               (i <= ResetCut + 1 /\ Rest[i].kind \in Human) => h >= i
      BY <1>1, <2>1, LastHumanIs
    <2>3. SoftFirst = IF h = 0 THEN 1 ELSE h
      BY DEF SoftFirst
    <2> HIDE DEF h
    <2>4. h >= 1
      BY <1>1, <2>1, <2>2
    <2>5. h # 0 /\ h > 0 /\ h \in 1 .. Len(Rest)
      BY <1>1, <2>2, <2>4
    <2> QED  BY <2>2, <2>3, <2>5
  <1> HIDE DEF tail
  <1>9. CASE SoftFirst <= ResetCut
    <2> DEFINE one == <<Rest[SoftFirst]>>
    <2>1. SoftTail = one \o tail /\ one \in Talk
      BY <1>7, <1>9
    <2>2. Len(one) = 1 /\ one[1] = Rest[SoftFirst]
      OBVIOUS
    <2> HIDE DEF one
    <2>3. /\ Len(SoftTail) = Len(one) + Len(tail)
          /\ \A i \in 1 .. Len(one) : SoftTail[i] = one[i]
          /\ \A i \in 1 .. Len(tail) : SoftTail[Len(one) + i] = tail[i]
      BY <1>6, <2>1, TalkConcat
    <2>4. Len(SoftTail) = 1 + Len(Rest) - ResetCut
      BY <1>1, <1>2, <1>6, <2>2, <2>3
    <2>5. 1 \in 1 .. Len(one) /\ SoftFirst \in 1 .. ResetCut
      BY <1>2, <1>8, <1>9, <2>2
    <2>6. SoftTail[1] = Rest[SoftFirst]
      BY <2>2, <2>3, <2>5
    <2>7. ASSUME NEW i \in ResetCut + 1 .. Len(Rest)
          PROVE  SoftTail[i - ResetCut + 1] = Rest[i]
      <3>1. /\ i - ResetCut \in 1 .. Len(tail) /\ ResetCut + (i - ResetCut) = i
            /\ 1 + (i - ResetCut) = i - ResetCut + 1
        BY <1>1, <1>2, <1>6
      <3>2. tail[i - ResetCut] = Rest[ResetCut + (i - ResetCut)]
        BY <1>6, <3>1
      <3>3. SoftTail[1 + (i - ResetCut)] = tail[i - ResetCut]
        BY <2>2, <2>3, <3>1
      <3> QED  BY <3>1, <3>2, <3>3
    <2>8. 1 \in 0 .. 1
      OBVIOUS
    <2>9. \E h \in 1 .. ResetCut : SoftTail[1] = Rest[h]
      BY <2>5, <2>6
    <2>10. SoftTail[1].kind \in Human
      BY <1>8, <2>6
    <2> QED  BY <1>2, <1>4, <1>5, <2>4, <2>7, <2>8, <2>9, <2>10
  <1>10. CASE ~(SoftFirst <= ResetCut)
    <2>1. SoftTail = tail /\ SoftFirst = ResetCut + 1
      BY <1>2, <1>7, <1>8, <1>10
    <2>2. Len(SoftTail) = 0 + Len(Rest) - ResetCut
      BY <1>1, <1>2, <1>6, <2>1
    <2>3. ASSUME NEW i \in ResetCut + 1 .. Len(Rest)
          PROVE  SoftTail[i - ResetCut + 0] = Rest[i]
      <3>1. /\ i - ResetCut \in 1 .. Len(tail) /\ ResetCut + (i - ResetCut) = i
            /\ i - ResetCut + 0 = i - ResetCut
        BY <1>1, <1>2, <1>6
      <3>2. tail[i - ResetCut] = Rest[ResetCut + (i - ResetCut)]
        BY <1>6, <3>1
      <3> QED  BY <2>1, <3>1, <3>2
    <2>4. SoftTail[1].kind \in Human
      <3>1. 1 \in 1 .. Len(tail)
        BY <1>1, <1>2, <1>4, <1>6
      <3> QED  BY <1>6, <1>8, <2>1, <3>1
    <2>5. 0 \in 0 .. 1 /\ 0 # 1
      OBVIOUS
    <2> QED  BY <1>2, <1>4, <1>5, <2>2, <2>3, <2>4, <2>5
  <1> QED  BY <1>9, <1>10

\* One message from before the cut is no more than the skills before the cut.
LEMMA OnePut ==
  ASSUME NEW ms \in Talk, NEW new, NEW k \in 0 .. Len(ms), NEW h \in 1 .. k,
         new[1].kind = "system", new[2] = ms[h]
  PROVE  Cardinality({n \in 1 .. 2 : new[n].kind = "skill"})
           <= Cardinality(Skills(SubSeq(ms, 1, k)))
                + Cardinality(SkillsRead(SubSeq(ms, 1, k)))
  <1> DEFINE front == SubSeq(ms, 1, k)
             put == {n \in 1 .. 2 : new[n].kind = "skill"}
  <1>1. /\ front \in Talk /\ Len(front) = k
        /\ \A i \in 1 .. k : front[i] = ms[i]
    BY Before
  <1>2. DOMAIN front = 1 .. k
    BY <1>1, TalkTypes
  <1>3. /\ IsFiniteSet(Skills(front)) /\ Cardinality(Skills(front)) \in Nat
        /\ Cardinality(SkillsRead(front)) \in Nat
    BY <1>1, SkillsFinite
  <1>4. \A n \in 1 .. 2 : n = 1 \/ n = 2
    OBVIOUS
  <1> HIDE DEF front
  <1>5. CASE ms[h].kind = "skill"
    <2>1. put = {2}
      BY <1>4, <1>5
    <2>2. Cardinality(put) = 1
      BY <2>1, FS_Singleton
    <2>3. h \in Skills(front)
      BY <1>1, <1>2, <1>5 DEF Skills
    <2>4. Cardinality(Skills(front)) # 0
      BY <1>3, <2>3, FS_EmptySet
    <2> HIDE DEF put
    <2>5. Cardinality(put) <= Cardinality(Skills(front)) + Cardinality(SkillsRead(front))
      BY <1>3, <2>2, <2>4
    <2> QED  BY <2>5 DEF put, front
  <1>6. CASE ms[h].kind # "skill"
    <2>1. put = {}
      BY <1>4, <1>6
    <2>2. Cardinality(put) = 0
      BY <2>1, FS_EmptySet
    <2> HIDE DEF put
    <2>3. Cardinality(put) <= Cardinality(Skills(front)) + Cardinality(SkillsRead(front))
      BY <1>3, <2>2
    <2> QED  BY <2>3 DEF put, front
  <1> QED  BY <1>5, <1>6

LEMMA NonePut ==
  ASSUME NEW ms \in Talk, NEW new, NEW k \in 0 .. Len(ms),
         NEW p, \A n \in 1 .. p : new[n].kind # "skill"
  PROVE  Cardinality({n \in 1 .. p : new[n].kind = "skill"})
           <= Cardinality(Skills(SubSeq(ms, 1, k)))
                + Cardinality(SkillsRead(SubSeq(ms, 1, k)))
  <1> DEFINE front == SubSeq(ms, 1, k)
  <1>1. front \in Talk
    BY Before
  <1> HIDE DEF front
  <1>2. /\ Cardinality(Skills(front)) \in Nat
        /\ Cardinality(SkillsRead(front)) \in Nat
    BY <1>1, SkillsFinite
  <1>3. {n \in 1 .. p : new[n].kind = "skill"} = {}
    OBVIOUS
  <1>4. Cardinality({n \in 1 .. p : new[n].kind = "skill"}) = 0
    BY <1>3, FS_EmptySet
  <1>5. Cardinality({n \in 1 .. p : new[n].kind = "skill"})
          <= Cardinality(Skills(front)) + Cardinality(SkillsRead(front))
    BY <1>2, <1>4
  <1> QED  BY <1>5 DEF front

\* A reset leaves a whole conversation, of few messages.
LEMMA ResetWhole ==
  ASSUME Always, Always', WholeInv, BeforeReset, Whole'
  PROVE  /\ WholeInv'
         /\ Len(msgs') <= 2 + ResetKeep + CallsAtOnce
  <1>1. /\ pc = "before" /\ ~ResetFails /\ pc' = "model"
        /\ msgs' = Role \o ResetTail /\ learned' = FALSE
        /\ tips' = tips /\ toolErrors' = toolErrors /\ reads' = reads
        /\ cut' = (cut \/ (reset = "force" /\ toolErrors # <<>>))
    BY DEF BeforeReset, bounds
  <1>2. /\ msgs \in Talk /\ msgs # <<>> /\ Rest \in Talk /\ Len(Rest) >= 1
        /\ Ordered(Rest) /\ Len(Rest) \in Nat /\ DOMAIN Rest = 1 .. Len(Rest)
        /\ Role \in Talk /\ Len(Role) = 1 /\ Role[1] = Msg("system")
    BY <1>1, RestWhole, TalkTypes
  <1>3. /\ ResetCut \in 0 .. Len(Rest) /\ ResetCut < Len(Rest)
        /\ \E c \in Nat : /\ c < Len(Rest) /\ c >= Len(Rest) - ResetKeep
                          /\ ResetCut = SafeCut(Rest, c)
    BY <1>1, SoftWhole
  <1>4. PICK q \in 0 .. 1 :
          /\ Len(SoftTail) = q + Len(Rest) - ResetCut
          /\ SoftTail[1].kind \in Human
          /\ q = 1 => \E h \in 1 .. ResetCut : SoftTail[1] = Rest[h]
          /\ \A i \in ResetCut + 1 .. Len(Rest) :
               SoftTail[i - ResetCut + q] = Rest[i]
    BY <1>1, SoftWhole
  <1>5. /\ SoftTail \in Talk /\ ResetTail \in Talk /\ msgs' \in Talk
        /\ Len(SoftTail) \in Nat
    BY <1>2, SoftTailIs, ResetTailIs, TalkTypes DEF Always
  <1>6. /\ Len(msgs') = 1 + Len(ResetTail) /\ msgs'[1] = Msg("system")
        /\ msgs'[1].kind = "system"
        /\ \A i \in 1 .. Len(ResetTail) : msgs'[1 + i] = ResetTail[i]
    <2>1. 1 \in 1 .. Len(Role)
      BY <1>2
    <2>2. msgs'[1] = Role[1]
      BY <1>1, <1>2, <1>5, <2>1, TalkConcat
    <2>3. /\ Len(msgs') = 1 + Len(ResetTail)
          /\ \A i \in 1 .. Len(ResetTail) : msgs'[1 + i] = ResetTail[i]
      <3>1. /\ Len(msgs') = Len(Role) + Len(ResetTail)
            /\ \A i \in 1 .. Len(ResetTail) :
                 msgs'[Len(Role) + i] = ResetTail[i]
        BY <1>1, <1>2, <1>5, TalkConcat
      <3> QED  BY <1>2, <3>1
    <2> QED  BY <1>2, <2>2, <2>3 DEF Msg
  <1>7. \A h \in 1 .. Len(Rest) : Rest[h].kind \in Human =>
          Rest[h].kind \in Plain /\ Rest[h] = Msg(Rest[h].kind)
            /\ Rest[h].kind # "system"
    BY <1>2 DEF Ordered, Forms, Plain, Human
  <1> DEFINE hh == LastHuman(SoftTail, Len(SoftTail))
  <1>8. CASE reset = "force" /\ hh > 0
    <2>1. /\ hh \in 0 .. Len(SoftTail) /\ SoftTail[hh].kind \in Human
          /\ ResetTail = <<SoftTail[hh]>>
      <3>1. hh \in 0 .. Len(SoftTail) /\ (hh > 0 => SoftTail[hh].kind \in Human)
        BY <1>2, ResetTailIs
      <3> QED  BY <1>8, <3>1 DEF ResetTail
    <2> HIDE DEF hh
    <2>2. PICK h \in 1 .. Len(Rest) : SoftTail[hh] = Rest[h]
      <3>1. hh \in 1 .. Len(SoftTail) /\ q \in {0, 1}
        BY <1>8, <2>1
      <3>2. CASE q = 1 /\ hh = 1
        <4>1. PICK h \in 1 .. ResetCut : SoftTail[1] = Rest[h]
          BY <1>4, <3>2
        <4>2. h \in 1 .. Len(Rest)
          BY <1>2, <1>3
        <4> QED  BY <3>2, <4>1, <4>2
      <3>3. CASE ~(q = 1 /\ hh = 1)
        <4> DEFINE i == hh - q + ResetCut
        <4>1. hh - q >= 1 /\ Len(SoftTail) = q + Len(Rest) - ResetCut
          BY <1>4, <1>5, <3>1, <3>3
        <4>2. /\ i \in ResetCut + 1 .. Len(Rest) /\ i \in 1 .. Len(Rest)
              /\ i - ResetCut + q = hh
          <5>1. /\ ResetCut \in Nat /\ Len(Rest) \in Int /\ q \in 0 .. 1
                /\ hh \in 1 .. Len(SoftTail) /\ Len(SoftTail) \in Nat
            <6>1. ResetCut \in 0 .. Len(Rest) /\ Len(Rest) \in Nat
              BY <1>2, <1>3
            <6>2. hh \in 1 .. Len(SoftTail) /\ Len(SoftTail) \in Nat
              BY <1>5, <3>1
            <6> QED  BY <6>1, <6>2
          <5>2. i = hh - q + ResetCut
            OBVIOUS
          <5> HIDE DEF i
          <5>3. /\ hh \in Int /\ q \in Int /\ ResetCut \in Int /\ ResetCut >= 0
                /\ Len(Rest) \in Int /\ hh <= Len(SoftTail) /\ hh - q >= 1
                /\ Len(SoftTail) = q + Len(Rest) - ResetCut
            BY <4>1, <5>1
          <5>4. i \in Int /\ i >= ResetCut + 1 /\ i <= Len(Rest) /\ i >= 1
            BY <5>2, <5>3
          <5>5. i - ResetCut + q = hh
            BY <5>2, <5>3
          <5> QED  BY <5>3, <5>4, <5>5
        <4> HIDE DEF i
        <4>3. SoftTail[i - ResetCut + q] = Rest[i]
          BY <1>4, <4>2
        <4> QED  BY <4>2, <4>3
      <3> QED  BY <3>2, <3>3
    <2>3. Len(ResetTail) = 1 /\ ResetTail[1] = Rest[h]
      BY <2>1, <2>2
    <2>4. Len(msgs') = 2 /\ msgs'[2] = Rest[h]
      <3>1. 1 \in 1 .. Len(ResetTail) /\ 1 + 1 = 2
        BY <2>3
      <3>2. msgs'[1 + 1] = ResetTail[1]
        BY <1>6, <3>1
      <3> QED  BY <1>6, <2>3, <3>1, <3>2
    <2>5. /\ Rest[h].kind \in Human /\ Rest[h].kind \in Plain
          /\ Rest[h] = Msg(Rest[h].kind) /\ Rest[h].kind # "system"
      BY <1>7, <2>1, <2>2
    <2>6. Len(Rest) \in 0 .. Len(Rest) /\ 2 \in Nat /\ h \in 1 .. Len(Rest)
          /\ Len(msgs') = 2 + Len(Rest) - Len(Rest) /\ Len(msgs') >= 2
      BY <1>2, <2>4
    <2>7. \A n \in 1 .. 2 : n = 1 \/ n = 2
      OBVIOUS
    <2>8. Moved(Rest, msgs', Len(Rest), 2)
      <3>1. \A i \in 1 .. 2 : msgs'[i].kind \in Plain /\ msgs'[i] = Msg(msgs'[i].kind)
        BY <1>6, <2>4, <2>5, <2>7 DEF Plain
      <3>2. \A i \in Len(Rest) + 1 .. Len(Rest) : FALSE
        BY <1>2
      <3>3. ~(Len(Rest) < Len(Rest))
        BY <1>2
      <3> QED  BY <2>6, <3>1, <3>2, <3>3 DEF Moved
    <2>9. \A n \in 2 .. 2 : msgs'[n].kind # "system"
      <3>1. \A n \in 2 .. 2 : n = 2
        OBVIOUS
      <3> QED  BY <2>4, <2>5, <3>1
    <2>10. Cardinality({n \in 1 .. 2 : msgs'[n].kind = "skill"})
             <= Cardinality(Skills(SubSeq(Rest, 1, Len(Rest))))
                  + Cardinality(SkillsRead(SubSeq(Rest, 1, Len(Rest))))
      BY <1>2, <1>6, <2>4, <2>6, OnePut
    <2>11. toolErrors = <<>>
      BY <1>1, <1>8 DEF Whole
    <2>12. WholeInv'
      BY <1>1, <1>5, <1>6, <2>4, <2>5, <2>6, <2>8, <2>9, <2>10, <2>11, Rebuilt
    <2>13. Len(msgs') <= 2 + ResetKeep + CallsAtOnce
      BY <2>4 DEF ResetKeep, CallsAtOnce
    <2> QED  BY <2>12, <2>13
  <1>9. CASE ~(reset = "force" /\ hh > 0)
    <2>1. ResetTail = SoftTail
      BY <1>9 DEF ResetTail
    <2> HIDE DEF hh
    <2>2. /\ q \in {0, 1} /\ 1 + q \in Nat /\ Len(SoftTail) >= 1
          /\ Len(msgs') = (1 + q) + Len(Rest) - ResetCut /\ Len(msgs') >= 2
      <3>1. /\ Len(SoftTail) = q + Len(Rest) - ResetCut
            /\ Len(msgs') = 1 + Len(SoftTail)
        BY <1>4, <1>6, <2>1
      <3>2. /\ Len(Rest) \in Nat /\ ResetCut \in Nat /\ ResetCut < Len(Rest)
            /\ q \in 0 .. 1
        BY <1>2, <1>3
      <3> QED  BY <3>1, <3>2
    <2>3. msgs'[2] = SoftTail[1]
      <3>1. 1 \in 1 .. Len(SoftTail) /\ 1 + 1 = 2
        BY <1>5, <2>2
      <3> QED  BY <1>6, <2>1, <3>1
    <2>4. /\ q = 1 => /\ msgs'[2].kind \in Plain /\ msgs'[2] = Msg(msgs'[2].kind)
                      /\ \E h \in 1 .. ResetCut : msgs'[2] = Rest[h]
          /\ msgs'[2].kind # "system" /\ msgs'[2].kind \in Human
      <3>1. msgs'[2].kind # "system" /\ msgs'[2].kind \in Human
        BY <1>4, <2>3 DEF Human
      <3>2. ASSUME q = 1
            PROVE  /\ msgs'[2].kind \in Plain /\ msgs'[2] = Msg(msgs'[2].kind)
                   /\ \E h \in 1 .. ResetCut : msgs'[2] = Rest[h]
        <4>1. PICK h \in 1 .. ResetCut : SoftTail[1] = Rest[h]
          BY <1>4, <3>2
        <4>2. h \in 1 .. Len(Rest)
          BY <1>2, <1>3
        <4> QED  BY <1>7, <2>3, <3>1, <4>1, <4>2
      <3> QED  BY <3>1, <3>2
    <2>5. \A n \in 1 .. 1 + q : n = 1 \/ (n = 2 /\ q = 1)
      BY <2>2
    <2>6. Moved(Rest, msgs', ResetCut, 1 + q)
      <3>1. \A i \in 1 .. 1 + q :
              msgs'[i].kind \in Plain /\ msgs'[i] = Msg(msgs'[i].kind)
        BY <1>6, <2>4, <2>5 DEF Plain
      <3>2. ASSUME NEW i \in ResetCut + 1 .. Len(Rest)
            PROVE  msgs'[i - ResetCut + (1 + q)] = Rest[i]
        <4>1. /\ i - ResetCut + q \in 1 .. Len(SoftTail)
              /\ 1 + (i - ResetCut + q) = i - ResetCut + (1 + q)
          <5>1. Len(SoftTail) = q + Len(Rest) - ResetCut
            BY <1>4
          <5>2. /\ ResetCut \in Int /\ Len(Rest) \in Int /\ q \in 0 .. 1
                /\ i \in ResetCut + 1 .. Len(Rest)
            BY <1>2, <1>3
          <5> QED  BY <5>1, <5>2
        <4>2. msgs'[1 + (i - ResetCut + q)] = SoftTail[i - ResetCut + q]
          BY <1>6, <2>1, <4>1
        <4> QED  BY <1>4, <4>1, <4>2
      <3>3. Rest[ResetCut + 1].kind # "tool"
        BY <1>2, <1>3, ResetCutIs
      <3> QED  BY <1>3, <2>2, <3>1, <3>2, <3>3 DEF Moved
    <2>7. \A n \in 2 .. 1 + q : msgs'[n].kind # "system"
      <3>1. \A n \in 2 .. 1 + q : n = 2
        BY <2>2
      <3> QED  BY <2>4, <3>1
    <2>8. Cardinality({n \in 1 .. 1 + q : msgs'[n].kind = "skill"})
            <= Cardinality(Skills(SubSeq(Rest, 1, ResetCut)))
                 + Cardinality(SkillsRead(SubSeq(Rest, 1, ResetCut)))
      <3>1. CASE q = 1
        <4>1. PICK h \in 1 .. ResetCut : msgs'[2] = Rest[h]
          BY <2>4, <3>1
        <4>2. 1 + q = 2
          BY <3>1
        <4> QED  BY <1>2, <1>3, <1>6, <4>1, <4>2, OnePut
      <3>2. CASE q # 1
        <4>1. \A n \in 1 .. 1 + q : msgs'[n].kind # "skill"
          BY <1>6, <2>5, <3>2
        <4> QED  BY <1>2, <1>3, <4>1, NonePut
      <3> QED  BY <3>1, <3>2
    <2>9. WholeInv'
      BY <1>1, <1>3, <1>5, <1>6, <2>2, <2>4, <2>6, <2>7, <2>8, Rebuilt
    <2>10. Len(msgs') <= 2 + ResetKeep + CallsAtOnce
      <3>1. PICK c \in Nat : /\ c < Len(Rest) /\ c >= Len(Rest) - ResetKeep
                             /\ ResetCut = SafeCut(Rest, c)
        BY <1>3
      <3>2. c \in 0 .. Len(Rest)
        BY <1>2, <3>1
      <3>3. ResetCut >= c - CallsAtOnce
        BY <1>2, <3>1, <3>2, SafeCutTail
      <3>4. /\ c >= Len(Rest) - ResetKeep /\ ResetCut \in Int /\ c \in Nat
            /\ ResetKeep \in Nat /\ CallsAtOnce \in Nat
        BY <1>3, <3>1 DEF ResetKeep, CallsAtOnce
      <3>5. Len(Rest) - ResetCut <= ResetKeep + CallsAtOnce
        BY <1>2, <3>3, <3>4
      <3> QED  BY <1>2, <2>2, <3>4, <3>5
    <2> QED  BY <2>9, <2>10
  <1> QED  BY <1>8, <1>9

\* What is retained of the messages before a cut was read.
LEMMA FrontReads ==
  ASSUME NEW ms \in Talk, NEW k \in 0 .. Len(ms)
  PROVE  Cardinality(Skills(SubSeq(ms, 1, k)))
           + Cardinality(SkillsRead(SubSeq(ms, 1, k)))
           <= Cardinality(Skills(ms)) + Cardinality(AiCalls(ms) \cap SkillCalls)
  <1> DEFINE front == SubSeq(ms, 1, k)
  <1>1. /\ front \in Talk /\ Len(front) = k
        /\ \A i \in 1 .. k : front[i] = ms[i]
    BY Before
  <1>2. DOMAIN front = 1 .. k /\ DOMAIN ms = 1 .. Len(ms) /\ Len(ms) \in Nat
    BY <1>1, TalkTypes
  <1>3. \A i \in 1 .. k : i \in 1 .. Len(ms)
    BY <1>2
  <1> HIDE DEF front
  <1>4. Skills(front) \subseteq Skills(ms)
    BY <1>1, <1>2, <1>3 DEF Skills
  <1>5. SkillsRead(front) \subseteq AiCalls(ms) \cap SkillCalls
    <2> SUFFICES ASSUME NEW id \in SkillsRead(front)
                 PROVE  id \in AiCalls(ms) /\ id \in SkillCalls
      OBVIOUS
    <2>1. id \in AiCalls(front) /\ id \in SkillCalls
      BY DEF SkillsRead
    <2>2. PICK i \in 1 .. k : front[i].kind = "ai" /\ id \in front[i].calls
      BY <1>1, <2>1, InAiCalls
    <2>3. i \in 1 .. Len(ms) /\ ms[i].kind = "ai" /\ id \in ms[i].calls
      BY <1>1, <1>3, <2>2
    <2> QED  BY <2>1, <2>3, InAiCalls
  <1>6. IsFiniteSet(Skills(ms)) /\ IsFiniteSet(AiCalls(ms) \cap SkillCalls)
    BY SkillsFinite
  <1>7. /\ Cardinality(Skills(front)) <= Cardinality(Skills(ms))
        /\ Cardinality(SkillsRead(front))
             <= Cardinality(AiCalls(ms) \cap SkillCalls)
    BY <1>4, <1>5, <1>6, FS_Subset
  <1>8. /\ Cardinality(Skills(front)) \in Nat /\ Cardinality(Skills(ms)) \in Nat
        /\ Cardinality(SkillsRead(front)) \in Nat
        /\ Cardinality(AiCalls(ms) \cap SkillCalls) \in Nat
    BY <1>1, SkillsFinite
  <1>9. Cardinality(Skills(front)) + Cardinality(SkillsRead(front))
          <= Cardinality(Skills(ms)) + Cardinality(AiCalls(ms) \cap SkillCalls)
    BY <1>7, <1>8
  <1> QED  BY <1>9 DEF front

\* A cut of messages that begin with no AI message leaves something before it.
LEMMA SafeCutPositive ==
  ASSUME NEW ms \in Talk, NEW c \in Nat, c >= 1, c <= Len(ms), ms[1].kind # "ai"
  PROVE  SafeCut(ms, c) >= 1
  <1>1. Len(ms) \in Nat
    BY TalkTypes
  <1>2. CASE c >= Len(ms) \/ ms[c + 1].kind # "tool"
    BY <1>2, SafeCutCases
  <1>3. CASE ~(c >= Len(ms) \/ ms[c + 1].kind # "tool")
    <2>1. c < Len(ms) /\ ms[c + 1].kind = "tool"
      BY <1>1, <1>3
    <2>2. SafeCut(ms, c) = IF RunAskers(ms, c) = {}
                           THEN RunEnd(ms, c) ELSE Max(RunAskers(ms, c)) - 1
      BY <1>3, SafeCutCases
    <2>3. CASE RunAskers(ms, c) = {}
      <3>1. RunEnd(ms, c) \in c + 1 .. Len(ms)
        BY <2>1, RunEnds
      <3> QED  BY <2>2, <2>3, <3>1
    <2>4. CASE RunAskers(ms, c) # {}
      <3> DEFINE a == Max(RunAskers(ms, c))
      <3>1. a \in RunAskers(ms, c)
        BY <2>4, RunAskersMax
      <3> HIDE DEF a
      <3>2. a \in 1 .. c /\ ms[a].kind = "ai"
        BY <3>1 DEF RunAskers
      <3>3. a # 1
        BY <3>2
      <3>4. SafeCut(ms, c) = a - 1
        BY <2>2, <2>4 DEF a
      <3> QED  BY <3>2, <3>3, <3>4
    <2> QED  BY <2>3, <2>4
  <1> QED  BY <1>2, <1>3

\* The cut of a trim: of what is behind it there is little more than
\* tail_keep_msgs, and it cuts something off when there are more.
LEMMA TrimCutOf ==
  ASSUME Always, WholeInv, pc = "before"
  PROVE  /\ TrimCut \in 0 .. Len(Rest)
         /\ TrimCut < Len(Rest) => Rest[TrimCut + 1].kind # "tool"
         /\ \E c \in Nat : c < Len(Rest) /\ TrimCut = SafeCut(Rest, c)
         /\ Len(Rest) - TrimCut <= TailKeep + CallsAtOnce
         /\ Len(Rest) > TailKeep => TrimCut > 0
  <1> DEFINE c == IF Len(Rest) > TailKeep THEN Len(Rest) - TailKeep ELSE 0
  <1>1. /\ msgs \in Talk /\ msgs # <<>> /\ Rest \in Talk /\ Ordered(Rest)
        /\ Len(Rest) >= 1 /\ Len(Rest) \in Nat /\ Rest[1].kind \in Human
    BY RestWhole, TalkTypes
  <1>2. TailKeep \in Nat /\ TailKeep >= 1
    BY KeepAssumption
  <1>3. TrimCut = SafeCut(Rest, c)
    BY DEF TrimCut
  <1>4. /\ c \in Nat /\ c < Len(Rest) /\ Len(Rest) - c <= TailKeep
        /\ Len(Rest) > TailKeep => c >= 1
    BY <1>1, <1>2
  <1> HIDE DEF c
  <1>5. /\ TrimCut \in 0 .. Len(Rest)
        /\ TrimCut < Len(Rest) => Rest[TrimCut + 1].kind # "tool"
    BY <1>1, TrimCutIs
  <1>6. c \in 0 .. Len(Rest) /\ c <= Len(Rest) /\ TrimCut \in Int
    BY <1>1, <1>4, <1>5
  <1>7. TrimCut >= c - CallsAtOnce
    BY <1>1, <1>3, <1>6, SafeCutTail
  <1>8. Len(Rest) - TrimCut <= TailKeep + CallsAtOnce
    BY <1>1, <1>2, <1>4, <1>6, <1>7 DEF CallsAtOnce
  <1>9. Len(Rest) > TailKeep => TrimCut > 0
    <2> SUFFICES ASSUME Len(Rest) > TailKeep PROVE TrimCut > 0
      OBVIOUS
    <2>1. c >= 1 /\ Rest[1].kind # "ai"
      BY <1>1, <1>4 DEF Human
    <2>2. TrimCut >= 1
      BY <1>1, <1>3, <1>4, <1>6, <2>1, SafeCutPositive
    <2> QED  BY <1>6, <2>2
  <1> QED  BY <1>3, <1>4, <1>5, <1>8, <1>9

\* A trim leaves a whole conversation, of few messages.
LEMMA TrimWhole ==
  ASSUME Always, Always', WholeInv, NEW exceed \in BOOLEAN, BeforeTrim(exceed)
  PROVE  /\ WholeInv'
         /\ Len(msgs') <= 2 + reads + TailKeep + CallsAtOnce
  <1> DEFINE front == SubSeq(Rest, 1, TrimCut)
             skills == RetainedSkills(front)
             tail == SubSeq(Rest, TrimCut + 1, Len(Rest))
             L == Len(skills)
             p == 2 + L
  <1>1. /\ pc = "before" /\ pc' = "model" /\ msgs' = Trimmed
        /\ learned' = learned /\ tips' = tips /\ toolErrors' = toolErrors
        /\ reads' = reads
    BY DEF BeforeTrim, Trimming, bounds
  <1>2. /\ msgs \in Talk /\ msgs # <<>> /\ Rest \in Talk /\ Len(Rest) >= 1
        /\ Ordered(Rest) /\ Len(Rest) \in Nat
        /\ Role \in Talk /\ Role[1] = Msg("system")
    BY <1>1, RestWhole, TalkTypes
  <1>3. /\ Cardinality(Skills(Rest)) + Cardinality(AiCalls(Rest) \cap SkillCalls)
             <= reads
    BY <1>1, RestWhole
  <1>4. /\ TrimCut \in 0 .. Len(Rest) /\ TrimCut \in Nat
        /\ TrimCut < Len(Rest) => Rest[TrimCut + 1].kind # "tool"
        /\ \E c \in Nat : c < Len(Rest) /\ TrimCut = SafeCut(Rest, c)
        /\ Len(Rest) - TrimCut <= TailKeep + CallsAtOnce
    BY <1>1, <1>2, TrimCutOf
  <1>5. /\ front \in Talk /\ skills \in Talk /\ tail \in Talk
        /\ Trimmed \in Talk
        /\ Len(Trimmed) = 2 + L + (Len(Rest) - TrimCut)
        /\ Trimmed[1] = Role[1]
        /\ \A i \in 1 .. L : Trimmed[1 + i] = Msg("skill")
        /\ Trimmed[2 + L] = Msg("summary")
        /\ \A i \in 1 .. Len(tail) : Trimmed[2 + L + i] = Rest[TrimCut + i]
    BY <1>2, TrimmedIs
  <1>6. Len(tail) = Len(Rest) - TrimCut
    BY <1>2, <1>4, Behindhand
  <1>7. /\ L = Cardinality(Skills(front)) + Cardinality(SkillsRead(front))
        /\ L \in Nat
    BY <1>5, RetainedIs, TalkTypes
  <1>8. L <= reads
    <2>1. L <= Cardinality(Skills(Rest)) + Cardinality(AiCalls(Rest) \cap SkillCalls)
      BY <1>2, <1>4, <1>7, FrontReads
    <2>2. /\ Cardinality(Skills(Rest)) \in Nat
          /\ Cardinality(AiCalls(Rest) \cap SkillCalls) \in Nat
      BY <1>2, SkillsFinite
    <2>3. reads \in Nat
      BY BoundsAssumption DEF Always, TypeOK
    <2> HIDE DEF L
    <2> QED  BY <1>3, <1>7, <2>1, <2>2, <2>3
  <1> HIDE DEF skills, tail, front, L
  <1>9. p \in Nat /\ p >= 2 /\ Len(msgs') = p + Len(Rest) - TrimCut
    <2>1. Len(msgs') = 2 + L + (Len(Rest) - TrimCut)
      BY <1>1, <1>5
    <2>2. L \in Nat /\ Len(Rest) \in Nat /\ TrimCut \in Nat
      BY <1>2, <1>4, <1>7
    <2> QED  BY <2>1, <2>2
  <1>10. \A n \in 1 .. p : \/ n = 1
                           \/ n \in 2 .. 1 + L /\ n - 1 \in 1 .. L /\ 1 + (n - 1) = n
                           \/ n = 2 + L
    BY <1>7
  <1>11. \A n \in 1 .. p : \/ n = 1 /\ msgs'[n] = Msg("system")
                           \/ n \in 2 .. 1 + L /\ msgs'[n] = Msg("skill")
                           \/ n = 2 + L /\ msgs'[n] = Msg("summary")
    <2> SUFFICES ASSUME NEW n \in 1 .. p
                 PROVE  \/ n = 1 /\ msgs'[n] = Msg("system")
                        \/ n \in 2 .. 1 + L /\ msgs'[n] = Msg("skill")
                        \/ n = 2 + L /\ msgs'[n] = Msg("summary")
      OBVIOUS
    <2>1. CASE n = 1
      BY <1>1, <1>2, <1>5, <2>1
    <2>2. CASE n = 2 + L
      BY <1>1, <1>5, <2>2
    <2>3. CASE n \in 2 .. 1 + L /\ n - 1 \in 1 .. L /\ 1 + (n - 1) = n
      <3>1. Trimmed[1 + (n - 1)] = Msg("skill")
        BY <1>5, <2>3
      <3> QED  BY <1>1, <2>3, <3>1
    <2> QED  BY <1>10, <2>1, <2>2, <2>3
  <1>12. /\ Msg("system").kind = "system" /\ Msg("skill").kind = "skill"
         /\ Msg("summary").kind = "summary"
    BY DEF Msg
  <1>13. \A n \in 1 .. p : msgs'[n].kind \in Plain /\ msgs'[n] = Msg(msgs'[n].kind)
    BY <1>11, <1>12 DEF Plain, Human
  <1>14. \A n \in 2 .. p : n \in 1 .. p /\ n # 1
    BY <1>9
  <1>15. \A n \in 2 .. p : msgs'[n].kind \in Human /\ msgs'[n].kind # "system"
    BY <1>11, <1>12, <1>14 DEF Human
  <1>16. 1 \in 1 .. p /\ 2 \in 2 .. p /\ 2 \in 1 .. p /\ 1 # 2 + L
         /\ 1 \notin 2 .. 1 + L
    BY <1>7, <1>9
  <1>17. msgs'[1].kind = "system" /\ msgs'[2].kind \in Human
    BY <1>11, <1>12, <1>15, <1>16
  <1>18. Moved(Rest, msgs', TrimCut, p)
    <2>1. ASSUME NEW i \in TrimCut + 1 .. Len(Rest)
          PROVE  msgs'[i - TrimCut + p] = Rest[i]
      <3>1. /\ i - TrimCut \in 1 .. Len(tail) /\ TrimCut + (i - TrimCut) = i
            /\ 2 + L + (i - TrimCut) = i - TrimCut + p
        <4>1. Len(Rest) \in Nat /\ TrimCut \in Nat /\ L \in Nat
          BY <1>2, <1>4, <1>7
        <4>2. Len(tail) = Len(Rest) - TrimCut
          BY <1>6
        <4> QED  BY <4>1, <4>2
      <3>2. Trimmed[2 + L + (i - TrimCut)] = Rest[TrimCut + (i - TrimCut)]
        BY <1>5, <3>1
      <3> QED  BY <1>1, <3>1, <3>2
    <2> HIDE DEF p
    <2> QED  BY <1>4, <1>9, <1>13, <2>1 DEF Moved
  <1>19. Cardinality({n \in 1 .. p : msgs'[n].kind = "skill"})
           <= Cardinality(Skills(front)) + Cardinality(SkillsRead(front))
    <2> DEFINE put == {n \in 1 .. p : msgs'[n].kind = "skill"}
    <2>1. put \subseteq 2 .. 1 + L
      <3> SUFFICES ASSUME NEW n \in put PROVE n \in 2 .. 1 + L
        OBVIOUS
      <3>1. n \in 1 .. p /\ msgs'[n].kind = "skill"
        OBVIOUS
      <3> HIDE DEF p, put
      <3> QED  BY <1>11, <1>12, <3>1
    <2>2. IsFiniteSet(2 .. 1 + L) /\ Cardinality(2 .. 1 + L) = L
      <3>1. 2 \in Int /\ 1 + L \in Int
        BY <1>7
      <3>2. Cardinality(2 .. 1 + L) = IF 2 > 1 + L THEN 0 ELSE (1 + L) - 2 + 1
        BY <3>1, FS_Interval
      <3>3. IsFiniteSet(2 .. 1 + L)
        BY <3>1, FS_Interval
      <3> QED  BY <1>7, <3>2, <3>3
    <2> HIDE DEF put
    <2>3. Cardinality(put) <= L
      BY <2>1, <2>2, FS_Subset
    <2> QED  BY <1>7, <2>3 DEF put
  <1>20. Skills(front) \cup SkillsRead(front) # {} =>
           \E n \in 1 .. p : msgs'[n].kind = "skill"
    <2> SUFFICES ASSUME Skills(front) \cup SkillsRead(front) # {}
                 PROVE  \E n \in 1 .. p : msgs'[n].kind = "skill"
      OBVIOUS
    <2>1. /\ IsFiniteSet(Skills(front)) /\ IsFiniteSet(SkillsRead(front))
          /\ Cardinality(Skills(front)) \in Nat
          /\ Cardinality(SkillsRead(front)) \in Nat
      BY <1>5, SkillsFinite
    <2>2. Cardinality(Skills(front)) # 0 \/ Cardinality(SkillsRead(front)) # 0
      BY <2>1, FS_EmptySet
    <2>3. L >= 1
      BY <1>7, <2>1, <2>2
    <2>4. 2 # 2 + L /\ 2 # 1
      BY <1>7, <2>3
    <2> HIDE DEF p
    <2> QED  BY <1>11, <1>12, <1>16, <2>4
  <1> HIDE DEF p
  <1>21. Len(msgs') >= 2 /\ msgs' \in Talk
    BY <1>1, <1>2, <1>4, <1>5, <1>9
  <1>22. WholeInv'
    <2>1. /\ Cardinality({n \in 1 .. p : msgs'[n].kind = "skill"})
               <= Cardinality(Skills(SubSeq(Rest, 1, TrimCut)))
                    + Cardinality(SkillsRead(SubSeq(Rest, 1, TrimCut)))
          /\ (Skills(SubSeq(Rest, 1, TrimCut)) \cup SkillsRead(SubSeq(Rest, 1, TrimCut)) # {}
               => \E n \in 1 .. p : msgs'[n].kind = "skill")
      BY <1>19, <1>20 DEF front
    <2> QED  BY <1>1, <1>4, <1>15, <1>17, <1>18, <1>21, <2>1, Rebuilt
  <1>23. Len(msgs') <= 2 + reads + TailKeep + CallsAtOnce
    <2>1. reads \in Nat /\ TailKeep \in Nat /\ CallsAtOnce \in Nat
      BY BoundsAssumption, KeepAssumption DEF Always, TypeOK, CallsAtOnce
    <2>2. Len(Rest) - TrimCut <= TailKeep + CallsAtOnce
      BY <1>4
    <2>3. p = 2 + L
      BY DEF p
    <2>4. Len(Rest) \in Nat /\ TrimCut \in Nat
      BY <1>2, <1>4
    <2>5. L \in Nat /\ L <= reads
      BY <1>7, <1>8
    <2>6. Len(msgs') = p + Len(Rest) - TrimCut
      BY <1>9
    <2> QED  BY <2>1, <2>2, <2>3, <2>4, <2>5, <2>6
  <1> QED  BY <1>22, <1>23

\* Nothing makes a conversation whole again.
LEMMA WholeBefore ==
  ASSUME Next, Whole'
  PROVE  Whole
  <1>1. CASE StartRound
    BY <1>1 DEF StartRound, history, Whole
  <1>2. CASE Chat
    BY <1>2 DEF Chat, Whole
  <1>3. CASE BeforeReset
    BY <1>3 DEF BeforeReset, Whole
  <1>4. ASSUME NEW exceed \in BOOLEAN,
               BeforeTrim(exceed) \/ BeforeNothing(exceed)
        PROVE  Whole
    BY <1>4 DEF BeforeTrim, BeforeNothing, history, Whole
  <1>5. CASE BeforeSummary
    BY <1>5 DEF BeforeSummary, Whole
  <1>6. ASSUME NEW r \in Requests, ModelReturns(r.calls, r.bad) PROVE Whole
    BY <1>6 DEF ModelReturns, history, Whole
  <1>7. CASE SeeAnswer
    BY <1>7 DEF SeeAnswer, history, Whole
  <1>8. CASE ToolsReturn
    BY <1>8 DEF ToolsReturn, history, Whole
  <1>9. ASSUME NEW finished \in SUBSET CallIds, NEW silent \in BOOLEAN,
               ToolsRaise(finished, silent)
        PROVE  Whole
    <2>1. /\ cut' = (cut \/ (silent /\ Pending(msgs \o ToolMsgs(finished)) # {}))
          /\ early' = early /\ replaced' = replaced
      BY <1>9 DEF ToolsRaise
    <2> QED  BY <2>1 DEF Whole
  <1>10. CASE ModelRaises \/ BeforeRaises
    BY <1>10 DEF ModelRaises, BeforeRaises, history, Whole
  <1>11. CASE Interrupt
    BY <1>11 DEF Interrupt, Whole
  <1>12. ASSUME NEW force \in BOOLEAN, ResetChat(force) PROVE Whole
    BY <1>12 DEF ResetChat, history, Whole
  <1>13. CASE SetArbitSummary
    BY <1>13 DEF SetArbitSummary, history, Whole
  <1> QED  BY <1>1, <1>2, <1>3, <1>4, <1>5, <1>6, <1>7, <1>8, <1>9, <1>10,
              <1>11, <1>12, <1>13 DEF Next

LEMMA StaysWhole ==
  ASSUME WholeInv, pc' = pc,
         UNCHANGED <<msgs, tips, toolErrors, reads, learned>>
  PROVE  WholeInv'
  <1>1. Shape' /\ Ordered(msgs)' /\ Calling' /\ Waiting'
    BY DEF WholeInv, Shape, Ordered, Forms, Asked, Distinct, Once, Calling,
           Waiting, Answered, Answers
  <1>2. Reading'
    BY DEF WholeInv, Reading, Skills, AiCalls, SkillsRead, Answers
  <1> QED  BY <1>1, <1>2 DEF WholeInv

\* The steps that only move on, when no call waits for its answer.
LEMMA MovesOn ==
  ASSUME Always, WholeInv, pc # "idle", Closed(msgs), pc' \in {"idle", "model"},
         msgs' = msgs, tips' = tips, toolErrors' = toolErrors, reads' = reads,
         learned' = learned
  PROVE  WholeInv'
  <1>1. Shape'
    BY DEF WholeInv, Shape
  <1>2. Ordered(msgs') /\ Closed(msgs')
    BY DEF WholeInv
  <1>3. Calling'
    BY <1>2, ClosedCalling DEF Calling, Closed
  <1>4. Waiting'
    <2> SUFFICES ASSUME toolErrors' # <<>>
                 PROVE  \E i \in DOMAIN msgs' :
                          /\ Ending(msgs', i)
                          /\ toolErrors' = ToolMsgs(msgs'[i].bad)
                          /\ msgs'[i].bad \cap Answers(msgs') = {}
      BY DEF Waiting
    <2>1. \E i \in DOMAIN msgs : /\ Ending(msgs, i)
                                 /\ toolErrors = ToolMsgs(msgs[i].bad)
                                 /\ msgs[i].bad \cap Answers(msgs) = {}
      BY DEF WholeInv, Waiting
    <2> QED  BY <2>1
  <1>5. Reading'
    BY DEF WholeInv, Reading, Skills, AiCalls, SkillsRead, Answers
  <1> QED  BY <1>1, <1>2, <1>3, <1>4, <1>5 DEF WholeInv

\* Shape is kept when messages follow that are no system messages.
LEMMA LongerShape ==
  ASSUME Shape, ~tips, msgs \in Talk, msgs' \in Talk, Longer(msgs, msgs'),
         \A n \in 1 .. Len(msgs') :
           n \notin 1 .. Len(msgs) => msgs'[n].kind # "system",
         tips' = tips
  PROVE  Shape'
  <1>1. /\ Len(msgs) >= 2 /\ msgs[1].kind = "system" /\ msgs[2].kind \in Human
        /\ \A i \in 2 .. Len(msgs) : msgs[i].kind # "system"
    BY DEF Shape
  <1>2. /\ Len(msgs) \in Nat /\ Len(msgs') \in Nat /\ Len(msgs) <= Len(msgs')
        /\ \A i \in 1 .. Len(msgs) : msgs'[i] = msgs[i]
    BY TalkTypes DEF Longer
  <1>3. \A i \in 2 .. Len(msgs') : i \in 1 .. Len(msgs')
    BY <1>2
  <1>4. \A i \in 2 .. Len(msgs') : i \in 1 .. Len(msgs) => i \in 2 .. Len(msgs)
    BY <1>2
  <1>5. \A i \in 2 .. Len(msgs') : msgs'[i].kind # "system"
    BY <1>1, <1>2, <1>3, <1>4
  <1>6. Len(msgs') >= 2 /\ 1 \in 1 .. Len(msgs) /\ 2 \in 1 .. Len(msgs)
    BY <1>1, <1>2
  <1> QED  BY <1>1, <1>2, <1>5, <1>6 DEF Shape

\* Tool messages change nothing of what was asked.
LEMMA MoreAnswers ==
  ASSUME NEW ms \in Talk, NEW new \in Talk, Longer(ms, new),
         \A n \in DOMAIN new : n \notin DOMAIN ms => new[n].kind = "tool"
  PROVE  /\ Skills(new) = Skills(ms)
         /\ (\A i \in DOMAIN ms : ms[i].kind = "ai" => Answered(new, i))
              => Closed(new)
         /\ Closed(ms) => Closed(new)
         /\ \A n \in 1 .. Len(new) :
              n \notin 1 .. Len(ms) => new[n].kind # "system"
  <1>1. /\ DOMAIN ms = 1 .. Len(ms) /\ DOMAIN new = 1 .. Len(new)
        /\ Len(ms) \in Nat /\ Len(new) \in Nat /\ Len(ms) <= Len(new)
        /\ \A n \in 1 .. Len(ms) : new[n] = ms[n]
    BY TalkTypes DEF Longer
  <1>2. \A n \in 1 .. Len(ms) : n \in 1 .. Len(new)
    BY <1>1
  <1>3. Skills(new) = Skills(ms)
    <2>1. \A n : n \in Skills(new) <=> n \in Skills(ms)
      BY <1>1, <1>2 DEF Skills
    <2> QED  BY <2>1
  <1>4. ASSUME \A i \in DOMAIN ms : ms[i].kind = "ai" => Answered(new, i)
        PROVE  Closed(new)
    BY <1>1, <1>4 DEF Closed
  <1>5. ASSUME Closed(ms) PROVE Closed(new)
    <2>1. \A i \in DOMAIN ms : ms[i].kind = "ai" => Answered(new, i)
      BY <1>1, <1>5, LongerAnswered DEF Closed
    <2> QED  BY <1>4, <2>1
  <1> QED  BY <1>1, <1>3, <1>4, <1>5

LEMMA StartWhole ==
  ASSUME Always, Always', WholeInv, StartRound
  PROVE  WholeInv'
  <1>1. /\ pc = "idle" /\ pc' = "before" /\ toolErrors' = <<>>
        /\ reads' = reads /\ learned' = learned
    BY DEF StartRound, bounds
  <1>2. /\ msgs \in Talk /\ toolErrors \in Talk /\ Ordered(msgs) /\ Closed(msgs)
        /\ msgs' \in Talk /\ Shape /\ Reading
    BY <1>1, CallingClosed DEF Always, WholeInv
  <1>3. CASE toolErrors # <<>>
    <2>1. msgs' = msgs \o toolErrors /\ tips' = tips
      BY <1>3 DEF StartRound
    <2>2. ~tips
      BY <1>2, <1>3 DEF Shape
    <2>3. PICK i \in DOMAIN msgs : /\ Ending(msgs, i)
                                   /\ toolErrors = ToolMsgs(msgs[i].bad)
                                   /\ msgs[i].bad \cap Answers(msgs) = {}
      BY <1>3 DEF WholeInv, Waiting
    <2>4. /\ msgs[i].bad \in SUBSET CallIds /\ IsFiniteSet(msgs[i].bad)
          /\ msgs[i].bad \subseteq Ids(msgs[i])
      BY <1>2, TalkTypes DEF Ids
    <2>5. msgs' = msgs \o ToolMsgs(msgs[i].bad)
      BY <2>1, <2>3
    <2>6. /\ Longer(msgs, msgs') /\ Ordered(msgs')
          /\ Answers(msgs') = Answers(msgs) \cup msgs[i].bad
          /\ AiCalls(msgs') = AiCalls(msgs)
          /\ \A n \in DOMAIN msgs' : n \notin DOMAIN msgs => msgs'[n].kind = "tool"
      <3> DEFINE ids == msgs[i].bad
      <3>1. /\ msgs \in Talk /\ Ordered(msgs) /\ Ending(msgs, i)
            /\ ids \in SUBSET CallIds /\ IsFiniteSet(ids)
            /\ ids \subseteq Ids(msgs[i]) /\ ids \cap Answers(msgs) = {}
            /\ msgs' = msgs \o ToolMsgs(ids)
        BY <1>2, <2>3, <2>4, <2>5
      <3> HIDE DEF ids
      <3>2. /\ Longer(msgs, msgs') /\ Ordered(msgs')
            /\ Answers(msgs') = Answers(msgs) \cup ids
            /\ AiCalls(msgs') = AiCalls(msgs)
            /\ \A n \in DOMAIN msgs' :
                 n \notin DOMAIN msgs => msgs'[n].kind = "tool"
        <4>1. Answering(msgs, msgs', i, ids)
          BY <3>1, AnswersOrdered
        <4> QED  BY <4>1 DEF Answering
      <3> QED  BY <3>2 DEF ids
    <2>7. /\ Skills(msgs') = Skills(msgs) /\ Closed(msgs')
          /\ \A n \in 1 .. Len(msgs') :
               n \notin 1 .. Len(msgs) => msgs'[n].kind # "system"
      BY <1>2, <2>6, MoreAnswers
    <2>8. Shape'
      BY <1>2, <2>1, <2>2, <2>6, <2>7, LongerShape
    <2>9. Calling'
      BY <2>7, ClosedCalling DEF Calling, Closed
    <2>10. Waiting'
      BY <1>1 DEF Waiting
    <2>11. Reading'
      BY <1>1, <1>2, <2>6, <2>7, ReadingKept
    <2> QED  BY <2>6, <2>8, <2>9, <2>10, <2>11 DEF WholeInv
  <1>4. CASE toolErrors = <<>> /\ ~tips
    <2>1. msgs' = (msgs \o <<>>) \o <<Msg("human")>> /\ tips' = tips
      BY <1>2, <1>4 DEF StartRound, Always, TypeOK
    <2>2. msgs \o <<>> = msgs
      BY <1>2, ConcatNothing
    <2>3. Msg("human") \in FiniteMessage
      BY MessageTypes DEF Kinds
    <2>4. msgs' = Append(msgs, Msg("human"))
      BY <1>2, <2>1, <2>2, <2>3, AppendIsConcat DEF Talk
    <2> QED  BY <1>1, <1>4, <2>1, <2>4, HumanFollows
  <1>5. CASE tips
    <2>1. msgs = <<>> /\ toolErrors = <<>>
      BY <1>2, <1>5 DEF Shape
    <2>2. msgs' = (msgs \o <<Msg("system")>>) \o <<Msg("human")>> /\ tips' = FALSE
      BY <1>5, <2>1 DEF StartRound
    <2>3. Msg("system") \in FiniteMessage /\ Msg("human") \in FiniteMessage
      BY MessageTypes DEF Kinds
    <2> DEFINE one == Append(msgs, Msg("system"))
    <2>4. /\ one \in Talk /\ Len(one) = Len(msgs) + 1
          /\ one[Len(msgs) + 1].kind = "system"
          /\ Ordered(one) /\ Closed(one)
          /\ Answers(one) = Answers(msgs) /\ AiCalls(one) = AiCalls(msgs)
          /\ Skills(one) = Skills(msgs)
      BY <1>2, AppendPlain
    <2>5. one = msgs \o <<Msg("system")>>
      BY <1>2, <2>3, AppendIsConcat DEF Talk
    <2> HIDE DEF one
    <2>6. Len(one) = 1 /\ one[1].kind = "system"
      BY <2>1, <2>4
    <2>7. msgs' = Append(one, Msg("human"))
      BY <2>2, <2>3, <2>4, <2>5, AppendIsConcat DEF Talk
    <2>8. /\ Len(msgs') = Len(one) + 1
          /\ msgs'[Len(one) + 1].kind = "human"
          /\ Longer(one, msgs') /\ Ordered(msgs') /\ Closed(msgs')
          /\ Answers(msgs') = Answers(one) /\ AiCalls(msgs') = AiCalls(one)
          /\ Skills(msgs') = Skills(one)
      BY <2>4, <2>7, AppendPlain
    <2>9. Shape'
      <3>1. 1 \in 1 .. Len(one) /\ Len(one) + 1 = 2
        BY <2>6
      <3>2. Len(msgs') = 2 /\ msgs'[2].kind = "human" /\ msgs'[1].kind = "system"
        BY <2>6, <2>8, <3>1 DEF Longer
      <3>3. \A i \in 2 .. Len(msgs') : i = 2
        BY <3>2
      <3>4. \A i \in 2 .. Len(msgs') : msgs'[i].kind # "system"
        BY <3>2, <3>3
      <3> QED  BY <2>2, <3>2, <3>4 DEF Shape, Human
    <2>10. Calling'
      BY <2>8, ClosedCalling DEF Calling, Closed
    <2>11. Waiting'
      BY <1>1 DEF Waiting
    <2>12. Reading'
      BY <1>1, <1>2, <2>4, <2>8, ReadingKept
    <2> QED  BY <2>8, <2>9, <2>10, <2>11, <2>12 DEF WholeInv
  <1> QED  BY <1>3, <1>4, <1>5

LEMMA ChatWhole ==
  ASSUME Always, WholeInv, Chat, Whole'
  PROVE  WholeInv'
  <1>1. /\ pc = "idle" /\ pc' = "before" /\ msgs' = Append(msgs, Msg("human"))
        /\ toolErrors' = <<>> /\ tips' = tips /\ reads' = reads
        /\ learned' = learned
    BY DEF Chat
  <1>2. ~tips
    BY DEF Chat, Whole
  <1> QED  BY <1>1, <1>2, HumanFollows

\* A model that is called with bad calls answered has no answers waiting.
LEMMA NoErrorsWait ==
  ASSUME Always, WholeInv, WellFormed(msgs)
  PROVE  toolErrors = <<>>
  <1> SUFFICES ASSUME toolErrors # <<>> PROVE FALSE
    OBVIOUS
  <1>1. msgs \in Talk /\ DOMAIN msgs = 1 .. Len(msgs) /\ Len(msgs) \in Nat
    BY TalkTypes DEF Always
  <1>2. PICK i \in DOMAIN msgs : /\ Ending(msgs, i)
                                 /\ toolErrors = ToolMsgs(msgs[i].bad)
                                 /\ msgs[i].bad \cap Answers(msgs) = {}
    BY DEF WholeInv, Waiting
  <1>3. ASSUME NEW id \in msgs[i].bad PROVE FALSE
    <2>1. ToolMsg(id) \in Replies(msgs, i)
      BY DEF WellFormed
    <2>2. PICK j \in i + 1 .. Len(msgs) :
            /\ \A l \in i + 1 .. j : msgs[l].kind = "tool"
            /\ ToolMsg(id) = msgs[j]
      BY <2>1 DEF Replies
    <2>3. j \in 1 .. Len(msgs)
      BY <1>1, <1>2
    <2>4. msgs[j].kind = "tool" /\ id \in msgs[j].calls
      BY <2>2 DEF ToolMsg
    <2>5. id \in Answers(msgs)
      BY <1>1, <2>3, <2>4, InAnswers
    <2> QED  BY <1>2, <2>5
  <1>4. msgs[i].bad = {}
    BY <1>3
  <1> QED  BY <1>2, <1>4, NoToolMsgs

LEMMA ModelWhole ==
  ASSUME Always, Always', WholeInv, NEW r \in Requests,
         ModelReturns(r.calls, r.bad)
  PROVE  WholeInv'
  <1> DEFINE m == AiMsg(r.calls, r.bad)
  <1>1. /\ pc = "model" /\ pc' = "answered" /\ WellFormed(msgs)
        /\ msgs' = Append(msgs, m) /\ tips' = tips /\ toolErrors' = toolErrors
        /\ reads' = reads + Cardinality(r.calls \cap SkillCalls)
        /\ learned' = learned
    BY DEF ModelReturns
  <1>2. /\ msgs \in Talk /\ msgs' \in Talk /\ Ordered(msgs) /\ Closed(msgs)
        /\ Shape /\ ~tips /\ Reading /\ reads \in Nat
    BY <1>1, CallingClosed, BoundsAssumption
    DEF Always, WholeInv, Shape, TypeOK
  <1>3. /\ r.calls \in SUBSET CallIds /\ r.bad \in SUBSET CallIds
        /\ IsFiniteSet(r.calls) /\ IsFiniteSet(r.bad)
        /\ IsFiniteSet(r.calls \cup r.bad)
        /\ Cardinality(r.calls \cup r.bad) <= CallsAtOnce
        /\ r.calls \cap r.bad = {} /\ (r.calls \cup r.bad) \cap Used = {}
        /\ IsFiniteSet(r.calls \cap SkillCalls)
        /\ Cardinality(r.calls \cap SkillCalls) \in Nat
    BY RequestsAre
  <1>4. /\ m \in FiniteMessage /\ m.kind = "ai" /\ m.kind \notin Plain
        /\ m.calls = r.calls /\ m.bad = r.bad /\ Ids(m) = r.calls \cup r.bad
    BY <1>3, MessageTypes DEF AiMsg, Plain, Human, Ids
  <1>5. /\ DOMAIN msgs = 1 .. Len(msgs) /\ Len(msgs) \in Nat
        /\ DOMAIN msgs' = 1 .. Len(msgs')
    BY <1>2, TalkTypes
  <1>6. ASSUME NEW i \in 1 .. Len(msgs), msgs[i].kind = "ai"
        PROVE  Ids(msgs[i]) \cap Ids(m) = {}
    <2>1. Ids(msgs[i]) \subseteq Used
      <3>1. ASSUME NEW id \in Ids(msgs[i]) PROVE id \in Used
        <4>1. CASE id \in msgs[i].calls
          <5>1. id \in AiCalls(msgs)
            BY <1>2, <1>6, <4>1, InAiCalls
          <5> QED  BY <5>1 DEF Used
        <4>2. CASE id \in msgs[i].bad
          BY <1>5, <4>2 DEF Used
        <4> QED  BY <4>1, <4>2 DEF Ids
      <3> QED  BY <3>1
    <2> QED  BY <1>3, <1>4, <2>1
  <1> HIDE DEF m
  <1>7. /\ Len(msgs') = Len(msgs) + 1 /\ msgs'[Len(msgs) + 1] = m
        /\ Longer(msgs, msgs') /\ Ordered(msgs') /\ Answers(msgs') = Answers(msgs)
    BY <1>1, <1>2, <1>3, <1>4, <1>6, AppendOrdered
  <1>8. /\ \A n \in 1 .. Len(msgs') : n \in 1 .. Len(msgs) \/ n = Len(msgs) + 1
        /\ \A n \in 1 .. Len(msgs) : n \in 1 .. Len(msgs') /\ msgs'[n] = msgs[n]
    BY <1>5, <1>7 DEF Longer
  <1>9. Shape'
    <2>1. \A n \in 1 .. Len(msgs') :
            n \notin 1 .. Len(msgs) => msgs'[n].kind # "system"
      BY <1>4, <1>7, <1>8
    <2> QED  BY <1>1, <1>2, <1>7, <2>1, LongerShape
  <1>10. Calling'
    <2> SUFFICES ASSUME NEW i \in 1 .. Len(msgs'), msgs'[i].kind = "ai"
                 PROVE  \/ Answered(msgs', i)
                        \/ pc' \in {"answered", "tools"} /\ i = Len(msgs')
      BY <1>5 DEF Calling
    <2>1. CASE i \in 1 .. Len(msgs)
      <3>1. Answered(msgs, i)
        BY <1>2, <1>5, <1>8, <2>1 DEF Closed
      <3> QED  BY <1>2, <1>7, <2>1, <3>1, LongerAnswered
    <2>2. CASE i = Len(msgs) + 1
      BY <1>1, <1>7, <2>2
    <2> QED  BY <1>8, <2>1, <2>2
  <1>11. Waiting'
    BY <1>1, NoErrorsWait DEF Waiting
  <1>12. Reading'
    <2>1. Skills(msgs') = Skills(msgs)
      <3>1. \A n : n \in Skills(msgs') <=> n \in Skills(msgs)
        BY <1>4, <1>5, <1>7, <1>8 DEF Skills
      <3> QED  BY <3>1
    <2>2. AiCalls(msgs) \subseteq AiCalls(msgs')
      <3>1. ASSUME NEW id \in AiCalls(msgs) PROVE id \in AiCalls(msgs')
        <4>1. PICK i \in 1 .. Len(msgs) :
                msgs[i].kind = "ai" /\ id \in msgs[i].calls
          BY <1>2, InAiCalls
        <4> QED  BY <1>2, <1>8, <4>1, InAiCalls
      <3> QED  BY <3>1
    <2>3. AiCalls(msgs') \subseteq AiCalls(msgs) \cup r.calls
      <3>1. ASSUME NEW id \in AiCalls(msgs') PROVE id \in AiCalls(msgs) \cup r.calls
        <4>1. PICK i \in 1 .. Len(msgs') :
                msgs'[i].kind = "ai" /\ id \in msgs'[i].calls
          BY <1>2, InAiCalls
        <4> QED  BY <1>2, <1>4, <1>7, <1>8, <4>1, InAiCalls
      <3> QED  BY <3>1
    <2> DEFINE A == AiCalls(msgs) \cap SkillCalls
               B == AiCalls(msgs') \cap SkillCalls
               C == r.calls \cap SkillCalls
    <2>4. B \subseteq A \cup C
      BY <2>3
    <2>5. /\ IsFiniteSet(A) /\ IsFiniteSet(C) /\ Cardinality(C) \in Nat
          /\ Cardinality(A) \in Nat /\ Cardinality(B) \in Nat
          /\ Cardinality(Skills(msgs)) \in Nat
      BY <1>2, <1>3, SkillsFinite
    <2>6. Cardinality(Skills(msgs)) + Cardinality(A) <= reads
      BY <1>2 DEF Reading
    <2>7. reads' = reads + Cardinality(C)
      BY <1>1
    <2> HIDE DEF A, B, C
    <2>8. IsFiniteSet(A \cup C) /\ Cardinality(A \cap C) \in Nat
          /\ Cardinality(A \cup C) =
               Cardinality(A) + Cardinality(C) - Cardinality(A \cap C)
      <3>1. IsFiniteSet(A \cap C)
        BY <2>5, FS_Intersection
      <3> QED  BY <2>5, <3>1, FS_Union, FS_CardinalityType
    <2>9. Cardinality(B) <= Cardinality(A \cup C)
      BY <2>4, <2>8, FS_Subset
    <2>10. Cardinality(Skills(msgs)) + Cardinality(B) <= reads'
      BY <1>2, <2>5, <2>6, <2>7, <2>8, <2>9
    <2>11. learned' => Skills(msgs') \cup SkillsRead(msgs') # {}
      <3>1. SkillsRead(msgs) \subseteq SkillsRead(msgs')
        BY <1>7, <2>2 DEF SkillsRead
      <3>2. learned => Skills(msgs) \cup SkillsRead(msgs) # {}
        BY <1>2 DEF Reading
      <3> QED  BY <1>1, <2>1, <3>1, <3>2
    <2>12. /\ Skills(msgs') = Skills(msgs)' /\ AiCalls(msgs') = AiCalls(msgs)'
           /\ SkillsRead(msgs') = SkillsRead(msgs)'
      BY DEF Skills, AiCalls, SkillsRead, Answers
    <2>13. Cardinality(Skills(msgs')) + Cardinality(AiCalls(msgs') \cap SkillCalls)
             <= reads'
      BY <2>1, <2>10 DEF B
    <2> QED  BY <2>11, <2>12, <2>13 DEF Reading
  <1> QED  BY <1>7, <1>9, <1>10, <1>11, <1>12 DEF WholeInv

\* What a round at an AI message holds.
LEMMA AtAiMessage ==
  ASSUME Always, WholeInv, pc \in {"answered", "tools"}
  PROVE  /\ msgs \in Talk /\ msgs # <<>> /\ Ordered(msgs) /\ ~tips
         /\ Ending(msgs, Len(msgs)) /\ Len(msgs) \in 1 .. Len(msgs)
         /\ Last(msgs) = msgs[Len(msgs)] /\ Last(msgs).kind = "ai"
         /\ Ids(Last(msgs)) \cap Answers(msgs) = {}
         /\ \A i : Ending(msgs, i) => i = Len(msgs)
         /\ Last(msgs).calls \in SUBSET CallIds /\ IsFiniteSet(Last(msgs).calls)
         /\ Last(msgs).bad \in SUBSET CallIds /\ IsFiniteSet(Last(msgs).bad)
         /\ Last(msgs).calls \cap Last(msgs).bad = {}
         /\ \A i \in DOMAIN msgs :
              (msgs[i].kind = "ai" /\ i # Len(msgs)) => Answered(msgs, i)
  <1>1. /\ msgs \in Talk /\ msgs # <<>> /\ Ordered(msgs) /\ ~tips
        /\ Last(msgs).kind = "ai"
    BY DEF Always, WholeInv, Shape
  <1>2. /\ Ending(msgs, Len(msgs)) /\ Len(msgs) \in 1 .. Len(msgs)
        /\ Last(msgs) = msgs[Len(msgs)]
        /\ Ids(Last(msgs)) \cap Answers(msgs) = {}
        /\ \A i : Ending(msgs, i) => i = Len(msgs)
    BY <1>1, LastFresh
  <1>3. /\ Last(msgs).calls \in SUBSET CallIds /\ IsFiniteSet(Last(msgs).calls)
        /\ Last(msgs).bad \in SUBSET CallIds /\ IsFiniteSet(Last(msgs).bad)
    BY <1>1, LastIs
  <1>4. Last(msgs).calls \cap Last(msgs).bad = {}
    <2>1. DOMAIN msgs = 1 .. Len(msgs)
      BY <1>1, TalkTypes
    <2>2. msgs[Len(msgs)].calls \cap msgs[Len(msgs)].bad = {}
      BY <1>1, <1>2, <2>1 DEF Ordered, Forms
    <2> QED  BY <1>2, <2>2
  <1>5. \A i \in DOMAIN msgs :
          (msgs[i].kind = "ai" /\ i # Len(msgs)) => Answered(msgs, i)
    BY DEF WholeInv, Calling
  <1> QED  BY <1>1, <1>2, <1>3, <1>4, <1>5

LEMMA SeeWhole ==
  ASSUME Always, Always', WholeInv, SeeAnswer
  PROVE  WholeInv'
  <1>1. /\ pc = "answered" /\ msgs' = msgs /\ tips' = tips /\ reads' = reads
        /\ learned' = learned
        /\ toolErrors' = toolErrors \o ToolMsgs(Last(msgs).bad)
        /\ pc' = IF Last(msgs).calls = {} THEN "idle" ELSE "tools"
    BY DEF SeeAnswer, bounds
  <1>2. /\ msgs \in Talk /\ Ordered(msgs) /\ ~tips /\ Shape
        /\ Ending(msgs, Len(msgs)) /\ Len(msgs) \in 1 .. Len(msgs)
        /\ Last(msgs) = msgs[Len(msgs)]
        /\ Ids(Last(msgs)) \cap Answers(msgs) = {}
        /\ Last(msgs).bad \in SUBSET CallIds /\ IsFiniteSet(Last(msgs).bad)
        /\ \A i \in DOMAIN msgs :
             (msgs[i].kind = "ai" /\ i # Len(msgs)) => Answered(msgs, i)
        /\ DOMAIN msgs = 1 .. Len(msgs)
    BY <1>1, AtAiMessage, TalkTypes DEF WholeInv
  <1>3. toolErrors' = ToolMsgs(Last(msgs).bad)
    <2>1. toolErrors = <<>>
      BY <1>1 DEF WholeInv, Waiting
    <2>2. ToolMsgs(Last(msgs).bad) \in Talk
      BY <1>2, ToolMsgsAnswer
    <2> QED  BY <1>1, <2>1, <2>2, ConcatNothing
  <1>4. Shape' /\ Ordered(msgs')
    BY <1>1, <1>2 DEF Shape
  <1>5. Calling'
    <2> SUFFICES ASSUME NEW i \in DOMAIN msgs, msgs[i].kind = "ai",
                        ~Answered(msgs, i)
                 PROVE  pc' = "tools" /\ i = Len(msgs)
      BY <1>1 DEF Calling
    <2>1. i = Len(msgs)
      BY <1>2
    <2>2. Last(msgs).calls # {}
      BY <1>2, <2>1 DEF Answered
    <2> QED  BY <1>1, <2>1, <2>2
  <1>6. Waiting'
    <2>1. pc' # "answered"
      BY <1>1
    <2>2. /\ Ending(msgs', Len(msgs)) /\ Len(msgs) \in DOMAIN msgs'
          /\ toolErrors' = ToolMsgs(msgs'[Len(msgs)].bad)
      BY <1>1, <1>2, <1>3
    <2>3. msgs'[Len(msgs)].bad \cap Answers(msgs') = {}
      BY <1>1, <1>2 DEF Ids
    <2>4. \E i \in DOMAIN msgs' : /\ Ending(msgs', i)
                                  /\ toolErrors' = ToolMsgs(msgs'[i].bad)
                                  /\ msgs'[i].bad \cap Answers(msgs') = {}
      BY <2>2, <2>3
    <2> QED  BY <2>1, <2>4 DEF Waiting
  <1>7. Reading'
    BY <1>1 DEF WholeInv, Reading, Skills, AiCalls, SkillsRead, Answers
  <1> QED  BY <1>4, <1>5, <1>6, <1>7 DEF WholeInv

\* When some calls of the last AI message are answered, the others are pending.
LEMMA PendingLeft ==
  ASSUME Always, WholeInv, pc = "tools",
         NEW finished \in SUBSET Last(msgs).calls,
         NEW left, left = msgs \o ToolMsgs(finished)
  PROVE  /\ Answering(msgs, left, Len(msgs), finished)
         /\ Pending(left) = Last(msgs).calls \ finished
  <1>1. /\ msgs \in Talk /\ Ordered(msgs)
        /\ Ending(msgs, Len(msgs)) /\ Len(msgs) \in 1 .. Len(msgs)
        /\ Last(msgs) = msgs[Len(msgs)] /\ Last(msgs).kind = "ai"
        /\ Ids(Last(msgs)) \cap Answers(msgs) = {}
        /\ Last(msgs).calls \in SUBSET CallIds /\ IsFiniteSet(Last(msgs).calls)
    BY AtAiMessage
  <1>2. /\ finished \in SUBSET CallIds /\ IsFiniteSet(finished)
        /\ finished \subseteq Ids(msgs[Len(msgs)])
        /\ finished \cap Answers(msgs) = {}
    BY <1>1, FS_Subset DEF Ids
  <1>3. Answering(msgs, left, Len(msgs), finished)
    BY <1>1, <1>2, AnswersOrdered
  <1>4. Pending(left) = AiCalls(msgs) \ (Answers(msgs) \cup finished)
    BY <1>3 DEF Pending, Answering
  <1>5. ASSUME NEW id, id \in AiCalls(msgs), id \notin Answers(msgs)
        PROVE  id \in Last(msgs).calls
    <2>1. PICK i \in 1 .. Len(msgs) : msgs[i].kind = "ai" /\ id \in msgs[i].calls
      BY <1>1, <1>5, InAiCalls
    <2>2. ~Answered(msgs, i)
      BY <1>1, <1>5, <2>1, AnsweredCalls
    <2>3. i \in DOMAIN msgs
      BY <1>1, <2>1, TalkTypes
    <2>4. i = Len(msgs)
      BY <2>1, <2>2, <2>3, AtAiMessage
    <2> QED  BY <1>1, <2>1, <2>4
  <1>6. ASSUME NEW id \in Last(msgs).calls
        PROVE  id \in AiCalls(msgs) /\ id \notin Answers(msgs)
    <2>1. id \in AiCalls(msgs)
      BY <1>1, InAiCalls
    <2> QED  BY <1>1, <2>1 DEF Ids
  <1>7. Pending(left) = Last(msgs).calls \ finished
    BY <1>4, <1>5, <1>6
  <1> QED  BY <1>3, <1>7

\* Then all of them are answered, and the conversation stays whole.
LEMMA ToolsAnswered ==
  ASSUME Always, Always', WholeInv, pc = "tools",
         NEW finished \in SUBSET Last(msgs).calls,
         msgs' = Recover(msgs \o ToolMsgs(finished)),
         tips' = tips, toolErrors' = toolErrors, reads' = reads,
         pc' \in {"before", "idle"},
         learned' => learned \/ finished \cap SkillCalls # {}
  PROVE  WholeInv'
  <1> DEFINE left == msgs \o ToolMsgs(finished)
             rest == Last(msgs).calls \ finished
  <1>1. /\ msgs \in Talk /\ Ordered(msgs) /\ ~tips /\ Shape /\ Reading
        /\ Ending(msgs, Len(msgs)) /\ Len(msgs) \in 1 .. Len(msgs)
        /\ Last(msgs) = msgs[Len(msgs)] /\ Last(msgs).kind = "ai"
        /\ Ids(Last(msgs)) \cap Answers(msgs) = {}
        /\ Last(msgs).calls \in SUBSET CallIds /\ IsFiniteSet(Last(msgs).calls)
        /\ Last(msgs).calls \cap Last(msgs).bad = {}
        /\ msgs' \in Talk
    BY AtAiMessage DEF WholeInv, Always
  <1>2. /\ left \in Talk /\ Longer(msgs, left) /\ Ordered(left)
        /\ Ending(left, Len(msgs)) /\ left[Len(msgs)] = Last(msgs)
        /\ Answers(left) = Answers(msgs) \cup finished
        /\ AiCalls(left) = AiCalls(msgs)
        /\ Pending(left) = rest
        /\ \A id \in finished : \E n \in DOMAIN left :
             Behind(left, Len(msgs), n) /\ left[n] = ToolMsg(id)
        /\ \A n \in DOMAIN left : n \notin DOMAIN msgs => left[n].kind = "tool"
    <2>1. left = msgs \o ToolMsgs(finished)
      OBVIOUS
    <2> HIDE DEF left
    <2>2. /\ Answering(msgs, left, Len(msgs), finished)
          /\ Pending(left) = rest
      BY <2>1, PendingLeft
    <2> HIDE DEF rest
    <2> QED  BY <1>1, <2>2 DEF Answering
  <1> HIDE DEF left
  <1>3. msgs' = left \o ToolMsgs(rest)
    BY <1>2 DEF Recover, left
  <1>4. /\ rest \in SUBSET CallIds /\ IsFiniteSet(rest)
        /\ rest \subseteq Ids(left[Len(msgs)]) /\ rest \cap Answers(left) = {}
    <2>1. rest \subseteq Last(msgs).calls
      OBVIOUS
    <2>2. IsFiniteSet(rest)
      BY <1>1, <2>1, FS_Subset
    <2> QED  BY <1>1, <1>2, <2>1, <2>2 DEF Ids
  <1>5. finished \cup rest = Last(msgs).calls
    OBVIOUS
  <1> HIDE DEF rest
  <1>6. /\ Longer(left, msgs') /\ Ordered(msgs')
        /\ Ending(msgs', Len(msgs)) /\ msgs'[Len(msgs)] = left[Len(msgs)]
        /\ Answers(msgs') = Answers(left) \cup rest
        /\ AiCalls(msgs') = AiCalls(left)
        /\ \A id \in rest : \E n \in DOMAIN msgs' :
             Behind(msgs', Len(msgs), n) /\ msgs'[n] = ToolMsg(id)
        /\ \A n \in DOMAIN msgs' : n \notin DOMAIN left => msgs'[n].kind = "tool"
    <2>1. Answering(left, msgs', Len(msgs), rest)
      BY <1>2, <1>3, <1>4, AnswersOrdered
    <2> QED  BY <2>1 DEF Answering
  <1>7. /\ DOMAIN msgs = 1 .. Len(msgs) /\ DOMAIN left = 1 .. Len(left)
        /\ DOMAIN msgs' = 1 .. Len(msgs') /\ Len(msgs) \in Nat
        /\ Len(left) \in Nat /\ Len(msgs') \in Nat
        /\ Len(msgs) <= Len(left) /\ Len(left) <= Len(msgs')
        /\ \A n \in 1 .. Len(msgs) : left[n] = msgs[n]
        /\ \A n \in 1 .. Len(left) : msgs'[n] = left[n]
    BY <1>1, <1>2, <1>6, TalkTypes DEF Longer
  <1>8. /\ \A n \in 1 .. Len(msgs) : n \in 1 .. Len(left)
        /\ \A n \in 1 .. Len(left) : n \in 1 .. Len(msgs')
    BY <1>7
  <1>9. Longer(msgs, msgs')
    BY <1>7, <1>8 DEF Longer
  <1>10. \A n \in DOMAIN msgs' : n \notin DOMAIN msgs => msgs'[n].kind = "tool"
    <2> SUFFICES ASSUME NEW n \in 1 .. Len(msgs'), n \notin 1 .. Len(msgs)
                 PROVE  msgs'[n].kind = "tool"
      BY <1>7
    <2>1. CASE n \in 1 .. Len(left)
      <3>1. left[n].kind = "tool"
        BY <1>2, <1>7, <2>1
      <3>2. msgs'[n] = left[n]
        <4>1. Longer(left, msgs')
          BY <1>6
        <4> QED  BY <2>1, <4>1 DEF Longer
      <3> QED  BY <3>1, <3>2
    <2>2. CASE n \notin 1 .. Len(left)
      BY <1>6, <1>7, <2>2
    <2> QED  BY <2>1, <2>2
  <1>11. Answered(msgs', Len(msgs))
    <2> SUFFICES ASSUME NEW id \in Last(msgs).calls
                 PROVE  \E n \in DOMAIN msgs' :
                          Behind(msgs', Len(msgs), n) /\ msgs'[n] = ToolMsg(id)
      BY <1>2, <1>6 DEF Answered
    <2>1. CASE id \in rest
      BY <1>6, <2>1
    <2>2. CASE id \in finished
      <3>1. PICK n \in 1 .. Len(left) :
              Behind(left, Len(msgs), n) /\ left[n] = ToolMsg(id)
        BY <1>2, <1>7, <2>2
      <3>2. Len(msgs) \in 1 .. Len(left)
        BY <1>1, <1>8
      <3>3. Behind(msgs', Len(msgs), n)
        BY <1>1, <1>2, <1>6, <3>1, <3>2, LongerBehind
      <3>4. n \in DOMAIN msgs'
        BY <1>7, <1>8, <3>1
      <3>5. msgs'[n] = left[n]
        <4>1. Longer(left, msgs')
          BY <1>6
        <4> QED  BY <3>1, <4>1 DEF Longer
      <3>6. msgs'[n] = ToolMsg(id)
        BY <3>1, <3>5
      <3> QED  BY <3>3, <3>4, <3>6
    <2> QED  BY <1>5, <2>1, <2>2
  <1>12. \A i \in DOMAIN msgs : msgs[i].kind = "ai" => Answered(msgs', i)
    <2> SUFFICES ASSUME NEW i \in 1 .. Len(msgs), msgs[i].kind = "ai"
                 PROVE  Answered(msgs', i)
      BY <1>7
    <2>1. CASE i = Len(msgs)
      BY <1>11, <2>1
    <2>2. CASE i # Len(msgs)
      <3>1. Answered(msgs, i)
        BY <1>7, <2>2, AtAiMessage
      <3> QED  BY <1>1, <1>9, <3>1, LongerAnswered
    <2> QED  BY <2>1, <2>2
  <1>13. /\ Skills(msgs') = Skills(msgs) /\ Closed(msgs')
         /\ \A n \in 1 .. Len(msgs') :
              n \notin 1 .. Len(msgs) => msgs'[n].kind # "system"
    BY <1>1, <1>9, <1>10, <1>12, MoreAnswers
  <1>14. /\ Answers(msgs') = Answers(msgs) \cup Last(msgs).calls
         /\ AiCalls(msgs') = AiCalls(msgs)
    BY <1>2, <1>5, <1>6
  <1>15. Shape'
    BY <1>1, <1>9, <1>13, LongerShape
  <1>16. Calling'
    BY <1>13, ClosedCalling DEF Calling, Closed
  <1>17. Waiting'
    <2> SUFFICES ASSUME toolErrors # <<>>
                 PROVE  \E i \in DOMAIN msgs' :
                          /\ Ending(msgs', i)
                          /\ toolErrors = ToolMsgs(msgs'[i].bad)
                          /\ msgs'[i].bad \cap Answers(msgs') = {}
      BY DEF Waiting
    <2>1. PICK i \in DOMAIN msgs : /\ Ending(msgs, i)
                                   /\ toolErrors = ToolMsgs(msgs[i].bad)
                                   /\ msgs[i].bad \cap Answers(msgs) = {}
      BY DEF WholeInv, Waiting
    <2>2. i = Len(msgs)
      BY <2>1, AtAiMessage
    <2>3. toolErrors = ToolMsgs(Last(msgs).bad)
          /\ Last(msgs).bad \cap Answers(msgs) = {}
      BY <1>1, <2>1, <2>2
    <2>4. msgs'[Len(msgs)] = Last(msgs) /\ Len(msgs) \in DOMAIN msgs'
      BY <1>1, <1>2, <1>6, <1>7, <1>8
    <2>5. Last(msgs).bad \cap Answers(msgs') = {}
      BY <1>1, <1>14, <2>3
    <2> QED  BY <1>6, <2>3, <2>4, <2>5
  <1>18. Reading'
    <2>1. ASSUME finished \cap SkillCalls # {} PROVE SkillsRead(msgs') # {}
      <3>1. PICK id : id \in finished /\ id \in SkillCalls
        BY <2>1
      <3>2. id \in Answers(msgs')
        BY <1>5, <1>14, <3>1
      <3>3. id \in AiCalls(msgs')
        BY <1>1, <1>14, <3>1, InAiCalls
      <3> QED  BY <3>1, <3>2, <3>3 DEF SkillsRead
    <2>2. /\ Skills(msgs') = Skills(msgs)' /\ AiCalls(msgs') = AiCalls(msgs)'
          /\ SkillsRead(msgs') = SkillsRead(msgs)'
          /\ Answers(msgs') = Answers(msgs)'
      BY DEF Skills, AiCalls, SkillsRead, Answers
    <2>3. Answers(msgs) \subseteq Answers(msgs')
      BY <1>14
    <2> QED  BY <1>1, <1>13, <1>14, <2>1, <2>2, <2>3, ReadingKept
  <1> QED  BY <1>6, <1>15, <1>16, <1>17, <1>18 DEF WholeInv

LEMMA ReturnWhole ==
  ASSUME Always, Always', WholeInv, ToolsReturn
  PROVE  WholeInv'
  <1>1. /\ pc = "tools" /\ pc' = "before" /\ tips' = tips
        /\ toolErrors' = toolErrors /\ reads' = reads
        /\ msgs' = msgs \o ToolMsgs(Last(msgs).calls)
        /\ learned' = (learned \/ Last(msgs).calls \cap SkillCalls # {})
    BY DEF ToolsReturn, bounds
  <1> DEFINE finished == Last(msgs).calls
             left == msgs \o ToolMsgs(finished)
  <1>2. Pending(left) = finished \ finished /\ left \in Talk
    <2>1. finished \in SUBSET Last(msgs).calls /\ left = msgs \o ToolMsgs(finished)
      OBVIOUS
    <2> HIDE DEF left
    <2>2. /\ Answering(msgs, left, Len(msgs), finished)
          /\ Pending(left) = Last(msgs).calls \ finished
      BY <1>1, <2>1, PendingLeft
    <2> QED  BY <2>2 DEF Answering
  <1>3. Recover(left) = left
    <2> HIDE DEF left
    <2>1. Pending(left) = {}
      BY <1>2
    <2>2. Recover(left) = left \o <<>>
      BY <2>1, NoToolMsgs DEF Recover
    <2> QED  BY <1>2, <2>2, ConcatNothing
  <1>4. msgs' = Recover(msgs \o ToolMsgs(finished))
    BY <1>1, <1>3
  <1>5. /\ finished \in SUBSET Last(msgs).calls /\ pc' \in {"before", "idle"}
        /\ learned' => learned \/ finished \cap SkillCalls # {}
    BY <1>1
  <1> HIDE DEF finished
  <1> QED  BY <1>1, <1>4, <1>5, ToolsAnswered

LEMMA RaiseWhole ==
  ASSUME Always, Always', WholeInv, NEW finished \in SUBSET CallIds,
         NEW silent \in BOOLEAN, ToolsRaise(finished, silent), Whole'
  PROVE  WholeInv'
  <1> DEFINE left == msgs \o ToolMsgs(finished)
  <1>1. /\ pc = "tools" /\ pc' = "idle" /\ tips' = tips
        /\ toolErrors' = toolErrors /\ reads' = reads
        /\ finished \in SUBSET Last(msgs).calls
        /\ msgs' = IF silent THEN left ELSE Recover(left)
        /\ learned' = (learned \/ finished \cap SkillCalls # {})
    BY DEF ToolsRaise
  <1>2. silent => Pending(left) = {}
    <2>1. cut' = (cut \/ (silent /\ Pending(left) # {}))
      BY DEF ToolsRaise
    <2> QED  BY <2>1 DEF Whole
  <1>3. left \in Talk
    <2>1. left = msgs \o ToolMsgs(finished)
      OBVIOUS
    <2> HIDE DEF left
    <2>2. Answering(msgs, left, Len(msgs), finished)
      BY <1>1, <2>1, PendingLeft
    <2> QED  BY <2>2 DEF Answering
  <1>4. silent => Recover(left) = left
    <2> HIDE DEF left
    <2> SUFFICES ASSUME silent PROVE Recover(left) = left
      OBVIOUS
    <2>1. Recover(left) = left \o <<>>
      BY <1>2, NoToolMsgs DEF Recover
    <2> QED  BY <1>3, <2>1, ConcatNothing
  <1>5. msgs' = Recover(msgs \o ToolMsgs(finished))
    BY <1>1, <1>4
  <1>6. /\ pc' \in {"before", "idle"}
        /\ learned' => learned \/ finished \cap SkillCalls # {}
    BY <1>1
  <1> HIDE DEF left
  <1> QED  BY <1>1, <1>5, <1>6, ToolsAnswered

LEMMA FailsWhole ==
  ASSUME Always, WholeInv, ModelRaises \/ BeforeRaises
  PROVE  WholeInv'
  <1>1. /\ pc \in {"model", "before"} /\ pc' = "idle" /\ msgs' = Recover(msgs)
        /\ tips' = tips /\ toolErrors' = toolErrors /\ reads' = reads
        /\ learned' = learned
    <2>1. CASE ModelRaises
      BY <2>1 DEF ModelRaises
    <2>2. CASE BeforeRaises
      BY <2>2 DEF BeforeRaises, Trimming
    <2> QED  BY <2>1, <2>2
  <1>2. msgs \in Talk /\ Closed(msgs)
    BY <1>1, CallingClosed DEF Always, WholeInv
  <1>3. msgs' = msgs
    BY <1>1, <1>2, ClosedRecovers
  <1> QED  BY <1>1, <1>2, <1>3, MovesOn

LEMMA InterruptWhole ==
  ASSUME Always, WholeInv, Interrupt, Whole'
  PROVE  WholeInv'
  <1>1. /\ pc \in {"before", "model", "answered", "tools"} /\ pc' = "idle"
        /\ msgs' = msgs /\ tips' = tips /\ toolErrors' = toolErrors
        /\ reads' = reads /\ learned' = learned
    BY DEF Interrupt
  <1>2. Pending(msgs) = {}
    <2>1. cut' = (cut \/ Pending(msgs) # {}
                      \/ (pc = "answered" /\ Last(msgs).bad # {}))
      BY DEF Interrupt
    <2> QED  BY <2>1 DEF Whole
  <1>3. Closed(msgs)
    <2>1. CASE pc \in {"before", "model"}
      BY <2>1, CallingClosed DEF Always, WholeInv
    <2>2. CASE pc \in {"answered", "tools"}
      <3>1. /\ msgs \in Talk /\ Last(msgs).kind = "ai"
            /\ Len(msgs) \in 1 .. Len(msgs) /\ Last(msgs) = msgs[Len(msgs)]
            /\ Ids(Last(msgs)) \cap Answers(msgs) = {}
            /\ \A i \in DOMAIN msgs :
                 (msgs[i].kind = "ai" /\ i # Len(msgs)) => Answered(msgs, i)
        BY <2>2, AtAiMessage
      <3>2. ASSUME NEW id \in Last(msgs).calls PROVE FALSE
        <4>1. id \in AiCalls(msgs)
          BY <3>1, InAiCalls
        <4>2. id \notin Answers(msgs)
          BY <3>1 DEF Ids
        <4> QED  BY <1>2, <4>1, <4>2 DEF Pending
      <3>3. Answered(msgs, Len(msgs))
        BY <3>1, <3>2 DEF Answered
      <3> QED  BY <3>1, <3>3 DEF Closed
    <2> QED  BY <1>1, <2>1, <2>2
  <1> QED  BY <1>1, <1>3, MovesOn

LEMMA NothingWhole ==
  ASSUME Always, WholeInv, NEW exceed \in BOOLEAN, BeforeNothing(exceed)
  PROVE  /\ WholeInv'
         /\ Len(msgs') <= 1 + MaxKeep
  <1>1. /\ pc = "before" /\ pc' = "model" /\ msgs' = msgs /\ tips' = tips
        /\ toolErrors' = toolErrors /\ reads' = reads /\ learned' = learned
        /\ reset = "no" /\ ~arbit /\ ~Trimming(exceed)
    BY DEF BeforeNothing, bounds
  <1>2. msgs \in Talk /\ Closed(msgs)
    BY <1>1, CallingClosed DEF Always, WholeInv
  <1>3. WholeInv'
    BY <1>1, <1>2, MovesOn
  <1>4. /\ Rest \in Talk /\ Len(Rest) = Len(msgs) - 1 /\ Len(Rest) \in Nat
        /\ Len(msgs) \in Nat
    BY <1>1, <1>2, RestWhole, TalkTypes
  <1>5. MaxKeep \in Nat /\ TailKeep \in Nat /\ TailKeep <= MaxKeep
    BY KeepAssumption
  <1>6. ~(Len(Rest) > MaxKeep) \/ ~(TrimCut > 0)
    BY <1>1 DEF Trimming
  <1>7. Len(Rest) > TailKeep => TrimCut > 0
    BY <1>1, TrimCutOf
  <1>8. Len(Rest) <= MaxKeep
    BY <1>4, <1>5, <1>6, <1>7
  <1>9. Len(msgs') <= 1 + MaxKeep
    BY <1>1, <1>4, <1>5, <1>8
  <1> QED  BY <1>3, <1>9

----------------------------------------------------------------------------
(* The invariant holds of every behavior. *)

\* The bound of ContextBounded.
Most == Max({MaxKeep, reads + 1 + TailKeep + CallsAtOnce,
             1 + ResetKeep + CallsAtOnce})

LEMMA MostIs ==
  ASSUME reads \in Nat
  PROVE  /\ Most \in Nat
         /\ 1 + MaxKeep <= 1 + Most
         /\ 2 + reads + TailKeep + CallsAtOnce <= 1 + Most
         /\ 2 + ResetKeep + CallsAtOnce <= 1 + Most
  <1> DEFINE a == MaxKeep
             b == reads + 1 + TailKeep + CallsAtOnce
             c == 1 + ResetKeep + CallsAtOnce
             S == {a, b, c}
  <1>1. a \in Nat /\ b \in Nat /\ c \in Nat
    BY KeepAssumption DEF CallsAtOnce, ResetKeep
  <1>2. /\ 2 + reads + TailKeep + CallsAtOnce = 1 + b
        /\ 2 + ResetKeep + CallsAtOnce = 1 + c
    BY KeepAssumption DEF CallsAtOnce, ResetKeep
  <1>3. Most = Max(S)
    BY DEF Most
  <1> HIDE DEF a, b, c
  <1>4. /\ S \in SUBSET Nat /\ S # {} /\ a + b + c \in Nat
    BY <1>1
  <1>5. \A x \in S : x <= a + b + c
    BY <1>1
  <1>6. Max(S) \in S /\ \A x \in S : Max(S) >= x
    BY <1>4, <1>5, MaxOf
  <1>7. Most \in Nat /\ Most >= a /\ Most >= b /\ Most >= c
    BY <1>1, <1>3, <1>6
  <1>8. 1 + a <= 1 + Most /\ 1 + b <= 1 + Most /\ 1 + c <= 1 + Most
    BY <1>1, <1>7
  <1> QED  BY <1>2, <1>7, <1>8 DEF a

LEMMA InitWhole == Init => WholeInv
  <1> SUFFICES ASSUME Init PROVE WholeInv
    OBVIOUS
  <1>1. msgs = <<>> /\ toolErrors = <<>> /\ pc = "idle" /\ tips = TRUE
        /\ reads = 0 /\ learned = FALSE
    BY DEF Init
  <1>2. msgs \in Talk /\ DOMAIN msgs = {}
    BY <1>1, InitAlways DEF Always
  <1>3. Shape /\ Ordered(msgs) /\ Calling /\ Waiting
    BY <1>1, <1>2 DEF Shape, Ordered, Forms, Asked, Distinct, Once, Calling,
                     Waiting
  <1>4. Skills(msgs) = {} /\ AiCalls(msgs) \cap SkillCalls = {}
    BY <1>2 DEF Skills, AiCalls
  <1>5. Cardinality({}) = 0 /\ 0 + 0 <= 0
    BY FS_EmptySet
  <1>6. Reading
    BY <1>1, <1>4, <1>5 DEF Reading
  <1> QED  BY <1>3, <1>6 DEF WholeInv

LEMMA WholeStep ==
  ASSUME Always, Always', WholeInv, Next, Whole',
         pc = "model" => Len(msgs) <= 1 + Most
  PROVE  /\ WholeInv'
         /\ pc' = "model" => Len(msgs') <= 1 + Most'
  <1>1. /\ reads \in Nat /\ Most \in Nat
        /\ 1 + MaxKeep <= 1 + Most
        /\ 2 + reads + TailKeep + CallsAtOnce <= 1 + Most
        /\ 2 + ResetKeep + CallsAtOnce <= 1 + Most
    <2>1. reads \in Nat
      BY BoundsAssumption DEF Always, TypeOK
    <2> QED  BY <2>1, MostIs
  <1>2. reads' = reads => Most' = Most
    BY DEF Most
  <1>3. /\ Len(msgs') \in Nat /\ MaxKeep \in Nat /\ TailKeep \in Nat
        /\ ResetKeep \in Nat /\ CallsAtOnce \in Nat
    BY TalkTypes, KeepAssumption DEF Always, ResetKeep, CallsAtOnce
  <1>4. CASE StartRound
    BY <1>4, StartWhole DEF StartRound
  <1>5. CASE Chat
    BY <1>5, ChatWhole DEF Chat
  <1>6. CASE BeforeReset
    <2>1. WholeInv' /\ Len(msgs') <= 2 + ResetKeep + CallsAtOnce
      BY <1>6, ResetWhole
    <2>2. Most' = Most
      BY <1>2, <1>6 DEF BeforeReset, bounds
    <2>3. Len(msgs') <= 1 + Most
      BY <1>1, <1>3, <2>1
    <2> QED  BY <2>1, <2>2, <2>3
  <1>7. ASSUME NEW exceed \in BOOLEAN, BeforeTrim(exceed)
        PROVE  WholeInv' /\ (pc' = "model" => Len(msgs') <= 1 + Most')
    <2>1. WholeInv' /\ Len(msgs') <= 2 + reads + TailKeep + CallsAtOnce
      BY <1>7, TrimWhole
    <2>2. Most' = Most
      BY <1>2, <1>7 DEF BeforeTrim, bounds
    <2>3. Len(msgs') <= 1 + Most
      BY <1>1, <1>3, <2>1
    <2> QED  BY <2>1, <2>2, <2>3
  <1>8. ASSUME NEW exceed \in BOOLEAN, BeforeNothing(exceed)
        PROVE  WholeInv' /\ (pc' = "model" => Len(msgs') <= 1 + Most')
    <2>1. WholeInv' /\ Len(msgs') <= 1 + MaxKeep
      BY <1>8, NothingWhole
    <2>2. Most' = Most
      BY <1>2, <1>8 DEF BeforeNothing, bounds
    <2>3. Len(msgs') <= 1 + Most
      BY <1>1, <1>3, <2>1
    <2> QED  BY <2>1, <2>2, <2>3
  <1>9. CASE BeforeSummary
    BY <1>9 DEF BeforeSummary, Whole
  <1>10. ASSUME NEW r \in Requests, ModelReturns(r.calls, r.bad)
         PROVE  WholeInv' /\ (pc' = "model" => Len(msgs') <= 1 + Most')
    <2>1. pc' # "model"
      BY <1>10 DEF ModelReturns
    <2> QED  BY <1>10, <2>1, ModelWhole
  <1>11. CASE SeeAnswer
    BY <1>11, SeeWhole DEF SeeAnswer
  <1>12. CASE ToolsReturn
    BY <1>12, ReturnWhole DEF ToolsReturn
  <1>13. ASSUME NEW finished \in SUBSET CallIds, NEW silent \in BOOLEAN,
                ToolsRaise(finished, silent)
         PROVE  WholeInv' /\ (pc' = "model" => Len(msgs') <= 1 + Most')
    <2>1. pc' # "model"
      BY <1>13 DEF ToolsRaise
    <2> QED  BY <1>13, <2>1, RaiseWhole
  <1>14. CASE ModelRaises \/ BeforeRaises
    <2>1. pc' # "model"
      BY <1>14 DEF ModelRaises, BeforeRaises
    <2> QED  BY <1>14, <2>1, FailsWhole
  <1>15. CASE Interrupt
    BY <1>15, InterruptWhole DEF Interrupt
  <1>16. ASSUME NEW force \in BOOLEAN, ResetChat(force)
         PROVE  WholeInv' /\ (pc' = "model" => Len(msgs') <= 1 + Most')
    <2>1. UNCHANGED <<msgs, tips, toolErrors, reads, learned>> /\ pc' = pc
      BY <1>16 DEF ResetChat
    <2> QED  BY <1>2, <2>1, StaysWhole
  <1>17. CASE SetArbitSummary
    <2>1. UNCHANGED <<msgs, tips, toolErrors, reads, learned>> /\ pc' = pc
      BY <1>17 DEF SetArbitSummary
    <2> QED  BY <1>2, <2>1, StaysWhole
  <1> QED  BY <1>4, <1>5, <1>6, <1>7, <1>8, <1>9, <1>10, <1>11, <1>12, <1>13,
              <1>14, <1>15, <1>16, <1>17 DEF Next

LEMMA IInvParts ==
  IInv <=> /\ Always
           /\ Whole => WholeInv
           /\ Whole => (pc = "model" => Len(msgs) <= 1 + Most)
  BY DEF IInv, WholeInv, ContextBounded, Most

LEMMA NextKeepsIInv ==
  ASSUME IInv, Next
  PROVE  IInv'
  <1>1. Always /\ (Whole => WholeInv)
        /\ (Whole => (pc = "model" => Len(msgs) <= 1 + Most))
    BY IInvParts
  <1>2. Always'
    BY <1>1, AlwaysStep
  <1>3. Whole' => WholeInv' /\ (pc' = "model" => Len(msgs') <= 1 + Most')
    BY <1>1, <1>2, WholeBefore, WholeStep
  <1>4. (/\ Always
         /\ Whole => WholeInv
         /\ Whole => (pc = "model" => Len(msgs) <= 1 + Most))'
    BY <1>2, <1>3
  <1> QED  BY <1>4 DEF IInv, WholeInv, ContextBounded, Most

LEMMA StutterKeepsIInv ==
  ASSUME IInv, UNCHANGED vars
  PROVE  IInv'
  <1>1. /\ msgs' = msgs /\ pc' = pc /\ tips' = tips /\ toolErrors' = toolErrors
        /\ reset' = reset /\ arbit' = arbit /\ faults' = faults
        /\ orders' = orders /\ reads' = reads /\ cut' = cut /\ early' = early
        /\ replaced' = replaced /\ learned' = learned
    BY DEF vars, bounds, history
  <1>2. Always' /\ (Whole' <=> Whole)
    BY <1>1 DEF IInv, Always, TypeOK, Whole
  <1>3. Whole => WholeInv'
    <2> SUFFICES ASSUME WholeInv PROVE WholeInv'
      BY IInvParts
    <2> QED  BY <1>1, StaysWhole
  <1>4. Most' = Most
    BY <1>1 DEF Most
  <1>5. (/\ Always
         /\ Whole => WholeInv
         /\ Whole => (pc = "model" => Len(msgs) <= 1 + Most))'
    BY <1>1, <1>2, <1>3, <1>4, IInvParts
  <1> QED  BY <1>5 DEF IInv, WholeInv, ContextBounded, Most

\* The inductive invariant: in every state the variables have their types, and
\* a whole conversation is in shape, with every call answered but those that
\* run and those that wait for the next round.
THEOREM InvariantHolds == Spec => []IInv
  <1>1. Init => IInv
    <2> SUFFICES ASSUME Init PROVE IInv
      OBVIOUS
    <2>1. Always /\ WholeInv
      BY InitAlways, InitWhole
    <2>2. pc # "model"
      BY DEF Init
    <2> QED  BY <2>1, <2>2, IInvParts
  <1>2. IInv /\ [Next]_vars => IInv'
    BY NextKeepsIInv, StutterKeepsIInv
  <1> QED  BY <1>1, <1>2, PTL DEF Spec

\* What the model is called with satisfies the provider's rules.
LEMMA AnsweredIsCallsAnswered ==
  ASSUME NEW ms \in Talk, Ordered(ms), Closed(ms)
  PROVE  CallsAnswered(ms)
  <1>1. DOMAIN ms = 1 .. Len(ms) /\ Len(ms) \in Nat
    BY TalkTypes
  <1>2. ASSUME NEW i \in 1 .. Len(ms), NEW j \in 1 .. Len(ms), Behind(ms, i, j)
        PROVE  ms[j] \in Replies(ms, i)
    <2>1. j \in i + 1 .. Len(ms) /\ \A l \in i + 1 .. j : ms[l].kind = "tool"
      BY <1>1, <1>2 DEF Behind
    <2> QED  BY <2>1 DEF Replies
  <1>3. ASSUME NEW i \in 1 .. Len(ms), ms[i].kind = "ai", NEW id \in ms[i].calls
        PROVE  ToolMsg(id) \in Replies(ms, i)
    <2>1. PICK j \in 1 .. Len(ms) : Behind(ms, i, j) /\ ms[j] = ToolMsg(id)
      BY <1>1, <1>3 DEF Closed, Answered
    <2> QED  BY <1>2, <2>1
  <1>4. ASSUME NEW j \in 1 .. Len(ms), ms[j].kind = "tool"
        PROVE  \E i \in 1 .. Len(ms) :
                 /\ ms[i].kind = "ai" /\ i < j
                 /\ ms[j].calls \subseteq ms[i].calls \cup ms[i].bad
                 /\ ms[j] \in Replies(ms, i)
    <2>1. PICK i \in 1 .. Len(ms) :
            /\ ms[i].kind = "ai" /\ Behind(ms, i, j)
            /\ ms[j].calls \subseteq Ids(ms[i])
      BY <1>1, <1>4 DEF Ordered, Asked
    <2>2. i < j
      BY <2>1 DEF Behind
    <2> QED  BY <1>2, <2>1, <2>2 DEF Ids
  <1> QED  BY <1>1, <1>3, <1>4 DEF CallsAnswered

LEMMA HumanComesFirst ==
  ASSUME Always, WholeInv, pc = "model"
  PROVE  LET talk == {i \in DOMAIN msgs : msgs[i].kind # "system"}
         IN  msgs[Min(talk)].kind \in Human
  <1> DEFINE talk == {i \in DOMAIN msgs : msgs[i].kind # "system"}
  <1>1. /\ Len(msgs) >= 2 /\ msgs[1].kind = "system" /\ msgs[2].kind \in Human
    BY DEF WholeInv, Shape
  <1>2. DOMAIN msgs = 1 .. Len(msgs) /\ Len(msgs) \in Nat
    BY TalkTypes DEF Always
  <1>3. 2 \in talk /\ 1 \notin talk /\ talk \in SUBSET Nat
        /\ \A i \in talk : i >= 1
    BY <1>1, <1>2 DEF Human
  <1> HIDE DEF talk
  <1>4. Min(talk) \in talk /\ Min(talk) <= 2
    BY <1>3, MinOf
  <1>5. Min(talk) = 2
    <2>1. Min(talk) \in Nat /\ Min(talk) >= 1 /\ Min(talk) # 1
      BY <1>3, <1>4
    <2> QED  BY <1>4, <2>1
  <1>6. msgs[Min(talk)].kind \in Human
    BY <1>1, <1>5
  <1> QED  BY <1>6 DEF talk

\* Whatever is cut, trimmed, reset, or repaired after an error: when the model
\* is called with a whole conversation, every tool call has its answer right
\* after it, every answer its call, and a human message comes first.
THEOREM EveryCallAnswered == Spec => []CallsHaveAnswers
  <1>1. IInv => CallsHaveAnswers
    <2> SUFFICES ASSUME IInv PROVE CallsHaveAnswers
      OBVIOUS
    <2>1. Always /\ (Whole => WholeInv)
      BY IInvParts
    <2>2. ASSUME pc = "model", Whole
          PROVE  /\ CallsAnswered(msgs)
                 /\ msgs[Min({i \in DOMAIN msgs : msgs[i].kind # "system"})].kind
                      \in Human
      <3>1. WholeInv /\ msgs \in Talk
        BY <2>1, <2>2 DEF Always
      <3>2. Ordered(msgs) /\ Closed(msgs)
        BY <2>2, <3>1, CallingClosed DEF WholeInv
      <3>3. CallsAnswered(msgs)
        BY <3>1, <3>2, AnsweredIsCallsAnswered
      <3> QED  BY <2>1, <2>2, <3>1, <3>3, HumanComesFirst
    <2>3. TypeOK
      BY <2>1 DEF Always
    <2> QED  BY <2>2, <2>3 DEF CallsHaveAnswers
  <1> QED  BY <1>1, InvariantHolds, PTL

\* What was read of a SKILL.md is before the model until a reset, as a message
\* retained or as the read with its answer, however often the messages are
\* trimmed.
THEOREM SkillsStay == Spec => []SkillsKept
  <1>1. IInv => SkillsKept
    BY DEF IInv, Reading, SkillsKept
  <1> QED  BY <1>1, InvariantHolds, PTL

\* The model never gets more messages than the limits allow, whatever the
\* limits are.
THEOREM ContextStaysBounded == Spec => []ContextBounded
  <1>1. IInv => ContextBounded
    BY DEF IInv
  <1> QED  BY <1>1, InvariantHolds, PTL
=============================================================================
