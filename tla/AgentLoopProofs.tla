--------------------------- MODULE AgentLoopProofs ---------------------------
(***************************************************************************)
(* Theorems about AgentLoop for any threads and bounds.                    *)
(***************************************************************************)
EXTENDS AgentLoop, SequenceTheorems, TLAPS

USE ThreadsAssumption, BoundsAssumption

----------------------------------------------------------------------------
(* The invariants.                                                         *)

\* A thread without a command has no marks; a loop goes on only while it has
\* retries left; only a round under way has called Exit.
Row(th) ==
  /\ IF th.pc = "idle" THEN ~th.chosen ELSE th.cmd # "none"
  /\ th.pc = "ending" => th.out # "none"
  /\ th.pc = "delay" => th.cmd = "loop"
  /\ th.pc \in {"go", "work", "ending", "delay"} /\ th.cmd = "loop" => th.tries # 0
  /\ th.asked => th.pc = "work"

Threaded == \A t \in Threads : Row(thread[t])

\* One round at a time, and the work is busy while one is under way.
Rounds ==
  ~overlapped =>
    /\ \A t, u \in Threads : InRound(t) /\ InRound(u) => t = u
    /\ \A t \in Threads : thread[t].pc = "work" => busy

\* No exit is about to be queued while the round that called Exit is under way.
Asks == exit.pc = "queue" /\ ~overlapped => \A t \in Threads : ~thread[t].asked

\* The commands that are registered are those that run.
Registered ==
  /\ \A i \in DOMAIN running : thread[running[i]].pc # "idle"
  /\ \A i, j \in DOMAIN running : running[i] = running[j] => i = j

Marks == late \/ \A t \in breaks : thread[t].chosen

Inv == TypeOK /\ Threaded /\ Rounds /\ Asks /\ Registered /\ Marks

----------------------------------------------------------------------------
(* A command.                                                              *)

\* The command of thread t goes on as x, or is over.
Moves(t, x) ==
  /\ thread' = [thread EXCEPT ![t] = x]
  /\ \/ running' = running /\ (x.pc = "idle" => thread[t].pc = "idle")
     \/ running' = Append(running, t) /\ thread[t].pc = "idle" /\ x.pc # "idle"
     \/ Unregister(t)
  /\ breaks' \subseteq breaks
  /\ t \in breaks' => x.chosen = thread[t].chosen

LEMMA IdleRow == Idle \in Thread /\ Row(Idle) /\ ~Idle.asked /\ Idle.pc = "idle"
  BY DEF Idle, Thread, Row

LEMMA Removed ==
  ASSUME running \in Seq(Threads), NEW t, Unregister(t)
  PROVE  /\ running' \in Seq(Threads)
         /\ \E i \in 1 .. Len(running) :
              /\ running[i] = t
              /\ Len(running') = Len(running) - 1
              /\ \A k \in 1 .. Len(running) - 1 :
                   running'[k] = running[IF k < i THEN k ELSE k + 1]
  <1>1. PICK i \in DOMAIN running :
          /\ running[i] = t
          /\ running' = SubSeq(running, 1, i - 1) \o SubSeq(running, i + 1, Len(running))
    BY DEF Unregister
  <1>2. i \in 1 .. Len(running) /\ Len(running) \in Nat
    OBVIOUS
  <1> DEFINE p == SubSeq(running, 1, i - 1)
             q == SubSeq(running, i + 1, Len(running))
  <1>3. /\ p \in Seq(Threads) /\ Len(p) = i - 1
        /\ \A k \in 1 .. i - 1 : p[k] = running[k]
    BY <1>2, SubSeqProperties
  <1>4. /\ q \in Seq(Threads) /\ Len(q) = Len(running) - i
        /\ \A k \in 1 .. Len(running) - i : q[k] = running[i + k]
    BY <1>2, SubSeqProperties
  <1> HIDE DEF p, q
  <1>5. running' = p \o q
    BY <1>1 DEF p, q
  <1>6. Len(p) + Len(q) = Len(running) - 1
    BY <1>2, <1>3, <1>4
  <1>7. /\ p \o q \in Seq(Threads) /\ Len(p \o q) = Len(running) - 1
        /\ \A k \in 1 .. Len(running) - 1 :
             (p \o q)[k] = IF k <= Len(p) THEN p[k] ELSE q[k - Len(p)]
    <2>1. p \in Seq(Threads) /\ q \in Seq(Threads)
      BY <1>3, <1>4
    <2>2. /\ p \o q \in Seq(Threads)
          /\ Len(p \o q) = Len(p) + Len(q)
          /\ \A k \in 1 .. Len(p) + Len(q) :
               (p \o q)[k] = IF k <= Len(p) THEN p[k] ELSE q[k - Len(p)]
      BY <2>1, ConcatProperties, Zenon
    <2> QED  BY <1>6, <2>2, Zenon
  <1>8. ASSUME NEW k \in 1 .. Len(running) - 1
        PROVE  running'[k] = running[IF k < i THEN k ELSE k + 1]
    <2>1. CASE k < i
      <3>1. k <= Len(p) /\ k \in 1 .. i - 1
        BY <1>2, <1>3, <2>1
      <3> QED  BY <1>3, <1>5, <1>7, <2>1, <3>1
    <2>2. CASE ~(k < i)
      <3>1. ~(k <= Len(p)) /\ k - Len(p) \in 1 .. Len(running) - i
            /\ i + (k - Len(p)) = k + 1
        BY <1>2, <1>3, <2>2
      <3>2. running'[k] = q[k - Len(p)]
        BY <1>5, <1>7, <3>1
      <3> QED  BY <1>4, <2>2, <3>1, <3>2
    <2> QED  BY <2>1, <2>2
  <1> QED  BY <1>1, <1>2, <1>5, <1>7, <1>8

LEMMA Finishes ==
  ASSUME TypeOK, NEW t \in Threads, Finish(t)
  PROVE  Moves(t, Idle)
  BY DEF TypeOK, Finish, Moves

LEMMA GoesOn ==
  ASSUME TypeOK, NEW t \in Threads, NEW th \in Thread, th.chosen = thread[t].chosen,
         thread[t].pc # "idle", th.cmd = "loop" => th.tries # 0, th.cmd # "none", ~th.asked, NextRound(t, th)
  PROVE  \E x \in Thread : /\ Moves(t, x) /\ Row(x) /\ ~x.asked
                           /\ x.pc \notin {"work", "ending"}
  <1>1. CASE isExit
    BY <1>1, Finishes, IdleRow DEF NextRound
  <1>2. CASE ~isExit
    <2> DEFINE x == [th EXCEPT !.pc = "go"]
    <2>1. /\ x \in Thread /\ x.pc = "go" /\ x.cmd = th.cmd /\ x.tries = th.tries
          /\ x.chosen = th.chosen /\ x.asked = th.asked
      BY DEF Thread
    <2>2. thread' = [thread EXCEPT ![t] = x] /\ UNCHANGED <<running, breaks>>
      BY <1>2 DEF NextRound
    <2> HIDE DEF x
    <2>3. Moves(t, x) /\ Row(x)
      BY <2>1, <2>2 DEF Moves, Row, TypeOK
    <2> QED  BY <2>1, <2>3
  <1> QED  BY <1>1, <1>2

\* What a step of a command leaves.
Leaves(t, x) ==
  /\ Moves(t, x) /\ Row(x) /\ ~x.asked
  /\ x.pc = "work" => busy' /\ (overlapped' \/ \A u \in Threads : ~InRound(u))
  /\ x.pc = "ending" => thread[t].pc = "work"

LEMMA CommandMoves ==
  ASSUME TypeOK, Threaded, NEW t \in Threads,
         (\E cmd \in {"loop", "chat"} : Run(t, cmd)) \/ ThreadStep(t)
  PROVE  \E x \in Thread : Leaves(t, x)
  <1> DEFINE th == thread[t]
  <1>0. th \in Thread /\ Row(th) /\ running \in Seq(Threads)
    BY DEF TypeOK, Threaded
  <1>1. Finish(t) => \E x \in Thread : Leaves(t, x)
    BY Finishes, IdleRow DEF Leaves
  <1>2. \A d \in Thread : /\ NextRound(t, d) /\ d.chosen = th.chosen /\ ~d.asked
                          /\ d.cmd # "none" /\ (d.cmd = "loop" => d.tries # 0)
                          /\ th.pc # "idle"
                          => \E x \in Thread : Leaves(t, x)
    BY GoesOn DEF Leaves
  <1>3. ASSUME NEW x \in Thread, thread' = [thread EXCEPT ![t] = x],
               x.chosen = th.chosen, UNCHANGED <<running, breaks>>,
               x.pc = "idle" => th.pc = "idle"
        PROVE  Moves(t, x)
    BY <1>3 DEF Moves
  <1>4. ASSUME NEW cmd \in {"loop", "chat"}, Run(t, cmd)
        PROVE  \E x \in Thread : Leaves(t, x)
    <2> DEFINE x == [Idle EXCEPT !.pc = "begin", !.cmd = cmd]
    <2>1. x \in Thread /\ x.pc = "begin" /\ ~x.chosen /\ ~x.asked /\ x.cmd = cmd
      <3>1. Idle \in Thread /\ ~Idle.chosen /\ ~Idle.asked
        BY IdleRow DEF Idle
      <3> QED  BY <3>1 DEF Thread
    <2>2. thread' = [thread EXCEPT ![t] = x] /\ ~th.chosen
      BY <1>0, <1>4 DEF Run, Row
    <2>3. running' = Append(running, t) /\ breaks' = breaks /\ th.pc = "idle"
      BY <1>4 DEF Run
    <2>4. x.chosen = th.chosen
      BY <1>0, <2>1, <2>2 DEF Thread
    <2> HIDE DEF x
    <2>5. Moves(t, x)
      BY <2>1, <2>2, <2>3, <2>4 DEF Moves
    <2> QED  BY <2>1, <2>5 DEF Leaves, Row
  <1>5. CASE Begin(t)
    <2>1. CASE th.cmd = "chat"
      <3> DEFINE x == [th EXCEPT !.pc = "go"]
      <3>1. x \in Thread /\ x.pc = "go" /\ x.cmd = "chat" /\ x.chosen = th.chosen /\ ~x.asked
        BY <1>0, <1>5, <2>1 DEF Thread, Row, Begin
      <3>2. thread' = [thread EXCEPT ![t] = x] /\ UNCHANGED <<running, breaks>>
        BY <1>5, <2>1 DEF Begin, Goes
      <3> HIDE DEF x
      <3>3. Moves(t, x)
        BY <1>0, <1>3, <3>1, <3>2
      <3> QED  BY <3>1, <3>3 DEF Leaves, Row
    <2>2. CASE th.cmd # "chat"
      <3> DEFINE d == [th EXCEPT !.tries = MaxRetry]
      <3>1. d \in Thread /\ d.chosen = th.chosen /\ ~d.asked /\ d.tries # 0 /\ d.cmd # "none"
        BY <1>0, <1>5 DEF Thread, Row, Begin
      <3>2. NextRound(t, d)
        BY <1>5, <2>2 DEF Begin
      <3>3. th.pc # "idle"
        BY <1>5 DEF Begin
      <3> HIDE DEF d, th
      <3> QED  BY <1>2, <3>1, <3>2, <3>3
    <2> QED  BY <2>1, <2>2
  <1>6. CASE Go(t)
    <2> DEFINE x == [th EXCEPT !.pc = "work"]
    <2>1. /\ x \in Thread /\ x.pc = "work" /\ x.chosen = th.chosen /\ ~x.asked
          /\ x.cmd = th.cmd /\ x.tries = th.tries
      BY <1>0, <1>6 DEF Thread, Row, Go
    <2>2. /\ thread' = [thread EXCEPT ![t] = x] /\ UNCHANGED <<running, breaks>>
          /\ busy' /\ overlapped' = (overlapped \/ \E u \in Threads : InRound(u))
      BY <1>6 DEF Go, Goes
    <2> HIDE DEF x
    <2>3. Moves(t, x)
      BY <1>0, <1>3, <2>1, <2>2
    <2>4. Row(x)
      BY <1>0, <1>6, <2>1 DEF Row, Go
    <2> QED  BY <2>1, <2>2, <2>3, <2>4 DEF Leaves
  <1>7. ASSUME NEW out \in {"ok", "bad", "error", "cut"}, th.pc = "work",
               thread' = [thread EXCEPT ![t].pc = "ending", ![t].out = out,
                                        ![t].asked = FALSE],
               UNCHANGED <<running, breaks>>
        PROVE  \E x \in Thread : Leaves(t, x)
    <2> DEFINE x == [th EXCEPT !.pc = "ending", !.out = out, !.asked = FALSE]
    <2>1. /\ x \in Thread /\ x.pc = "ending" /\ x.chosen = th.chosen /\ ~x.asked
          /\ x.cmd = th.cmd /\ x.tries = th.tries /\ x.out = out
      BY <1>0 DEF Thread
    <2>2. thread' = [thread EXCEPT ![t] = x]
      BY <1>0, <1>7 DEF TypeOK
    <2> HIDE DEF x
    <2>3. Moves(t, x)
      BY <1>0, <1>3, <1>7, <2>1, <2>2
    <2>4. Row(x)
      BY <1>0, <1>7, <2>1 DEF Row
    <2> QED  BY <1>7, <2>1, <2>2, <2>3, <2>4 DEF Leaves
  <1>8. CASE Ending(t)
    <2> DEFINE d == [th EXCEPT !.out = "none", !.moved = @ \/ th.out = "ok"]
    <2>1. /\ d \in Thread /\ d.chosen = th.chosen /\ ~d.asked
          /\ d.cmd = th.cmd /\ d.tries = th.tries
      BY <1>0, <1>8 DEF Thread, Row, Ending
    <2>2. /\ d.cmd = "loop" => d.tries # 0
          /\ d.cmd \in {"loop", "chat"} /\ th.out \in {"ok", "bad", "error", "cut"}
      BY <1>0, <1>8, <2>1 DEF Row, Ending, Thread
    <2>3. \/ Finish(t)
          \/ /\ d.cmd = "loop" /\ thread' = [thread EXCEPT ![t] = [d EXCEPT !.pc = "delay"]]
             /\ UNCHANGED <<running, breaks>>
          \/ NextRound(t, d)
      <3>1. CASE d.cmd = "chat" \/ th.out = "cut"
        BY <1>8, <3>1 DEF Ending
      <3>2. CASE d.cmd = "loop" /\ th.out = "error"
        BY <1>8, <3>2 DEF Ending
      <3>3. CASE d.cmd = "loop" /\ th.out = "ok"
        BY <1>8, <3>3 DEF Ending
      <3>4. CASE d.cmd = "loop" /\ th.out = "bad"
        BY <1>8, <3>4 DEF Ending
      <3> QED  BY <2>2, <3>1, <3>2, <3>3, <3>4
    <2>4. CASE /\ d.cmd = "loop" /\ thread' = [thread EXCEPT ![t] = [d EXCEPT !.pc = "delay"]]
               /\ UNCHANGED <<running, breaks>>
      <3> HIDE DEF d
      <3> DEFINE x == [d EXCEPT !.pc = "delay"]
      <3>1. /\ x \in Thread /\ x.pc = "delay" /\ x.chosen = th.chosen /\ ~x.asked
            /\ x.cmd = d.cmd /\ x.tries = d.tries
        BY <2>1 DEF Thread
      <3>2. thread' = [thread EXCEPT ![t] = x]
        BY <2>4
      <3> HIDE DEF x
      <3>3. Moves(t, x)
        BY <1>0, <1>3, <2>4, <3>1, <3>2
      <3> QED  BY <2>2, <2>4, <3>1, <3>3 DEF Leaves, Row
    <2> HIDE DEF d
    <2> QED  BY <1>1, <1>2, <1>8, <2>1, <2>2, <2>3, <2>4 DEF Ending
  <1>9. ASSUME NEW long \in BOOLEAN, Delay(t, long)
        PROVE  \E x \in Thread : Leaves(t, x)
    <2> DEFINE left == TriesLeft(th, long)
               d == [th EXCEPT !.tries = left, !.moved = FALSE]
    <2>1. th.pc = "delay" /\ th.cmd = "loop" /\ th.tries \in 1 .. MaxRetry /\ ~th.asked
      BY <1>0, <1>9 DEF Delay, Row, Thread
    <2>2. left \in 0 .. MaxRetry
      BY <2>1 DEF TriesLeft
    <2>3. CASE left = 0 \/ IsBreak(t)
      BY <1>1, <1>9, <2>3 DEF Delay
    <2>4. CASE ~(left = 0 \/ IsBreak(t))
      <3>1. NextRound(t, d)
        BY <1>9, <2>4 DEF Delay
      <3> HIDE DEF left
      <3>2. d \in Thread /\ d.chosen = th.chosen /\ ~d.asked /\ d.tries # 0 /\ d.cmd # "none"
        BY <1>0, <2>1, <2>2, <2>4 DEF Thread
      <3> HIDE DEF d, th
      <3> QED  BY <1>2, <2>1, <3>1, <3>2
    <2> QED  BY <2>3, <2>4
  <1>10. CASE Interrupted(t)
    <2>1. CASE th.pc = "work"
      BY <1>7, <1>10, <2>1 DEF Interrupted
    <2>2. CASE th.pc = "idle"
      <3>1. thread' = [thread EXCEPT ![t] = th] /\ UNCHANGED <<running, breaks>>
        BY <1>10, <2>2 DEF Interrupted, TypeOK
      <3>2. Moves(t, th)
        BY <1>0, <1>3, <3>1
      <3> QED  BY <1>0, <2>2, <3>2 DEF Leaves, Row
    <2>3. CASE th.pc \notin {"work", "idle"}
      BY <1>1, <1>10, <2>3 DEF Interrupted
    <2> QED  BY <2>1, <2>2, <2>3
  <1>11. ASSUME NEW out \in {"ok", "bad", "error"}, WorkEnds(t, out)
         PROVE  \E x \in Thread : Leaves(t, x)
    BY <1>7, <1>11 DEF WorkEnds
  <1> QED  BY <1>4, <1>5, <1>6, <1>8, <1>9, <1>10, <1>11 DEF ThreadStep

\* The rest of what a step of a command changes.
LEMMA CommandFrame ==
  ASSUME TypeOK, NEW t \in Threads,
         (\E cmd \in {"loop", "chat"} : Run(t, cmd)) \/ ThreadStep(t)
  PROVE  /\ UNCHANGED <<tui, target, late, exit, closed, isExit, events>>
         /\ needBreak' \in BOOLEAN /\ needHuman' \in BOOLEAN /\ busy' \in BOOLEAN
         /\ pending' \in BOOLEAN /\ queued' \in BOOLEAN /\ missed' \in BOOLEAN
         /\ overlapped' \in BOOLEAN /\ kicked' \subseteq Threads
         /\ overlapped => overlapped'
         /\ busy => busy' \/ thread[t].pc = "work"
         /\ queued' => queued \/ (Ending(t) /\ thread[t].pc = "ending")
  <1>1. CASE \E cmd \in {"loop", "chat"} : Run(t, cmd)
    BY <1>1 DEF Run, TypeOK, exitVars
  <1>2. CASE Begin(t)
    BY <1>2 DEF Begin, NextRound, TypeOK, exitVars
  <1>3. CASE Go(t)
    BY <1>3 DEF Go, Stay, TypeOK, exitVars
  <1>4. ASSUME NEW out \in {"ok", "bad", "error"}, WorkEnds(t, out)
        PROVE  /\ UNCHANGED <<tui, target, late, exit, closed, isExit, events, needBreak,
                               needHuman, pending, queued, missed, overlapped, kicked>>
               /\ busy' = FALSE /\ thread[t].pc = "work"
    BY <1>4 DEF WorkEnds, Stay, exitVars
  <1>5. CASE Ending(t)
    <2>1. /\ UNCHANGED <<tui, needBreak, target, late, needHuman, busy, isExit, exit,
                         closed, missed, events, overlapped>>
          /\ IF pending THEN Queue ELSE UNCHANGED <<kicked, pending, queued>>
          /\ thread[t].pc = "ending"
      BY <1>5 DEF Ending
    <2> QED  BY <1>5, <2>1 DEF Queue, TypeOK
  <1>6. ASSUME NEW long \in BOOLEAN, Delay(t, long)
        PROVE  /\ UNCHANGED <<tui, target, late, exit, closed, isExit, events, needBreak,
                               busy, pending, queued, missed, overlapped, kicked>>
               /\ needHuman' = FALSE \/ needHuman' = needHuman
    BY <1>6 DEF Delay, Stay, exitVars
  <1>7. CASE Interrupted(t)
    BY <1>7 DEF Interrupted, TypeOK
  <1>8. CASE \E out \in {"ok", "bad", "error"} : WorkEnds(t, out)
    BY <1>4, <1>8 DEF TypeOK
  <1>9. CASE \E long \in BOOLEAN : Delay(t, long)
    BY <1>6, <1>9 DEF TypeOK
  <1> QED  BY <1>1, <1>2, <1>3, <1>5, <1>7, <1>8, <1>9 DEF ThreadStep

LEMMA CommandKeeps ==
  ASSUME Inv, NEW t \in Threads,
         (\E cmd \in {"loop", "chat"} : Run(t, cmd)) \/ ThreadStep(t)
  PROVE  Inv'
  <1>0. TypeOK /\ Threaded /\ Rounds /\ Asks /\ Registered /\ Marks
    BY DEF Inv
  <1>1. PICK x \in Thread : Leaves(t, x)
    BY <1>0, CommandMoves
  <1>2. /\ thread \in [Threads -> Thread] /\ thread' = [thread EXCEPT ![t] = x]
        /\ running' \in Seq(Threads) /\ breaks' \subseteq breaks
    BY <1>0, <1>1, Removed DEF TypeOK, Leaves, Moves
  <1>3. \A u \in Threads : thread'[u] = IF u = t THEN x ELSE thread[u]
    BY <1>2
  <1>4. TypeOK'
    BY <1>0, <1>2, CommandFrame DEF TypeOK
  <1>5. Threaded'
    BY <1>0, <1>1, <1>3 DEF Threaded, Leaves
  <1>6. Rounds'
    <2> SUFFICES ASSUME ~overlapped'
                 PROVE  /\ \A u, v \in Threads : InRound(u)' /\ InRound(v)' => u = v
                        /\ \A u \in Threads : thread'[u].pc = "work" => busy'
      BY DEF Rounds
    <2>1. ~overlapped
      BY <1>0, CommandFrame
    <2>2. /\ \A u, v \in Threads : InRound(u) /\ InRound(v) => u = v
          /\ \A u \in Threads : thread[u].pc = "work" => busy
      BY <1>0, <2>1 DEF Rounds
    <2>3. InRound(t)' => InRound(t) \/ \A u \in Threads : ~InRound(u)
      BY <1>1, <1>3 DEF Leaves, InRound
    <2>4. \A u \in Threads : u # t => (InRound(u)' <=> InRound(u))
      BY <1>3 DEF InRound
    <2>5. \A u, v \in Threads : InRound(u)' /\ InRound(v)' => u = v
      BY <2>2, <2>3, <2>4
    <2>6. ASSUME NEW u \in Threads, thread'[u].pc = "work"  PROVE busy'
      <3>1. CASE u = t
        BY <1>1, <1>3, <2>6, <3>1 DEF Leaves
      <3>2. CASE u # t
        <4>1. thread[u].pc = "work" /\ InRound(u)
          BY <1>3, <2>6, <3>2 DEF InRound
        <4>2. thread[t].pc # "work"
          BY <2>2, <3>2, <4>1 DEF InRound
        <4> QED  BY <1>0, <2>2, <4>1, <4>2, CommandFrame
      <3> QED  BY <3>1, <3>2
    <2> QED  BY <2>5, <2>6
  <1>7. Asks'
    BY <1>0, <1>1, <1>3, CommandFrame DEF Asks, Leaves
  <1>8. Marks'
    BY <1>0, <1>1, <1>2, <1>3, CommandFrame DEF Marks, Leaves, Moves, TypeOK
  <1>9. Registered'
    <2>1. /\ running \in Seq(Threads)
          /\ \A i \in 1 .. Len(running) : thread[running[i]].pc # "idle"
          /\ \A i, j \in 1 .. Len(running) : running[i] = running[j] => i = j
      BY <1>0 DEF TypeOK, Registered
    <2>2. CASE running' = running /\ (x.pc = "idle" => thread[t].pc = "idle")
      BY <1>3, <2>1, <2>2 DEF Registered
    <2>3. CASE running' = Append(running, t) /\ thread[t].pc = "idle" /\ x.pc # "idle"
      BY <1>3, <2>1, <2>3 DEF Registered
    <2>4. CASE Unregister(t)
      <3>1. PICK i \in 1 .. Len(running) :
              /\ running[i] = t
              /\ Len(running') = Len(running) - 1
              /\ \A k \in 1 .. Len(running) - 1 :
                   running'[k] = running[IF k < i THEN k ELSE k + 1]
        BY <2>1, <2>4, Removed
      <3>2. Len(running) \in Nat /\ DOMAIN running' = 1 .. Len(running) - 1
        BY <1>2, <2>1, <3>1
      <3>3. \A k \in 1 .. Len(running) - 1 :
              /\ (IF k < i THEN k ELSE k + 1) \in 1 .. Len(running)
              /\ (IF k < i THEN k ELSE k + 1) # i
        BY <3>2
      <3>4. ASSUME NEW k \in DOMAIN running'  PROVE thread'[running'[k]].pc # "idle"
        <4> DEFINE j == IF k < i THEN k ELSE k + 1
        <4>1. j \in 1 .. Len(running) /\ j # i /\ running'[k] = running[j]
          BY <3>1, <3>2, <3>3
        <4> HIDE DEF j
        <4>2. running[j] # t /\ running[j] \in Threads
          BY <2>1, <3>1, <4>1
        <4> QED  BY <1>3, <2>1, <4>1, <4>2
      <3>5. ASSUME NEW k \in DOMAIN running', NEW l \in DOMAIN running',
                   running'[k] = running'[l]
            PROVE  k = l
        <4>1. (IF k < i THEN k ELSE k + 1) = (IF l < i THEN l ELSE l + 1)
          BY <2>1, <3>1, <3>2, <3>3, <3>5
        <4> QED  BY <3>2, <4>1
      <3> QED  BY <3>4, <3>5 DEF Registered
    <2> QED  BY <1>1, <2>2, <2>3, <2>4 DEF Leaves, Moves
  <1> QED  BY <1>4, <1>5, <1>6, <1>7, <1>8, <1>9 DEF Inv

----------------------------------------------------------------------------
(* What comes from outside a command.                                      *)

\* No thread moves; a break is for a chosen command, or late; an exit is queued
\* when the work is not busy.
LEMMA StillKeeps ==
  ASSUME Inv, TypeOK', UNCHANGED <<thread, running, busy, overlapped>>, late => late',
         breaks' \subseteq breaks \/
           (breaks' \subseteq breaks \cup {target} /\ (late' \/ thread[target].chosen)),
         exit'.pc = "queue" => exit.pc = "queue" \/ ~busy
  PROVE  Inv'
  <1>1. Threaded' /\ Rounds' /\ Registered'
    BY DEF Inv, Threaded, Rounds, InRound, Registered
  <1>2. Asks'
    <2>1. ~overlapped /\ ~busy => \A t \in Threads : ~thread[t].asked
      BY DEF Inv, Threaded, Row, Rounds
    <2> QED  BY <2>1 DEF Inv, Asks
  <1>3. Marks'
    BY DEF Inv, Marks
  <1> QED  BY <1>1, <1>2, <1>3 DEF Inv

LEMMA OutsideKeeps ==
  ASSUME Inv, NEW t \in Threads, NEW value \in BOOLEAN,
         \/ AskHuman(t) \/ SetBreak(value) \/ CtrlC \/ PostCommand \/ Strike
         \/ ExitStep \/ ExitUnset
  PROVE  Inv'
  <1>0. TypeOK
    BY DEF Inv
  <1>1. CASE AskHuman(t)
    <2>1. TypeOK'
      BY <1>0, <1>1 DEF AskHuman, Stay, TypeOK, exitVars
    <2> QED  BY <1>1, <2>1, StillKeeps DEF AskHuman, Stay, exitVars
  <1>2. CASE SetBreak(value) \/ CtrlC \/ PostCommand
    <2>1. /\ UNCHANGED <<tui, thread, running, breaks, target, late, needHuman, busy,
                         isExit, exit, pending, queued, closed, missed, overlapped>>
          /\ Event
          /\ needBreak' \in BOOLEAN /\ kicked' \subseteq kicked \cup {Main}
      <3>1. CASE SetBreak(value)
        BY <1>0, <3>1 DEF SetBreak, exitVars, TypeOK
      <3>2. CASE CtrlC
        BY <1>0, <3>2 DEF CtrlC, exitVars, TypeOK
      <3>3. CASE PostCommand
        BY <1>0, <3>3 DEF PostCommand, exitVars, TypeOK
      <3> QED  BY <1>2, <3>1, <3>2, <3>3
    <2>2. events' \in 0 .. MaxEvents
      BY <1>0, <2>1 DEF TypeOK, Event
    <2>3. TypeOK'
      BY <1>0, <2>1, <2>2 DEF TypeOK
    <2> QED  BY <2>1, <2>3, StillKeeps
  <1>3. CASE Strike
    <2>1. TypeOK'
      BY <1>0, <1>3 DEF Strike, TypeOK, exitVars
    <2> QED  BY <1>3, <2>1, StillKeeps DEF Strike, exitVars
  <1>4. CASE TryExit
    <2> DEFINE e == [exit EXCEPT !.pc = IF busy THEN "mark" ELSE "queue"]
    <2>1. e \in [pc : {"idle", "ask", "mark", "queue"}, by : Threads \cup {External, Nobody}]
          /\ (e.pc = "queue" => ~busy)
      <3>1. exit \in [pc : {"idle", "ask", "mark", "queue"},
                      by : Threads \cup {External, Nobody}]
        BY <1>0 DEF TypeOK
      <3>2. e.by = exit.by /\ e.pc = IF busy THEN "mark" ELSE "queue"
        BY <3>1
      <3>3. e = [pc |-> e.pc, by |-> e.by]
        BY <3>1
      <3> HIDE DEF e
      <3> QED  BY <3>1, <3>2, <3>3
    <2>0. exit' = e
      BY <1>4 DEF TryExit
    <2> HIDE DEF e
    <2>2. exit'.pc = "queue" => ~busy
      BY <2>0, <2>1
    <2>3. TypeOK'
      <3>1. UNCHANGED <<tui, thread, running, breaks, kicked, target, late, needHuman,
                        busy, isExit, pending, queued, closed, missed, events, overlapped>>
        BY <1>4 DEF TryExit, ExitFrame
      <3>2. exit' \in [pc : {"idle", "ask", "mark", "queue"},
                       by : Threads \cup {External, Nobody}]
        BY <2>0, <2>1
      <3>3. needBreak' \in BOOLEAN
        BY <1>4 DEF TryExit
      <3> QED  BY <1>0, <3>1, <3>2, <3>3 DEF TypeOK
    <2> QED  BY <1>4, <2>2, <2>3, StillKeeps DEF TryExit, ExitFrame
  <1>5. CASE MarkPending \/ QueueExit
    <2>1. /\ UNCHANGED <<tui, thread, needBreak, running, breaks, target, late, needHuman,
                         busy, isExit, closed, events, overlapped>>
          /\ pending' \in BOOLEAN /\ queued' \in BOOLEAN /\ missed' \in BOOLEAN
          /\ kicked' \subseteq kicked \cup {Main}
          /\ exit' = NoCall
      <3>1. CASE MarkPending
        BY <1>0, <3>1 DEF MarkPending, ExitFrame, TypeOK
      <3>2. CASE QueueExit
        BY <1>0, <3>2 DEF QueueExit, Queue, ExitFrame, TypeOK
      <3> QED  BY <1>5, <3>1, <3>2
    <2>2. TypeOK' /\ exit'.pc # "queue"
      BY <1>0, <2>1 DEF NoCall, TypeOK
    <2> QED  BY <2>1, <2>2, StillKeeps
  <1>6. CASE ExitUnset
    <2>1. events' \in 0 .. MaxEvents
      BY <1>0, <1>6 DEF TypeOK, ExitUnset, Event
    <2>2. TypeOK'
      <3>1. /\ UNCHANGED <<tui, thread, running, needBreak, breaks, kicked, target, late,
                           needHuman, busy, exit, pending, queued, closed, missed, overlapped>>
            /\ isExit' = FALSE
        BY <1>6 DEF ExitUnset, breakVars
      <3>2. exit' \in [pc : {"idle", "ask", "mark", "queue"},
                       by : Threads \cup {External, Nobody}]
        BY <1>0, <3>1 DEF TypeOK
      <3>3. isExit' \in BOOLEAN
        BY <3>1
      <3> QED  BY <1>0, <2>1, <3>1, <3>2, <3>3 DEF TypeOK
    <2> QED  BY <1>6, <2>2, StillKeeps DEF ExitUnset, breakVars
  <1> QED  BY <1>1, <1>2, <1>3, <1>4, <1>5, <1>6 DEF ExitStep

LEMMA ChooseKeeps ==
  ASSUME Inv, Choose
  PROVE  Inv'
  <1>0. TypeOK /\ Threaded /\ Rounds /\ Asks /\ Registered /\ Marks
    BY DEF Inv
  <1> DEFINE t == running[Len(running)]
             x == [thread[t] EXCEPT !.chosen = TRUE]
  <1>1. t \in Threads
    BY <1>0 DEF TypeOK, Choose
  <1>2. /\ x \in Thread /\ x.pc = thread[t].pc /\ x.cmd = thread[t].cmd /\ x.chosen
        /\ x.tries = thread[t].tries /\ x.asked = thread[t].asked /\ x.out = thread[t].out
    <2>1. thread[t] \in Thread
      BY <1>0, <1>1 DEF TypeOK
    <2> HIDE DEF t
    <2> QED  BY <2>1 DEF Thread
  <1>3. thread' = [thread EXCEPT ![t] = x]
    BY DEF Choose
  <1>4. UNCHANGED <<breaks, late, busy, overlapped, exit, running>> /\ target' = t
    BY DEF Choose, exitVars
  <1>5. TypeOK'
    <2> HIDE DEF t, x
    <2>1. thread' \in [Threads -> Thread]
      BY <1>0, <1>1, <1>2, <1>3 DEF TypeOK
    <2> QED  BY <1>0, <1>1, <1>4, <2>1 DEF Choose, Event, exitVars, TypeOK
  <1>6. thread[t].pc # "idle"
    BY <1>0 DEF TypeOK, Choose, Registered
  <1>7. CASE thread[t].pc # "idle"
    <2> HIDE DEF t, x
    <2>1. \A u \in Threads : thread'[u] = IF u = t THEN x ELSE thread[u]
      BY <1>0, <1>1, <1>3 DEF TypeOK
    <2>2. Threaded'
      BY <1>0, <1>2, <1>6, <2>1 DEF Threaded, Row
    <2>3. Rounds'
      BY <1>0, <1>2, <1>4, <2>1 DEF Rounds, InRound
    <2>4. Asks'
      BY <1>0, <1>2, <1>4, <2>1 DEF Asks
    <2>5. Marks'
      BY <1>0, <1>2, <1>4, <2>1 DEF Marks, TypeOK
    <2>6. Registered'
      <3>1. /\ \A i \in DOMAIN running : running[i] \in Threads /\ thread[running[i]].pc # "idle"
            /\ \A i, j \in DOMAIN running : running[i] = running[j] => i = j
        BY <1>0 DEF TypeOK, Registered
      <3> QED  BY <1>2, <1>4, <2>1, <3>1 DEF Registered
    <2> QED  BY <1>5, <2>2, <2>3, <2>4, <2>5, <2>6 DEF Inv
  <1> QED  BY <1>6, <1>7

\* The round that calls Exit has not asked yet, and is under way.
LEMMA ExitToolKeeps ==
  ASSUME Inv, NEW by \in Threads \cup {External}, ExitTool(by)
  PROVE  Inv'
  <1>0. TypeOK /\ Threaded /\ Rounds /\ Asks /\ Registered /\ Marks
    BY DEF Inv
  <1> DEFINE X(t) == [thread[t] EXCEPT !.asked = @ \/ t = by]
  <1>1. /\ UNCHANGED <<tui, running, breaks, target, late, needHuman, busy, closed, events,
                       overlapped, needBreak, kicked, pending, queued, missed>>
        /\ isExit' = TRUE /\ exit' = [pc |-> "ask", by |-> by]
        /\ thread' = [t \in Threads |-> X(t)]
        /\ by # External => thread[by].pc = "work"
    BY DEF ExitTool, ExitFrame
  <1>2. ASSUME NEW t \in Threads
        PROVE  /\ X(t) \in Thread /\ X(t).pc = thread[t].pc /\ X(t).cmd = thread[t].cmd
               /\ X(t).tries = thread[t].tries /\ X(t).out = thread[t].out
               /\ X(t).chosen = thread[t].chosen /\ (X(t).asked => thread[t].asked \/ t = by)
    <2>1. thread[t] \in Thread
      BY <1>0 DEF TypeOK
    <2> QED  BY <2>1 DEF Thread
  <1> HIDE DEF X
  <1>3. TypeOK'
    <2>1. thread' \in [Threads -> Thread]
      BY <1>1, <1>2
    <2>2. exit' \in [pc : {"idle", "ask", "mark", "queue"},
                     by : Threads \cup {External, Nobody}]
      BY <1>1
    <2> QED  BY <1>0, <1>1, <2>1, <2>2 DEF TypeOK
  <1>4. Threaded'
    <2>1. ASSUME NEW t \in Threads  PROVE Row(X(t))
      <3>1. t = by => thread[t].pc = "work"
        BY <1>1
      <3> QED  BY <1>0, <1>2, <3>1 DEF Threaded, Row
    <2> QED  BY <1>1, <2>1 DEF Threaded
  <1>5. Rounds'
    BY <1>0, <1>1, <1>2 DEF Rounds, InRound
  <1>6. Asks'
    BY <1>1 DEF Asks
  <1>7. Registered'
    <2>1. /\ \A i \in DOMAIN running : running[i] \in Threads /\ thread[running[i]].pc # "idle"
          /\ \A i, j \in DOMAIN running : running[i] = running[j] => i = j
      BY <1>0 DEF TypeOK, Registered
    <2> QED  BY <1>1, <1>2, <2>1 DEF Registered
  <1>8. Marks'
    BY <1>0, <1>1, <1>2 DEF Marks, TypeOK
  <1> QED  BY <1>3, <1>4, <1>5, <1>6, <1>7, <1>8 DEF Inv

LEMMA QuitKeeps ==
  ASSUME Inv, Quit
  PROVE  Inv'
  <1>1. /\ UNCHANGED <<tui, needBreak, needHuman, busy, pending, queued, missed, events,
                       overlapped, late>>
        /\ thread' = [t \in Threads |-> Idle] /\ running' = <<>> /\ kicked' = {}
        /\ breaks' = {} /\ target' = Nobody /\ exit' = NoCall /\ closed' = TRUE
        /\ isExit' = TRUE
    BY DEF Quit
  <1>2. TypeOK'
    <2>1. TypeOK /\ Idle \in Thread /\ <<>> \in Seq(Threads)
      BY IdleRow DEF Inv
    <2>2. NoCall \in [pc : {"idle", "ask", "mark", "queue"},
                      by : Threads \cup {External, Nobody}]
      BY DEF NoCall
    <2> QED  BY <1>1, <2>1, <2>2 DEF TypeOK
  <1>3. Threaded' /\ Rounds' /\ Asks' /\ Registered' /\ Marks'
    BY <1>1, IdleRow DEF Threaded, Rounds, InRound, Asks, Registered, Marks, NoCall
  <1> QED  BY <1>2, <1>3 DEF Inv

----------------------------------------------------------------------------
(* Every step keeps the invariants.                                        *)

LEMMA InitInv == Init => Inv
  <1> SUFFICES ASSUME Init PROVE Inv
    OBVIOUS
  <1>1. /\ thread = [t \in Threads |-> Idle] /\ running = <<>> /\ breaks = {} /\ exit = NoCall
    BY DEF Init
  <1>2. TypeOK
    <2>1. NoCall \in [pc : {"idle", "ask", "mark", "queue"},
                      by : Threads \cup {External, Nobody}]
      BY DEF NoCall
    <2>2. thread \in [Threads -> Thread] /\ running \in Seq(Threads)
      BY <1>1, IdleRow
    <2>3. /\ needBreak \in BOOLEAN /\ needHuman \in BOOLEAN /\ isExit \in BOOLEAN
          /\ busy \in BOOLEAN /\ pending \in BOOLEAN /\ queued \in BOOLEAN
          /\ closed \in BOOLEAN /\ overlapped \in BOOLEAN /\ missed \in BOOLEAN
          /\ late \in BOOLEAN /\ tui \in BOOLEAN
      BY DEF Init
    <2>4. breaks \subseteq Threads /\ kicked \subseteq Threads /\ target = Nobody
      BY DEF Init
    <2>5. events \in 0 .. MaxEvents
      BY DEF Init
    <2>6. exit \in [pc : {"idle", "ask", "mark", "queue"},
                    by : Threads \cup {External, Nobody}]
      BY <1>1, <2>1
    <2> QED  BY <2>2, <2>3, <2>4, <2>5, <2>6 DEF TypeOK
  <1>3. Threaded /\ Rounds /\ Asks /\ Registered /\ Marks
    BY <1>1, IdleRow DEF Threaded, Rounds, InRound, Asks, Registered, Marks, NoCall
  <1> QED  BY <1>2, <1>3 DEF Inv

LEMMA NextInv == Inv /\ [Next]_vars => Inv'
  <1> SUFFICES ASSUME Inv, [Next]_vars PROVE Inv'
    OBVIOUS
  <1>1. ASSUME NEW t \in Threads, (\E cmd \in {"loop", "chat"} : Run(t, cmd)) \/ ThreadStep(t)
        PROVE  Inv'
    BY <1>1, CommandKeeps
  <1>2. ASSUME NEW t \in Threads, AskHuman(t)  PROVE Inv'
    BY <1>2, OutsideKeeps
  <1>3. ASSUME NEW value \in BOOLEAN, SetBreak(value)  PROVE Inv'
    BY <1>3, OutsideKeeps
  <1>4. CASE CtrlC \/ PostCommand \/ Strike \/ ExitStep \/ ExitUnset
    <2>1. Main \in Threads /\ TRUE \in BOOLEAN
      OBVIOUS
    <2> QED  BY <1>4, <2>1, OutsideKeeps
  <1>5. CASE Choose
    BY <1>5, ChooseKeeps
  <1>6. ASSUME NEW by \in Threads \cup {External}, ExitTool(by)  PROVE Inv'
    BY <1>6, ExitToolKeeps
  <1>7. CASE Quit
    BY <1>7, QuitKeeps
  <1>8. CASE UNCHANGED vars
    <2>1. UNCHANGED <<tui, thread, running, needBreak, breaks, kicked, target, late,
                      needHuman, busy, isExit, exit, pending, queued, closed, missed,
                      events, overlapped>>
      BY <1>8 DEF vars, breakVars, exitVars
    <2>2. TypeOK'
      BY <2>1 DEF Inv, TypeOK
    <2> QED  BY <2>1, <2>2, StillKeeps DEF Inv
  <1> QED  BY <1>1, <1>2, <1>3, <1>4, <1>5, <1>6, <1>7, <1>8 DEF Next

\* Every reachable state satisfies the inductive invariant: at most one round
\* unless two have overlapped, and the commands registered are those that run.
THEOREM InvariantHolds == Spec => []Inv
  BY InitInv, NextInv, PTL DEF Spec

\* The thread of a command is marked for a break only when this command was
\* chosen by cancel_last_running_command, or when the chosen one had ended
\* before the cancel reached it.
THEOREM ChosenBreakOnly == Spec => []OnlyChosenBreak
  <1>1. Inv => OnlyChosenBreak
    BY DEF Inv, Marks, OnlyChosenBreak
  <1> QED  BY <1>1, InvariantHolds, PTL

----------------------------------------------------------------------------
(* The quit commands.                                                      *)

LEMMA QueuedWhen ==
  ASSUME Inv, Next, ~queued, queued'
  PROVE  \/ exit.pc = "queue" /\ UNCHANGED thread
         \/ \E t \in Threads : /\ thread[t].pc = "ending"
                               /\ \/ \E cmd \in {"loop", "chat"} : Run(t, cmd)
                                  \/ ThreadStep(t)
  <1>0. TypeOK
    BY DEF Inv
  <1>1. ASSUME NEW t \in Threads, (\E cmd \in {"loop", "chat"} : Run(t, cmd)) \/ ThreadStep(t)
        PROVE  thread[t].pc = "ending"
    BY <1>0, <1>1, CommandFrame
  <1>2. ASSUME NEW t \in Threads, AskHuman(t)  PROVE FALSE
    BY <1>2 DEF AskHuman, Stay, exitVars
  <1>3. ASSUME NEW value \in BOOLEAN, SetBreak(value)  PROVE FALSE
    BY <1>3 DEF SetBreak, exitVars
  <1>4. CASE CtrlC \/ PostCommand
    BY <1>4 DEF CtrlC, PostCommand, exitVars
  <1>5. CASE Choose \/ Strike
    BY <1>5 DEF Choose, Strike, exitVars
  <1>6. ASSUME NEW by \in Threads \cup {External}, ExitTool(by)  PROVE FALSE
    BY <1>6 DEF ExitTool
  <1>7. CASE TryExit \/ MarkPending \/ ExitUnset \/ Quit
    BY <1>7 DEF TryExit, MarkPending, ExitUnset, Quit
  <1>8. CASE QueueExit
    BY <1>8 DEF QueueExit
  <1> QED  BY <1>1, <1>2, <1>3, <1>4, <1>5, <1>6, <1>7, <1>8 DEF Next, ExitStep

\* Unless two rounds have overlapped, the step that queues the quit commands
\* leaves no round that has called Exit under way.
THEOREM ExitAfterRound == Spec => QuitAfterRound
  <1>1. ASSUME Inv, Next, ~queued, queued', ~overlapped
        PROVE  \A t \in Threads : ~thread[t].asked
    <2>1. CASE exit.pc = "queue" /\ UNCHANGED thread
      BY <1>1, <2>1 DEF Inv, Asks
    <2>2. ASSUME NEW t \in Threads, thread[t].pc = "ending"
          PROVE  \A u \in Threads : ~thread[u].asked
      BY <1>1, <2>2 DEF Inv, Threaded, Row, Rounds, InRound
    <2> QED  BY <1>1, <2>1, <2>2, QueuedWhen
  <1>2. ASSUME Inv, [Next]_vars
        PROVE  [~queued /\ queued' /\ ~overlapped =>
                  \A t \in Threads : ~thread[t].asked]_vars
    BY <1>1, <1>2
  <1> QED  BY <1>2, InvariantHolds, PTL DEF Spec, QuitAfterRound

=============================================================================
