--------------------------- MODULE ToolCallProofs ---------------------------
(***************************************************************************)
(* Theorems of ToolCall, for any calls, tools and paths: conflicting calls *)
(* in progress never run together and only locks that a cancelled call was *)
(* collecting are lost, whoever cancels; without cancellation the bodies   *)
(* themselves never run together, every lock is returned, and a heartbeat  *)
(* thread never outlives its call.                                         *)
(***************************************************************************)
EXTENDS ToolCall, TLAPS

NoCancel == Cancels = FALSE

LEMMA NeedsAreLocks ==
  ASSUME NEW c \in Calls
  PROVE  Needs(c) \subseteq Locks
  BY CallsAssumption DEF Needs, Locks

\* Two calls in conflict need a lock in common.
LEMMA ConflictSharesLock ==
  ASSUME NEW c \in Calls, NEW d \in Calls, Conflict(c, d)
  PROVE  \E l \in Needs(c) : l \in Needs(d)
  BY DEF Conflict, Needs

LEMMA ReleaseType ==
  ASSUME TypeOK, NEW c \in Calls
  PROVE  Release(c) \in [Locks -> Calls \cup {Free}]
  BY DEF TypeOK, Release

\* Every variable keeps its type.
THEOREM TypeCorrect == Spec => []TypeOK
  <1>1. Init => TypeOK
    BY DEF Init, TypeOK, Places, Answers
  <1>2. TypeOK /\ [Next]_vars => TypeOK'
    <2> SUFFICES ASSUME TypeOK, [Next]_vars
                 PROVE  TypeOK'
      OBVIOUS
    <2> USE CallsAssumption
    <2>1. ASSUME NEW c \in Calls, Call(c)
          PROVE  TypeOK'
      BY <2>1 DEF Call, Goto, Answer, TypeOK, Places, Answers
    <2>2. ASSUME NEW c \in Calls, Coroutine(c)
          PROVE  TypeOK'
      <3>1. CASE Acquire(c)
        BY <3>1 DEF Acquire, Goto, TypeOK, Places
      <3>2. CASE BeginPlain(c)
        BY <3>2 DEF BeginPlain, Goto, TypeOK, Places
      <3>3. CASE BeginStream(c)
        BY <3>3 DEF BeginStream, Goto, TypeOK, Places
      <3>4. CASE Refuse(c)
        BY <3>4, ReleaseType DEF Refuse, Goto, Answer, TypeOK, Places, Answers
      <3>5. CASE ReturnPlain(c)
        BY <3>5, ReleaseType
           DEF ReturnPlain, Goto, Answer, TypeOK, Places, Answers
      <3>6. CASE ReturnStream(c)
        BY <3>6 DEF ReturnStream, Goto, Answer, TypeOK, Places, Answers
      <3>7. CASE Joined(c)
        BY <3>7, ReleaseType DEF Joined, Goto, TypeOK, Places
      <3> QED
        BY <2>2, <3>1, <3>2, <3>3, <3>4, <3>5, <3>6, <3>7 DEF Coroutine
    <2>3. ASSUME NEW c \in Calls, LockTimeout(c)
          PROVE  TypeOK'
      BY <2>3, ReleaseType DEF LockTimeout, Goto, Answer, TypeOK, Places, Answers
    <2>4. ASSUME NEW c \in Calls, BodyEnds(c)
          PROVE  TypeOK'
      BY <2>4 DEF BodyEnds, TypeOK
    <2>5. ASSUME NEW c \in Calls, CancelWaiting(c)
          PROVE  TypeOK'
      BY <2>5 DEF CancelWaiting, Goto, Answer, TypeOK, Places, Answers
    <2>6. ASSUME NEW c \in Calls, CancelRunning(c)
          PROVE  TypeOK'
      BY <2>6, ReleaseType
         DEF CancelRunning, Goto, Answer, TypeOK, Places, Answers
    <2>7. ASSUME NEW t \in Tools, Beat(t)
          PROVE  TypeOK'
      BY <2>7 DEF Beat, BeatStarts, BeatEnds, TypeOK
    <2>8. CASE UNCHANGED vars
      BY <2>8 DEF vars, TypeOK
    <2> QED
      BY <2>1, <2>2, <2>3, <2>4, <2>5, <2>6, <2>7, <2>8 DEF Next, Finished
  <1> QED  BY <1>1, <1>2, PTL DEF Spec

----------------------------------------------------------------------------
(* Locks. *)

\* A lock is held by a call that needs it, and a call that has got past the
\* acquisition holds all the locks it needs.
LockInv ==
  /\ TypeOK
  /\ \A l \in Locks : owner[l] # Free => l \in Needs(owner[l])
  /\ \A c \in Calls : pc[c] \in {"locked", "running", "joining"} =>
       \A l \in Needs(c) : owner[l] = c

\* What a call releases is not held by any other call, so a release that
\* ends the call c keeps LockInv.
LEMMA ReleaseKeepsLocks ==
  ASSUME LockInv, NEW c \in Calls, TypeOK',
         pc' = [pc EXCEPT ![c] = "done"], owner' = Release(c)
  PROVE  LockInv'
  <1>1. ASSUME NEW l \in Locks, owner'[l] # Free
        PROVE  l \in Needs(owner'[l])
    BY <1>1 DEF LockInv, TypeOK, Release
  <1>2. ASSUME NEW d \in Calls, pc'[d] \in {"locked", "running", "joining"},
               NEW l \in Needs(d)
        PROVE  owner'[l] = d
    BY <1>2, NeedsAreLocks DEF LockInv, TypeOK, Release
  <1> QED  BY <1>1, <1>2 DEF LockInv, Needs

\* A step that moves the call c, without any lock, to a place that asks for
\* no more than the one it leaves keeps LockInv.
LEMMA MoveKeepsLocks ==
  ASSUME LockInv, NEW c \in Calls, NEW place \in Places, TypeOK',
         pc' = [pc EXCEPT ![c] = place], owner' = owner,
         place \in {"locked", "running", "joining"} =>
           pc[c] \in {"locked", "running", "joining"}
  PROVE  LockInv'
  BY DEF LockInv, TypeOK, Needs

LEMMA AcquireKeepsLocks ==
  ASSUME LockInv, NEW c \in Calls, TypeOK', Acquire(c)
  PROVE  LockInv'
  <1>1. PICK l \in Locks :
          /\ l \in Needs(c) \ Held(c)
          /\ owner[l] = Free
          /\ owner' = [owner EXCEPT ![l] = c]
          /\ pc' = [pc EXCEPT ![c] = IF Needs(c) \ Held(c) = {l}
                                     THEN "locked" ELSE "locking"]
    BY DEF Acquire, NextLock, Goto
  <1>2. ASSUME NEW k \in Locks, owner'[k] # Free
        PROVE  k \in Needs(owner'[k])
    BY <1>1, <1>2 DEF LockInv, TypeOK
  <1>3. ASSUME NEW d \in Calls, pc'[d] \in {"locked", "running", "joining"},
               NEW k \in Needs(d)
        PROVE  owner'[k] = d
    <2>1. k \in Locks
      BY NeedsAreLocks
    <2>2. CASE d = c
      <3>1. Needs(c) \ Held(c) = {l}
        BY <1>1, <1>3, <2>2 DEF LockInv, TypeOK
      <3>2. k = l \/ owner[k] = c
        BY <1>3, <2>2, <3>1 DEF Held
      <3> QED  BY <1>1, <2>1, <2>2, <3>2 DEF LockInv, TypeOK
    <2>3. CASE d # c
      <3>1. owner[k] = d
        BY <1>1, <1>3, <2>3 DEF LockInv, TypeOK
      <3>2. k # l
        BY <1>1, <3>1, FreeAssumption
      <3> QED  BY <1>1, <2>1, <3>1, <3>2 DEF LockInv, TypeOK
    <2> QED  BY <2>2, <2>3
  <1> QED  BY <1>2, <1>3 DEF LockInv, Needs

LEMMA LockInvariant == Spec => []LockInv
  <1>1. Init => LockInv
    BY DEF Init, LockInv, TypeOK, Places, Answers
  <1>2. TypeOK' /\ LockInv /\ [Next]_vars => LockInv'
    <2> SUFFICES ASSUME LockInv, TypeOK', [Next]_vars
                 PROVE  LockInv'
      OBVIOUS
    <2> USE MoveKeepsLocks DEF Places
    <2>1. ASSUME NEW c \in Calls, Call(c)
          PROVE  LockInv'
      BY <2>1 DEF Call, Goto
    <2>2. ASSUME NEW c \in Calls, Coroutine(c)
          PROVE  LockInv'
      <3>1. CASE Acquire(c)
        BY <3>1, AcquireKeepsLocks
      <3>2. CASE BeginPlain(c) \/ BeginStream(c) \/ ReturnStream(c)
        BY <3>2 DEF BeginPlain, BeginStream, ReturnStream, Goto
      <3>3. CASE Refuse(c) \/ ReturnPlain(c) \/ Joined(c)
        BY <3>3, ReleaseKeepsLocks DEF Refuse, ReturnPlain, Joined, Goto
      <3> QED  BY <2>2, <3>1, <3>2, <3>3 DEF Coroutine
    <2>3. ASSUME NEW c \in Calls, LockTimeout(c) \/ CancelRunning(c)
          PROVE  LockInv'
      BY <2>3, ReleaseKeepsLocks DEF LockTimeout, CancelRunning, Goto
    <2>4. ASSUME NEW c \in Calls, CancelWaiting(c)
          PROVE  LockInv'
      BY <2>4 DEF CancelWaiting, Goto
    <2>5. CASE UNCHANGED <<pc, owner>>
      BY <2>5 DEF LockInv, Needs
    <2> QED
      BY <2>1, <2>2, <2>3, <2>4, <2>5
         DEF Next, BodyEnds, Beat, BeatStarts, BeatEnds, Finished, vars
  <1> QED  BY <1>1, <1>2, TypeCorrect, PTL DEF Spec

\* Calls in conflict that are both still in progress never run together,
\* whatever the clients cancel.
THEOREM InProgressCallsApart == Spec => []InProgressApart
  <1>1. LockInv => InProgressApart
    <2> SUFFICES ASSUME LockInv, NEW c \in body, NEW d \in body,
                        pc[c] = "running", pc[d] = "running", Conflict(c, d)
                 PROVE  FALSE
      BY DEF InProgressApart
    <2>1. c \in Calls /\ d \in Calls
      BY DEF LockInv, TypeOK
    <2>2. PICK l \in Needs(c) : l \in Needs(d)
      BY <2>1, ConflictSharesLock
    <2>3. owner[l] = c /\ owner[l] = d
      BY <2>1, <2>2 DEF LockInv
    <2> QED  BY <2>3 DEF Conflict
  <1> QED  BY <1>1, LockInvariant, PTL

----------------------------------------------------------------------------
(* Without cancellation. *)

QuietInv ==
  /\ \A c \in body : pc[c] = "running"
  /\ LocksReturned
  /\ BeatHasCall

\* The end of a call that streams nothing any more keeps QuietInv.
LEMMA ReleaseKeepsQuiet ==
  ASSUME LockInv, QuietInv, NEW c \in Calls, c \notin body,
         pc' = [pc EXCEPT ![c] = "done"], owner' = Release(c),
         body' = body, beat' = beat,
         \A t \in Tools : owner[t] = c /\ Streams(c) => 
            pc[c] \notin {"running", "joining"} \/ beat[t] = "none"
  PROVE  QuietInv'
  <1>1. \A d \in body' : pc'[d] = "running"
    BY DEF QuietInv, LockInv, TypeOK
  <1>2. ASSUME NEW l \in Locks, owner'[l] # Free
        PROVE  pc'[owner'[l]] \in {"locking", "locked", "running", "joining"}
    <2>1. owner[l] = owner'[l] /\ owner[l] # c /\ owner[l] \in Calls
      BY <1>2 DEF LockInv, TypeOK, Release
    <2>2. pc'[owner[l]] = pc[owner[l]] /\ InProgress(owner[l])
      BY <1>2, <2>1 DEF QuietInv, LocksReturned, LockInv, TypeOK
    <2> QED  BY <2>1, <2>2 DEF InProgress
  <1>3. ASSUME NEW t \in Tools, beat'[t] # "none"
        PROVE  \E d \in Calls : /\ owner'[t] = d
                                /\ Streams(d)
                                /\ pc'[d] \in {"running", "joining"}
    <2>1. PICK d \in Calls : /\ owner[t] = d
                             /\ Streams(d)
                             /\ pc[d] \in {"running", "joining"}
      BY <1>3 DEF QuietInv, BeatHasCall
    <2>2. d # c
      BY <1>3, <2>1
    <2> QED  BY <2>1, <2>2 DEF LockInv, TypeOK, Release, Locks
  <1> QED
    BY <1>1, <1>2, <1>3
       DEF QuietInv, LocksReturned, InProgress, BeatHasCall, Streams

\* A step of the call c that leaves the locks alone keeps QuietInv when c
\* stays in progress, runs while its body does, and starts no heartbeat but
\* its own.
LEMMA MoveKeepsQuiet ==
  ASSUME LockInv, QuietInv, NEW c \in Calls, NEW place \in Places,
         pc' = [pc EXCEPT ![c] = place], owner' = owner,
         body' \subseteq body \cup {c}, c \in body' => place = "running",
         pc[c] = "idle" \/ place \in {"locking", "locked", "running", "joining"},
         pc[c] \in {"running", "joining"} => place \in {"running", "joining"},
         \A t \in Tools : beat'[t] # "none" =>
           \/ beat[t] # "none"
           \/ owner[t] = c /\ Streams(c) /\ place = "running"
  PROVE  QuietInv'
  <1>1. \A d \in body' : pc'[d] = "running"
    BY DEF QuietInv, LockInv, TypeOK
  <1>2. ASSUME NEW l \in Locks, owner'[l] # Free
        PROVE  pc'[owner'[l]] \in {"locking", "locked", "running", "joining"}
    <2>1. owner[l] \in Calls /\ InProgress(owner[l])
      BY <1>2 DEF QuietInv, LocksReturned, LockInv, TypeOK
    <2> QED  BY <2>1 DEF InProgress, LockInv, TypeOK
  <1>3. ASSUME NEW t \in Tools, beat'[t] # "none"
        PROVE  \E d \in Calls : /\ owner'[t] = d
                                /\ Streams(d)
                                /\ pc'[d] \in {"running", "joining"}
    <2>1. CASE beat[t] # "none"
      <3>1. PICK d \in Calls : /\ owner[t] = d
                               /\ Streams(d)
                               /\ pc[d] \in {"running", "joining"}
        BY <2>1 DEF QuietInv, BeatHasCall
      <3> QED  BY <3>1 DEF LockInv, TypeOK
    <2>2. CASE owner[t] = c /\ Streams(c) /\ place = "running"
      BY <2>2 DEF LockInv, TypeOK
    <2> QED  BY <1>3, <2>1, <2>2
  <1> QED
    BY <1>1, <1>2, <1>3
       DEF QuietInv, LocksReturned, InProgress, BeatHasCall, Streams

LEMMA NextQuiet ==
  ASSUME NoCancel, LockInv, TypeOK', QuietInv, [Next]_vars
  PROVE  QuietInv'
  <1> USE DEF Goto, InProgress
  <1>1. ASSUME NEW c \in Calls, Call(c)
        PROVE  QuietInv'
    <2>1. c \notin body
      BY <1>1 DEF Call, QuietInv
    <2> QED  BY <1>1, <2>1, MoveKeepsQuiet DEF Call, Places
  <1>2. ASSUME NEW c \in Calls, Acquire(c)
        PROVE  QuietInv'
    <2>1. PICK l \in Locks :
            /\ owner[l] = Free
            /\ owner' = [owner EXCEPT ![l] = c]
            /\ \/ pc' = [pc EXCEPT ![c] = "locked"]
               \/ pc' = [pc EXCEPT ![c] = "locking"]
      BY <1>2 DEF Acquire
    <2>2. pc[c] = "locking" /\ body' = body /\ beat' = beat
      BY <1>2 DEF Acquire
    <2>3. \A d \in body' : pc'[d] = "running"
      BY <2>1, <2>2 DEF QuietInv, LockInv, TypeOK
    <2>4. LocksReturned'
      BY <2>1, <2>2 DEF QuietInv, LocksReturned, LockInv, TypeOK
    <2>5. BeatHasCall'
      <3> SUFFICES ASSUME NEW t \in Tools, beat'[t] # "none"
                   PROVE  \E d \in Calls :
                            /\ owner'[t] = d
                            /\ Streams(d)
                            /\ pc'[d] \in {"running", "joining"}
        BY DEF BeatHasCall, Streams
      <3>1. PICK d \in Calls : /\ owner[t] = d
                               /\ Streams(d)
                               /\ pc[d] \in {"running", "joining"}
        BY <2>2 DEF QuietInv, BeatHasCall
      <3>2. d # c /\ t # l
        BY <2>1, <2>2, <3>1, FreeAssumption
      <3> QED  BY <2>1, <3>1, <3>2 DEF LockInv, TypeOK, Locks
    <2> QED  BY <2>3, <2>4, <2>5 DEF QuietInv
  <1>3. ASSUME NEW c \in Calls, BeginPlain(c)
        PROVE  QuietInv'
    BY <1>3, MoveKeepsQuiet DEF BeginPlain, Places
  <1>4. ASSUME NEW c \in Calls, BeginStream(c)
        PROVE  QuietInv'
    <2>1. owner[Tool[c]] = c
      BY <1>4 DEF BeginStream, LockInv, Needs, Streams
    <2>2. \A t \in Tools : beat'[t] # "none" => beat[t] # "none" \/ t = Tool[c]
      BY <1>4 DEF BeginStream, LockInv, TypeOK
    <2> QED  BY <1>4, <2>1, <2>2, MoveKeepsQuiet DEF BeginStream, Places
  <1>5. ASSUME NEW c \in Calls, Refuse(c)
        PROVE  QuietInv'
    <2>1. c \notin body
      BY <1>5 DEF Refuse, QuietInv
    <2> QED  BY <1>5, <2>1, ReleaseKeepsQuiet DEF Refuse
  <1>6. ASSUME NEW c \in Calls, ReturnPlain(c)
        PROVE  QuietInv'
    BY <1>6, ReleaseKeepsQuiet DEF ReturnPlain
  <1>7. ASSUME NEW c \in Calls, ReturnStream(c)
        PROVE  QuietInv'
    BY <1>7, MoveKeepsQuiet DEF ReturnStream, Places
  <1>8. ASSUME NEW c \in Calls, Joined(c)
        PROVE  QuietInv'
    <2>1. c \notin body
      BY <1>8 DEF Joined, QuietInv
    <2>2. ASSUME NEW t \in Tools, owner[t] = c, Streams(c)
          PROVE  beat[t] = "none"
      <3>1. t \in Needs(c)
        BY <2>2, FreeAssumption DEF LockInv, Locks
      <3>2. t = Tool[c]
        BY <2>2, <3>1 DEF Needs, Streams
      <3> QED  BY <1>8, <3>2 DEF Joined
    <2> QED  BY <1>8, <2>1, <2>2, ReleaseKeepsQuiet DEF Joined
  <1>9. ASSUME NEW c \in Calls, LockTimeout(c)
        PROVE  QuietInv'
    <2>1. c \notin body
      BY <1>9 DEF LockTimeout, QuietInv
    <2> QED  BY <1>9, <2>1, ReleaseKeepsQuiet DEF LockTimeout
  <1>10. ASSUME NEW c \in Calls, BodyEnds(c)
         PROVE  QuietInv'
    BY <1>10 DEF BodyEnds, QuietInv, LocksReturned, BeatHasCall, Streams
  <1>11. ASSUME NEW t \in Tools, Beat(t)
         PROVE  QuietInv'
    <2>1. /\ beat[t] # "none"
          /\ \E b \in {"none", "on"} : beat' = [beat EXCEPT ![t] = b]
          /\ UNCHANGED <<pc, owner, body>>
      BY <1>11 DEF Beat, BeatStarts, BeatEnds
    <2>2. \A u \in Tools : beat'[u] # "none" => beat[u] # "none"
      BY <2>1 DEF LockInv, TypeOK
    <2> QED  BY <2>1, <2>2 DEF QuietInv, LocksReturned, BeatHasCall, Streams
  <1>12. CASE UNCHANGED vars
    BY <1>12 DEF vars, QuietInv, LocksReturned, BeatHasCall, Streams
  <1> QED
    BY <1>1, <1>2, <1>3, <1>4, <1>5, <1>6, <1>7, <1>8, <1>9, <1>10, <1>11,
       <1>12
       DEF Next, Coroutine, CancelWaiting, CancelRunning, Finished, NoCancel

LEMMA QuietInvariant ==
  ASSUME NoCancel
  PROVE  Spec => [](LockInv /\ QuietInv)
  <1>1. Init => QuietInv
    BY DEF Init, QuietInv, LocksReturned, BeatHasCall
  <1>2. LockInv /\ TypeOK' /\ QuietInv /\ [Next]_vars => QuietInv'
    BY NextQuiet
  <1> QED  BY <1>1, <1>2, LockInvariant, TypeCorrect, PTL DEF Spec

\* When no call is cancelled, the bodies of calls in conflict never run at
\* the same time.
THEOREM ConflictsAreSerialized ==
  ASSUME NoCancel
  PROVE  Spec => []ConflictsSerialized
  <1>1. QuietInv /\ InProgressApart => ConflictsSerialized
    BY DEF QuietInv, InProgressApart, ConflictsSerialized
  <1> QED  BY <1>1, QuietInvariant, InProgressCallsApart, PTL

\* When no call is cancelled, every lock is held by a call in progress.
THEOREM LocksAreReturned ==
  ASSUME NoCancel
  PROVE  Spec => []LocksReturned
  <1>1. QuietInv => LocksReturned
    BY DEF QuietInv
  <1> QED  BY <1>1, QuietInvariant, PTL

\* When no call is cancelled, a heartbeat thread belongs to a call that
\* still holds the tool.
THEOREM BeatsHaveCalls ==
  ASSUME NoCancel
  PROVE  Spec => []BeatHasCall
  <1>1. QuietInv => BeatHasCall
    BY DEF QuietInv
  <1> QED  BY <1>1, QuietInvariant, PTL

----------------------------------------------------------------------------
(* With cancellation. *)

\* What is said of lost locks, and a call that was not made has no answer, so
\* that it has none of the lost locks.
LostInv ==
  /\ OnlyCollectedLocksLost
  /\ \A c \in Calls : pc[c] = "idle" => answer[c] = "none"

\* The end of a call that gives its locks back keeps LostInv.
LEMMA ReleaseKeepsLost ==
  ASSUME LockInv, LostInv, NEW c \in Calls,
         pc' = [pc EXCEPT ![c] = "done"], owner' = Release(c),
         \A d \in Calls : d # c => answer'[d] = answer[d]
  PROVE  LostInv'
  <1>1. ASSUME NEW l \in Locks, owner'[l] # Free,
               pc'[owner'[l]] \notin {"locking", "locked", "running", "joining"}
        PROVE  answer'[owner'[l]] = "cancelled" /\ Args[owner'[l]] \ {l} # {}
    <2>1. owner[l] = owner'[l] /\ owner[l] # c /\ owner[l] \in Calls
      BY <1>1 DEF LockInv, TypeOK, Release
    <2>2. pc'[owner[l]] = pc[owner[l]] /\ answer'[owner[l]] = answer[owner[l]]
      BY <2>1 DEF LockInv, TypeOK
    <2> QED  BY <1>1, <2>1, <2>2 DEF LostInv, OnlyCollectedLocksLost, InProgress
  <1>2. \A d \in Calls : pc'[d] = "idle" => answer'[d] = "none"
    BY DEF LostInv, LockInv, TypeOK
  <1> QED  BY <1>1, <1>2 DEF LostInv, OnlyCollectedLocksLost, InProgress

\* A step that moves the call c on, when c had no locks yet or stays in
\* progress, keeps LostInv.
LEMMA MoveKeepsLost ==
  ASSUME LockInv, LostInv, NEW c \in Calls, NEW place \in Places \ {"idle"},
         pc' = [pc EXCEPT ![c] = place], owner' = owner,
         \A d \in Calls : d # c => answer'[d] = answer[d],
         pc[c] = "idle" \/ place \in {"locking", "locked", "running", "joining"}
  PROVE  LostInv'
  <1>1. ASSUME NEW l \in Locks, owner'[l] # Free,
               pc'[owner'[l]] \notin {"locking", "locked", "running", "joining"}
        PROVE  answer'[owner'[l]] = "cancelled" /\ Args[owner'[l]] \ {l} # {}
    <2>1. owner'[l] = owner[l] /\ owner[l] \in Calls
      BY <1>1 DEF LockInv, TypeOK
    <2>2. owner[l] # c
      BY <1>1, <2>1 DEF LostInv, OnlyCollectedLocksLost, InProgress, LockInv, TypeOK
    <2>3. pc'[owner[l]] = pc[owner[l]] /\ answer'[owner[l]] = answer[owner[l]]
      BY <2>1, <2>2 DEF LockInv, TypeOK
    <2> QED  BY <1>1, <2>1, <2>3 DEF LostInv, OnlyCollectedLocksLost, InProgress
  <1>2. \A d \in Calls : pc'[d] = "idle" => answer'[d] = "none"
    BY DEF LostInv, LockInv, TypeOK
  <1> QED  BY <1>1, <1>2 DEF LostInv, OnlyCollectedLocksLost, InProgress

LEMMA AcquireKeepsLost ==
  ASSUME LockInv, LostInv, NEW c \in Calls, Acquire(c)
  PROVE  LostInv'
  <1>1. PICK l \in Locks :
          /\ owner' = [owner EXCEPT ![l] = c]
          /\ \/ pc' = [pc EXCEPT ![c] = "locked"]
             \/ pc' = [pc EXCEPT ![c] = "locking"]
    BY DEF Acquire, Goto
  <1>2. answer' = answer /\ pc[c] = "locking"
    BY DEF Acquire
  <1>3. ASSUME NEW k \in Locks, owner'[k] # Free,
               pc'[owner'[k]] \notin {"locking", "locked", "running", "joining"}
        PROVE  answer'[owner'[k]] = "cancelled" /\ Args[owner'[k]] \ {k} # {}
    <2>1. owner'[k] # c /\ owner'[k] = owner[k] /\ owner[k] \in Calls
      BY <1>1, <1>3 DEF LockInv, TypeOK
    <2>2. pc'[owner[k]] = pc[owner[k]]
      BY <1>1, <2>1 DEF LockInv, TypeOK
    <2> QED
      BY <1>2, <1>3, <2>1, <2>2 DEF LostInv, OnlyCollectedLocksLost, InProgress
  <1>4. \A d \in Calls : pc'[d] = "idle" => answer'[d] = "none"
    BY <1>1, <1>2 DEF LostInv, LockInv, TypeOK
  <1> QED  BY <1>3, <1>4 DEF LostInv, OnlyCollectedLocksLost, InProgress

\* A cancelled call that waits for a lock and loses another needs both, so
\* both are among its arguments.
LEMMA CancelKeepsLost ==
  ASSUME LockInv, LostInv, NEW c \in Calls, CancelWaiting(c)
  PROVE  LostInv'
  <1>1. PICK w \in Locks : w \in Needs(c) \ Held(c)
    BY DEF CancelWaiting, NextLock
  <1>2. /\ pc' = [pc EXCEPT ![c] = "done"] /\ owner' = owner
        /\ answer' = [answer EXCEPT ![c] = "cancelled"] /\ pc[c] = "locking"
    BY DEF CancelWaiting, Goto, Answer
  <1>3. ASSUME NEW l \in Locks, owner'[l] # Free,
               pc'[owner'[l]] \notin {"locking", "locked", "running", "joining"}
        PROVE  answer'[owner'[l]] = "cancelled" /\ Args[owner'[l]] \ {l} # {}
    <2>1. owner'[l] = owner[l] /\ owner[l] \in Calls
      BY <1>2, <1>3 DEF LockInv, TypeOK
    <2>2. CASE owner[l] = c
      <3>1. l \in Needs(c) /\ l # w
        BY <1>1, <2>1, <2>2, <1>3 DEF LockInv, Held
      <3>2. Args[c] # {} /\ w \in Args[c]
        BY <1>1, <3>1 DEF Needs
      <3> QED  BY <1>2, <2>1, <2>2, <3>1, <3>2 DEF LockInv, TypeOK
    <2>3. CASE owner[l] # c
      BY <1>2, <1>3, <2>1, <2>3
         DEF LostInv, OnlyCollectedLocksLost, InProgress, LockInv, TypeOK
    <2> QED  BY <2>2, <2>3
  <1>4. \A d \in Calls : pc'[d] = "idle" => answer'[d] = "none"
    BY <1>2 DEF LostInv, LockInv, TypeOK
  <1> QED  BY <1>3, <1>4 DEF LostInv, OnlyCollectedLocksLost, InProgress

\* Whoever cancels, a lock is lost only by a cancelled call that was collecting
\* several; with LocksAreReturned, the only way to lose one.
THEOREM OnlyCancelledCallsLose == Spec => []OnlyCollectedLocksLost
  <1>1. Init => LostInv
    BY DEF Init, LostInv, OnlyCollectedLocksLost
  <1>2. LockInv /\ LostInv /\ [Next]_vars => LostInv'
    <2> SUFFICES ASSUME LockInv, LostInv, [Next]_vars
                 PROVE  LostInv'
      OBVIOUS
    <2>1. ASSUME NEW c \in Calls, Call(c)
          PROVE  LostInv'
      <3>1. \A d \in Calls : d # c => answer'[d] = answer[d]
        BY <2>1 DEF Call, Answer, LockInv, TypeOK
      <3> QED  BY <2>1, <3>1, MoveKeepsLost DEF Call, Goto, Places
    <2>2. ASSUME NEW c \in Calls, BeginPlain(c) \/ BeginStream(c) \/ ReturnStream(c)
          PROVE  LostInv'
      <3>1. \A d \in Calls : d # c => answer'[d] = answer[d]
        BY <2>2 DEF BeginPlain, BeginStream, ReturnStream, Answer, LockInv, TypeOK
      <3> QED
        BY <2>2, <3>1, MoveKeepsLost DEF BeginPlain, BeginStream, ReturnStream, Goto, Places
    <2>3. ASSUME NEW c \in Calls,
                 Refuse(c) \/ ReturnPlain(c) \/ Joined(c) \/ LockTimeout(c) \/ CancelRunning(c)
          PROVE  LostInv'
      <3>1. \A d \in Calls : d # c => answer'[d] = answer[d]
        BY <2>3 DEF Refuse, ReturnPlain, Joined, LockTimeout, CancelRunning, Answer,
                    LockInv, TypeOK
      <3> QED
        BY <2>3, <3>1, ReleaseKeepsLost
           DEF Refuse, ReturnPlain, Joined, LockTimeout, CancelRunning, Goto
    <2>4. ASSUME NEW c \in Calls, Coroutine(c)
          PROVE  LostInv'
      BY <2>2, <2>3, <2>4, AcquireKeepsLost DEF Coroutine
    <2>5. CASE UNCHANGED <<pc, owner, answer>>
      BY <2>5 DEF LostInv, OnlyCollectedLocksLost, InProgress
    <2> QED
      BY <2>1, <2>3, <2>4, <2>5, CancelKeepsLost
         DEF Next, BodyEnds, Beat, BeatStarts, BeatEnds, Finished, vars
  <1>3. LostInv => OnlyCollectedLocksLost
    BY DEF LostInv
  <1> QED  BY <1>1, <1>2, <1>3, LockInvariant, PTL DEF Spec

=============================================================================
