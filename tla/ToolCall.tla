------------------------------ MODULE ToolCall ------------------------------
(***************************************************************************)
(* UCTool.ainvoke of ucagent/tools/uctool.py: how the asynchronous calls   *)
(* of the tools are kept apart.                                            *)
(*                                                                         *)
(* A call takes the locks of the paths it is given, one after the other in *)
(* their sorting order, or else the lock of its tool; it then runs the     *)
(* tool's body in a worker thread.  A call that comes from an MCP client   *)
(* and takes the lock of its tool also starts a heartbeat thread, which    *)
(* watches the flag is_in_streaming; the call joins that thread before it  *)
(* gives its locks back, and the event loop stands still meanwhile.        *)
(*                                                                         *)
(* A client may cancel a request (Cancels).  The cancellation leaves the   *)
(* coroutine as CancelledError, which "except Exception" does not catch,   *)
(* and the worker thread goes on.                                          *)
(***************************************************************************)
EXTENDS Integers, FiniteSets

CONSTANTS
  Calls,    \* the calls, each made once
  Tools,    \* the tools ...
  Paths,    \* ... and the canonical paths: disjoint sets of integers
  Tool,     \* the tool of a call
  Args,     \* the paths among its lock arguments
  Mcp,      \* the calls that come from an MCP client
  Disabled, \* the calls of a disabled tool
  Cancels   \* clients may cancel calls

ASSUME SetsAssumption ==
  /\ Tools \subseteq Int
  /\ Paths \subseteq Int
  /\ Tools \cap Paths = {}
ASSUME CallsAssumption ==
  /\ Tool \in [Calls -> Tools]
  /\ Args \in [Calls -> SUBSET Paths]
  /\ \A c \in Calls : IsFiniteSet(Args[c])
  /\ Mcp \subseteq Calls
  /\ Disabled \subseteq Calls
  /\ Cancels \in BOOLEAN

Locks == Tools \cup Paths
Free == "free"
ASSUME FreeAssumption == Free \notin Calls

VARIABLES
  pc,        \* where each call is
  owner,     \* the call that has each lock, or Free
  body,      \* the calls whose body runs in a worker thread
  streaming, \* is_in_streaming of each tool
  inCall,    \* is_in_call of each tool
  beat,      \* heartbeat thread of each tool: "none", "starting" or "on"
  answer     \* what each call was answered

vars == <<pc, owner, body, streaming, inCall, beat, answer>>

Places == {"idle", "locking", "locked", "running", "joining", "done"}
Answers == {"none", "data", "disabled", "lock timeout", "already running",
            "terminating", "cancelled"}

TypeOK ==
  /\ pc \in [Calls -> Places]
  /\ owner \in [Locks -> Calls \cup {Free}]
  /\ body \in SUBSET Calls
  /\ streaming \in [Tools -> BOOLEAN]
  /\ inCall \in [Tools -> BOOLEAN]
  /\ beat \in [Tools -> {"none", "starting", "on"}]
  /\ answer \in [Calls -> Answers]

Init ==
  /\ pc = [c \in Calls |-> "idle"]
  /\ owner = [l \in Locks |-> Free]
  /\ body = {}
  /\ streaming = [t \in Tools |-> FALSE]
  /\ inCall = [t \in Tools |-> FALSE]
  /\ beat = [t \in Tools |-> "none"]
  /\ answer = [c \in Calls |-> "none"]

NeedsOwnOnly(c) == {Tool[c]}

\* _get_call_locks
Needs(c) == IF Args[c] = {} THEN {Tool[c]} ELSE Args[c]

Streams(c) == c \in Mcp /\ Args[c] = {}

Held(c) == {l \in Needs(c) : owner[l] = c}

\* the locks are taken in order
NextLock(c, l) ==
  /\ l \in Needs(c) \ Held(c)
  /\ \A k \in Needs(c) \ Held(c) : l <= k

NextLockAny(c, l) == l \in Needs(c) \ Held(c)

Release(c) == [l \in Locks |-> IF owner[l] = c THEN Free ELSE owner[l]]

\* The event loop runs one coroutine at a time: a call with all its locks
\* goes on without a pause, and a join stops the loop.
LoopTurns(c) == \A d \in Calls \ {c} : pc[d] \notin {"locked", "joining"}

Goto(c, place) == pc' = [pc EXCEPT ![c] = place]

Answer(c, a) == answer' = [answer EXCEPT ![c] = a]

----------------------------------------------------------------------------
(* ainvoke *)

Call(c) ==
  /\ LoopTurns(c)
  /\ pc[c] = "idle"
  /\ IF c \in Disabled
     THEN Goto(c, "done") /\ Answer(c, "disabled")
     ELSE Goto(c, "locking") /\ UNCHANGED answer
  /\ UNCHANGED <<owner, body, streaming, inCall, beat>>

AcquireAny(c) ==
  /\ LoopTurns(c)
  /\ pc[c] = "locking"
  /\ \E l \in Locks :
       /\ NextLockAny(c, l)
       /\ owner[l] = Free
       /\ owner' = [owner EXCEPT ![l] = c]
       /\ Goto(c, IF Needs(c) \ Held(c) = {l} THEN "locked" ELSE "locking")
  /\ UNCHANGED <<body, streaming, inCall, beat, answer>>

Acquire(c) ==
  /\ LoopTurns(c)
  /\ pc[c] = "locking"
  /\ \E l \in Locks :
       /\ NextLock(c, l)
       /\ owner[l] = Free
       /\ owner' = [owner EXCEPT ![l] = c]
       /\ Goto(c, IF Needs(c) \ Held(c) = {l} THEN "locked" ELSE "locking")
  /\ UNCHANGED <<body, streaming, inCall, beat, answer>>

LockTimeoutKeepsLocks(c) ==
  /\ LoopTurns(c)
  /\ pc[c] = "locking"
  /\ Goto(c, "done")
  /\ Answer(c, "lock timeout")
  /\ UNCHANGED <<owner, body, streaming, inCall, beat>>

LockTimeout(c) ==
  /\ LoopTurns(c)
  /\ pc[c] = "locking"
  /\ Goto(c, "done")
  /\ owner' = Release(c)
  /\ Answer(c, "lock timeout")
  /\ UNCHANGED <<body, streaming, inCall, beat>>

\* _ainvoke up to the await of the body
BeginPlain(c) ==
  /\ LoopTurns(c)
  /\ pc[c] = "locked"
  /\ ~Streams(c)
  /\ Goto(c, "running")
  /\ body' = body \cup {c}
  /\ inCall' = [inCall EXCEPT ![Tool[c]] = TRUE]
  /\ UNCHANGED <<owner, streaming, beat, answer>>

BeginStream(c) ==
  /\ LoopTurns(c)
  /\ pc[c] = "locked"
  /\ Streams(c)
  /\ ~streaming[Tool[c]]
  /\ beat[Tool[c]] # "on"
  /\ Goto(c, "running")
  /\ body' = body \cup {c}
  /\ streaming' = [streaming EXCEPT ![Tool[c]] = TRUE]
  /\ beat' = [beat EXCEPT ![Tool[c]] = "starting"]
  /\ UNCHANGED <<owner, inCall, answer>>

Refuse(c) ==
  /\ LoopTurns(c)
  /\ pc[c] = "locked"
  /\ Streams(c)
  /\ streaming[Tool[c]] \/ beat[Tool[c]] = "on"
  /\ Answer(c, IF streaming[Tool[c]] THEN "already running" ELSE "terminating")
  /\ Goto(c, "done")
  /\ owner' = Release(c)
  /\ UNCHANGED <<body, streaming, inCall, beat>>

----------------------------------------------------------------------------
(* The worker thread, the heartbeat thread and the rest of _ainvoke. *)

\* the body returns or raises
BodyEnds(c) ==
  /\ c \in body
  /\ body' = body \ {c}
  /\ UNCHANGED <<pc, owner, streaming, inCall, beat, answer>>

ReturnPlain(c) ==
  /\ LoopTurns(c)
  /\ pc[c] = "running"
  /\ c \notin body
  /\ ~Streams(c)
  /\ Goto(c, "done")
  /\ owner' = Release(c)
  /\ inCall' = [inCall EXCEPT ![Tool[c]] = FALSE]
  /\ Answer(c, "data")
  /\ UNCHANGED <<body, streaming, beat>>

ReturnStreamAtOnce(c) ==
  /\ LoopTurns(c)
  /\ pc[c] = "running"
  /\ c \notin body
  /\ Streams(c)
  /\ Goto(c, "done")
  /\ owner' = Release(c)
  /\ streaming' = [streaming EXCEPT ![Tool[c]] = FALSE]
  /\ Answer(c, "data")
  /\ UNCHANGED <<body, inCall, beat>>

ReturnStream(c) ==
  /\ LoopTurns(c)
  /\ pc[c] = "running"
  /\ c \notin body
  /\ Streams(c)
  /\ Goto(c, "joining")
  /\ streaming' = [streaming EXCEPT ![Tool[c]] = FALSE]
  /\ Answer(c, "data")
  /\ UNCHANGED <<owner, body, inCall, beat>>

Joined(c) ==
  /\ pc[c] = "joining"
  /\ beat[Tool[c]] = "none"
  /\ Goto(c, "done")
  /\ owner' = Release(c)
  /\ UNCHANGED <<body, streaming, inCall, beat, answer>>

BeatStarts(t) ==
  /\ beat[t] = "starting"
  /\ beat' = [beat EXCEPT ![t] = "on"]
  /\ UNCHANGED <<pc, owner, body, streaming, inCall, answer>>

\* nothing streams any more, or (timedOut) the count-down is over
BeatEnds(t, timedOut) ==
  /\ beat[t] = "on"
  /\ ~streaming[t] \/ timedOut
  /\ beat' = [beat EXCEPT ![t] = "none"]
  /\ UNCHANGED <<pc, owner, body, streaming, inCall, answer>>

----------------------------------------------------------------------------
(* Cancellation, at the two places where the coroutine waits. *)

\* acquired_locks are not given back
CancelWaiting(c) ==
  /\ Cancels
  /\ LoopTurns(c)
  /\ pc[c] = "locking"
  /\ \E l \in Locks : NextLock(c, l) /\ owner[l] # Free
  /\ Goto(c, "done")
  /\ Answer(c, "cancelled")
  /\ UNCHANGED <<owner, body, streaming, inCall, beat>>

\* the finally clauses give the locks back and reset is_in_call, not
\* is_in_streaming; the body goes on in its thread
CancelRunning(c) ==
  /\ Cancels
  /\ LoopTurns(c)
  /\ pc[c] = "running"
  /\ Goto(c, "done")
  /\ owner' = Release(c)
  /\ inCall' = IF Streams(c) THEN inCall
               ELSE [inCall EXCEPT ![Tool[c]] = FALSE]
  /\ Answer(c, "cancelled")
  /\ UNCHANGED <<body, streaming, beat>>

Coroutine(c) ==
  \/ Acquire(c)
  \/ BeginPlain(c)
  \/ BeginStream(c)
  \/ Refuse(c)
  \/ ReturnPlain(c)
  \/ ReturnStream(c)
  \/ Joined(c)

Beat(t) == BeatStarts(t) \/ \E timedOut \in BOOLEAN : BeatEnds(t, timedOut)

Finished ==
  /\ \A c \in Calls : pc[c] = "done" /\ c \notin body
  /\ \A t \in Tools : beat[t] = "none"
  /\ UNCHANGED vars

Next ==
  \/ \E c \in Calls :
       \/ Call(c)
       \/ Coroutine(c)
       \/ LockTimeout(c)
       \/ BodyEnds(c)
       \/ CancelWaiting(c)
       \/ CancelRunning(c)
  \/ \E t \in Tools : Beat(t)
  \/ Finished

Spec == Init /\ [][Next]_vars

\* The loop, the worker threads and the heartbeats get on; a waiting call
\* gets a lock that is free again and again (asyncio locks are first come,
\* first served).  No lock needs to time out, nothing needs to be cancelled.
Fairness ==
  /\ \A c \in Calls : SF_vars(Coroutine(c)) /\ WF_vars(BodyEnds(c))
  /\ \A t \in Tools : WF_vars(Beat(t))

FairSpec == Spec /\ Fairness

----------------------------------------------------------------------------
(* Properties *)

\* Two calls are in conflict that share a path or, without path arguments,
\* their tool.
Conflict(c, d) ==
  /\ c # d
  /\ \/ Args[c] \cap Args[d] # {}
     \/ Args[c] = {} /\ Args[d] = {} /\ Tool[c] = Tool[d]

\* Bodies of calls in conflict never run at the same time: call_lock_arguments
\* are the "Tool input paths used to serialize conflicting asynchronous calls."
ConflictsSerialized == \A c, d \in body : ~Conflict(c, d)

\* ... and when clients cancel, at least the calls still in progress do not
\* run into each other.
InProgressApart ==
  \A c, d \in body : pc[c] = "running" /\ pc[d] = "running" => ~Conflict(c, d)

InProgress(c) == pc[c] \in {"locking", "locked", "running", "joining"}

\* A lock is only ever held by a call in progress: whoever is told "is busy,
\* get lock timeout ... Please try again later" can do so with success.
LocksReturned ==
  \A l \in Locks : owner[l] # Free => InProgress(owner[l])

\* When clients cancel, the only lock that is lost is one of several that a
\* cancelled call was collecting.
OnlyCollectedLocksLost ==
  \A l \in Locks : owner[l] # Free /\ ~InProgress(owner[l]) =>
    /\ answer[owner[l]] = "cancelled"
    /\ Args[owner[l]] \ {l} # {}

\* A heartbeat thread belongs to a streaming call that still holds its tool:
\* the next call neither finds nor starts a second one.
BeatHasCall ==
  \A t \in Tools : beat[t] # "none" =>
    \E c \in Calls : /\ owner[t] = c
                     /\ Streams(c)
                     /\ pc[c] \in {"running", "joining"}

\* Every call is answered, although no lock times out: calls that share
\* several paths do not wait for each other in a circle, and no call waits
\* for a heartbeat that waits for nothing.
CallsAreAnswered ==
  \A c \in Calls : pc[c] # "idle" ~> pc[c] = "done"

=============================================================================
