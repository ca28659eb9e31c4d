------------------------ MODULE MasterWorkspaceProofs ------------------------
(***************************************************************************)
(* Theorems about MasterWorkspace for any number of events.                *)
(***************************************************************************)
EXTENDS MasterWorkspace, TLAPS

USE EventsAssumption

----------------------------------------------------------------------------
(* The invariants.                                                         *)

Outs == [kind : {"none", "laid", "built", "mixed", "agent"}, rev : Revisions,
         by : Compiles \cup {"none"}]
Typed == TypeOK /\ sync \in [pc : {"idle", "backup", "swap"}, old : Outs]

\* Every revision came with an event, or comes with the upload under way.
Counted ==
  /\ entry.rev <= events + IF pc["upload"] = "idle" THEN 1 ELSE 0
  /\ saved.rev <= events + 1

\* The directory is made and marked, or removed, under the lock; while it is
\* marked the entry stays.
Locked ==
  /\ \A w \in Workers : pc[w] \in {"mark", "enter"} => lock = w
  /\ \A w \in Workers : pc[w] = "mark" => entry.in
  /\ cleanup \in {"remove", "pop"} => lock = "cleanup"

Marked == dir.is /\ dir.marker

\* How far a launch is, the task, the entry and the process say.
Launched ==
  /\ launch \in {"spawn", "mark"} => task \/ letGo
  /\ proc => launch \in {"mark", "done"}
  /\ launch \in {"create", "spawn", "mark"} /\ ~entry.in => ~Marked
  /\ cleanup = "pop" => ~Marked

\* What a removal goes by is so until it is made, unless late or the record
\* of the task was gone.
Removing ==
  ~late /\ ~letGo =>
    /\ cleanup \in {"remove", "look", "sweep"} => launch \notin {"spawn", "mark"}
    /\ cleanup = "remove" => ~proc \/ ~dir.marker
    /\ cleanup = "sweep" => ~proc

\* After the launch, the directory says launched, or has no marker and gets
\* none.
Protected ==
  proc /\ ~late /\ ~letGo =>
    /\ dir.is
    /\ launch = "done" =>
         /\ dir.marker => dir.status = "launched"
         /\ \A w \in Workers : pc[w] \in {"mark", "enter"} =>
              dir.marker /\ entry.status = "launched"

Inv == Typed /\ Counted /\ Locked /\ Launched /\ Removing /\ Protected

----------------------------------------------------------------------------

\* The entry and what is compiled count.
Sure == ~unsure /\ ~cut /\ ~late /\ entry.in /\ cleanup # "pop"
Working(w) == pc[w] \in {"pick", "record"}

\* The compile under way is alone, and of the files as they are.
Compiling ==
  Sure => \A w \in Compiles : Working(w) =>
    /\ made[w] = entry.rev /\ dir.is /\ sync.pc # "swap"
    /\ \A v \in Compiles : Working(v) => v = w
    /\ out.rev = entry.rev
    /\ IF pc[w] = "pick" THEN out.kind = "laid" /\ out.by = w ELSE out.kind = "built"

\* The results are there, or about to be replaced by those of the agent.
Results(o) ==
  \/ o.kind = "built" /\ o.rev = entry.rev
  \/ o.kind = "agent" /\ launch # "idle"
Settled ==
  Sure =>
    /\ sync.pc # "idle" => dir.is
    /\ sync.pc = "swap" => out.kind = "none"
    /\ entry.compile # 0 =>
         /\ entry.compile = entry.rev
         /\ (\A w \in Compiles : ~Working(w)) =>
              Results(IF sync.pc = "swap" THEN sync.old ELSE out)

Quiet ==
  /\ events = 0 => sync.pc = "idle" /\ \A w \in Workers : pc[w] = "idle"
  /\ sync.pc # "idle" => launch # "idle"

CInv == Compiling /\ Settled /\ Quiet

----------------------------------------------------------------------------
(* Changes of the entry, the directory and the steps.                      *)

Entries == [in : BOOLEAN, status : Statuses, fresh : BOOLEAN, rev : Revisions,
            compile : Revisions]
Saves == [in : BOOLEAN, status : Statuses, rev : Revisions, compile : Revisions,
          task : BOOLEAN]
Dirs == [is : BOOLEAN, marker : BOOLEAN, fresh : BOOLEAN,
         status : Statuses \cup {"unknown"}]
Steps == {"idle", "mkdir", "mark", "enter", "layout", "pick", "write", "record"}

LEMMA Types ==
  ASSUME Typed
  PROVE  /\ entry \in Entries /\ saved \in Saves /\ dir \in Dirs /\ out \in Outs
         /\ pc \in [Workers -> Steps] /\ made \in [Compiles -> Revisions]
         /\ Revisions \subseteq Nat /\ events \in Nat
         /\ "upload" \in Workers /\ "upload" \notin Compiles /\ Compiles \subseteq Workers
  <1>1. Revisions \subseteq Nat /\ 0 .. MaxEvents \subseteq Nat
    BY DEF Revisions
  <1>2. "upload" \in Workers /\ "upload" \notin Compiles /\ Compiles \subseteq Workers
    BY DEF Workers, Compiles
  <1> QED  BY <1>1, <1>2 DEF Typed, TypeOK, Entries, Saves, Dirs, Outs, Steps

\* What changes has its type.
LEMMA TypedAgain ==
  ASSUME Typed,
         entry' = entry \/ entry' \in Entries, saved' = saved \/ saved' \in Saves,
         dir' = dir \/ dir' \in Dirs, out' = out \/ out' \in Outs,
         pc' = pc \/ pc' \in [Workers -> Steps],
         made' = made \/ made' \in [Compiles -> Revisions],
         task' = task \/ task' \in BOOLEAN, proc' = proc \/ proc' \in BOOLEAN,
         launch' = launch \/ launch' \in {"idle", "create", "spawn", "mark", "done"},
         sync' = sync \/ sync' \in [pc : {"idle", "backup", "swap"}, old : Outs],
         \/ cleanup' = cleanup
         \/ cleanup' \in {"idle", "recheck", "remove", "pop", "known", "look", "sweep"},
         lock' = lock \/ lock' \in Workers \cup {"free", "cleanup"},
         events' = events \/ events' \in 0 .. MaxEvents,
         late' = late \/ late' \in BOOLEAN,
         letGo' = letGo \/ letGo' \in BOOLEAN, stray' = stray \/ stray' \in BOOLEAN,
         unsure' = unsure \/ unsure' \in BOOLEAN, cut' = cut \/ cut' \in BOOLEAN
  PROVE  Typed'
  <1>1. /\ entry' \in Entries /\ saved' \in Saves /\ dir' \in Dirs /\ out' \in Outs
        /\ pc' \in [Workers -> Steps] /\ made' \in [Compiles -> Revisions]
    BY Types
  <1>2. /\ task' \in BOOLEAN /\ proc' \in BOOLEAN
        /\ late' \in BOOLEAN /\ letGo' \in BOOLEAN /\ stray' \in BOOLEAN
        /\ unsure' \in BOOLEAN /\ cut' \in BOOLEAN
    BY DEF Typed, TypeOK
  <1>3. /\ launch' \in {"idle", "create", "spawn", "mark", "done"}
        /\ cleanup' \in {"idle", "recheck", "remove", "pop", "known", "look", "sweep"}
        /\ lock' \in Workers \cup {"free", "cleanup"} /\ events' \in 0 .. MaxEvents
    BY DEF Typed, TypeOK
  <1>4. sync' \in [pc : {"idle", "backup", "swap"}, old : Outs]
    BY DEF Typed
  <1>5. /\ sync'.pc \in {"idle", "backup", "swap"}
        /\ sync'.old.kind \in {"none", "laid", "built", "mixed", "agent"}
    BY <1>4 DEF Outs
  <1> QED  BY <1>1, <1>2, <1>3, <1>4, <1>5 DEF Typed, TypeOK, Entries, Saves, Dirs, Outs, Steps

LEMMA Goings ==
  ASSUME Typed, NEW w \in Workers, NEW step \in Steps, Goes(w, step)
  PROVE  /\ pc' \in [Workers -> Steps]
         /\ \A v \in Workers : pc'[v] = IF v = w THEN step ELSE pc[v]
  BY Types DEF Goes

LEMMA Markings ==
  ASSUME Typed, NEW status \in Statuses, Marks(status)
  PROVE  /\ entry' \in Entries /\ dir' \in Dirs
         /\ entry'.in = entry.in /\ entry'.rev = entry.rev
         /\ entry'.compile = entry.compile /\ entry'.status = status
         /\ dir'.is = dir.is /\ dir'.marker = dir.marker
         /\ IF Marked THEN dir'.status = status ELSE dir' = dir
  <1> DEFINE e == [entry EXCEPT !.status = status, !.fresh = TRUE]
             d == [dir EXCEPT !.status = status, !.fresh = TRUE]
  <1>1. entry \in Entries /\ dir \in Dirs
    BY Types
  <1>2. /\ e \in Entries /\ e.in = entry.in /\ e.rev = entry.rev
        /\ e.compile = entry.compile /\ e.status = status
    BY <1>1 DEF Entries
  <1>3. d \in Dirs /\ d.is = dir.is /\ d.marker = dir.marker /\ d.status = status
    BY <1>1 DEF Dirs
  <1>4. entry' = e /\ dir' = IF Marked THEN d ELSE dir
    BY DEF Marks, Marked
  <1> HIDE DEF e, d
  <1> QED  BY <1>1, <1>2, <1>3, <1>4

LEMMA Remakings ==
  ASSUME Typed
  PROVE  /\ Remade \in Dirs /\ Remade.is
         /\ IF dir.is THEN Remade = dir ELSE ~Remade.marker
  <1> DEFINE d == [NoDir EXCEPT !.is = TRUE]
  <1>1. d \in Dirs /\ d.is /\ ~d.marker
    BY DEF NoDir, Dirs
  <1>2. Remade = IF dir.is THEN dir ELSE d
    BY DEF Remade
  <1> HIDE DEF d
  <1> QED  BY <1>1, <1>2, Types

LEMMA Nothings ==
  /\ NoDir \in Dirs /\ ~NoDir.is /\ ~NoDir.marker
  /\ Nothing \in Outs /\ Nothing.kind = "none"
  /\ NoSync \in [pc : {"idle", "backup", "swap"}, old : Outs] /\ NoSync.pc = "idle"
  <1>1. 0 \in Revisions
    BY DEF Revisions
  <1>2. Nothing \in Outs /\ Nothing.kind = "none"
    BY <1>1 DEF Nothing, Outs
  <1>3. NoDir \in Dirs /\ ~NoDir.is /\ ~NoDir.marker
    BY DEF NoDir, Dirs
  <1> QED  BY <1>2, <1>3 DEF NoSync

LEMMA StatusType ==
  ASSUME Typed
  PROVE  /\ Status \in Statuses
         /\ Marked /\ dir.status = "launched" => Status = "launched"
  BY Types DEF Status, Entries, Statuses, Marked

LEMMA Events ==
  ASSUME Typed, Event
  PROVE  events' = events + 1 /\ events' \in 0 .. MaxEvents
  BY DEF Typed, TypeOK, Event

----------------------------------------------------------------------------
(* Steps that leave the launch and the cleanup alone.                      *)

LEMMA StillKeeps ==
  ASSUME Inv, Typed', Counted', Locked', late => late', letGo => letGo',
         UNCHANGED <<launch, cleanup>>, proc' => proc,
         task' = task \/ launch \notin {"spawn", "mark"} \/ letGo',
         entry.in => entry'.in,
         IF dir.is
         THEN /\ dir'.is /\ dir'.marker = dir.marker
              /\ Marked /\ dir.status = "launched" =>
                   dir'.status = "launched" \/ ~proc \/ late \/ letGo \/ launch # "done"
         ELSE ~Marked',
         \A w \in Workers : pc'[w] \in {"mark", "enter"} =>
           /\ pc[w] \in {"mark", "enter"}
           /\ entry.status = "launched" => entry'.status = "launched"
  PROVE  Inv'
  <1>1. Launched'
    BY DEF Inv, Launched, Marked
  <1>2. Removing'
    BY DEF Inv, Removing, Protected
  <1>3. Protected'
    <2> SUFFICES ASSUME proc', ~late' /\ ~letGo'
                 PROVE  /\ dir'.is
                        /\ launch' = "done" =>
                             /\ dir'.marker => dir'.status = "launched"
                             /\ \A w \in Workers : pc'[w] \in {"mark", "enter"} =>
                                  dir'.marker /\ entry'.status = "launched"
      BY DEF Protected
    <2>1. /\ proc /\ ~late /\ ~letGo /\ dir.is
          /\ launch = "done" =>
               /\ dir.marker => dir.status = "launched"
               /\ \A w \in Workers : pc[w] \in {"mark", "enter"} =>
                    dir.marker /\ entry.status = "launched"
      BY DEF Inv, Protected
    <2> QED  BY <2>1 DEF Marked
  <1> QED  BY <1>1, <1>2, <1>3 DEF Inv

----------------------------------------------------------------------------
(* What the steps of the page, of uploads, compiles and replacements do.   *)

LEMMA Facts ==
  ASSUME Inv
  PROVE  /\ Typed /\ Counted /\ Locked /\ Launched /\ Removing /\ Protected
         /\ entry \in Entries /\ saved \in Saves /\ dir \in Dirs /\ out \in Outs
         /\ pc \in [Workers -> Steps] /\ made \in [Compiles -> Revisions]
         /\ Revisions \subseteq Nat /\ events \in Nat
         /\ "upload" \in Workers /\ "upload" \notin Compiles /\ Compiles \subseteq Workers
         /\ entry.rev \in Revisions /\ entry.compile \in Revisions /\ saved.rev \in Revisions
         /\ late \in BOOLEAN /\ letGo \in BOOLEAN /\ stray \in BOOLEAN
         /\ unsure \in BOOLEAN /\ cut \in BOOLEAN
  <1>1. Typed /\ Counted /\ Locked /\ Launched /\ Removing /\ Protected
    BY DEF Inv
  <1>2. entry \in Entries /\ saved \in Saves
    BY <1>1, Types
  <1>3. entry.rev \in Revisions /\ entry.compile \in Revisions /\ saved.rev \in Revisions
    BY <1>2 DEF Entries, Saves
  <1> QED  BY <1>1, <1>3, Types DEF Typed, TypeOK

\* The counts go on when no revision is added, or one is with an event.
LEMMA CountedAgain ==
  ASSUME Inv, entry'.rev = entry.rev, saved'.rev = saved.rev, events' \in {events, events + 1},
         pc'["upload"] # "idle" => pc["upload"] # "idle" \/ events' = events + 1
  PROVE  Counted'
  <1>1. /\ entry.rev \in Nat /\ saved.rev \in Nat /\ events \in Nat
        /\ entry.rev <= events + (IF pc["upload"] = "idle" THEN 1 ELSE 0)
        /\ saved.rev <= events + 1
    BY Facts DEF Counted
  <1> QED  BY <1>1 DEF Counted

LEMMA CountedUnderWay ==
  ASSUME Inv, entry'.rev = entry.rev, saved'.rev = saved.rev, events' = events,
         NEW w \in Workers, pc[w] # "idle", \A v \in Workers : v # w => pc'[v] = pc[v]
  PROVE  Counted'
  <1>1. pc'["upload"] # "idle" => pc["upload"] # "idle"
    BY Facts
  <1> QED  BY <1>1, CountedAgain

\* The entry keeps its place and its files.
SameEntry == /\ entry'.in = entry.in /\ entry'.rev = entry.rev
             /\ entry'.compile = entry.compile

LEMMA CreateDoes ==
  ASSUME Inv, Create
  PROVE  /\ Inv'
         /\ entry'.compile = 0 /\ entry'.rev = 0 /\ events = 0 /\ events' = events + 1
         /\ UNCHANGED <<dir, out, pc, made, launch, sync, cleanup, late, unsure, cut>>
  <1> DEFINE e == [entry EXCEPT !.in = TRUE, !.fresh = TRUE]
  <1>1. /\ entry' = e /\ entry = NoEntry /\ events = 0 /\ Event
        /\ UNCHANGED <<task, saved, dir, out, pc, made, launch, proc, sync, cleanup,
                       lock, late, letGo, stray, unsure, cut>>
    BY DEF Create
  <1>2. /\ e \in Entries /\ e.in /\ e.status = entry.status /\ e.rev = entry.rev
        /\ e.compile = entry.compile
    BY Facts DEF Entries
  <1>3. entry.compile = 0 /\ entry.rev = 0
    BY <1>1 DEF NoEntry
  <1> HIDE DEF e
  <1>4. events' = events + 1 /\ events' \in 0 .. MaxEvents
    BY <1>1, Facts, Events
  <1>5. Typed'
    BY <1>1, <1>2, <1>4, Facts, TypedAgain
  <1>6. Counted'
    BY <1>1, <1>2, <1>4, CountedAgain
  <1>7. Locked'
    BY <1>1, <1>2, Facts DEF Locked
  <1>8. Inv'
    BY <1>1, <1>2, <1>5, <1>6, <1>7, StillKeeps DEF Marked
  <1> QED  BY <1>1, <1>2, <1>3, <1>4, <1>8

LEMMA TouchDoes ==
  ASSUME Inv, NEW word \in {"active", "release"}, Touch(word)
  PROVE  /\ Inv' /\ SameEntry /\ dir'.is = dir.is /\ events' = events + 1
         /\ UNCHANGED <<out, pc, made, launch, sync, cleanup, late, unsure, cut>>
  <1> DEFINE status == IF Status = "launched" THEN "launched"
                       ELSE IF word = "release" THEN "released" ELSE word
  <1>1. /\ lock = "free" /\ Event /\ Marks(status)
        /\ UNCHANGED <<task, saved, out, pc, made, launch, proc, sync, cleanup, lock,
                       late, letGo, stray, unsure, cut>>
    BY DEF Touch
  <1>2. status \in Statuses /\ (Marked /\ dir.status = "launched" => status = "launched")
    BY Facts, StatusType DEF Statuses
  <1> HIDE DEF status
  <1>3. /\ entry' \in Entries /\ dir' \in Dirs /\ SameEntry
        /\ dir'.is = dir.is /\ dir'.marker = dir.marker
        /\ IF Marked THEN dir'.status = status ELSE dir' = dir
    BY <1>1, <1>2, Facts, Markings DEF SameEntry
  <1>4. events' = events + 1 /\ events' \in 0 .. MaxEvents
    BY <1>1, Facts, Events
  <1>5. Typed'
    BY <1>1, <1>3, <1>4, Facts, TypedAgain
  <1>6. Counted'
    BY <1>1, <1>3, <1>4, CountedAgain DEF SameEntry
  <1>7. \A w \in Workers : pc[w] \notin {"mark", "enter"}
    BY <1>1, Facts DEF Locked, Workers, Compiles
  <1>8. Locked'
    BY <1>1, <1>3, <1>7, Facts DEF Locked, SameEntry
  <1>9. Inv'
    BY <1>1, <1>2, <1>3, <1>5, <1>6, <1>7, <1>8, StillKeeps DEF Marked, SameEntry
  <1> QED  BY <1>1, <1>3, <1>4, <1>9

LEMMA ExpireDoes ==
  ASSUME Inv, Expire
  PROVE  /\ Inv' /\ SameEntry /\ dir'.is = dir.is
         /\ UNCHANGED <<out, pc, made, launch, sync, cleanup, events, late, unsure,
                        cut>>
  <1> DEFINE e == [entry EXCEPT !.fresh = FALSE]
             d == [dir EXCEPT !.fresh = FALSE]
  <1>1. /\ entry' = e /\ dir' = d
        /\ UNCHANGED <<task, saved, out, pc, made, launch, proc, sync, cleanup, lock,
                       events, late, letGo, stray, unsure, cut>>
    BY DEF Expire
  <1>2. /\ e \in Entries /\ e.in = entry.in /\ e.rev = entry.rev
        /\ e.compile = entry.compile /\ e.status = entry.status
    BY Facts DEF Entries
  <1>3. d \in Dirs /\ d.is = dir.is /\ d.marker = dir.marker /\ d.status = dir.status
    BY Facts DEF Dirs
  <1> HIDE DEF e, d
  <1>4. Typed'
    BY <1>1, <1>2, <1>3, Facts, TypedAgain
  <1>5. Counted'
    BY <1>1, <1>2, CountedAgain
  <1>6. Locked'
    BY <1>1, <1>2, Facts DEF Locked
  <1>7. Inv'
    BY <1>1, <1>2, <1>3, <1>4, <1>5, <1>6, StillKeeps DEF Marked
  <1> QED  BY <1>1, <1>2, <1>3, <1>7 DEF SameEntry

\* A file more, or one changed; what was compiled counts no longer.
LEMMA Revised ==
  ASSUME Inv, events \in 0 .. MaxEvents,
         pc["upload"] # "idle" \/ events < MaxEvents
  PROVE  /\ [entry EXCEPT !.rev = @ + 1, !.compile = 0] \in Entries
         /\ [entry EXCEPT !.rev = @ + 1, !.compile = 0].in = entry.in
         /\ [entry EXCEPT !.rev = @ + 1, !.compile = 0].status = entry.status
         /\ [entry EXCEPT !.rev = @ + 1, !.compile = 0].rev = entry.rev + 1
         /\ [entry EXCEPT !.rev = @ + 1, !.compile = 0].compile = 0
  <1>1. entry.rev + 1 \in Revisions /\ 0 \in Revisions
    <2>1. /\ entry.rev \in Nat
          /\ entry.rev <= events + (IF pc["upload"] = "idle" THEN 1 ELSE 0)
      BY Facts DEF Counted
    <2> QED  BY <2>1 DEF Revisions
  <1> QED  BY <1>1, Facts DEF Entries

LEMMA EditListDoes ==
  ASSUME Inv, EditList
  PROVE  /\ Inv' /\ entry'.in = entry.in /\ entry'.compile = 0 /\ events' = events + 1
         /\ unsure' = (unsure \/ \E w \in Compiles : Working(w))
         /\ UNCHANGED <<dir, out, pc, made, launch, sync, cleanup, late, cut>>
  <1> DEFINE e == [entry EXCEPT !.rev = @ + 1, !.compile = 0]
  <1>1. /\ entry' = e /\ Event
        /\ unsure' = (unsure \/ \E w \in Compiles : Working(w))
        /\ UNCHANGED <<task, saved, dir, out, pc, made, launch, proc, sync, cleanup,
                       lock, late, letGo, stray, cut>>
    BY DEF EditList, Working
  <1>2. events' = events + 1 /\ events' \in 0 .. MaxEvents
    BY <1>1, Facts, Events
  <1>3. events \in 0 .. MaxEvents /\ events < MaxEvents
    BY <1>1, Facts DEF Event, Typed, TypeOK
  <1>4. /\ e \in Entries /\ e.in = entry.in /\ e.status = entry.status
        /\ e.rev = entry.rev + 1 /\ e.compile = 0
    BY <1>3, Revised
  <1> HIDE DEF e
  <1>5. unsure' \in BOOLEAN
    BY <1>1, Facts
  <1>6. Typed'
    BY <1>1, <1>2, <1>4, <1>5, Facts, TypedAgain
  <1>7. Counted'
    <2>1. /\ entry.rev \in Nat /\ events \in Nat /\ saved.rev \in Nat
          /\ entry.rev <= events + (IF pc["upload"] = "idle" THEN 1 ELSE 0)
          /\ saved.rev <= events + 1
      BY Facts DEF Counted
    <2>2. entry'.rev = entry.rev + 1 /\ saved'.rev = saved.rev /\ pc' = pc
      BY <1>1, <1>4
    <2> QED  BY <1>2, <2>1, <2>2 DEF Counted
  <1>8. Locked'
    BY <1>1, <1>4, Facts DEF Locked
  <1>9. Inv'
    BY <1>1, <1>4, <1>6, <1>7, <1>8, StillKeeps DEF Marked
  <1> QED  BY <1>1, <1>2, <1>4, <1>9

LEMMA StartsDoes ==
  ASSUME Inv, NEW w \in Workers, Starts(w)
  PROVE  /\ Inv' /\ pc[w] = "idle" /\ events' = events + 1
         /\ \A v \in Workers : pc'[v] = IF v = w THEN "mkdir" ELSE pc[v]
         /\ UNCHANGED <<entry, dir, out, made, launch, sync, cleanup, late, unsure,
                        cut>>
  <1>1. /\ pc[w] = "idle" /\ Event /\ Goes(w, "mkdir")
        /\ UNCHANGED <<entry, task, saved, dir, out, made, launch, proc, sync, cleanup,
                       lock, late, letGo, stray, unsure, cut>>
    BY DEF Starts
  <1>2. /\ pc' \in [Workers -> Steps]
        /\ \A v \in Workers : pc'[v] = IF v = w THEN "mkdir" ELSE pc[v]
    <2>1. "mkdir" \in Steps
      BY DEF Steps
    <2> QED  BY <1>1, <2>1, Facts, Goings
  <1>3. events' = events + 1 /\ events' \in 0 .. MaxEvents
    BY <1>1, Facts, Events
  <1>4. Typed'
    BY <1>1, <1>2, <1>3, Facts, TypedAgain
  <1>5. Counted'
    BY <1>1, <1>2, <1>3, CountedAgain
  <1>6. Locked'
    BY <1>1, <1>2, Facts DEF Locked
  <1>7. Inv'
    BY <1>1, <1>2, <1>4, <1>5, <1>6, StillKeeps DEF Marked
  <1> QED  BY <1>1, <1>2, <1>3, <1>7

\* The lock is taken to make the directory, or the worker gives up.
LEMMA MkdirDoes ==
  ASSUME Inv, NEW w \in Workers, Mkdir(w)
  PROVE  /\ Inv' /\ SameEntry /\ (dir.is => dir'.is)
         /\ \A v \in Workers : v # w => pc'[v] = pc[v]
         /\ pc[w] = "mkdir" /\ pc'[w] \in {"idle", "mark"}
         /\ UNCHANGED <<out, made, launch, sync, cleanup, events, late, unsure, cut>>
  <1> DEFINE e == [entry EXCEPT !.status = Status]
  <1>1. /\ pc[w] = "mkdir" /\ lock = "free"
        /\ entry' = IF entry.in THEN e ELSE entry
        /\ UNCHANGED <<task, saved, out, made, launch, proc, sync, cleanup, events,
                       late, letGo, stray, unsure, cut>>
    BY DEF Mkdir
  <1>2. e \in Entries /\ e.in = entry.in /\ e.rev = entry.rev /\ e.compile = entry.compile
        /\ e.status = Status
    BY Facts, StatusType DEF Entries
  <1> HIDE DEF e
  <1>3. entry' \in Entries /\ SameEntry
    BY <1>1, <1>2, Facts DEF SameEntry
  <1>4. \A v \in Workers : pc[v] \notin {"mark", "enter"}
    BY <1>1, Facts DEF Locked, Workers, Compiles
  <1>5. CASE entry.in /\ (dir.is => dir.marker)
    <2>1. dir' = Remade /\ lock' = w /\ Goes(w, "mark")
      BY <1>5 DEF Mkdir
    <2>2. /\ pc' \in [Workers -> Steps]
          /\ \A v \in Workers : pc'[v] = IF v = w THEN "mark" ELSE pc[v]
      <3>1. "mark" \in Steps
        BY DEF Steps
      <3> QED  BY <2>1, <3>1, Facts, Goings
    <2>3. /\ dir' \in Dirs /\ dir'.is /\ IF dir.is THEN dir' = dir ELSE ~dir'.marker
      BY <2>1, Facts, Remakings
    <2>4. Typed'
      BY <1>1, <1>3, <2>1, <2>2, <2>3, Facts, TypedAgain
    <2>5. Counted'
      BY <1>1, <1>3, <2>2, CountedUnderWay DEF SameEntry
    <2>6. Locked'
      BY <1>1, <1>3, <1>4, <1>5, <2>1, <2>2, Facts DEF Locked, SameEntry
    <2>7. Launched' /\ Removing'
      BY <1>1, <1>3, <2>3, Facts DEF Launched, Removing, Protected, Marked, SameEntry
    <2>8. Protected'
      <3> SUFFICES ASSUME proc', ~late' /\ ~letGo'
                   PROVE  /\ dir'.is
                          /\ launch' = "done" =>
                               /\ dir'.marker => dir'.status = "launched"
                               /\ \A v \in Workers : pc'[v] \in {"mark", "enter"} =>
                                    dir'.marker /\ entry'.status = "launched"
        BY DEF Protected
      <3>1. dir.is /\ dir.marker /\ dir' = dir
            /\ (launch = "done" => dir.status = "launched")
        BY <1>1, <1>5, <2>3, Facts DEF Protected
      <3>2. launch = "done" => entry'.status = "launched"
        BY <1>1, <1>2, <1>5, <3>1, Facts, StatusType DEF Marked
      <3> QED  BY <1>1, <3>1, <3>2
    <2> QED  BY <1>1, <1>3, <2>2, <2>3, <2>4, <2>5, <2>6, <2>7, <2>8 DEF Inv
  <1>6. CASE ~(entry.in /\ (dir.is => dir.marker))
    <2>1. Goes(w, "idle") /\ UNCHANGED <<dir, lock>>
      BY <1>6 DEF Mkdir
    <2>2. /\ pc' \in [Workers -> Steps]
          /\ \A v \in Workers : pc'[v] = IF v = w THEN "idle" ELSE pc[v]
      <3>1. "idle" \in Steps
        BY DEF Steps
      <3> QED  BY <2>1, <3>1, Facts, Goings
    <2>3. Typed'
      BY <1>1, <1>3, <2>1, <2>2, Facts, TypedAgain
    <2>4. Counted'
      BY <1>1, <1>3, <2>2, CountedUnderWay DEF SameEntry
    <2>5. Locked'
      BY <1>1, <1>3, <1>4, <2>1, <2>2, Facts DEF Locked, SameEntry
    <2>6. Inv'
      BY <1>1, <1>3, <1>4, <2>1, <2>2, <2>3, <2>4, <2>5, StillKeeps DEF Marked, SameEntry
    <2> QED  BY <1>1, <1>3, <2>1, <2>2, <2>6
  <1> QED  BY <1>5, <1>6

LEMMA MarkDoes ==
  ASSUME Inv, NEW w \in Workers, Mark(w)
  PROVE  /\ Inv' /\ SameEntry /\ dir'.is = dir.is
         /\ \A v \in Workers : v # w => pc'[v] = pc[v]
         /\ pc[w] = "mark" /\ pc'[w] \in {"idle", "enter"}
         /\ UNCHANGED <<out, made, launch, sync, cleanup, events, late, unsure, cut>>
  <1>1. /\ pc[w] = "mark"
        /\ UNCHANGED <<entry, task, saved, out, made, launch, proc, sync, cleanup,
                       events, late, letGo, stray, unsure, cut>>
    BY DEF Mark
  <1>2. /\ lock = w /\ entry.in /\ cleanup \notin {"remove", "pop"}
        /\ \A v \in Workers : pc[v] \in {"mark", "enter"} => v = w
    BY <1>1, Facts DEF Locked, Workers, Compiles
  <1>3. CASE dir.is
    <2> DEFINE d == [dir EXCEPT !.marker = TRUE]
    <2>1. dir' = d /\ lock' = lock /\ Goes(w, "enter")
      BY <1>3 DEF Mark
    <2>2. d \in Dirs /\ d.is = dir.is /\ d.marker /\ d.status = dir.status
      BY Facts DEF Dirs
    <2> HIDE DEF d
    <2>3. /\ pc' \in [Workers -> Steps]
          /\ \A v \in Workers : pc'[v] = IF v = w THEN "enter" ELSE pc[v]
      <3>1. "enter" \in Steps
        BY DEF Steps
      <3> QED  BY <2>1, <3>1, Facts, Goings
    <2>4. Typed'
      BY <1>1, <2>1, <2>2, <2>3, Facts, TypedAgain
    <2>5. Counted'
      BY <1>1, <2>3, CountedUnderWay
    <2>6. Locked'
      BY <1>1, <1>2, <2>1, <2>3, Facts DEF Locked
    <2>7. Launched' /\ Removing'
      BY <1>1, <1>2, Facts DEF Launched, Removing
    <2>8. Protected'
      <3>1. proc /\ ~late /\ ~letGo /\ launch = "done" =>
              dir.marker /\ dir.status = "launched" /\ entry.status = "launched"
        BY <1>1, Facts DEF Protected
      <3> QED  BY <1>1, <1>2, <1>3, <2>1, <2>2, <3>1, Facts DEF Protected
    <2> QED  BY <1>1, <2>1, <2>2, <2>3, <2>4, <2>5, <2>6, <2>7, <2>8 DEF Inv, SameEntry
  <1>4. CASE ~dir.is
    <2>1. Goes(w, "idle") /\ lock' = "free" /\ UNCHANGED dir
      BY <1>4 DEF Mark
    <2>2. /\ pc' \in [Workers -> Steps]
          /\ \A v \in Workers : pc'[v] = IF v = w THEN "idle" ELSE pc[v]
      <3>1. "idle" \in Steps
        BY DEF Steps
      <3> QED  BY <2>1, <3>1, Facts, Goings
    <2>3. Typed'
      BY <1>1, <2>1, <2>2, Facts, TypedAgain
    <2>4. Counted'
      BY <1>1, <2>2, CountedUnderWay
    <2>5. Locked'
      BY <1>1, <1>2, <2>1, <2>2, Facts DEF Locked
    <2>6. Inv'
      BY <1>1, <1>2, <2>1, <2>2, <2>3, <2>4, <2>5, StillKeeps DEF Marked
    <2> QED  BY <1>1, <2>1, <2>2, <2>6 DEF SameEntry
  <1> QED  BY <1>3, <1>4

LEMMA EnterDoes ==
  ASSUME Inv, NEW w \in Workers, Enter(w)
  PROVE  /\ Inv' /\ SameEntry /\ dir'.is = dir.is
         /\ \A v \in Workers : v # w => pc'[v] = pc[v]
         /\ pc[w] = "enter" /\ pc'[w] \in {"write", "layout"}
         /\ UNCHANGED <<out, made, launch, sync, cleanup, events, late, unsure, cut>>
  <1> DEFINE status == IF entry.status = "launched" THEN "launched" ELSE "active"
             step == IF w = "upload" THEN "write" ELSE "layout"
  <1>1. /\ pc[w] = "enter" /\ Marks(status) /\ lock' = "free" /\ Goes(w, step)
        /\ UNCHANGED <<task, saved, out, made, launch, proc, sync, cleanup, events,
                       late, letGo, stray, unsure, cut>>
    BY DEF Enter
  <1>2. /\ status \in Statuses /\ step \in {"write", "layout"} /\ step \in Steps
        /\ entry.status = "launched" => status = "launched"
    BY DEF Statuses, Steps
  <1> HIDE DEF status, step
  <1>3. /\ pc' \in [Workers -> Steps]
        /\ \A v \in Workers : pc'[v] = IF v = w THEN step ELSE pc[v]
    BY <1>1, <1>2, Facts, Goings
  <1>4. /\ entry' \in Entries /\ dir' \in Dirs /\ SameEntry
        /\ dir'.is = dir.is /\ dir'.marker = dir.marker
        /\ IF Marked THEN dir'.status = status ELSE dir' = dir
    BY <1>1, <1>2, Facts, Markings DEF SameEntry
  <1>5. \A v \in Workers : v # w => pc[v] \notin {"mark", "enter"}
    BY <1>1, Facts DEF Locked
  <1>6. \A v \in Workers : pc'[v] \notin {"mark", "enter"}
    BY <1>2, <1>3, <1>5
  <1>7. Typed'
    BY <1>1, <1>3, <1>4, Facts, TypedAgain
  <1>8. Counted'
    BY <1>1, <1>3, <1>4, CountedUnderWay DEF SameEntry
  <1>9. cleanup \notin {"remove", "pop"}
    BY <1>1, Facts DEF Locked, Workers, Compiles
  <1>10. Locked'
    BY <1>1, <1>6, <1>9 DEF Locked
  <1>11. proc /\ ~late /\ ~letGo /\ launch = "done" => entry.status = "launched"
    BY <1>1, Facts DEF Protected
  <1>12. Inv'
    BY <1>1, <1>2, <1>4, <1>6, <1>7, <1>8, <1>10, <1>11, StillKeeps DEF Marked, SameEntry
  <1> QED  BY <1>1, <1>2, <1>3, <1>4, <1>12

LEMMA WriteDoes ==
  ASSUME Inv, Write
  PROVE  /\ Inv' /\ dir'.is
         /\ \A w \in Compiles : pc'[w] = pc[w]
         /\ UNCHANGED <<entry, out, made, launch, sync, cleanup, events, late, unsure,
                        cut>>
  <1>1. /\ pc["upload"] = "write" /\ dir' = Remade /\ Goes("upload", "record")
        /\ stray' = (stray \/ ~dir.is)
        /\ UNCHANGED <<entry, task, saved, out, made, launch, proc, sync, cleanup, lock,
                       events, late, letGo, unsure, cut>>
    BY DEF Write
  <1>2. /\ pc' \in [Workers -> Steps]
        /\ \A v \in Workers : pc'[v] = IF v = "upload" THEN "record" ELSE pc[v]
    <2>1. "record" \in Steps
      BY DEF Steps
    <2> QED  BY <1>1, <2>1, Facts, Goings
  <1>3. dir' \in Dirs /\ dir'.is /\ IF dir.is THEN dir' = dir ELSE ~dir'.marker
    BY <1>1, Facts, Remakings
  <1>4. stray' \in BOOLEAN
    BY <1>1
  <1>5. Typed'
    BY <1>1, <1>2, <1>3, <1>4, Facts, TypedAgain
  <1>6. Counted'
    BY <1>1, CountedAgain
  <1>7. Locked'
    BY <1>1, <1>2, Facts DEF Locked
  <1>8. Inv'
    BY <1>1, <1>2, <1>3, <1>5, <1>6, <1>7, StillKeeps DEF Marked
  <1> QED  BY <1>1, <1>2, <1>3, <1>8, Facts

LEMMA RecordFileDoes ==
  ASSUME Inv, RecordFile
  PROVE  /\ Inv' /\ entry'.in = entry.in
         /\ entry' = entry \/ entry'.compile = 0
         /\ \A w \in Compiles : pc'[w] = pc[w]
         /\ unsure' = (unsure \/ \E w \in Compiles : Working(w))
         /\ UNCHANGED <<dir, out, made, launch, sync, cleanup, events, late, cut>>
  <1> DEFINE e == [entry EXCEPT !.rev = @ + 1, !.compile = 0]
  <1>1. /\ pc["upload"] = "record" /\ Goes("upload", "idle")
        /\ entry' = IF entry.in THEN e ELSE entry
        /\ unsure' = (unsure \/ \E w \in Compiles : Working(w))
        /\ UNCHANGED <<task, saved, dir, out, made, launch, proc, sync, cleanup, lock,
                       events, late, letGo, stray, cut>>
    BY DEF RecordFile, Working
  <1>2. /\ pc' \in [Workers -> Steps]
        /\ \A v \in Workers : pc'[v] = IF v = "upload" THEN "idle" ELSE pc[v]
    <2>1. "idle" \in Steps
      BY DEF Steps
    <2> QED  BY <1>1, <2>1, Facts, Goings
  <1>3. /\ e \in Entries /\ e.in = entry.in /\ e.status = entry.status
        /\ e.rev = entry.rev + 1 /\ e.compile = 0
    <2>1. events \in 0 .. MaxEvents
      BY Facts DEF Typed, TypeOK
    <2> QED  BY <1>1, <2>1, Revised
  <1> HIDE DEF e
  <1>4. /\ entry' \in Entries /\ entry'.in = entry.in /\ entry'.status = entry.status
        /\ entry'.rev \in {entry.rev, entry.rev + 1}
        /\ entry' = entry \/ entry'.compile = 0
    BY <1>1, <1>3, Facts
  <1>5. unsure' \in BOOLEAN
    BY <1>1, Facts
  <1>6. Typed'
    BY <1>1, <1>2, <1>4, <1>5, Facts, TypedAgain
  <1>7. Counted'
    <2>1. /\ entry.rev \in Nat /\ events \in Nat /\ saved.rev \in Nat
          /\ entry.rev <= events /\ saved.rev <= events + 1
      BY <1>1, Facts DEF Counted
    <2>2. saved'.rev = saved.rev /\ events' = events /\ pc'["upload"] = "idle"
      BY <1>1, <1>2, Facts
    <2> QED  BY <1>4, <2>1, <2>2 DEF Counted
  <1>8. Locked'
    BY <1>1, <1>2, <1>4, Facts DEF Locked
  <1>9. Inv'
    BY <1>1, <1>2, <1>4, <1>6, <1>7, <1>8, StillKeeps DEF Marked
  <1> QED  BY <1>1, <1>2, <1>4, <1>9, Facts

LEMMA LayoutDoes ==
  ASSUME Inv, NEW w \in Compiles, NEW main \in BOOLEAN, Layout(w, main)
  PROVE  /\ Inv' /\ dir'.is
         /\ out'.kind = "laid" /\ out'.rev = entry.rev /\ out'.by = w
         /\ \A v \in Workers : v # w => pc'[v] = pc[v]
         /\ pc[w] = "layout"
         /\ pc'[w] = IF main /\ entry.rev # 0 THEN "pick" ELSE "idle"
         /\ made'[w] = entry.rev /\ \A v \in Compiles : v # w => made'[v] = made[v]
         /\ ~unsure' => ~unsure /\ main /\ \A v \in Compiles : v # w => ~Working(v)
         /\ ~cut' => ~cut /\ sync = NoSync
         /\ UNCHANGED <<entry, launch, sync, cleanup, events, late>>
  <1> DEFINE step == IF main /\ entry.rev # 0 THEN "pick" ELSE "idle"
             o == [kind |-> "laid", rev |-> entry.rev, by |-> w]
  <1>1. /\ pc[w] = "layout" /\ dir' = Remade /\ Goes(w, step)
        /\ out' = o /\ made' = [made EXCEPT ![w] = entry.rev]
        /\ stray' = (stray \/ ~dir.is)
        /\ unsure' = (unsure \/ ~main \/ \E v \in Compiles \ {w} : Working(v))
        /\ cut' = (cut \/ sync # NoSync)
        /\ UNCHANGED <<entry, task, saved, launch, proc, sync, cleanup, lock, events,
                       late, letGo>>
    BY DEF Layout, Working
  <1>2. /\ pc' \in [Workers -> Steps]
        /\ \A v \in Workers : pc'[v] = IF v = w THEN step ELSE pc[v]
    <2>1. step \in Steps /\ w \in Workers
      BY Facts DEF Steps
    <2> HIDE DEF step
    <2> QED  BY <1>1, <2>1, Facts, Goings
  <1>3. o \in Outs /\ o.kind = "laid" /\ o.rev = entry.rev /\ o.by = w
    BY Facts DEF Outs
  <1> HIDE DEF o
  <1>4. dir' \in Dirs /\ dir'.is /\ IF dir.is THEN dir' = dir ELSE ~dir'.marker
    BY <1>1, Facts, Remakings
  <1>5. /\ made' \in [Compiles -> Revisions] /\ made'[w] = entry.rev
        /\ \A v \in Compiles : v # w => made'[v] = made[v]
    BY <1>1, Facts
  <1>6. stray' \in BOOLEAN /\ unsure' \in BOOLEAN /\ cut' \in BOOLEAN
    BY <1>1
  <1>7. Typed'
    BY <1>1, <1>2, <1>3, <1>4, <1>5, <1>6, Facts, TypedAgain
  <1>8. Counted'
    BY <1>1, <1>2, CountedUnderWay, Facts
  <1>9. Locked'
    BY <1>1, <1>2, Facts DEF Locked
  <1>10. Inv'
    BY <1>1, <1>2, <1>4, <1>7, <1>8, <1>9, StillKeeps DEF Marked
  <1> QED  BY <1>1, <1>2, <1>3, <1>4, <1>5, <1>10, Facts

LEMMA PickDoes ==
  ASSUME Inv, NEW w \in Compiles, NEW ok \in BOOLEAN, Pick(w, ok)
  PROVE  /\ Inv' /\ entry'.in = entry.in /\ entry'.rev = entry.rev
         /\ pc[w] = "pick"
         /\ \A v \in Workers : v # w => pc'[v] = pc[v]
         /\ IF ok
            THEN /\ pc'[w] = "record" /\ entry' = entry /\ out'.rev = out.rev
                 /\ out.kind = "laid" /\ out.by = w => out'.kind = "built"
            ELSE /\ pc'[w] = "idle" /\ out' = out
                 /\ dir.is => entry'.compile = 0
         /\ UNCHANGED <<dir, made, launch, sync, cleanup, events, late, unsure, cut>>
  <1> DEFINE step == IF ok THEN "record" ELSE "idle"
             kind == IF out.kind = "laid" /\ out.by = w THEN "built" ELSE "mixed"
             o == [out EXCEPT !.kind = kind]
             e == [entry EXCEPT !.compile = 0]
  <1>1. /\ pc[w] = "pick" /\ Goes(w, step)
        /\ out' = IF ~ok THEN out ELSE o
        /\ entry' = IF ok \/ ~dir.is THEN entry ELSE e
        /\ UNCHANGED <<task, saved, dir, made, launch, proc, sync, cleanup, lock,
                       events, late, letGo, stray, unsure, cut>>
    BY DEF Pick
  <1>2. /\ pc' \in [Workers -> Steps]
        /\ \A v \in Workers : pc'[v] = IF v = w THEN step ELSE pc[v]
    <2>1. step \in Steps /\ w \in Workers
      BY Facts DEF Steps
    <2> HIDE DEF step
    <2> QED  BY <1>1, <2>1, Facts, Goings
  <1>3. o \in Outs /\ o.kind = kind /\ o.rev = out.rev
    <2>1. kind \in {"built", "mixed"}
      OBVIOUS
    <2> HIDE DEF kind
    <2> QED  BY <2>1, Facts DEF Outs
  <1>4. /\ e \in Entries /\ e.in = entry.in /\ e.status = entry.status
        /\ e.rev = entry.rev /\ e.compile = 0
    <2>1. 0 \in Revisions
      BY DEF Revisions
    <2> QED  BY <2>1, Facts DEF Entries
  <1> HIDE DEF o, e
  <1>5. /\ entry' \in Entries /\ entry'.in = entry.in /\ entry'.status = entry.status
        /\ entry'.rev = entry.rev
    BY <1>1, <1>4, Facts
  <1>6. out' \in Outs
    BY <1>1, <1>3, Facts
  <1>7. Typed'
    BY <1>1, <1>2, <1>5, <1>6, Facts, TypedAgain
  <1>8. Counted'
    BY <1>1, <1>2, <1>5, CountedUnderWay, Facts
  <1>9. Locked'
    BY <1>1, <1>2, <1>5, Facts DEF Locked
  <1>10. Inv'
    BY <1>1, <1>2, <1>5, <1>7, <1>8, <1>9, StillKeeps DEF Marked
  <1> QED  BY <1>1, <1>2, <1>3, <1>4, <1>5, <1>10, Facts

LEMMA RecordCompileDoes ==
  ASSUME Inv, NEW w \in Compiles, RecordCompile(w)
  PROVE  /\ Inv' /\ entry'.in = entry.in /\ entry'.rev = entry.rev
         /\ entry.in => entry'.compile = made[w]
         /\ pc[w] = "record" /\ pc'[w] = "idle"
         /\ \A v \in Workers : v # w => pc'[v] = pc[v]
         /\ UNCHANGED <<dir, out, made, launch, sync, cleanup, events, late, unsure,
                        cut>>
  <1> DEFINE e == [entry EXCEPT !.compile = made[w]]
  <1>1. /\ pc[w] = "record" /\ Goes(w, "idle")
        /\ entry' = IF entry.in THEN e ELSE entry
        /\ UNCHANGED <<task, saved, dir, out, made, launch, proc, sync, cleanup, lock,
                       events, late, letGo, stray, unsure, cut>>
    BY DEF RecordCompile
  <1>2. /\ pc' \in [Workers -> Steps]
        /\ \A v \in Workers : pc'[v] = IF v = w THEN "idle" ELSE pc[v]
    <2>1. "idle" \in Steps /\ w \in Workers
      BY Facts DEF Steps
    <2> QED  BY <1>1, <2>1, Facts, Goings
  <1>3. /\ e \in Entries /\ e.in = entry.in /\ e.status = entry.status
        /\ e.rev = entry.rev /\ e.compile = made[w]
    <2>1. made[w] \in Revisions
      BY Facts
    <2> QED  BY <2>1, Facts DEF Entries
  <1> HIDE DEF e
  <1>4. /\ entry' \in Entries /\ entry'.in = entry.in /\ entry'.status = entry.status
        /\ entry'.rev = entry.rev
    BY <1>1, <1>3, Facts
  <1>5. Typed'
    BY <1>1, <1>2, <1>4, Facts, TypedAgain
  <1>6. Counted'
    BY <1>1, <1>2, <1>4, CountedUnderWay, Facts
  <1>7. Locked'
    BY <1>1, <1>2, <1>4, Facts DEF Locked
  <1>8. Inv'
    BY <1>1, <1>2, <1>4, <1>5, <1>6, <1>7, StillKeeps DEF Marked
  <1> QED  BY <1>1, <1>2, <1>3, <1>4, <1>8, Facts

LEMMA SyncStageDoes ==
  ASSUME Inv, SyncStage
  PROVE  /\ Inv' /\ dir'.is /\ events' = events + 1 /\ launch # "idle"
         /\ sync.pc = "idle" /\ sync'.pc = "backup"
         /\ UNCHANGED <<entry, out, pc, made, launch, cleanup, late, unsure, cut>>
  <1> DEFINE s == [sync EXCEPT !.pc = "backup"]
  <1>1. /\ sync = NoSync /\ proc /\ Event /\ dir' = Remade /\ sync' = s
        /\ stray' = (stray \/ ~dir.is)
        /\ UNCHANGED <<entry, task, saved, out, pc, made, launch, proc, cleanup, lock,
                       late, letGo, unsure, cut>>
    BY DEF SyncStage
  <1>2. /\ s \in [pc : {"idle", "backup", "swap"}, old : Outs] /\ s.pc = "backup"
    <2>1. sync \in [pc : {"idle", "backup", "swap"}, old : Outs]
      BY Facts DEF Typed
    <2> QED  BY <2>1
  <1> HIDE DEF s
  <1>3. dir' \in Dirs /\ dir'.is /\ IF dir.is THEN dir' = dir ELSE ~dir'.marker
    BY <1>1, Facts, Remakings
  <1>4. events' = events + 1 /\ events' \in 0 .. MaxEvents
    BY <1>1, Facts, Events
  <1>5. stray' \in BOOLEAN
    BY <1>1
  <1>6. Typed'
    BY <1>1, <1>2, <1>3, <1>4, <1>5, Facts, TypedAgain
  <1>7. Counted'
    BY <1>1, <1>4, CountedAgain
  <1>8. Locked'
    BY <1>1, Facts DEF Locked
  <1>9. Inv'
    BY <1>1, <1>3, <1>6, <1>7, <1>8, StillKeeps DEF Marked
  <1>10. launch # "idle"
    BY <1>1, Facts DEF Launched
  <1> QED  BY <1>1, <1>2, <1>3, <1>4, <1>9, <1>10, Nothings

LEMMA SyncBackupDoes ==
  ASSUME Inv, NEW ok \in BOOLEAN, SyncBackup(ok)
  PROVE  /\ Inv' /\ sync.pc = "backup"
         /\ IF ok THEN sync'.pc = "swap" /\ sync'.old = out /\ out'.kind = "none"
                  ELSE sync'.pc = "idle" /\ out' = out
         /\ ~cut' => ~cut /\ \A w \in Compiles : ~Working(w)
         /\ UNCHANGED <<entry, dir, pc, made, launch, cleanup, events, late, unsure>>
  <1>1. /\ sync.pc = "backup"
        /\ sync' = IF ok THEN [pc |-> "swap", old |-> out] ELSE NoSync
        /\ out' = IF ok THEN Nothing ELSE out
        /\ cut' = (cut \/ \E w \in Compiles : Working(w))
        /\ UNCHANGED <<entry, task, saved, dir, pc, made, launch, proc, cleanup, lock,
                       events, late, letGo, stray, unsure>>
    BY DEF SyncBackup, Working
  <1>2. /\ sync' \in [pc : {"idle", "backup", "swap"}, old : Outs]
        /\ IF ok THEN sync'.pc = "swap" /\ sync'.old = out ELSE sync'.pc = "idle"
    <2>1. CASE ok
      BY <1>1, <2>1, Facts
    <2>2. CASE ~ok
      BY <1>1, <2>2, Nothings
    <2> QED  BY <2>1, <2>2
  <1>3. out' \in Outs /\ IF ok THEN out'.kind = "none" ELSE out' = out
    BY <1>1, Facts, Nothings
  <1>4. cut' \in BOOLEAN
    BY <1>1
  <1>5. Typed'
    BY <1>1, <1>2, <1>3, <1>4, Facts, TypedAgain
  <1>6. Counted'
    BY <1>1, CountedAgain
  <1>7. Locked'
    BY <1>1, Facts DEF Locked
  <1>8. Inv'
    BY <1>1, <1>5, <1>6, <1>7, StillKeeps DEF Marked
  <1> QED  BY <1>1, <1>2, <1>3, <1>8

LEMMA SyncSwapDoes ==
  ASSUME Inv, NEW ok \in BOOLEAN, SyncSwap(ok)
  PROVE  /\ Inv' /\ sync.pc = "swap" /\ sync'.pc = "idle"
         /\ IF ok THEN out'.kind = "agent"
            ELSE out' = IF out.kind = "none" /\ dir.is THEN sync.old ELSE out
         /\ UNCHANGED <<entry, dir, pc, made, launch, cleanup, events, late, unsure,
                        cut>>
  <1> DEFINE o == [Nothing EXCEPT !.kind = "agent"]
  <1>1. /\ sync.pc = "swap" /\ sync' = NoSync
        /\ out' = IF ok THEN o
                  ELSE IF out.kind = "none" /\ dir.is THEN sync.old ELSE out
        /\ UNCHANGED <<entry, task, saved, dir, pc, made, launch, proc, cleanup, lock,
                       events, late, letGo, stray, unsure, cut>>
    BY DEF SyncSwap
  <1>2. o \in Outs /\ o.kind = "agent"
    BY Nothings DEF Outs
  <1> HIDE DEF o
  <1>3. sync.old \in Outs
    <2>1. sync \in [pc : {"idle", "backup", "swap"}, old : Outs]
      BY Facts DEF Typed
    <2> QED  BY <2>1
  <1>4. out' \in Outs
    BY <1>1, <1>2, <1>3, Facts
  <1>5. Typed'
    BY <1>1, <1>4, Facts, Nothings, TypedAgain
  <1>6. Counted'
    BY <1>1, CountedAgain
  <1>7. Locked'
    BY <1>1, Facts DEF Locked
  <1>8. Inv'
    BY <1>1, <1>5, <1>6, <1>7, StillKeeps DEF Marked
  <1> QED  BY <1>1, <1>2, <1>8, Nothings

----------------------------------------------------------------------------
(* What the steps of the launch, of saves and of the task do.              *)

LEMMA LaunchStartDoes ==
  ASSUME Inv, LaunchStart
  PROVE  /\ Inv' /\ launch' # "idle"
         /\ UNCHANGED <<entry, dir, out, pc, made, sync, cleanup, events, late, unsure,
                        cut>>
  <1>1. /\ launch = "idle" /\ launch' = "create" /\ entry.in
        /\ UNCHANGED <<entry, task, saved, dir, out, pc, made, proc, sync, cleanup,
                       lock, events, late, letGo, stray, unsure, cut>>
    BY DEF LaunchStart
  <1>2. Typed'
    BY <1>1, Facts, TypedAgain
  <1>3. Counted'
    BY <1>1, CountedAgain
  <1>4. Locked'
    BY <1>1, Facts DEF Locked
  <1>5. Launched' /\ Removing'
    BY <1>1, Facts DEF Launched, Removing, Marked
  <1>6. Protected'
    BY <1>1, Facts DEF Protected
  <1> QED  BY <1>1, <1>2, <1>3, <1>4, <1>5, <1>6 DEF Inv

LEMMA LaunchCreateDoes ==
  ASSUME Inv, LaunchCreate
  PROVE  /\ Inv' /\ launch' # "idle" /\ (late => late')
         /\ UNCHANGED <<entry, dir, out, pc, made, sync, cleanup, events, unsure, cut>>
  <1>1. /\ launch = "create" /\ launch' = "spawn" /\ task' = TRUE
        /\ late' = (late \/ cleanup \in {"remove", "look", "sweep"})
        /\ UNCHANGED <<entry, saved, dir, out, pc, made, proc, sync, cleanup, lock,
                       events, letGo, stray, unsure, cut>>
    BY DEF LaunchCreate
  <1>2. late' \in BOOLEAN
    BY <1>1
  <1>3. Typed'
    BY <1>1, <1>2, Facts, TypedAgain
  <1>4. Counted'
    BY <1>1, CountedAgain
  <1>5. Locked'
    BY <1>1, Facts DEF Locked
  <1>6. Launched'
    BY <1>1, Facts DEF Launched, Marked
  <1>7. Removing'
    BY <1>1, Facts DEF Removing
  <1>8. Protected'
    BY <1>1, Facts DEF Protected
  <1> QED  BY <1>1, <1>3, <1>4, <1>5, <1>6, <1>7, <1>8 DEF Inv

LEMMA SpawnDoes ==
  ASSUME Inv, NEW ok \in BOOLEAN, Spawn(ok)
  PROVE  /\ Inv' /\ launch' # "idle"
         /\ UNCHANGED <<entry, dir, out, pc, made, sync, cleanup, events, late, unsure,
                        cut>>
  <1>1. /\ launch = "spawn" /\ launch' = (IF ok THEN "mark" ELSE "done")
        /\ (ok => dir.is) /\ proc' = ok
        /\ UNCHANGED <<entry, task, saved, dir, out, pc, made, sync, cleanup, lock,
                       events, late, letGo, stray, unsure, cut>>
    BY DEF Spawn
  <1>2. Typed'
    BY <1>1, Facts, TypedAgain
  <1>3. Counted'
    BY <1>1, CountedAgain
  <1>4. Locked'
    BY <1>1, Facts DEF Locked
  <1>5. Launched'
    BY <1>1, Facts DEF Launched, Marked
  <1>6. Removing'
    BY <1>1, Facts DEF Removing
  <1>7. Protected'
    BY <1>1, Facts DEF Protected
  <1> QED  BY <1>1, <1>2, <1>3, <1>4, <1>5, <1>6, <1>7 DEF Inv

LEMMA MarkLaunchedDoes ==
  ASSUME Inv, MarkLaunched
  PROVE  /\ Inv' /\ SameEntry /\ dir'.is = dir.is /\ launch' # "idle"
         /\ UNCHANGED <<out, pc, made, sync, cleanup, events, late, unsure, cut>>
  <1>1. /\ launch = "mark" /\ launch' = "done" /\ lock = "free"
        /\ IF entry.in THEN Marks("launched") ELSE UNCHANGED <<entry, dir>>
        /\ UNCHANGED <<task, saved, out, pc, made, proc, sync, cleanup, lock, events,
                       late, letGo, stray, unsure, cut>>
    BY DEF MarkLaunched
  <1>2. /\ entry' \in Entries /\ dir' \in Dirs /\ SameEntry
        /\ dir'.is = dir.is /\ dir'.marker = dir.marker
        /\ entry.in /\ Marked => dir'.status = "launched"
    <2>1. "launched" \in Statuses
      BY DEF Statuses
    <2>2. CASE entry.in
      BY <1>1, <2>1, <2>2, Facts, Markings DEF SameEntry
    <2>3. CASE ~entry.in
      BY <1>1, <2>3, Facts DEF SameEntry
    <2> QED  BY <2>2, <2>3
  <1>3. Typed'
    BY <1>1, <1>2, Facts, TypedAgain
  <1>4. Counted'
    BY <1>1, <1>2, CountedAgain DEF SameEntry
  <1>5. /\ \A w \in Workers : pc[w] \notin {"mark", "enter"}
        /\ cleanup \notin {"remove", "pop"}
    BY <1>1, Facts DEF Locked, Workers, Compiles
  <1>6. Locked'
    BY <1>1, <1>5 DEF Locked
  <1>7. ~entry.in => ~Marked
    BY <1>1, Facts DEF Launched
  <1>8. Launched'
    BY <1>1, <1>2, <1>5, Facts DEF Launched, Marked
  <1>9. Removing'
    BY <1>1, <1>2, <1>5, Facts DEF Removing
  <1>10. Protected'
    <2> SUFFICES ASSUME proc', ~late' /\ ~letGo'
                 PROVE  dir'.is /\ (dir'.marker => dir'.status = "launched")
      BY <1>1, <1>5 DEF Protected
    <2>1. dir.is
      BY <1>1, Facts DEF Protected
    <2> QED  BY <1>2, <1>7, <2>1 DEF Marked
  <1> QED  BY <1>1, <1>2, <1>3, <1>4, <1>6, <1>8, <1>9, <1>10 DEF Inv

LEMMA ProcessEndsDoes ==
  ASSUME Inv, ProcessEnds
  PROVE  /\ Inv'
         /\ UNCHANGED <<entry, dir, out, pc, made, launch, sync, cleanup, events, late,
                        unsure, cut>>
  <1>1. /\ proc /\ proc' = FALSE
        /\ UNCHANGED <<entry, task, saved, dir, out, pc, made, launch, sync, cleanup,
                       lock, events, late, letGo, stray, unsure, cut>>
    BY DEF ProcessEnds
  <1>2. Typed'
    BY <1>1, Facts, TypedAgain
  <1>3. Counted'
    BY <1>1, CountedAgain
  <1>4. Locked'
    BY <1>1, Facts DEF Locked
  <1>5. Inv'
    BY <1>1, <1>2, <1>3, <1>4, StillKeeps DEF Marked
  <1> QED  BY <1>1, <1>5

LEMMA TaskGoesDoes ==
  ASSUME Inv, TaskGoes
  PROVE  /\ Inv'
         /\ UNCHANGED <<entry, dir, out, pc, made, launch, sync, cleanup, events, late,
                        unsure, cut>>
  <1>1. /\ task' = FALSE /\ letGo' = (letGo \/ launch \in {"spawn", "mark"})
        /\ UNCHANGED <<entry, saved, dir, out, pc, made, launch, proc, sync, cleanup,
                       lock, events, late, stray, unsure, cut>>
    BY DEF TaskGoes
  <1>2. Typed'
    BY <1>1, letGo' \in BOOLEAN, Facts, TypedAgain
  <1>3. Counted'
    BY <1>1, CountedAgain
  <1>4. Locked'
    BY <1>1, Facts DEF Locked
  <1>5. Inv'
    BY <1>1, <1>2, <1>3, <1>4, StillKeeps DEF Marked
  <1> QED  BY <1>1, <1>5

LEMMA SaveDoes ==
  ASSUME Inv, Save
  PROVE  /\ Inv'
         /\ UNCHANGED <<entry, dir, out, pc, made, launch, sync, cleanup, events, late,
                        unsure, cut>>
  <1> DEFINE now == [in |-> entry.in, status |-> entry.status, rev |-> entry.rev,
                     compile |-> entry.compile, task |-> task]
  <1>1. /\ saved' = now
        /\ UNCHANGED <<entry, task, dir, out, pc, made, launch, proc, sync, cleanup,
                       lock, events, late, letGo, stray, unsure, cut>>
    BY DEF Save
  <1>2. now \in Saves /\ now.rev = entry.rev
    <2>1. task \in BOOLEAN
      BY Facts DEF Typed, TypeOK
    <2> QED  BY <2>1, Facts DEF Entries, Saves
  <1> HIDE DEF now
  <1>3. Typed'
    BY <1>1, <1>2, Facts, TypedAgain
  <1>4. Counted'
    <2>1. entry.rev <= events + 1
      <3>1. /\ entry.rev \in Nat /\ events \in Nat
            /\ entry.rev <= events + (IF pc["upload"] = "idle" THEN 1 ELSE 0)
        BY Facts DEF Counted
      <3> QED  BY <3>1
    <2> QED  BY <1>1, <1>2, <2>1, Facts DEF Counted
  <1>5. Locked'
    BY <1>1, Facts DEF Locked
  <1>6. Inv'
    BY <1>1, <1>3, <1>4, <1>5, StillKeeps DEF Marked
  <1> QED  BY <1>1, <1>6

----------------------------------------------------------------------------
(* What the steps of the cleanup do.                                       *)

LEMMA ScanDoes ==
  ASSUME Inv, Scan
  PROVE  /\ Inv' /\ cleanup' # "pop" /\ cleanup # "pop"
         /\ UNCHANGED <<entry, dir, out, pc, made, launch, sync, events, late, unsure,
                        cut>>
  <1>1. /\ cleanup = "idle" /\ cleanup' \in {"recheck", "known"}
        /\ UNCHANGED <<entry, task, saved, dir, out, pc, made, launch, proc, sync, lock,
                       events, late, letGo, stray, unsure, cut>>
    BY DEF Scan
  <1>2. Typed'
    BY <1>1, Facts, TypedAgain
  <1>3. Counted'
    BY <1>1, CountedAgain
  <1>4. Locked'
    BY <1>1, Facts DEF Locked
  <1>5. Launched' /\ Removing'
    BY <1>1, Facts DEF Launched, Removing, Marked
  <1>6. Protected'
    BY <1>1, Facts DEF Protected
  <1> QED  BY <1>1, <1>2, <1>3, <1>4, <1>5, <1>6 DEF Inv

LEMMA RecheckDoes ==
  ASSUME Inv, Recheck
  PROVE  /\ Inv' /\ cleanup' # "pop" /\ cleanup # "pop"
         /\ UNCHANGED <<entry, dir, out, pc, made, launch, sync, events, late, unsure,
                        cut>>
  <1>1. /\ cleanup = "recheck" /\ lock = "free"
        /\ UNCHANGED <<entry, task, saved, dir, out, pc, made, launch, proc, sync,
                       events, late, letGo, stray, unsure, cut>>
    BY DEF Recheck
  <1>2. \/ Stale /\ cleanup' = "remove" /\ lock' = "cleanup"
        \/ cleanup' = "known" /\ lock' = "free"
    BY <1>1 DEF Recheck
  <1>3. cleanup' \in {"remove", "known"} /\ lock' \in {"cleanup", "free"}
    BY <1>2
  <1>4. Typed'
    BY <1>1, <1>3, Facts, TypedAgain
  <1>5. Counted'
    BY <1>1, CountedAgain
  <1>6. \A w \in Workers : pc[w] \notin {"mark", "enter"}
    BY <1>1, Facts DEF Locked, Workers, Compiles
  <1>7. Locked'
    BY <1>1, <1>2, <1>6 DEF Locked
  <1>8. Launched'
    BY <1>1, <1>2, Facts DEF Launched, Marked
  <1>9. Removing'
    <2> SUFFICES ASSUME ~late' /\ ~letGo', cleanup' = "remove"
                 PROVE  launch' \notin {"spawn", "mark"} /\ (~proc' \/ ~dir'.marker)
      BY <1>2 DEF Removing
    <2>1. ~task /\ Status # "launched"
      BY <1>2 DEF Stale
    <2>2. launch \notin {"spawn", "mark"}
      BY <1>1, <2>1, Facts DEF Launched
    <2>3. proc => launch = "done" /\ dir.is
      BY <1>1, <2>2, Facts DEF Launched, Protected
    <2>4. proc => ~dir.marker
      BY <1>1, <2>1, <2>3, Facts, StatusType DEF Protected, Marked
    <2> QED  BY <1>1, <2>2, <2>4
  <1>10. Protected'
    BY <1>1, Facts DEF Protected
  <1> QED  BY <1>1, <1>3, <1>4, <1>5, <1>7, <1>8, <1>9, <1>10 DEF Inv

LEMMA RemoveDoes ==
  ASSUME Inv, Remove
  PROVE  /\ Inv' /\ cleanup # "pop"
         /\ cleanup' = "pop" \/ UNCHANGED <<dir, out>>
         /\ UNCHANGED <<entry, pc, made, launch, sync, events, late, unsure, cut>>
  <1>1. /\ cleanup = "remove"
        /\ UNCHANGED <<entry, task, saved, pc, made, launch, proc, sync, events, late,
                       letGo, stray, unsure, cut>>
    BY DEF Remove
  <1>2. \/ /\ dir.is /\ ~dir.marker /\ cleanup' = "known" /\ lock' = "free"
           /\ UNCHANGED <<dir, out>>
        \/ /\ ~(dir.is /\ ~dir.marker) /\ cleanup' = "pop" /\ dir' = NoDir /\ out' = Nothing
           /\ UNCHANGED lock
    BY DEF Remove
  <1>3. /\ dir' = dir \/ dir' \in Dirs
        /\ out' = out \/ out' \in Outs
        /\ cleanup' \in {"known", "pop"}
        /\ lock' = lock \/ lock' \in Workers \cup {"free", "cleanup"}
    BY <1>2, Nothings
  <1>4. Typed'
    BY <1>1, <1>3, Facts, TypedAgain
  <1>5. Counted'
    BY <1>1, CountedAgain
  <1>6. lock = "cleanup" /\ \A w \in Workers : pc[w] \notin {"mark", "enter"}
    BY <1>1, Facts DEF Locked, Workers, Compiles
  <1>7. Locked'
    BY <1>1, <1>2, <1>6 DEF Locked
  <1>8. Marked' => Marked /\ cleanup' = "known"
    BY <1>2, Nothings DEF Marked
  <1>9. Launched'
    BY <1>1, <1>3, <1>8, Facts DEF Launched
  <1>10. Removing'
    BY <1>1, <1>3 DEF Removing
  <1>11. Protected'
    <2> SUFFICES ASSUME proc', ~late' /\ ~letGo'
                 PROVE  dir' = dir
      BY <1>1, Facts DEF Protected
    <2>1. ~dir.marker /\ dir.is
      BY <1>1, Facts DEF Removing, Protected
    <2> QED  BY <1>2, <2>1
  <1> QED  BY <1>1, <1>2, <1>4, <1>5, <1>7, <1>9, <1>10, <1>11 DEF Inv

LEMMA PopDoes ==
  ASSUME Inv, Pop
  PROVE  /\ Inv' /\ ~entry'.in
         /\ UNCHANGED <<dir, out, pc, made, launch, sync, events, late, unsure, cut>>
  <1> DEFINE e == [entry EXCEPT !.in = FALSE]
  <1>1. /\ cleanup = "pop" /\ cleanup' = "known" /\ lock' = "free" /\ entry' = e
        /\ UNCHANGED <<task, saved, dir, out, pc, made, launch, proc, sync, events,
                       late, letGo, stray, unsure, cut>>
    BY DEF Pop
  <1>2. /\ e \in Entries /\ ~e.in /\ e.status = entry.status /\ e.rev = entry.rev
    BY Facts DEF Entries
  <1> HIDE DEF e
  <1>3. Typed'
    BY <1>1, <1>2, Facts, TypedAgain
  <1>4. Counted'
    BY <1>1, <1>2, CountedAgain
  <1>5. \A w \in Workers : pc[w] \notin {"mark", "enter"}
    BY <1>1, Facts DEF Locked, Workers, Compiles
  <1>6. Locked'
    BY <1>1, <1>5 DEF Locked
  <1>7. Launched'
    BY <1>1, Facts DEF Launched, Marked
  <1>8. Removing'
    BY <1>1 DEF Removing
  <1>9. Protected'
    BY <1>1, <1>5, Facts DEF Protected
  <1> QED  BY <1>1, <1>2, <1>3, <1>4, <1>6, <1>7, <1>8, <1>9 DEF Inv

LEMMA KnownDoes ==
  ASSUME Inv, Known
  PROVE  /\ Inv' /\ cleanup' # "pop" /\ cleanup # "pop"
         /\ UNCHANGED <<entry, dir, out, pc, made, launch, sync, events, late, unsure,
                        cut>>
  <1>1. /\ cleanup = "known"
        /\ UNCHANGED <<entry, task, saved, dir, out, pc, made, launch, proc, sync, lock,
                       events, late, letGo, stray, unsure, cut>>
    BY DEF Known
  <1>2. cleanup' = "idle" \/ (cleanup' = "look" /\ ~task)
    BY DEF Known
  <1>3. cleanup' \in {"idle", "look"}
    BY <1>2
  <1>4. Typed'
    BY <1>1, <1>3, Facts, TypedAgain
  <1>5. Counted'
    BY <1>1, CountedAgain
  <1>6. Locked'
    BY <1>1, <1>3, Facts DEF Locked
  <1>7. Launched'
    BY <1>1, <1>3, Facts DEF Launched, Marked
  <1>8. Removing'
    BY <1>1, <1>2, Facts DEF Removing, Launched
  <1>9. Protected'
    BY <1>1, Facts DEF Protected
  <1> QED  BY <1>1, <1>3, <1>4, <1>5, <1>6, <1>7, <1>8, <1>9 DEF Inv

LEMMA LookDoes ==
  ASSUME Inv, Look
  PROVE  /\ Inv' /\ cleanup' # "pop" /\ cleanup # "pop"
         /\ UNCHANGED <<entry, dir, out, pc, made, launch, sync, events, late, unsure,
                        cut>>
  <1>1. /\ cleanup = "look"
        /\ UNCHANGED <<entry, task, saved, dir, out, pc, made, launch, proc, sync, lock,
                       events, late, letGo, stray, unsure, cut>>
    BY DEF Look
  <1>2. \/ cleanup' = "idle"
        \/ cleanup' = "sweep" /\ dir.is /\ dir.marker /\ dir.status # "launched"
    BY DEF Look
  <1>3. cleanup' \in {"idle", "sweep"}
    BY <1>2
  <1>4. Typed'
    BY <1>1, <1>3, Facts, TypedAgain
  <1>5. Counted'
    BY <1>1, CountedAgain
  <1>6. Locked'
    BY <1>1, <1>3, Facts DEF Locked
  <1>7. Launched'
    BY <1>1, <1>3, Facts DEF Launched, Marked
  <1>8. Removing'
    <2>1. ~late /\ ~letGo => launch \notin {"spawn", "mark"}
      BY <1>1, Facts DEF Removing
    <2>2. ~late /\ ~letGo /\ proc /\ dir.marker => dir.status = "launched"
      BY <2>1, Facts DEF Launched, Protected
    <2> QED  BY <1>1, <1>2, <2>1, <2>2 DEF Removing
  <1>9. Protected'
    BY <1>1, Facts DEF Protected
  <1> QED  BY <1>1, <1>3, <1>4, <1>5, <1>6, <1>7, <1>8, <1>9 DEF Inv

LEMMA SweepDoes ==
  ASSUME Inv, Sweep
  PROVE  /\ Inv' /\ (late' \/ ~entry'.in)
         /\ UNCHANGED <<entry, pc, made, launch, sync, events, unsure, cut>>
  <1>1. /\ cleanup = "sweep" /\ cleanup' = "idle" /\ dir' = NoDir /\ out' = Nothing
        /\ late' = (late \/ entry.in)
        /\ UNCHANGED <<entry, task, saved, pc, made, launch, proc, sync, lock, events,
                       letGo, stray, unsure, cut>>
    BY DEF Sweep
  <1>2. late' \in BOOLEAN
    BY <1>1, Facts DEF Entries
  <1>3. Typed'
    BY <1>1, <1>2, Facts, Nothings, TypedAgain
  <1>4. Counted'
    BY <1>1, CountedAgain
  <1>5. Locked'
    BY <1>1, Facts DEF Locked
  <1>6. Launched'
    BY <1>1, Facts, Nothings DEF Launched, Marked
  <1>7. Removing'
    BY <1>1 DEF Removing
  <1>8. Protected'
    BY <1>1, Facts DEF Protected, Removing
  <1> QED  BY <1>1, <1>3, <1>4, <1>5, <1>6, <1>7, <1>8 DEF Inv

----------------------------------------------------------------------------
(* A crash; then every step keeps the invariant.                           *)

LEMMA CrashDoes ==
  ASSUME Inv, Crash
  PROVE  /\ Inv' /\ unsure' /\ events' = events + 1 /\ sync'.pc = "idle"
  <1> DEFINE e == [in |-> saved.in, status |-> saved.status, fresh |-> FALSE,
                   rev |-> saved.rev, compile |-> saved.compile]
  <1>1. /\ Event /\ entry' = e /\ task' = saved.task
        /\ pc' = [w \in Workers |-> "idle"]
        /\ launch' = (IF launch = "idle" THEN "idle" ELSE "done")
        /\ sync' = NoSync /\ cleanup' = "idle" /\ lock' = "free"
        /\ late' = (late \/ launch = "mark")
        /\ stray' = (stray \/ \E w \in Workers : pc[w] = "mark")
        /\ unsure' = TRUE /\ cut' = (cut \/ sync # NoSync)
        /\ UNCHANGED <<saved, dir, out, made, proc, letGo>>
    BY DEF Crash
  <1>2. e \in Entries /\ e.rev = saved.rev /\ saved.task \in BOOLEAN
    BY Facts DEF Entries, Saves
  <1> HIDE DEF e
  <1>3. events' = events + 1 /\ events' \in 0 .. MaxEvents
    BY <1>1, Facts, Events
  <1>4. /\ late' \in BOOLEAN /\ stray' \in BOOLEAN /\ cut' \in BOOLEAN
        /\ launch' \in {"idle", "create", "spawn", "mark", "done"}
    BY <1>1
  <1>5. pc' \in [Workers -> Steps] /\ \A w \in Workers : pc'[w] = "idle"
    BY <1>1 DEF Steps
  <1>6. Typed'
    BY <1>1, <1>2, <1>3, <1>4, <1>5, Facts, Nothings, TypedAgain
  <1>7. Counted'
    <2>1. saved.rev \in Nat /\ events \in Nat /\ saved.rev <= events + 1
      BY Facts DEF Counted
    <2>2. pc'["upload"] = "idle" /\ entry'.rev = saved.rev /\ saved'.rev = saved.rev
      BY <1>1, <1>2, <1>5, Facts
    <2> QED  BY <1>3, <2>1, <2>2 DEF Counted
  <1>8. Locked'
    BY <1>1, <1>5 DEF Locked
  <1>9. Launched' /\ Removing'
    BY <1>1, Facts DEF Launched, Removing
  <1>10. Protected'
    <2> SUFFICES ASSUME proc', ~late' /\ ~letGo'
                 PROVE  dir'.is /\ (dir'.marker => dir'.status = "launched")
      BY <1>5 DEF Protected
    <2>1. proc /\ ~late /\ ~letGo /\ launch = "done"
      BY <1>1, Facts DEF Launched
    <2> QED  BY <1>1, <2>1, Facts DEF Protected
  <1> QED  BY <1>1, <1>3, <1>6, <1>7, <1>8, <1>9, <1>10, Nothings DEF Inv

LEMMA StutterKeeps ==
  ASSUME Inv, UNCHANGED vars
  PROVE  Inv'
  <1>1. UNCHANGED <<entry, task, saved, dir, out, pc, made, launch, proc, sync, cleanup,
                    lock, events, late, letGo, stray, unsure, cut>>
    BY DEF vars
  <1>2. Typed'
    BY <1>1, Facts, TypedAgain
  <1>3. Counted'
    BY <1>1, CountedAgain
  <1>4. Locked'
    BY <1>1, Facts DEF Locked
  <1> QED  BY <1>1, <1>2, <1>3, <1>4, StillKeeps DEF Marked

LEMMA InitInv ==
  ASSUME Init
  PROVE  Inv
  <1> DEFINE e == [NoEntry EXCEPT !.in = TRUE, !.status = "active",
                                  !.fresh = TRUE, !.rev = 1]
             d == [is |-> TRUE, marker |-> TRUE, status |-> "active", fresh |-> TRUE]
             s == [in |-> FALSE, status |-> "reserved", rev |-> 0, compile |-> 0,
                   task |-> FALSE]
  <1>1. /\ \/ entry = NoEntry /\ dir = NoDir
           \/ entry = e /\ dir = d
        /\ task = FALSE /\ proc = FALSE /\ saved = s /\ out = Nothing
        /\ pc = [w \in Workers |-> "idle"]
        /\ launch = "idle" /\ sync = NoSync /\ cleanup = "idle" /\ lock = "free"
        /\ made = [w \in Compiles |-> 0] /\ events = 0
        /\ late = FALSE /\ letGo = FALSE /\ stray = FALSE /\ unsure = FALSE /\ cut = FALSE
    BY DEF Init
  <1>2. 0 \in Revisions /\ 1 \in Revisions
    BY DEF Revisions
  <1>3. /\ NoEntry \in Entries /\ NoEntry.rev = 0 /\ ~NoEntry.in
        /\ e \in Entries /\ e.rev = 1
    BY <1>2 DEF NoEntry, Entries, Statuses
  <1>4. d \in Dirs /\ s \in Saves /\ s.rev = 0
    BY <1>2 DEF Dirs, Saves, Statuses
  <1> HIDE DEF e, d, s
  <1>5. entry \in Entries /\ entry.rev \in {0, 1} /\ dir \in Dirs /\ saved \in Saves /\ out \in Outs
    BY <1>1, <1>3, <1>4, Nothings
  <1>6. /\ pc \in [Workers -> Steps] /\ made \in [Compiles -> Revisions]
        /\ \A w \in Workers : pc[w] = "idle"
    BY <1>1, <1>2 DEF Steps
  <1>7. sync.pc = "idle" /\ sync.old \in Outs
    BY <1>1, Nothings DEF NoSync
  <1>8. Typed
    <2>1. /\ task \in BOOLEAN /\ proc \in BOOLEAN
          /\ late \in BOOLEAN /\ letGo \in BOOLEAN /\ stray \in BOOLEAN
          /\ unsure \in BOOLEAN /\ cut \in BOOLEAN
          /\ launch \in {"idle", "create", "spawn", "mark", "done"}
          /\ cleanup \in {"idle", "recheck", "remove", "pop", "known", "look", "sweep"}
          /\ lock \in Workers \cup {"free", "cleanup"}
      BY <1>1
    <2>2. events \in 0 .. MaxEvents
      BY <1>1
    <2>3. sync \in [pc : {"idle", "backup", "swap"}, old : Outs]
      BY <1>1, Nothings
    <2>4. sync.old.kind \in {"none", "laid", "built", "mixed", "agent"}
      BY <1>7 DEF Outs
    <2> QED
      BY <1>5, <1>6, <1>7, <2>1, <2>2, <2>3, <2>4
         DEF Typed, TypeOK, Entries, Saves, Dirs, Outs, Steps
  <1>9. Counted
    <2>1. pc["upload"] = "idle"
      BY <1>6 DEF Workers
    <2> QED  BY <1>1, <1>4, <1>5, <2>1 DEF Counted
  <1>10. Locked
    BY <1>1, <1>6 DEF Locked
  <1>11. Launched /\ Removing /\ Protected
    BY <1>1 DEF Launched, Removing, Protected
  <1> QED  BY <1>8, <1>9, <1>10, <1>11 DEF Inv

LEMMA NextInv ==
  ASSUME Inv, [Next]_vars
  PROVE  Inv'
  <1>1. CASE Create \/ Touch("active") \/ Touch("release") \/ Expire \/ EditList
    BY <1>1, CreateDoes, TouchDoes, ExpireDoes, EditListDoes
  <1>2. ASSUME NEW w \in Workers, Starts(w) \/ WorkerStep(w)
        PROVE  Inv'
    BY <1>2, StartsDoes, MkdirDoes, MarkDoes, EnterDoes DEF WorkerStep
  <1>3. CASE UploadStep
    BY <1>2, <1>3, Facts, WriteDoes, RecordFileDoes DEF UploadStep
  <1>4. ASSUME NEW w \in Compiles, CompileStep(w)
        PROVE  Inv'
    BY <1>2, <1>4, Facts, LayoutDoes, PickDoes, RecordCompileDoes DEF CompileStep
  <1>5. CASE LaunchStart \/ LaunchStep \/ ProcessEnds \/ TaskGoes
    <2>1. CASE LaunchStep
      BY <2>1, LaunchCreateDoes, SpawnDoes, MarkLaunchedDoes DEF LaunchStep
    <2> QED  BY <1>5, <2>1, LaunchStartDoes, ProcessEndsDoes, TaskGoesDoes
  <1>6. CASE SyncStage \/ SyncStep
    BY <1>6, SyncStageDoes, SyncBackupDoes, SyncSwapDoes DEF SyncStep
  <1>7. CASE CleanupStep
    BY <1>7, ScanDoes, RecheckDoes, RemoveDoes, PopDoes, KnownDoes, LookDoes, SweepDoes
       DEF CleanupStep
  <1>8. CASE Save \/ Crash
    BY <1>8, SaveDoes, CrashDoes
  <1>9. CASE UNCHANGED vars
    BY <1>9, StutterKeeps
  <1> QED  BY <1>1, <1>2, <1>3, <1>4, <1>5, <1>6, <1>7, <1>8, <1>9 DEF Next

----------------------------------------------------------------------------
(* What is compiled stays there.                                           *)

LEMMA CFacts ==
  ASSUME Inv, CInv
  PROVE  /\ Compiling /\ Settled /\ Quiet
         /\ events \in Nat /\ events + 1 # 0
         /\ "upload" \in Workers /\ "upload" \notin Compiles /\ Compiles \subseteq Workers
         /\ \A w \in Workers : pc[w] # "idle" => events # 0
  BY Facts DEF CInv, Quiet

\* Steps that change nothing of the entry, the results and the compiles, or
\* after which these do not count.
LEMMA CStill ==
  ASSUME CInv,
         Sure' => /\ Sure /\ entry'.rev = entry.rev /\ entry'.compile = entry.compile
                  /\ out' = out /\ (dir.is => dir'.is),
         UNCHANGED <<made, sync>>,
         \A w \in Compiles :
           pc'[w] = pc[w] \/ (~Working(w) /\ pc'[w] \notin {"pick", "record"}),
         launch # "idle" => launch' # "idle",
         events' = 0 => /\ events = 0
                        /\ \A w \in Workers : pc[w] = "idle" => pc'[w] = "idle"
  PROVE  CInv'
  <1>1. Quiet'
    BY DEF CInv, Quiet
  <1>2. Compiling'
    <2> SUFFICES ASSUME Sure', NEW w \in Compiles, Working(w)'
                 PROVE  /\ made'[w] = entry'.rev /\ dir'.is /\ sync'.pc # "swap"
                        /\ \A v \in Compiles : Working(v)' => v = w
                        /\ out'.rev = entry'.rev
                        /\ IF pc'[w] = "pick" THEN out'.kind = "laid" /\ out'.by = w
                                              ELSE out'.kind = "built"
      BY DEF Compiling
    <2>1. pc'[w] = pc[w] /\ \A v \in Compiles : Working(v)' => Working(v)
      BY DEF Working
    <2>2. Working(w)
      BY <2>1
    <2>3. /\ made[w] = entry.rev /\ dir.is /\ sync.pc # "swap"
          /\ \A v \in Compiles : Working(v) => v = w
          /\ out.rev = entry.rev
          /\ IF pc[w] = "pick" THEN out.kind = "laid" /\ out.by = w ELSE out.kind = "built"
      BY <2>2 DEF CInv, Compiling
    <2> QED  BY <2>1, <2>3
  <1>3. Settled'
    <2> SUFFICES ASSUME Sure'
                 PROVE  /\ sync'.pc # "idle" => dir'.is
                        /\ sync'.pc = "swap" => out'.kind = "none"
                        /\ entry'.compile # 0 =>
                             /\ entry'.compile = entry'.rev
                             /\ (\A w \in Compiles : ~Working(w)') =>
                                  Results(IF sync.pc = "swap" THEN sync.old ELSE out)'
      BY DEF Settled
    <2>1. (\A w \in Compiles : ~Working(w)') => \A w \in Compiles : ~Working(w)
      BY DEF Working
    <2> QED  BY <2>1 DEF CInv, Settled, Results
  <1> QED  BY <1>1, <1>2, <1>3 DEF CInv

LEMMA CInit ==
  ASSUME Init
  PROVE  CInv
  <1> DEFINE e == [NoEntry EXCEPT !.in = TRUE, !.status = "active",
                                  !.fresh = TRUE, !.rev = 1]
  <1>1. /\ entry = NoEntry \/ entry = e
        /\ sync = NoSync /\ launch = "idle" /\ pc = [w \in Workers |-> "idle"]
    BY DEF Init
  <1>2. /\ entry.compile = 0 /\ sync.pc = "idle"
        /\ \A w \in Workers : pc[w] = "idle"
    <2>1. NoEntry.compile = 0 /\ e.compile = 0
      BY DEF NoEntry
    <2> HIDE DEF e
    <2> QED  BY <1>1, <2>1, Nothings
  <1>3. \A w \in Compiles : ~Working(w)
    BY <1>2 DEF Working, Workers
  <1> QED  BY <1>1, <1>2, <1>3 DEF CInv, Compiling, Settled, Quiet

LEMMA PageC ==
  ASSUME Inv, CInv, Touch("active") \/ Touch("release") \/ Expire
  PROVE  CInv'
  <1>1. /\ SameEntry /\ dir'.is = dir.is /\ events' \in {events, events + 1}
        /\ UNCHANGED <<out, pc, made, launch, sync, cleanup, late, unsure, cut>>
    BY TouchDoes, ExpireDoes DEF Expire
  <1>2. events' = 0 => events = 0
    BY <1>1, CFacts
  <1>3. Sure' => Sure
    BY <1>1 DEF Sure, SameEntry
  <1> QED  BY <1>1, <1>2, <1>3, CStill DEF SameEntry

LEMMA CreateC ==
  ASSUME Inv, CInv, Create
  PROVE  CInv'
  <1>1. /\ entry'.compile = 0 /\ events = 0 /\ events' # 0
        /\ UNCHANGED <<dir, out, pc, made, launch, sync, cleanup, late, unsure, cut>>
    BY CreateDoes
  <1>2. sync.pc = "idle" /\ \A w \in Workers : pc[w] = "idle"
    BY <1>1, CFacts DEF Quiet
  <1>3. \A w \in Compiles : ~Working(w)'
    BY <1>1, <1>2, CFacts DEF Working
  <1> QED  BY <1>1, <1>2, <1>3 DEF CInv, Compiling, Settled, Quiet

\* An edit, or an upload, that the compiles do not see.
LEMMA FilesC ==
  ASSUME Inv, CInv, EditList \/ RecordFile
  PROVE  CInv'
  <1>1. /\ entry'.in = entry.in /\ (entry' = entry \/ entry'.compile = 0)
        /\ unsure' = (unsure \/ \E w \in Compiles : Working(w))
        /\ \A w \in Compiles : pc'[w] = pc[w]
        /\ UNCHANGED <<dir, out, made, launch, sync, cleanup, late, cut>>
    BY EditListDoes, RecordFileDoes
  <1>2. events' # 0
    <2>1. CASE EditList
      BY <2>1, EditListDoes, CFacts
    <2>2. CASE RecordFile
      BY <2>2, CFacts DEF RecordFile
    <2> QED  BY <2>1, <2>2
  <1>3. Sure' => Sure /\ \A w \in Compiles : ~Working(w) /\ ~Working(w)'
    BY <1>1 DEF Sure, Working
  <1>4. Compiling'
    BY <1>3 DEF Compiling
  <1>5. Settled'
    BY <1>1, <1>3, CFacts DEF Settled, Results
  <1>6. Quiet'
    BY <1>1, <1>2, CFacts DEF Quiet
  <1> QED  BY <1>4, <1>5, <1>6 DEF CInv

LEMMA StartsC ==
  ASSUME Inv, CInv, NEW w \in Workers, Starts(w)
  PROVE  CInv'
  <1>1. /\ pc[w] = "idle" /\ events' # 0
        /\ \A v \in Workers : pc'[v] = IF v = w THEN "mkdir" ELSE pc[v]
        /\ UNCHANGED <<entry, dir, out, made, launch, sync, cleanup, late, unsure, cut>>
    BY StartsDoes, CFacts
  <1>2. \A v \in Compiles :
          pc'[v] = pc[v] \/ (~Working(v) /\ pc'[v] \notin {"pick", "record"})
    BY <1>1, CFacts DEF Working
  <1>3. Sure' => Sure
    BY <1>1 DEF Sure
  <1> QED  BY <1>1, <1>2, <1>3, CStill

LEMMA WorkerC ==
  ASSUME Inv, CInv, NEW w \in Workers, WorkerStep(w)
  PROVE  CInv'
  <1>1. /\ SameEntry /\ (dir.is => dir'.is)
        /\ pc[w] \in {"mkdir", "mark", "enter"} /\ pc'[w] \notin {"pick", "record"}
        /\ \A v \in Workers : v # w => pc'[v] = pc[v]
        /\ UNCHANGED <<out, made, launch, sync, cleanup, events, late, unsure, cut>>
    <2>1. CASE Mkdir(w)
      BY <2>1, MkdirDoes
    <2>2. CASE Mark(w)
      BY <2>2, MarkDoes
    <2>3. CASE Enter(w)
      BY <2>3, EnterDoes
    <2> QED  BY <2>1, <2>2, <2>3 DEF WorkerStep
  <1>2. \A v \in Compiles :
          pc'[v] = pc[v] \/ (~Working(v) /\ pc'[v] \notin {"pick", "record"})
    BY <1>1, CFacts DEF Working
  <1>3. Sure' => Sure
    BY <1>1 DEF Sure, SameEntry
  <1>4. events' # 0
    BY <1>1, CFacts
  <1> QED  BY <1>1, <1>2, <1>3, <1>4, CStill DEF SameEntry

LEMMA WriteC ==
  ASSUME Inv, CInv, Write
  PROVE  CInv'
  <1>1. /\ dir'.is /\ \A w \in Compiles : pc'[w] = pc[w]
        /\ UNCHANGED <<entry, out, made, launch, sync, cleanup, events, late, unsure,
                       cut>>
    BY WriteDoes
  <1>2. events' # 0
    BY <1>1, CFacts DEF Write
  <1>3. Sure' => Sure
    BY <1>1 DEF Sure
  <1> QED  BY <1>1, <1>2, <1>3, CStill

LEMMA LayoutC ==
  ASSUME Inv, CInv, NEW w \in Compiles, NEW main \in BOOLEAN, Layout(w, main)
  PROVE  CInv'
  <1>1. /\ dir'.is /\ out'.kind = "laid" /\ out'.rev = entry.rev /\ out'.by = w
        /\ \A v \in Workers : v # w => pc'[v] = pc[v]
        /\ pc[w] = "layout"
        /\ pc'[w] = IF main /\ entry.rev # 0 THEN "pick" ELSE "idle"
        /\ made'[w] = entry.rev
        /\ ~unsure' => ~unsure /\ main /\ \A v \in Compiles : v # w => ~Working(v)
        /\ ~cut' => ~cut /\ sync = NoSync
        /\ UNCHANGED <<entry, launch, sync, cleanup, events, late>>
    BY LayoutDoes
  <1>2. Sure' => /\ Sure /\ main /\ sync.pc = "idle"
                 /\ \A v \in Compiles : Working(v)' => v = w
    BY <1>1, CFacts, Nothings DEF Sure, Working
  <1>3. Compiling'
    BY <1>1, <1>2 DEF Compiling, Working
  <1>4. Settled'
    <2> SUFFICES ASSUME Sure', entry.compile # 0
                 PROVE  entry.compile = entry.rev /\ Working(w)'
      BY <1>1, <1>2 DEF Settled
    <2>1. entry.compile = entry.rev
      BY <1>2, CFacts DEF Settled
    <2> QED  BY <1>1, <1>2, <2>1 DEF Working
  <1>5. Quiet'
    BY <1>1, CFacts DEF Quiet
  <1> QED  BY <1>3, <1>4, <1>5 DEF CInv

LEMMA PickC ==
  ASSUME Inv, CInv, NEW w \in Compiles, NEW ok \in BOOLEAN, Pick(w, ok)
  PROVE  CInv'
  <1>1. /\ entry'.in = entry.in /\ entry'.rev = entry.rev /\ pc[w] = "pick"
        /\ \A v \in Workers : v # w => pc'[v] = pc[v]
        /\ IF ok
           THEN /\ pc'[w] = "record" /\ entry' = entry /\ out'.rev = out.rev
                /\ out.kind = "laid" /\ out.by = w => out'.kind = "built"
           ELSE /\ pc'[w] = "idle" /\ out' = out
                /\ dir.is => entry'.compile = 0
        /\ UNCHANGED <<dir, made, launch, sync, cleanup, events, late, unsure, cut>>
    BY PickDoes
  <1>2. Sure' => Sure
    BY <1>1 DEF Sure
  <1>3. Sure => /\ made[w] = entry.rev /\ dir.is /\ sync.pc # "swap"
                /\ \A v \in Compiles : Working(v) => v = w
                /\ out.rev = entry.rev /\ out.kind = "laid" /\ out.by = w
    BY <1>1, CFacts DEF Compiling, Working
  <1>4. Sure => \A v \in Compiles : Working(v)' => v = w /\ ok
    BY <1>1, <1>3, CFacts DEF Working
  <1>5. Compiling'
    BY <1>1, <1>2, <1>3, <1>4 DEF Compiling, Working
  <1>6. Settled'
    <2>1. CASE ok
      <3>1. Working(w)'
        BY <1>1, <2>1 DEF Working
      <3> QED  BY <1>1, <1>2, <1>3, <2>1, <3>1, CFacts DEF Settled
    <2>2. CASE ~ok
      BY <1>1, <1>2, <1>3, <2>2, CFacts DEF Settled
    <2> QED  BY <2>1, <2>2
  <1>7. Quiet'
    BY <1>1, CFacts DEF Quiet
  <1> QED  BY <1>5, <1>6, <1>7 DEF CInv

LEMMA RecordCompileC ==
  ASSUME Inv, CInv, NEW w \in Compiles, RecordCompile(w)
  PROVE  CInv'
  <1>1. /\ entry'.in = entry.in /\ entry'.rev = entry.rev
        /\ entry.in => entry'.compile = made[w]
        /\ pc[w] = "record" /\ pc'[w] = "idle"
        /\ \A v \in Workers : v # w => pc'[v] = pc[v]
        /\ UNCHANGED <<dir, out, made, launch, sync, cleanup, events, late, unsure,
                       cut>>
    BY RecordCompileDoes
  <1>2. Sure' => Sure /\ entry.in
    BY <1>1 DEF Sure
  <1>3. Sure => /\ made[w] = entry.rev /\ dir.is /\ sync.pc # "swap"
                /\ \A v \in Compiles : Working(v) => v = w
                /\ out.rev = entry.rev /\ out.kind = "built"
    BY <1>1, CFacts DEF Compiling, Working
  <1>4. Sure => \A v \in Compiles : ~Working(v)'
    BY <1>1, <1>3, CFacts DEF Working
  <1>5. Compiling'
    BY <1>2, <1>4 DEF Compiling
  <1>6. Settled'
    BY <1>1, <1>2, <1>3, CFacts DEF Settled, Results
  <1>7. Quiet'
    BY <1>1, CFacts DEF Quiet
  <1> QED  BY <1>5, <1>6, <1>7 DEF CInv

LEMMA SyncStageC ==
  ASSUME Inv, CInv, SyncStage
  PROVE  CInv'
  <1>1. /\ dir'.is /\ events' # 0 /\ launch # "idle"
        /\ sync.pc = "idle" /\ sync'.pc = "backup"
        /\ UNCHANGED <<entry, out, pc, made, launch, cleanup, late, unsure, cut>>
    BY SyncStageDoes, CFacts
  <1>2. Sure' => Sure /\ \A w \in Compiles : Working(w)' <=> Working(w)
    BY <1>1 DEF Sure, Working
  <1>3. Compiling'
    BY <1>1, <1>2, CFacts DEF Compiling
  <1>4. Settled'
    BY <1>1, <1>2, CFacts DEF Settled, Results
  <1>5. Quiet'
    BY <1>1 DEF Quiet
  <1> QED  BY <1>3, <1>4, <1>5 DEF CInv

LEMMA SyncBackupC ==
  ASSUME Inv, CInv, NEW ok \in BOOLEAN, SyncBackup(ok)
  PROVE  CInv'
  <1>1. /\ sync.pc = "backup"
        /\ IF ok THEN sync'.pc = "swap" /\ sync'.old = out /\ out'.kind = "none"
                 ELSE sync'.pc = "idle" /\ out' = out
        /\ ~cut' => ~cut /\ \A w \in Compiles : ~Working(w)
        /\ UNCHANGED <<entry, dir, pc, made, launch, cleanup, events, late, unsure>>
    BY SyncBackupDoes
  <1>2. Sure' => Sure /\ \A w \in Compiles : ~Working(w) /\ ~Working(w)'
    BY <1>1 DEF Sure, Working
  <1>3. Compiling'
    BY <1>2 DEF Compiling
  <1>4. Settled'
    BY <1>1, <1>2, CFacts DEF Settled, Results
  <1>5. Quiet'
    BY <1>1, CFacts DEF Quiet
  <1> QED  BY <1>3, <1>4, <1>5 DEF CInv

LEMMA SyncSwapC ==
  ASSUME Inv, CInv, NEW ok \in BOOLEAN, SyncSwap(ok)
  PROVE  CInv'
  <1>1. /\ sync.pc = "swap" /\ sync'.pc = "idle"
        /\ IF ok THEN out'.kind = "agent"
           ELSE out' = IF out.kind = "none" /\ dir.is THEN sync.old ELSE out
        /\ UNCHANGED <<entry, dir, pc, made, launch, cleanup, events, late, unsure,
                       cut>>
    BY SyncSwapDoes
  <1>2. Sure' => Sure
    BY <1>1 DEF Sure
  <1>3. Sure => \A w \in Compiles : ~Working(w) /\ ~Working(w)'
    BY <1>1, CFacts DEF Compiling, Working
  <1>4. Compiling'
    BY <1>2, <1>3 DEF Compiling
  <1>5. Settled'
    BY <1>1, <1>2, <1>3, CFacts DEF Settled, Results, Quiet
  <1>6. Quiet'
    BY <1>1, CFacts DEF Quiet
  <1> QED  BY <1>4, <1>5, <1>6 DEF CInv

LEMMA LaunchC ==
  ASSUME Inv, CInv, LaunchStart \/ LaunchStep \/ ProcessEnds \/ TaskGoes \/ Save
  PROVE  CInv'
  <1>1. /\ SameEntry /\ dir'.is = dir.is
        /\ (late => late') /\ (launch # "idle" => launch' # "idle")
        /\ UNCHANGED <<out, pc, made, sync, cleanup, events, unsure, cut>>
    <2>1. CASE LaunchCreate
      BY <2>1, LaunchCreateDoes DEF SameEntry
    <2>2. CASE MarkLaunched
      BY <2>2, MarkLaunchedDoes
    <2>3. CASE \E ok \in BOOLEAN : Spawn(ok)
      BY <2>3, SpawnDoes DEF SameEntry
    <2>4. CASE LaunchStart \/ ProcessEnds \/ TaskGoes \/ Save
      BY <2>4, LaunchStartDoes, ProcessEndsDoes, TaskGoesDoes, SaveDoes DEF SameEntry
    <2> QED  BY <2>1, <2>2, <2>3, <2>4 DEF LaunchStep
  <1>2. Sure' => Sure
    BY <1>1 DEF Sure, SameEntry
  <1> QED  BY <1>1, <1>2, CStill DEF SameEntry

LEMMA CleanupC ==
  ASSUME Inv, CInv, CleanupStep
  PROVE  CInv'
  <1>1. UNCHANGED <<pc, made, launch, sync, events, unsure, cut>>
    BY ScanDoes, RecheckDoes, RemoveDoes, PopDoes, KnownDoes, LookDoes, SweepDoes
       DEF CleanupStep
  <1>2. Sure' => /\ Sure /\ entry'.rev = entry.rev /\ entry'.compile = entry.compile
                 /\ out' = out /\ dir' = dir
    <2>1. CASE Pop \/ Sweep
      BY <2>1, PopDoes, SweepDoes DEF Sure
    <2>2. CASE Remove
      BY <2>2, RemoveDoes DEF Sure
    <2>3. CASE Scan \/ Recheck \/ Known \/ Look
      BY <2>3, ScanDoes, RecheckDoes, KnownDoes, LookDoes DEF Sure
    <2> QED  BY <2>1, <2>2, <2>3 DEF CleanupStep
  <1> QED  BY <1>1, <1>2, CStill

LEMMA CrashC ==
  ASSUME Inv, CInv, Crash
  PROVE  CInv'
  <1>1. unsure' /\ events' # 0 /\ sync'.pc = "idle"
    BY CrashDoes, CFacts
  <1> QED  BY <1>1 DEF CInv, Compiling, Settled, Quiet, Sure

LEMMA NextC ==
  ASSUME Inv, CInv, [Next]_vars
  PROVE  CInv'
  <1>1. CASE Create \/ Touch("active") \/ Touch("release") \/ Expire \/ EditList
    BY <1>1, CreateC, PageC, FilesC
  <1>2. ASSUME NEW w \in Workers, Starts(w) \/ WorkerStep(w)
        PROVE  CInv'
    BY <1>2, StartsC, WorkerC
  <1>3. CASE UploadStep
    BY <1>2, <1>3, CFacts, WriteC, FilesC DEF UploadStep
  <1>4. ASSUME NEW w \in Compiles, CompileStep(w)
        PROVE  CInv'
    BY <1>2, <1>4, CFacts, LayoutC, PickC, RecordCompileC DEF CompileStep
  <1>5. CASE LaunchStart \/ LaunchStep \/ ProcessEnds \/ TaskGoes \/ Save
    BY <1>5, LaunchC
  <1>6. CASE SyncStage \/ SyncStep
    BY <1>6, SyncStageC, SyncBackupC, SyncSwapC DEF SyncStep
  <1>7. CASE CleanupStep \/ Crash
    BY <1>7, CleanupC, CrashC
  <1>8. CASE UNCHANGED vars
    <2>1. UNCHANGED <<entry, dir, out, pc, made, launch, sync, cleanup, events, late,
                      unsure, cut>>
      BY <1>8 DEF vars
    <2> QED  BY <2>1, CStill DEF Sure
  <1> QED  BY <1>1, <1>2, <1>3, <1>4, <1>5, <1>6, <1>7, <1>8 DEF Next

----------------------------------------------------------------------------
(* The theorems.                                                           *)

\* In every state reached, the invariant holds: every variable has its type,
\* the revisions are paid for by events, who makes, marks or removes the
\* directory holds the cleanup's lock, a removal goes by what is still so, and
\* the directory of a launched task is marked so that it is left alone.
THEOREM InvariantHolds == Spec => []Inv
  <1>1. Init => Inv
    BY InitInv
  <1>2. Inv /\ [Next]_vars => Inv'
    BY NextInv
  <1> QED  BY <1>1, <1>2, PTL DEF Spec

\* No touch, release, cleanup or restart removes the directory of a task whose
\* process lives, unless the task was recorded under a removal, or a crash came
\* before the launch was marked.
THEOREM WorkspaceIsKept == Spec => []KeepsWorkspace
  <1>1. Inv => KeepsWorkspace
    BY DEF Inv, Typed, Protected, KeepsWorkspace
  <1> QED  BY <1>1, InvariantHolds, PTL

\* The successful compile that a launch goes by is of the files the user sees,
\* and what it made, or what the agent made of that, is in the workspace; with
\* the exceptions that CompiledIsThere names.
THEOREM CompiledStays == Spec => []CompiledIsThere
  <1>1. Init => CInv
    BY CInit
  <1>2. Inv /\ CInv /\ [Next]_vars => CInv'
    BY NextC
  <1>3. Inv /\ CInv => CompiledIsThere
    <2> SUFFICES ASSUME Inv, CInv, sync = NoSync, Sure, entry.compile # 0,
                        \A w \in Compiles : ~Working(w)
                 PROVE  /\ entry.compile = entry.rev
                        /\ \/ out.kind = "built" /\ out.rev = entry.rev
                           \/ out.kind = "agent" /\ launch # "idle"
      BY DEF CompiledIsThere, Sure, Working
    <2>1. sync.pc = "idle"
      BY Nothings
    <2> QED  BY <2>1, CFacts DEF Settled, Results
  <1> QED  BY <1>1, <1>2, <1>3, InvariantHolds, PTL DEF Spec

=============================================================================
