----------------------------- MODULE BatchTask -----------------------------
(***************************************************************************)
(* UnityChipBatchTask of ucagent/checkers/base.py: a work list cut into    *)
(* batches.  Its four lists are sets here (they hold no duplicates), its   *)
(* labels are integers, whose order is the sorting order of the labels.    *)
(* The size of a batch is its checker's.                                   *)
(*                                                                         *)
(*   source   what has to be done          gen   what has been done        *)
(*   tbd      the batch being worked on    cmp   what of the batch has     *)
(*                                               been seen done            *)
(*                                                                         *)
(* The methods are operators from one task to the next.                    *)
(***************************************************************************)
EXTENDS Integers, FiniteSets

CONSTANTS
  Items,     \* labels that can be a task
  BatchSizes \* batch sizes a checker may be configured with

ASSUME ItemsAssumption == Items \subseteq Int /\ IsFiniteSet(Items)
ASSUME BatchSizesAssumption == BatchSizes \subseteq Nat \ {0}

Task == [size : BatchSizes, source : SUBSET Items, gen : SUBSET Items,
         tbd : SUBSET Items, cmp : SUBSET Items]

NewTask(size) ==
  [size |-> size, source |-> {}, gen |-> {}, tbd |-> {}, cmp |-> {}]

\* the first labels of a set
FirstBatch(R, size) ==
  {x \in R : Cardinality({y \in R : y < x}) < size}

UpdateCurrentTbdEager(t) ==
  [t EXCEPT !.tbd = FirstBatch(t.source \ t.gen, t.size)]

\* a live batch is never replaced
UpdateCurrentTbd(t) ==
  IF t.tbd # {} THEN t ELSE [t EXCEPT !.tbd = FirstBatch(t.source \ t.gen, t.size)]

UpdateTbdAndCmp(t) ==
  [t EXCEPT !.tbd = t.tbd \cap t.source,
            !.cmp = t.cmp \cap (t.tbd \cap t.source)]

\* the batch is reconciled with the old source list; then the new one is set
SyncSourceTask(t, new) ==
  LET reconciled == IF new # t.source THEN UpdateTbdAndCmp(t) ELSE t
  IN  [reconciled EXCEPT !.source = new]

SyncGenTask(t, new) == [t EXCEPT !.gen = new]

DoCompleteOptimistic(t0) ==
  LET t == UpdateCurrentTbd(t0)
      seen == t.cmp \cup (t.tbd \cap t.gen)
      closed == [t EXCEPT !.tbd = {}, !.cmp = {}]
  IN  IF t.tbd \subseteq seen
      THEN [task |-> closed, point |-> closed, closed |-> TRUE, pass |-> TRUE]
      ELSE [task |-> [t EXCEPT !.cmp = seen], point |-> t, closed |-> FALSE,
            pass |-> FALSE]

\* The task after do_complete, whether the batch was closed (the checkpoint
\* is then written, with empty tbd and cmp lists) and whether the check
\* passes.
DoComplete(t0) ==
  LET t == UpdateCurrentTbd(t0)
      seen == t.cmp \cup (t.tbd \cap t.gen)
      closed == [t EXCEPT !.tbd = {}, !.cmp = {}]
      next == UpdateCurrentTbd(closed)
  IN  CASE t.tbd = {} ->
             [task |-> t, point |-> t, closed |-> FALSE,
              pass |-> t.source = t.gen]
        [] t.tbd # {} /\ ~(t.tbd \subseteq seen) ->
             [task |-> [t EXCEPT !.cmp = seen], point |-> t, closed |-> FALSE,
              pass |-> FALSE]
        [] t.tbd # {} /\ t.tbd \subseteq seen ->
             [task |-> next, point |-> closed, closed |-> TRUE,
              pass |-> next.tbd = {}]
=============================================================================
