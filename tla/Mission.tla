------------------------------ MODULE Mission ------------------------------
(***************************************************************************)
(* What the stage list promises, without stage_index, tools or files:      *)
(*   - stages earn credit strictly in order, one completion at a time;     *)
(*     only excused (skipped) stages are passed over without one;          *)
(*   - what is kept on disk is a beginning of the credited stages, and a   *)
(*     start that the user does not direct elsewhere loses none of it;     *)
(*   - the mission is closed only when every stage has credit or is        *)
(*     excused at that moment.                                             *)
(***************************************************************************)
EXTENDS Integers

CONSTANT N      \* number of stages

Stages == 0 .. N - 1

VARIABLES
  running, \* the process is up
  credit,  \* stages completed, or passed over on the user's account
  excused, \* stages the user does not want done
  kept,    \* the beginning of the list that survives a crash
  closed   \* the mission was declared finished

mvars == <<running, credit, excused, kept, closed>>

InOrder(C) == \A s \in C, t \in Stages : t < s => t \in C

\* writing the file: some beginning of the credited stages
Save(C) == kept' \in SUBSET C /\ InOrder(kept')

MInit ==
  /\ running = FALSE
  /\ credit = {}
  /\ excused = {}
  /\ kept = {}
  /\ closed = FALSE

Complete(s) ==
  /\ running
  /\ credit' = credit \cup {s}
  /\ InOrder(credit')
  /\ kept' = kept \/ Save(credit')
  /\ UNCHANGED <<running, excused, closed>>

PassOver ==
  /\ running
  /\ \E S \in SUBSET excused : credit' = credit \cup S
  /\ InOrder(credit')
  /\ Save(credit')
  /\ UNCHANGED <<running, excused, closed>>

Excuse ==
  /\ running
  /\ excused' \in SUBSET Stages
  /\ kept' = kept \/ Save(credit)
  /\ UNCHANGED <<running, credit, closed>>

Close ==
  /\ running
  /\ Stages \subseteq credit \cup excused
  /\ closed' = TRUE
  /\ Save(credit)
  /\ UNCHANGED <<running, credit, excused>>

Reopen ==
  /\ running
  /\ closed' = FALSE
  /\ UNCHANGED <<running, credit, excused, kept>>

Stop ==
  /\ running
  /\ running' = FALSE
  /\ credit' = {}
  /\ excused' = {}
  /\ closed' = FALSE
  /\ kept' = kept \/ Save(credit)

Boot(directed) ==
  /\ ~running
  /\ running' = TRUE
  /\ credit' \in SUBSET Stages
  /\ InOrder(credit')
  /\ directed \/ kept \subseteq credit'
  /\ excused' \in SUBSET Stages
  /\ closed' = FALSE
  /\ Save(credit')

MNext ==
  \/ \E s \in Stages : Complete(s)
  \/ PassOver
  \/ Excuse
  \/ Close
  \/ Reopen
  \/ Stop
  \/ \E directed \in BOOLEAN : Boot(directed)

Spec == MInit /\ [][MNext]_mvars
=============================================================================
