--------------------------- MODULE MCStageManager ---------------------------
(***************************************************************************)
(* Instances of StageManager for TLC: three stages, of which the last is a *)
(* parent stage with stage 1 as its substage (get_substages lists a parent *)
(* after its substages).                                                   *)
(***************************************************************************)
EXTENDS StageManager

MCParts == [s \in 0 .. N - 1 |-> IF s = 2 THEN {1, 2} ELSE {s}]
AllStages == 0 .. N - 1
GotoIndices == -1 .. N
NoArgs == {{}}
FirstStage == {{}, {0}}
LastStage == {{}, {N - 1}}
=============================================================================
