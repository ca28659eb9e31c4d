----------------------------- MODULE MCToolCall -----------------------------
(* Instances of ToolCall for TLC: the copy and move tools (1 and 2), which *)
(* lock two paths, an edit tool (3), which locks one, and Complete (4),    *)
(* which locks itself; two calls of Complete, and one of a disabled tool.  *)
EXTENDS ToolCall

FourTools == 1 .. 4
TwoPaths == {11, 12}

FiveCalls == {"copy", "move", "edit", "complete", "again"}
SixCalls == FiveCalls \cup {"off"}

ToolOf(calls) == [c \in calls |->
  CASE c = "copy" -> 1
    [] c = "move" -> 2
    [] c \in {"edit", "off"} -> 3
    [] OTHER -> 4]
ArgsOf(calls) == [c \in calls |->
  CASE c \in {"copy", "move"} -> {11, 12}
    [] c = "edit" -> {12}
    [] OTHER -> {}]

FiveTools == ToolOf(FiveCalls)
FiveArgs == ArgsOf(FiveCalls)
SixTools == ToolOf(SixCalls)
SixArgs == ArgsOf(SixCalls)
FromMcp == {"copy", "complete", "again"}
NoCalls == {}
OnlyOff == {"off"}
=============================================================================
