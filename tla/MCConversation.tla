--------------------------- MODULE MCConversation ---------------------------
(* Instance of Conversation for TLC: four plain calls and one that reads a  *)
(* SKILL.md.                                                                *)
EXTENDS Conversation

MCCallIds == 1 .. 5
MCSkillCalls == {5}
=============================================================================
