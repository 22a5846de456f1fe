------------------------------ MODULE MCChatTurn ------------------------------
(* Two tool calls in a reply for turns one after another, one where turns  *)
(* overlap.                                                                *)
EXTENDS ChatTurn

Tools == [o \in BOOLEAN |-> IF o THEN 1 ELSE 2]
=============================================================================
