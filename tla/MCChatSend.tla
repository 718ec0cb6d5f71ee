----------------------------- MODULE MCChatSend ------------------------------
(* ChatSend with a counter space small enough to exhaust.                   *)
EXTENDS ChatSend
==============================================================================
