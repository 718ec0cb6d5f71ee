---------------------------- MODULE MCChatReceive ----------------------------
(* ChatReceive with few messages, short queues and small responses.         *)
EXTENDS ChatReceive, TLC

\* The network tasks are interchangeable, in runs without fairness.
Symmetry == Permutations(Tasks)
==============================================================================
