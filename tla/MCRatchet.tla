----------------------------- MODULE MCRatchet ------------------------------
(* Ratchet on a small counter space: the counter is exhausted, the cache    *)
(* fills and evicts, and packets arrive before, inside and after its window.*)
EXTENDS Ratchet
==============================================================================
