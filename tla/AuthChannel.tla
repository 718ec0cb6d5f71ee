----------------------------- MODULE AuthChannel -----------------------------
(***************************************************************************)
(* What one direction of the NoiseBox ratchet promises to the session      *)
(* above it: a plaintext comes out only if it was put in, and at most      *)
(* once.  Order is not promised and neither is delivery: the relay may     *)
(* lose, repeat and reorder packets.                                       *)
(***************************************************************************)
EXTENDS Naturals

CONSTANT Capacity   \* how many plaintexts the direction can ever carry

VARIABLES
    sent,        \* how many plaintexts were put in: they are 0 .. sent - 1
    delivered    \* how many times each plaintext came out

vars == <<sent, delivered>>

Plaintexts == 0 .. Capacity - 1

Init ==
    /\ sent = 0
    /\ delivered = [m \in Plaintexts |-> 0]

Send ==
    /\ sent < Capacity
    /\ sent' = sent + 1
    /\ UNCHANGED delivered

Deliver(m) ==
    /\ m < sent
    /\ delivered[m] = 0
    /\ delivered' = [delivered EXCEPT ![m] = 1]
    /\ UNCHANGED sent

Next == Send \/ \E m \in Plaintexts : Deliver(m)

Spec == Init /\ [][Next]_vars
==============================================================================
