--------------------------- MODULE MCRelayPeering ----------------------------
EXTENDS RelayPeering, TLC

\* The two users are interchangeable.
Symmetry == Permutations(Users)
==============================================================================
