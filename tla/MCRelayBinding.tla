--------------------------- MODULE MCRelayBinding ----------------------------
EXTENDS RelayBinding, TLC

\* Users, devices and codes are interchangeable.
Symmetry == Permutations(Users) \cup Permutations(Devices) \cup Permutations(Codes)
==============================================================================
