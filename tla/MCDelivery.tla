------------------------------- MODULE MCDelivery -------------------------------
EXTENDS Delivery, TLC

\* The users are interchangeable.
Symmetry == Permutations(Users)
================================================================================
