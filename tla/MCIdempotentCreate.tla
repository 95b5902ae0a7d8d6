--------------------------- MODULE MCIdempotentCreate ---------------------------
EXTENDS IdempotentCreate, TLC

Symmetry == Permutations(Slots) \cup Permutations(Users)
================================================================================
