--------------------------- MODULE MCRequestPipeline ---------------------------
EXTENDS RequestPipeline, TLC

Symmetry == Permutations(Requests)
================================================================================
