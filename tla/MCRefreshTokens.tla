----------------------------- MODULE MCRefreshTokens -----------------------------
EXTENDS RefreshTokens, TLC

Symmetry == Permutations(Slots) \cup Permutations(Users)
================================================================================
