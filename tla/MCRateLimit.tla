------------------------------ MODULE MCRateLimit ------------------------------
EXTENDS RateLimit, TLC

CONSTANTS ip, email

\* A login asks for both; a login by another address, not counted here, asks for the
\* same e-mail.
LoginOrOther == {<<ip, email>>, <<email>>}
Limits == [k \in Keys |-> IF k = ip THEN 2 ELSE 1]

Symmetry == Permutations(Requests)
================================================================================
