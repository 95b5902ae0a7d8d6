------------------------------- MODULE MCAccounts -------------------------------
EXTENDS Accounts, TLC

CONSTANTS admin, Admin, agent

\* "Admin" is the address "admin" with a capital.
CaseFolding == [a \in Addresses |-> IF a = Admin THEN admin ELSE a]

\* The admin is seeded with updates, the agent without.
Apart == <<[role |-> "ADMIN", email |-> admin, update |-> TRUE],
           [role |-> "AGENT", email |-> agent, update |-> FALSE]>>

\* Both settings name one address, one of them with a capital, and updates are on.
Shared == <<[role |-> "ADMIN", email |-> Admin, update |-> TRUE],
            [role |-> "AGENT", email |-> admin, update |-> TRUE]>>

ApartOrShared == {Apart, Shared}

Symmetry == Permutations(Slots) \cup Permutations(Instances) \cup Permutations(Clients)
================================================================================
