------------------------------- MODULE MCTickets -------------------------------
EXTENDS Tickets, TLC

CONSTANTS alice, bob, root

Symmetry == Permutations(Slots) \cup Permutations(Contents)
================================================================================
