---------------------------- MODULE MCTicketListing ----------------------------
EXTENDS TicketListing

CONSTANTS alice, root

Everything == [status |-> None, deleted |-> FALSE, sort |-> "default"]

\* The default list, the oldest first, by status with the deleted ones, and in an order
\* with ties.
Lists == {Everything,
          [Everything EXCEPT !.sort = "created_at"],
          [status |-> "NEW", deleted |-> TRUE, sort |-> "default"],
          [status |-> None, deleted |-> TRUE, sort |-> "status"]}
================================================================================
