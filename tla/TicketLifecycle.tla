---------------------------- MODULE TicketLifecycle ----------------------------
(***************************************************************************)
(* What the ticket service promises, with every request done in one step:  *)
(* the row of a ticket moves from version to version, each move leaves one *)
(* audit event that holds the row before and after, and only the moves the *)
(* workflow and the roles allow are made.  Tickets, where requests         *)
(* interleave in database transactions, is shown to implement this.        *)
(***************************************************************************)
EXTENDS TicketModel

VARIABLES
  rows,      \* the tickets table
  audit,     \* the ticket_events of each ticket, in the order of their commits
  comments   \* the authors of each ticket's ticket_comments, in the same order

vars == <<rows, audit, comments>>

Init ==
  /\ rows = [t \in TicketIds |-> NoRow]
  /\ audit = [t \in TicketIds |-> <<>>]
  /\ comments = [t \in TicketIds |-> <<>>]

Record(t, event) == audit' = [audit EXCEPT ![t] = Append(audit[t], event)]

\* The row of t becomes new, and the event says who did it and from what.
Change(t, type, u, new) ==
  /\ rows' = [rows EXCEPT ![t] = new]
  /\ Record(t, Event(type, u, rows[t], new))
  /\ UNCHANGED comments

Create(u, t, content, assignee) ==
  /\ ~Exists(rows[t])
  /\ MayAssign(u, assignee)
  /\ Change(t, "created", u, Inserted(u, content, assignee))

Update(u, t, content, assignee) ==
  /\ Found(u, rows[t])
  /\ MayAssign(u, assignee)
  /\ Patched(u, rows[t], content, assignee) # rows[t]
  /\ Change(t, "updated", u, Bumped(Patched(u, rows[t], content, assignee)))

Transition(u, t, status) ==
  /\ IsAgentOrAdmin(u)
  /\ Exists(rows[t])
  /\ ~rows[t].deleted
  /\ AllowedTransition(rows[t].status, status)
  /\ Change(t, "transition", u, Bumped(Transitioned(rows[t], status)))

Delete(u, t) ==
  /\ Found(u, rows[t])
  /\ ~rows[t].deleted
  /\ Change(t, "deleted", u, Bumped(SoftDeleted(rows[t])))

\* A PATCH that changes nothing leaves an event but no new version.  The row it
\* compared with may since have been replaced: the event shows a row the ticket
\* has had, not always the one it has.
UpdateNothing(u, t) ==
  /\ Exists(rows[t])
  /\ CanAccess(u, rows[t])
  /\ \E i \in DOMAIN audit[t] :
       /\ audit[t][i].type \in ChangeTypes
       /\ Found(u, audit[t][i].new)
       /\ Record(t, Event("updated", u, audit[t][i].new, audit[t][i].new))
  /\ UNCHANGED <<rows, comments>>

\* A comment touches no column of the ticket; that the ticket was not deleted
\* was true when it was read and may no longer be.
Comment(u, t) ==
  /\ Exists(rows[t])
  /\ CanAccess(u, rows[t])
  /\ comments' = [comments EXCEPT ![t] = Append(comments[t], u)]
  /\ Record(t, CommentEvent(u))
  /\ UNCHANGED rows

Next ==
  \E u \in Users, t \in TicketIds :
    \/ \E c \in Contents, a \in Users \cup {None} : Create(u, t, c, a)
    \/ \E c \in Contents \cup {Unset}, a \in Users \cup {None, Unset} : Update(u, t, c, a)
    \/ \E s \in Statuses : Transition(u, t, s)
    \/ Delete(u, t)
    \/ UpdateNothing(u, t)
    \/ Comment(u, t)

Spec == Init /\ [][Next]_vars

--------------------------------------------------------------------------------

TypeOK ==
  /\ rows \in [TicketIds -> Row]
  /\ audit \in [TicketIds -> Seq(Events)]
  /\ comments \in [TicketIds -> Seq(Users)]
================================================================================
