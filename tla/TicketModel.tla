------------------------------ MODULE TicketModel ------------------------------
(***************************************************************************)
(* The data of the ticket service and its pure decisions: roles, the       *)
(* status workflow, who may reach a ticket, and what each operation makes  *)
(* of a ticket row.  Nothing here has a state; TicketLifecycle and Tickets *)
(* build their actions from these operators.                               *)
(*                                                                         *)
(* A row keeps the columns the operations read or write.  The columns a    *)
(* PATCH copies verbatim (title, description, priority, due_at, tags) are  *)
(* one column "content"; closed_at is kept as "is it set".  created_at and *)
(* updated_at are left out (Tickets keeps the timestamps of the events).   *)
(***************************************************************************)
EXTENDS Naturals, Sequences

CONSTANTS
  Users,      \* rows of the users table
  Agents,     \* users whose role is AGENT
  Admins,     \* users whose role is ADMIN (everybody else is a USER)
  TicketIds,  \* the UUIDs the database may generate for tickets
  Contents,   \* values of the descriptive columns
  None,       \* SQL NULL, JSON null
  Unset,      \* a field the client left out of a PATCH body
  Ghost       \* a well-formed assignee UUID that belongs to no user

ASSUME RolesAssumption ==
  /\ Agents \subseteq Users
  /\ Admins \subseteq Users
  /\ Agents \cap Admins = {}

ASSUME MarkersAssumption ==
  /\ {None, Unset, Ghost} \cap (Users \cup Contents) = {}
  /\ None # Unset /\ None # Ghost /\ Unset # Ghost

--------------------------------------------------------------------------------

Statuses == {"NEW", "IN_PROGRESS", "DONE", "CANCELED"}

RowAssigning(assignees) ==
  [status   : Statuses,
   content  : Contents \cup {None},
   reporter : Users \cup {None},
   assignee : assignees \cup {None},
   closed   : BOOLEAN,
   deleted  : BOOLEAN,
   version  : Nat]

\* The rows the tickets table can hold; in memory, before the foreign key is
\* checked, a row may still name an assignee that is nobody.
Row == RowAssigning(Users)
StagedRow == RowAssigning(Users \cup {Ghost})

\* Stands for the row of an id that is not inserted (yet).
NoRow == [status |-> "NEW", content |-> None, reporter |-> None, assignee |-> None,
          closed |-> FALSE, deleted |-> FALSE, version |-> 0]

Exists(row) == row.version > 0

--------------------------------------------------------------------------------
\* Roles and access.

IsAdmin(u) == u \in Admins

IsAgentOrAdmin(u) == u \in Agents \cup Admins

CanAccess(u, row) == IsAgentOrAdmin(u) \/ row.reporter = u

\* Mutant: get_ticket_or_404 forgets is_deleted.
FoundThoughDeleted(u, row) == Exists(row) /\ CanAccess(u, row)

\* get_ticket_or_404 as every operation but GET calls it: an ADMIN also finds
\* the tickets that are soft-deleted.
Found(u, row) ==
  /\ Exists(row)
  /\ row.deleted => IsAdmin(u)
  /\ CanAccess(u, row)

\* Only a USER is refused an assignee, on creation as on update.
MayAssign(u, assignee) == assignee \in {None, Unset} \/ IsAgentOrAdmin(u)

AllowedTransition(old, new) ==
  new \in CASE old = "NEW"         -> {"IN_PROGRESS", "CANCELED"}
            [] old = "IN_PROGRESS" -> {"DONE", "CANCELED"}
            [] OTHER               -> {}

--------------------------------------------------------------------------------
\* What an operation makes of a row.

\* INSERT: the server defaults give status, closed_at and is_deleted, the
\* version generator gives 1.
Inserted(u, content, assignee) ==
  [NoRow EXCEPT !.content = content, !.reporter = u, !.assignee = assignee, !.version = 1]

\* A field that is absent, or null, is skipped; only staff may null the assignee.
Patched(u, row, content, assignee) ==
  [row EXCEPT
     !.content  = IF content = Unset THEN row.content ELSE content,
     !.assignee = IF assignee = Unset \/ (assignee = None /\ ~IsAgentOrAdmin(u))
                  THEN row.assignee ELSE assignee]

\* closed_at is stamped on DONE only, and never cleared.
Transitioned(row, status) ==
  [row EXCEPT !.status = status, !.closed = row.closed \/ status = "DONE"]

SoftDeleted(row) == [row EXCEPT !.deleted = TRUE]

\* version_id_generator: an UPDATE writes the next version.
Bumped(row) == [row EXCEPT !.version = row.version + 1]

\* Mutant: the session writes every column of the row it holds, changed or not.
WrittenWhole(row, loaded, image) == image

\* The stored row after an UPDATE: SQLAlchemy names in it only the columns whose
\* value differs from the one the session loaded.
Written(row, loaded, image) ==
  [column \in DOMAIN row |->
     IF image[column] = loaded[column] THEN row[column] ELSE image[column]]

--------------------------------------------------------------------------------
\* Audit events.  old and new are the snapshots of the row (NoRow for a null
\* value); a snapshot lists every column of Row.

ChangeTypes == {"created", "updated", "transition", "deleted"}

Event(type, actor, old, new) == [type |-> type, actor |-> actor, old |-> old, new |-> new]

Events == [type  : ChangeTypes \cup {"comment.created"},
           actor : Users,
           old   : Row,
           new   : Row]

CommentEvent(u) == Event("comment.created", u, NoRow, NoRow)
================================================================================
