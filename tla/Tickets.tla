-------------------------------- MODULE Tickets --------------------------------
(***************************************************************************)
(* The ticket endpoints (routers/tickets.py, services/tickets.py and       *)
(* repositories/tickets.py) as they run: every request has a database      *)
(* session of its own, the coroutines of different requests interleave at  *)
(* their awaits, and PostgreSQL runs the sessions at READ COMMITTED.       *)
(*                                                                         *)
(* A request is served in a slot and goes through                          *)
(*                                                                         *)
(*   begun      authenticated; its transaction is open                     *)
(*   staged     the row is read and checked, the new values are in memory  *)
(*   flushed    the INSERT or UPDATE has run, uncommitted                  *)
(*   committed  the row and its audit event are committed                  *)
(*                                                                         *)
(* after which the slot is idle again and res holds the answer.            *)
(*                                                                         *)
(* The session's identity map gives the request one image of the row, the  *)
(* first it loads, which is the image in old.  That may have been loaded   *)
(* with the user, whose relationships are eager; a row read by the first   *)
(* step after "begun" covers both, because nothing looks at it in between. *)
(***************************************************************************)
EXTENDS TicketModel

CONSTANTS
  Slots,        \* requests that can be served at the same time
  MaxRequests   \* bound on the requests of a behaviour

ASSUME MaxRequestsAssumption == MaxRequests \in Nat

VARIABLES
  rows,       \* the committed tickets table
  audit,      \* the committed ticket_events of each ticket, in commit order
  comments,   \* the authors of the committed ticket_comments
  stamps,     \* of each event of audit: its created_at, and when it committed
  clock,      \* the database clock; it advances when a transaction begins
  pc,         \* the stage of the request in each slot
  req,        \* its operation, its actor and its ticket
  at,         \* now() in its transaction: the time the transaction began
  old,        \* the row as the request loaded it
  new,        \* the row as the request leaves it
  res         \* the answer to the last request of the slot

db == <<rows, audit, comments, stamps>>
session == <<req, at, old, new>>
vars == <<db, clock, pc, session, res>>

Lifecycle == INSTANCE TicketLifecycle WITH rows <- rows, audit <- audit, comments <- comments

Operations == {"create", "update", "transition", "delete", "comment"}
Stages == {"idle", "begun", "staged", "flushed", "committed"}
Answers == {"none", "ok", "not_found", "forbidden", "invalid_transition",
            "conflict", "internal_error"}

\* The refusals: the answers that tell the client nothing was done.
Refusals == {"not_found", "forbidden", "invalid_transition", "conflict"}

Requests == [op : Operations, actor : Users, ticket : TicketIds]
NoRequest == [op |-> "none", actor |-> None, ticket |-> None]

--------------------------------------------------------------------------------

Init ==
  /\ rows = [t \in TicketIds |-> NoRow]
  /\ audit = [t \in TicketIds |-> <<>>]
  /\ comments = [t \in TicketIds |-> <<>>]
  /\ stamps = [t \in TicketIds |-> <<>>]
  /\ clock = 0
  /\ pc = [r \in Slots |-> "idle"]
  /\ req = [r \in Slots |-> NoRequest]
  /\ at = [r \in Slots |-> 0]
  /\ old = [r \in Slots |-> NoRow]
  /\ new = [r \in Slots |-> NoRow]
  /\ res = [r \in Slots |-> "none"]

--------------------------------------------------------------------------------
\* The request and its session.

Actor(r) == req[r].actor
Ticket(r) == req[r].ticket
Loaded(r) == rows[Ticket(r)]

\* SQLAlchemy writes a row only if a column has a net change.
Dirty(r) == new[r] # old[r]

\* Mutant: a reader locks the row as well (SELECT ... FOR SHARE before UPDATE).
RowLockedByReaders(r) ==
  \E s \in Slots \ {r} : pc[s] \in {"staged", "flushed"} /\ Ticket(s) = Ticket(r) /\ Dirty(s)

\* Another transaction has updated the row and not yet ended.
RowLocked(r) ==
  \E s \in Slots \ {r} : pc[s] = "flushed" /\ Ticket(s) = Ticket(r) /\ Dirty(s)

Busy(r) == pc[r] # "idle"

Handles(r, op) == pc[r] = "begun" /\ req[r].op = op

\* The request ends with an answer and its session is closed, which rolls back
\* whatever it has not committed.
CloseSession(r, a) ==
  /\ pc' = [pc EXCEPT ![r] = "idle"]
  /\ req' = [req EXCEPT ![r] = NoRequest]
  /\ at' = [at EXCEPT ![r] = 0]
  /\ old' = [old EXCEPT ![r] = NoRow]
  /\ new' = [new EXCEPT ![r] = NoRow]
  /\ res' = [res EXCEPT ![r] = a]

Respond(r, a) == CloseSession(r, a) /\ UNCHANGED <<db, clock>>

\* The row as loaded and the row to be written are in the session.
Stage(r, loaded, image) ==
  /\ pc' = [pc EXCEPT ![r] = "staged"]
  /\ old' = [old EXCEPT ![r] = loaded]
  /\ new' = [new EXCEPT ![r] = image]
  /\ UNCHANGED <<db, clock, req, at, res>>

\* gen_random_uuid never repeats an id.
Fresh(t) ==
  /\ ~Exists(rows[t])
  /\ \A s \in Slots : Busy(s) => ~(req[s].op = "create" /\ Ticket(s) = t)

\* get_db and get_current_user: the first SELECT opens the transaction.  A client
\* names a ticket it has learnt of from an answer, so one that is committed.
Begin(r) ==
  /\ pc[r] = "idle"
  /\ clock < MaxRequests
  /\ \E op \in Operations, u \in Users, t \in TicketIds :
       /\ IF op = "create" THEN Fresh(t) ELSE Exists(rows[t])
       /\ req' = [req EXCEPT ![r] = [op |-> op, actor |-> u, ticket |-> t]]
  /\ clock' = clock + 1
  /\ at' = [at EXCEPT ![r] = clock + 1]
  /\ pc' = [pc EXCEPT ![r] = "begun"]
  /\ res' = [res EXCEPT ![r] = "none"]
  /\ UNCHANGED <<db, old, new>>

--------------------------------------------------------------------------------
\* The operations of services/tickets.py, each up to its first flush.

CreateTicket(r) ==
  /\ Handles(r, "create")
  /\ \E content \in Contents, assignee \in Users \cup {None, Ghost} :
       \/ /\ ~MayAssign(Actor(r), assignee)
          /\ Respond(r, "forbidden")
       \/ /\ MayAssign(Actor(r), assignee)
          /\ Stage(r, NoRow, Inserted(Actor(r), content, assignee))

UpdateTicket(r) ==
  /\ Handles(r, "update")
  /\ \/ /\ ~Found(Actor(r), Loaded(r))
        /\ Respond(r, "not_found")
     \/ /\ Found(Actor(r), Loaded(r))
        /\ \E content \in Contents \cup {Unset},
              assignee \in Users \cup {None, Unset, Ghost} :
             \/ /\ ~MayAssign(Actor(r), assignee)
                /\ Respond(r, "forbidden")
             \/ /\ MayAssign(Actor(r), assignee)
                /\ Stage(r, Loaded(r), Patched(Actor(r), Loaded(r), content, assignee))

TransitionTicket(r) ==
  /\ Handles(r, "transition")
  /\ \/ /\ ~IsAgentOrAdmin(Actor(r))
        /\ Respond(r, "forbidden")
     \/ /\ IsAgentOrAdmin(Actor(r))
        /\ ~Found(Actor(r), Loaded(r)) \/ Loaded(r).deleted
        /\ Respond(r, "not_found")
     \/ /\ IsAgentOrAdmin(Actor(r))
        /\ Found(Actor(r), Loaded(r))
        /\ ~Loaded(r).deleted
        /\ \E status \in Statuses :
             \/ /\ ~AllowedTransition(Loaded(r).status, status)
                /\ Respond(r, "invalid_transition")
             \/ /\ AllowedTransition(Loaded(r).status, status)
                /\ Stage(r, Loaded(r), Transitioned(Loaded(r), status))

SoftDeleteTicket(r) ==
  /\ Handles(r, "delete")
  /\ \/ /\ ~Found(Actor(r), Loaded(r))
        /\ Respond(r, "not_found")
     \/ /\ Found(Actor(r), Loaded(r))
        /\ Loaded(r).deleted
        /\ Respond(r, "ok")
     \/ /\ Found(Actor(r), Loaded(r))
        /\ ~Loaded(r).deleted
        /\ Stage(r, Loaded(r), SoftDeleted(Loaded(r)))

AddComment(r) ==
  /\ Handles(r, "comment")
  /\ \/ /\ ~Found(Actor(r), Loaded(r))
        /\ Respond(r, "not_found")
     \/ /\ Found(Actor(r), Loaded(r))
        /\ Stage(r, Loaded(r), Loaded(r))

--------------------------------------------------------------------------------
\* The flush, the commit and the refresh the operations share.

Flushed(r, image) ==
  /\ pc' = [pc EXCEPT ![r] = "flushed"]
  /\ new' = [new EXCEPT ![r] = image]
  /\ UNCHANGED <<db, clock, req, at, old, res>>

\* Mutant: the tickets table has no foreign key on assignee_id.
FlushInsertUnchecked(r) ==
  /\ pc[r] = "staged"
  /\ req[r].op = "create"
  /\ Flushed(r, new[r])

\* INSERT INTO tickets; the foreign key refuses an assignee that is nobody, and
\* nothing catches the IntegrityError.
FlushInsert(r) ==
  /\ pc[r] = "staged"
  /\ req[r].op = "create"
  /\ \/ /\ new[r].assignee = Ghost
        /\ Respond(r, "internal_error")
     \/ /\ new[r].assignee # Ghost
        /\ Flushed(r, new[r])

\* Mutant: the mapper has no version_id_col, the UPDATE finds the row by id alone.
FlushUpdateUnversioned(r) ==
  /\ pc[r] = "staged"
  /\ req[r].op # "create"
  /\ Dirty(r)
  /\ ~RowLocked(r)
  /\ new[r].assignee # Ghost
  /\ Flushed(r, Bumped(new[r]))

\* Mutant: the version is compared without waiting for the row's other writer.
FlushUpdateUnlocked(r) ==
  /\ pc[r] = "staged"
  /\ req[r].op # "create"
  /\ Dirty(r)
  /\ Loaded(r).version = old[r].version
  /\ new[r].assignee # Ghost
  /\ Flushed(r, Bumped(new[r]))

\* UPDATE tickets ... WHERE id = ? AND version = ?  It waits while another
\* transaction holds the row, then looks at the version committed by then.  A
\* version that moved is a StaleDataError, which only update_ticket catches.
FlushUpdate(r) ==
  /\ pc[r] = "staged"
  /\ req[r].op # "create"
  /\ Dirty(r)
  /\ ~RowLocked(r)
  /\ \/ /\ Loaded(r).version # old[r].version
        /\ Respond(r, IF req[r].op = "update" THEN "conflict" ELSE "internal_error")
     \/ /\ Loaded(r).version = old[r].version
        /\ new[r].assignee = Ghost
        /\ Respond(r, "internal_error")
     \/ /\ Loaded(r).version = old[r].version
        /\ new[r].assignee # Ghost
        /\ Flushed(r, Bumped(new[r]))

\* A patch without a net change, or a comment: no UPDATE, so no version is read
\* and no row lock is taken.
FlushNoChange(r) ==
  /\ pc[r] = "staged"
  /\ req[r].op # "create"
  /\ ~Dirty(r)
  /\ Flushed(r, new[r])

EventType == [create |-> "created", update |-> "updated", transition |-> "transition",
              delete |-> "deleted"]

EventOf(r) ==
  IF req[r].op = "comment" THEN CommentEvent(Actor(r))
  ELSE Event(EventType[req[r].op], Actor(r), old[r], new[r])

\* add_event and the COMMIT.  Deletion answers at once, the others refresh first.
Commit(r) ==
  LET t == Ticket(r) IN
  /\ pc[r] = "flushed"
  /\ rows' = [rows EXCEPT ![t] = Written(rows[t], old[r], new[r])]
  /\ audit' = [audit EXCEPT ![t] = Append(audit[t], EventOf(r))]
  /\ comments' = IF req[r].op = "comment"
                 THEN [comments EXCEPT ![t] = Append(comments[t], Actor(r))]
                 ELSE comments
  /\ stamps' = [stamps EXCEPT ![t] = Append(stamps[t], [at |-> at[r], done |-> clock])]
  /\ IF req[r].op = "delete"
     THEN CloseSession(r, "ok")
     ELSE pc' = [pc EXCEPT ![r] = "committed"] /\ UNCHANGED <<session, res>>
  /\ UNCHANGED clock

\* db.refresh reads the committed row again, in a new transaction; the answer
\* holds that row, Loaded(r), which others may have changed since.
Refresh(r) ==
  /\ pc[r] = "committed"
  /\ Respond(r, "ok")

\* Mutant: update_ticket turns whatever fails into its conflict.
FailAsConflict(r) ==
  /\ Busy(r)
  /\ Respond(r, IF req[r].op = "update" THEN "conflict" ELSE "internal_error")

\* The process or a connection dies, or a statement fails.  Before the commit the
\* transaction is gone; after it, only the answer is.
Fail(r) ==
  /\ Busy(r)
  /\ Respond(r, "internal_error")

--------------------------------------------------------------------------------

Serve(r) ==
  \/ CreateTicket(r) \/ UpdateTicket(r) \/ TransitionTicket(r)
  \/ SoftDeleteTicket(r) \/ AddComment(r)
  \/ FlushInsert(r) \/ FlushUpdate(r) \/ FlushNoChange(r)
  \/ Commit(r) \/ Refresh(r)

Next == \E r \in Slots : Begin(r) \/ Serve(r) \/ Fail(r)

Spec == Init /\ [][Next]_vars

\* The event loop resumes a coroutine whose await is done, and PostgreSQL grants
\* a row lock once its holder ends.  No request is obliged to come.
Fairness == \A r \in Slots : WF_vars(Serve(r))

FairSpec == Spec /\ Fairness

--------------------------------------------------------------------------------

TypeOK ==
  /\ rows \in [TicketIds -> Row]
  /\ audit \in [TicketIds -> Seq(Events)]
  /\ comments \in [TicketIds -> Seq(Users)]
  /\ stamps \in [TicketIds -> Seq([at : Nat, done : Nat])]
  /\ clock \in 0 .. MaxRequests
  /\ pc \in [Slots -> Stages]
  /\ req \in [Slots -> Requests \cup {NoRequest}]
  /\ at \in [Slots -> Nat]
  /\ old \in [Slots -> Row]
  /\ new \in [Slots -> StagedRow]
  /\ res \in [Slots -> Answers]

--------------------------------------------------------------------------------
\* Safety.

IsChange(event) == event.old # event.new

\* The trail of a ticket explains its row: every version has its event, the
\* events of changes come in the order of the versions, each starts from the row
\* the one before it left, and the last left the row as it is.  (The commit of a
\* row with its event, under the version check and the row lock.)
AuditChain ==
  \A t \in TicketIds :
    /\ \A v \in 1 .. rows[t].version :
         \E i \in DOMAIN audit[t] : IsChange(audit[t][i]) /\ audit[t][i].new.version = v
    /\ \A i \in DOMAIN audit[t] :
         IsChange(audit[t][i]) =>
           /\ audit[t][i].new.version = audit[t][i].old.version + 1
           /\ audit[t][i].new.version <= rows[t].version
           /\ audit[t][i].new.version = rows[t].version => audit[t][i].new = rows[t]
    /\ \A i, j \in DOMAIN audit[t] :
         i < j /\ IsChange(audit[t][i]) /\ IsChange(audit[t][j]) =>
           /\ audit[t][i].new.version <= audit[t][j].old.version
           /\ audit[t][i].new.version = audit[t][j].old.version
                => audit[t][i].new = audit[t][j].old

\* What an UPDATE is about to commit was computed from the row it will replace:
\* the version it matched at the flush is still the committed one, because no
\* other transaction can have flushed the same row.
WriteIsCurrent ==
  \A r \in Slots :
    pc[r] = "flushed" /\ Dirty(r) =>
      /\ Loaded(r) = old[r]
      /\ new[r].version = old[r].version + 1
      /\ ~RowLocked(r)

\* closed_at is set exactly on the tickets that are DONE, whatever transitions
\* and deletions race for the ticket.
ClosedIffDone == \A t \in TicketIds : rows[t].closed <=> rows[t].status = "DONE"

\* A committed status only moves along the workflow, and never on a ticket whose
\* deletion is committed, though the check was made on a row read earlier.
WorkflowRespected ==
  [][\A t \in TicketIds :
       rows'[t].status # rows[t].status =>
         /\ AllowedTransition(rows[t].status, rows'[t].status)
         /\ ~rows[t].deleted]_vars

\* A deleted ticket stays deleted, and only an ADMIN still changes its row: an
\* operation that read the ticket before the deletion cannot write after it.
DeletionIsFinal ==
  [][\A t \in TicketIds :
       rows[t].deleted /\ rows'[t] # rows[t] =>
         /\ rows'[t].deleted
         /\ IsAdmin(audit'[t][Len(audit'[t])].actor)]_vars

\* What others than an ADMIN still add to a deleted ticket, a comment or a patch
\* without effect, comes from requests that overlapped the deletion: they began
\* before it committed.
NoLateWork ==
  \A t \in TicketIds : \A i, j \in DOMAIN audit[t] :
    i < j /\ audit[t][i].type = "deleted" /\ ~IsAdmin(audit[t][j].actor)
      => stamps[t][j].at <= stamps[t][i].done

\* Mutant: the newest event is listed first.
ListedNewestFirst(t, i, j) == stamps[t][i].at > stamps[t][j].at

\* list_events orders by created_at, which is now(): the time the transaction of
\* the event began.
ListedBefore(t, i, j) == stamps[t][i].at < stamps[t][j].at

\* Events may be listed out of the order of their commits, but the creation of a
\* ticket is always listed before everything that happened to it.
CreationListedFirst ==
  \A t \in TicketIds : \A i \in DOMAIN audit[t] :
    /\ audit[t][1].type = "created"
    /\ i # 1 => ListedBefore(t, 1, i)

\* The row a refresh will put in an answer contains the request's own change: it
\* is the version the request wrote, or a later one.
ReadYourWrites ==
  \A r \in Slots :
    pc[r] = "committed" =>
      /\ Loaded(r).version >= new[r].version
      /\ Dirty(r) /\ Loaded(r).version = new[r].version => Loaded(r) = new[r]

\* The events request r has committed to its ticket.
Recorded(r) == {i \in DOMAIN stamps[Ticket(r)] : stamps[Ticket(r)][i].at = at[r]}

\* An answer tells what became of the request.  A refusal left nothing behind; a
\* conflict means the row has moved on since it was loaded; and a success has left
\* exactly one event, or asked to delete what was deleted already.
AnswersAreTrue ==
  [][\A r \in Slots :
       Busy(r) /\ pc'[r] = "idle" =>
         /\ res'[r] \in Refusals => Recorded(r) = {}
         /\ res'[r] = "conflict" => Loaded(r).version > old[r].version
         /\ res'[r] = "ok" =>
              \/ \E i \in 1 .. Len(stamps'[Ticket(r)]) :
                   {j \in 1 .. Len(stamps'[Ticket(r)]) :
                      stamps'[Ticket(r)][j].at = at[r]} = {i}
              \/ req[r].op = "delete" /\ Loaded(r).deleted]_vars

\* The interleaved service does nothing the atomic one could not do.
ImplementsLifecycle == Lifecycle!Spec

--------------------------------------------------------------------------------
\* Liveness.

\* Every request is answered, however long others hold its row: no two requests
\* wait for each other, since a transaction locks at most one ticket.
Answered == \A r \in Slots : Busy(r) ~> ~Busy(r)
================================================================================
