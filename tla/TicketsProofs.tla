----------------------------- MODULE TicketsProofs -----------------------------
(***************************************************************************)
(* Proofs about Tickets, for any sets of users, tickets and requests:      *)
(* type correctness; that an UPDATE replaces the very row it was computed  *)
(* from, from which the workflow and the finality of deletions follow; that *)
(* the events of a ticket explain its row, in which order they are listed, *)
(* and that the answers are true; that Tickets implements TicketLifecycle. *)
(***************************************************************************)
EXTENDS Tickets, TLAPS

--------------------------------------------------------------------------------
\* The rows the operations make.

LEMMA NoRowType == NoRow \in Row
  BY DEF NoRow, Row, RowAssigning, Statuses

\* A row in memory can be stored once its assignee is known to be somebody.
LEMMA StagedRowType ==
  ASSUME NEW row \in StagedRow, row.assignee # Ghost
  PROVE  row \in Row
  BY DEF StagedRow, Row, RowAssigning

LEMMA RowIsStaged == Row \subseteq StagedRow
  BY DEF StagedRow, Row, RowAssigning

LEMMA InsertedType ==
  ASSUME NEW u \in Users, NEW content \in Contents, NEW assignee \in Users \cup {None, Ghost}
  PROVE  Inserted(u, content, assignee) \in StagedRow
  BY DEF Inserted, NoRow, StagedRow, RowAssigning, Statuses

LEMMA PatchedType ==
  ASSUME NEW u \in Users, NEW row \in Row,
         NEW content \in Contents \cup {Unset},
         NEW assignee \in Users \cup {None, Unset, Ghost}
  PROVE  Patched(u, row, content, assignee) \in StagedRow
  BY DEF Patched, Row, StagedRow, RowAssigning

LEMMA TransitionedType ==
  ASSUME NEW row \in Row, NEW status \in Statuses
  PROVE  Transitioned(row, status) \in StagedRow
  BY DEF Transitioned, Row, StagedRow, RowAssigning

LEMMA SoftDeletedType ==
  ASSUME NEW row \in Row
  PROVE  SoftDeleted(row) \in StagedRow
  BY DEF SoftDeleted, Row, StagedRow, RowAssigning

LEMMA BumpedType ==
  ASSUME NEW row \in Row
  PROVE  Bumped(row) \in Row
  BY DEF Bumped, Row, RowAssigning

LEMMA BumpedStagedType ==
  ASSUME NEW row \in StagedRow, row.assignee # Ghost
  PROVE  Bumped(row) \in Row
  BY StagedRowType, BumpedType

\* What is stored is a row again; it is the row in memory if that was computed
\* from the stored one, and the stored one if nothing was changed in memory.
LEMMA WrittenFacts ==
  ASSUME NEW row \in Row, NEW loaded \in Row, NEW image \in Row
  PROVE  /\ Written(row, loaded, image) \in Row
         /\ image = loaded => Written(row, loaded, image) = row
         /\ row = loaded => Written(row, loaded, image) = image
  BY DEF Written, Row, RowAssigning

--------------------------------------------------------------------------------
\* Type correctness.  TypeOK is not inductive alone: it must be known that a busy
\* slot holds a request, and that what a slot has flushed can be stored.

SessionsTyped ==
  \A r \in Slots :
    /\ Busy(r) => req[r] \in Requests
    /\ pc[r] \in {"flushed", "committed"} => new[r] \in Row

TablesTyped ==
  /\ rows \in [TicketIds -> Row]
  /\ audit \in [TicketIds -> Seq(Events)]
  /\ comments \in [TicketIds -> Seq(Users)]
  /\ stamps \in [TicketIds -> Seq([at : Nat, done : Nat])]

TypeInv == TypeOK /\ SessionsTyped

LEMMA TypeInit == Init => TypeInv
  <1> SUFFICES ASSUME Init PROVE TypeInv
    OBVIOUS
  <1>1. TablesTyped
    BY NoRowType DEF Init, TablesTyped
  <1>3. /\ clock \in 0 .. MaxRequests
        /\ pc \in [Slots -> Stages]
        /\ req \in [Slots -> Requests \cup {NoRequest}]
        /\ at \in [Slots -> Nat]
    BY MaxRequestsAssumption DEF Init, Stages
  <1>4. old \in [Slots -> Row] /\ new \in [Slots -> StagedRow] /\ res \in [Slots -> Answers]
    BY NoRowType, RowIsStaged DEF Init, Answers
  <1>5. SessionsTyped
    BY DEF Init, SessionsTyped, Busy
  <1> QED BY <1>1, <1>3, <1>4, <1>5 DEF TypeInv, TypeOK, TablesTyped

\* Every way a request ends keeps the types, because it changes no table.
LEMMA RespondTyped ==
  ASSUME TypeInv, NEW r \in Slots, NEW a \in Answers, Respond(r, a)
  PROVE  TypeInv'
  <1> USE DEF TypeInv, Respond, CloseSession, db
  <1>1. TablesTyped'
    BY DEF TypeOK, TablesTyped
  <1>2. /\ pc' \in [Slots -> Stages]
        /\ req' \in [Slots -> Requests \cup {NoRequest}]
        /\ at' \in [Slots -> Nat]
        /\ res' \in [Slots -> Answers]
    BY DEF TypeOK, Stages
  <1>3. old' \in [Slots -> Row] /\ new' \in [Slots -> StagedRow]
    BY NoRowType, RowIsStaged DEF TypeOK
  <1>4. SessionsTyped'
    BY DEF TypeOK, SessionsTyped, Busy
  <1> QED BY <1>1, <1>2, <1>3, <1>4 DEF TypeOK, TablesTyped

LEMMA StageTyped ==
  ASSUME TypeInv, NEW r \in Slots, Busy(r), NEW loaded \in Row, NEW image \in StagedRow,
         Stage(r, loaded, image)
  PROVE  TypeInv'
  <1> USE DEF TypeInv, Stage, db
  <1>1. TablesTyped'
    BY DEF TypeOK, TablesTyped
  <1>2. /\ pc' \in [Slots -> Stages]
        /\ old' \in [Slots -> Row]
        /\ new' \in [Slots -> StagedRow]
    BY DEF TypeOK, Stages
  <1>3. SessionsTyped'
    BY DEF TypeOK, SessionsTyped, Busy
  <1> QED BY <1>1, <1>2, <1>3 DEF TypeOK, TablesTyped

LEMMA FlushedTyped ==
  ASSUME TypeInv, NEW r \in Slots, Busy(r), NEW image \in Row, Flushed(r, image)
  PROVE  TypeInv'
  <1> USE DEF TypeInv, Flushed, db
  <1>1. TablesTyped'
    BY DEF TypeOK, TablesTyped
  <1>2. pc' \in [Slots -> Stages] /\ new' \in [Slots -> StagedRow]
    BY RowIsStaged DEF TypeOK, Stages
  <1>3. SessionsTyped'
    BY DEF TypeOK, SessionsTyped, Busy
  <1> QED BY <1>1, <1>2, <1>3 DEF TypeOK, TablesTyped

LEMMA BusyTyped ==
  ASSUME TypeInv, NEW r \in Slots, Busy(r)
  PROVE  /\ req[r] \in Requests
         /\ Actor(r) \in Users
         /\ Ticket(r) \in TicketIds
         /\ Loaded(r) \in Row
  BY DEF TypeInv, TypeOK, SessionsTyped, Requests, Actor, Ticket, Loaded

LEMMA BeginTyped ==
  ASSUME TypeInv, NEW r \in Slots, Begin(r)
  PROVE  TypeInv'
  <1> USE DEF TypeInv, Begin, db
  <1>1. PICK q \in Requests : req' = [req EXCEPT ![r] = q]
    BY DEF Requests
  <1>2. TablesTyped'
    BY DEF TypeOK, TablesTyped
  <1>3. clock' \in 0 .. MaxRequests /\ at' \in [Slots -> Nat]
    BY MaxRequestsAssumption DEF TypeOK
  <1>4. /\ pc' \in [Slots -> Stages]
        /\ req' \in [Slots -> Requests \cup {NoRequest}]
        /\ res' \in [Slots -> Answers]
    BY <1>1 DEF TypeOK, Stages, Answers
  <1>5. SessionsTyped'
    BY <1>1 DEF TypeOK, SessionsTyped, Busy
  <1> QED BY <1>2, <1>3, <1>4, <1>5 DEF TypeOK, TablesTyped

LEMMA OperationTyped ==
  ASSUME TypeInv, NEW r \in Slots,
         \/ CreateTicket(r) \/ UpdateTicket(r) \/ TransitionTicket(r)
         \/ SoftDeleteTicket(r) \/ AddComment(r)
  PROVE  TypeInv'
  <1>1. Busy(r)
    BY DEF CreateTicket, UpdateTicket, TransitionTicket, SoftDeleteTicket, AddComment,
           Handles, Busy
  <1>2. Actor(r) \in Users /\ Loaded(r) \in Row
    BY <1>1, BusyTyped
  <1>3. \A a \in Answers : Respond(r, a) => TypeInv'
    BY RespondTyped
  <1>4. \A loaded \in Row, image \in StagedRow : Stage(r, loaded, image) => TypeInv'
    BY <1>1, StageTyped
  <1>5. CASE CreateTicket(r)
    BY <1>2, <1>3, <1>4, <1>5, NoRowType, InsertedType DEF CreateTicket, Answers
  <1>6. CASE UpdateTicket(r)
    BY <1>2, <1>3, <1>4, <1>6, PatchedType DEF UpdateTicket, Answers
  <1>7. CASE TransitionTicket(r)
    BY <1>2, <1>3, <1>4, <1>7, TransitionedType DEF TransitionTicket, Answers
  <1>8. CASE SoftDeleteTicket(r)
    BY <1>2, <1>3, <1>4, <1>8, SoftDeletedType DEF SoftDeleteTicket, Answers
  <1>9. CASE AddComment(r)
    BY <1>2, <1>3, <1>4, <1>9, RowIsStaged DEF AddComment, Answers
  <1> QED BY <1>5, <1>6, <1>7, <1>8, <1>9

LEMMA FlushTyped ==
  ASSUME TypeInv, NEW r \in Slots, FlushInsert(r) \/ FlushUpdate(r) \/ FlushNoChange(r)
  PROVE  TypeInv'
  <1>1. Busy(r)
    BY DEF FlushInsert, FlushUpdate, FlushNoChange, Busy
  <1>2. old[r] \in Row /\ new[r] \in StagedRow
    BY DEF TypeInv, TypeOK
  <1>3. \A a \in Answers : Respond(r, a) => TypeInv'
    BY RespondTyped
  <1>4. \A image \in Row : Flushed(r, image) => TypeInv'
    BY <1>1, FlushedTyped
  <1>5. CASE FlushInsert(r)
    BY <1>2, <1>3, <1>4, <1>5, StagedRowType DEF FlushInsert, Answers
  <1>6. CASE FlushUpdate(r)
    BY <1>2, <1>3, <1>4, <1>6, BumpedStagedType DEF FlushUpdate, Answers
  <1>7. CASE FlushNoChange(r)
    BY <1>2, <1>4, <1>7 DEF FlushNoChange, Dirty
  <1> QED BY <1>5, <1>6, <1>7

LEMMA EventTyped ==
  ASSUME TypeInv, NEW r \in Slots, pc[r] = "flushed"
  PROVE  EventOf(r) \in Events
  <1>1. Busy(r)
    BY DEF Busy
  <1>2. Actor(r) \in Users /\ req[r].op \in Operations
    BY <1>1, BusyTyped DEF Requests
  <1>3. old[r] \in Row /\ new[r] \in Row
    BY DEF TypeInv, TypeOK, SessionsTyped
  <1>4. CASE req[r].op = "comment"
    BY <1>2, <1>4, NoRowType DEF EventOf, CommentEvent, Event, Events
  <1>5. CASE req[r].op # "comment"
    <2>1. EventType[req[r].op] \in ChangeTypes
      BY <1>2, <1>5 DEF EventType, ChangeTypes, Operations
    <2> QED BY <1>2, <1>3, <1>5, <2>1 DEF EventOf, Event, Events
  <1> QED BY <1>4, <1>5

LEMMA CommitTyped ==
  ASSUME TypeInv, NEW r \in Slots, Commit(r)
  PROVE  TypeInv'
  <1> DEFINE t == Ticket(r)
  <1>1. Busy(r)
    BY DEF Commit, Busy
  <1>2. t \in TicketIds /\ Actor(r) \in Users /\ new[r] \in Row /\ EventOf(r) \in Events
    BY <1>1, BusyTyped, EventTyped DEF Commit, TypeInv, SessionsTyped
  <1>3. rows' \in [TicketIds -> Row]
    <2>1. old[r] \in Row /\ rows[t] \in Row
      BY <1>2 DEF TypeInv, TypeOK
    <2> QED BY <1>2, <2>1, WrittenFacts DEF Commit, TypeInv, TypeOK
  <1>4. audit' \in [TicketIds -> Seq(Events)]
    BY <1>2 DEF Commit, TypeInv, TypeOK
  <1>5. comments' \in [TicketIds -> Seq(Users)]
    BY <1>2 DEF Commit, TypeInv, TypeOK
  <1>6. stamps' \in [TicketIds -> Seq([at : Nat, done : Nat])]
    <2>1. [at |-> at[r], done |-> clock] \in [at : Nat, done : Nat]
      BY MaxRequestsAssumption DEF TypeInv, TypeOK
    <2> HIDE DEF t
    <2> QED BY <1>2, <2>1 DEF Commit, TypeInv, TypeOK, t
  <1>7. /\ clock' \in 0 .. MaxRequests
        /\ pc' \in [Slots -> Stages]
        /\ req' \in [Slots -> Requests \cup {NoRequest}]
        /\ at' \in [Slots -> Nat]
        /\ res' \in [Slots -> Answers]
    <2>1. CASE CloseSession(r, "ok") /\ UNCHANGED clock
      BY <2>1 DEF CloseSession, TypeInv, TypeOK, Stages, Answers
    <2>2. CASE pc' = [pc EXCEPT ![r] = "committed"] /\ UNCHANGED <<session, res, clock>>
      BY <2>2 DEF session, TypeInv, TypeOK, Stages
    <2> QED BY <2>1, <2>2 DEF Commit
  <1>8. old' \in [Slots -> Row] /\ new' \in [Slots -> StagedRow]
    <2>1. CASE CloseSession(r, "ok")
      BY <2>1, NoRowType, RowIsStaged DEF CloseSession, TypeInv, TypeOK
    <2>2. CASE UNCHANGED session
      BY <2>2 DEF session, TypeInv, TypeOK
    <2> QED BY <2>1, <2>2 DEF Commit
  <1>9. SessionsTyped'
    BY <1>1 DEF Commit, CloseSession, session, TypeInv, TypeOK, SessionsTyped, Busy
  <1> QED BY <1>3, <1>4, <1>5, <1>6, <1>7, <1>8, <1>9 DEF TypeInv, TypeOK

LEMMA TypeStep == TypeInv /\ [Next]_vars => TypeInv'
  <1> SUFFICES ASSUME TypeInv, [Next]_vars PROVE TypeInv'
    OBVIOUS
  <1>1. CASE UNCHANGED vars
    BY <1>1 DEF vars, db, session, TypeInv, TypeOK, SessionsTyped, Busy
  <1>2. ASSUME NEW r \in Slots, Begin(r) PROVE TypeInv'
    BY <1>2, BeginTyped
  <1>3. ASSUME NEW r \in Slots, Serve(r) PROVE TypeInv'
    <2>1. CASE \/ CreateTicket(r) \/ UpdateTicket(r) \/ TransitionTicket(r)
               \/ SoftDeleteTicket(r) \/ AddComment(r)
      BY <2>1, OperationTyped
    <2>2. CASE FlushInsert(r) \/ FlushUpdate(r) \/ FlushNoChange(r)
      BY <2>2, FlushTyped
    <2>3. CASE Commit(r)
      BY <2>3, CommitTyped
    <2>4. CASE Refresh(r)
      BY <2>4, RespondTyped DEF Refresh, Answers
    <2> QED BY <1>3, <2>1, <2>2, <2>3, <2>4 DEF Serve
  <1>4. ASSUME NEW r \in Slots, Fail(r) PROVE TypeInv'
    BY <1>4, RespondTyped DEF Fail, Answers
  <1> QED BY <1>1, <1>2, <1>3, <1>4 DEF Next

\* The tables only ever hold rows, events and comments of their types, and a
\* request never stores a row that names an assignee who is not a user.
THEOREM TypeCorrect == Spec => []TypeOK
  <1>1. TypeInv => TypeOK
    BY DEF TypeInv
  <1> QED BY TypeInit, TypeStep, <1>1, PTL DEF Spec

--------------------------------------------------------------------------------
\* The rows and the sessions that are about to change them.
\*
\* WriteIsCurrent is not inductive: that the version matched at the flush must say
\* that the whole row did, so the row a session loaded is kept in the invariant as
\* an older version of the committed one, or that very row.  A ticket in creation
\* is kept apart: nobody else can know its id before it is committed.

\* closed_at agrees with the status.
ClosedWithDone(row) == row.closed <=> row.status = "DONE"

RowsOK ==
  \A t \in TicketIds :
    /\ ~Exists(rows[t]) => rows[t] = NoRow
    /\ ClosedWithDone(rows[t])

Pending(r) == pc[r] \in {"staged", "flushed"}

Creates(r) == Busy(r) /\ req[r].op = "create"

Writes(r) == pc[r] = "flushed" /\ Dirty(r)

\* A request is about a ticket that exists, or about to create one.
TicketKnown(r) ==
  Busy(r) => (Exists(Loaded(r)) <=> ~Creates(r) \/ pc[r] = "committed")

\* The image a session loaded is a version the row has had.
ImageIsAVersion(r) ==
  Pending(r) =>
    /\ old[r].version <= Loaded(r).version
    /\ old[r].version = Loaded(r).version => old[r] = Loaded(r)
    /\ Creates(r) <=> old[r].version = 0

NextVersion(r) ==
  /\ pc[r] = "staged" => new[r].version = IF Creates(r) THEN 1 ELSE old[r].version
  /\ pc[r] = "flushed" => new[r].version = old[r].version + (IF Dirty(r) THEN 1 ELSE 0)

\* What each operation may do to the status and the deletion of a ticket.
EffectOf(op, actor, from, to) ==
  /\ ClosedWithDone(to)
  /\ op = "create" => to.status = "NEW" /\ ~to.deleted /\ to # from
  /\ op = "update" => /\ to.status = from.status /\ to.deleted = from.deleted
                      /\ Found(actor, from)
  /\ op = "transition" => /\ AllowedTransition(from.status, to.status)
                          /\ ~from.deleted /\ ~to.deleted
  /\ op = "delete" => to.status = from.status /\ ~from.deleted
  /\ op = "comment" => to = from

SessionOK(r) ==
  /\ TicketKnown(r)
  /\ ImageIsAVersion(r)
  /\ NextVersion(r)
  /\ Pending(r) => EffectOf(req[r].op, Actor(r), old[r], new[r])
  /\ Writes(r) => old[r] = Loaded(r)

OneCreator ==
  \A r, s \in Slots : Creates(r) /\ Creates(s) /\ Ticket(r) = Ticket(s) => r = s

OneWriter ==
  \A r, s \in Slots : Writes(r) /\ Writes(s) /\ Ticket(r) = Ticket(s) => r = s

Inv == TypeInv /\ RowsOK /\ (\A r \in Slots : SessionOK(r)) /\ OneCreator /\ OneWriter

LEMMA InvInit == Init => Inv
  <1> SUFFICES ASSUME Init PROVE Inv
    OBVIOUS
  <1>1. TypeInv
    BY TypeInit
  <1>2. RowsOK
    BY DEF Init, RowsOK, NoRow, ClosedWithDone
  <1>3. \A r \in Slots : SessionOK(r)
    BY DEF Init, SessionOK, TicketKnown, ImageIsAVersion, NextVersion, Pending, Writes, Busy
  <1>4. OneCreator /\ OneWriter
    BY DEF Init, OneCreator, OneWriter, Creates, Writes, Busy
  <1> QED BY <1>1, <1>2, <1>3, <1>4 DEF Inv

\* A step that leaves a session and the row of its ticket alone keeps it in order.
LEMMA SessionFrame ==
  ASSUME NEW s \in Slots, SessionOK(s),
         pc'[s] = pc[s], req'[s] = req[s], old'[s] = old[s], new'[s] = new[s],
         rows'[Ticket(s)] = rows[Ticket(s)]
  PROVE  SessionOK(s)'
  BY DEF SessionOK, TicketKnown, ImageIsAVersion, NextVersion, Pending, Writes, Dirty,
         Creates, Busy, Loaded, Ticket, Actor

LEMMA RespondInv ==
  ASSUME Inv, NEW r \in Slots, NEW a \in Answers, Respond(r, a)
  PROVE  Inv'
  <1> USE DEF Inv, Respond, CloseSession, db
  <1>1. TypeInv'
    BY RespondTyped
  <1>2. RowsOK'
    BY DEF RowsOK
  <1>3. ASSUME NEW s \in Slots PROVE SessionOK(s)'
    <2>1. CASE s = r
      BY <2>1 DEF SessionOK, TicketKnown, ImageIsAVersion, NextVersion, Pending, Writes, Busy,
                  TypeInv, TypeOK
    <2>2. CASE s # r
      BY <2>2, SessionFrame DEF TypeInv, TypeOK
    <2> QED BY <2>1, <2>2
  <1>4. OneCreator' /\ OneWriter'
    BY DEF OneCreator, OneWriter, Creates, Writes, Dirty, Busy, Ticket, TypeInv, TypeOK
  <1> QED BY <1>1, <1>2, <1>3, <1>4

LEMMA BeginInv ==
  ASSUME Inv, NEW r \in Slots, Begin(r)
  PROVE  Inv'
  <1> USE DEF Inv, Begin, db
  <1>1. PICK op \in Operations, u \in Users, t \in TicketIds :
          /\ IF op = "create" THEN Fresh(t) ELSE Exists(rows[t])
          /\ req' = [req EXCEPT ![r] = [op |-> op, actor |-> u, ticket |-> t]]
    OBVIOUS
  <1>2. TypeInv'
    BY BeginTyped
  <1>3. /\ req'[r] = [op |-> op, actor |-> u, ticket |-> t]
        /\ pc'[r] = "begun"
        /\ \A s \in Slots \ {r} : pc'[s] = pc[s] /\ req'[s] = req[s]
    BY <1>1 DEF TypeInv, TypeOK
  <1>4. ASSUME NEW s \in Slots PROVE SessionOK(s)'
    <2>1. CASE s = r
      <3>1. TicketKnown(r)'
        BY <1>1, <1>3 DEF TicketKnown, Creates, Busy, Loaded, Ticket, Fresh, Exists
      <3> QED BY <2>1, <1>3, <3>1 DEF SessionOK, ImageIsAVersion, NextVersion, Pending, Writes
    <2>2. CASE s # r
      BY <2>2, <1>3, SessionFrame
    <2> QED BY <2>1, <2>2
  <1>5. OneCreator'
    <2> SUFFICES ASSUME NEW s1 \in Slots, NEW s2 \in Slots,
                        Creates(s1)', Creates(s2)', Ticket(s1)' = Ticket(s2)', s1 # s2
                 PROVE  FALSE
      BY DEF OneCreator
    <2>1. CASE s1 # r /\ s2 # r
      BY <2>1, <1>3 DEF OneCreator, Creates, Busy, Ticket
    <2>2. CASE s1 = r
      BY <2>2, <1>1, <1>3 DEF Creates, Busy, Ticket, Fresh
    <2>3. CASE s2 = r
      BY <2>3, <1>1, <1>3 DEF Creates, Busy, Ticket, Fresh
    <2> QED BY <2>1, <2>2, <2>3
  <1>6. OneWriter'
    BY <1>3 DEF OneWriter, Writes, Dirty, Ticket
  <1>7. RowsOK'
    BY DEF RowsOK
  <1> QED BY <1>2, <1>4, <1>5, <1>6, <1>7

\* Staging a row that is the committed one, changed as the operation may.
LEMMA StageInv ==
  ASSUME Inv, NEW r \in Slots, pc[r] = "begun", NEW image \in StagedRow,
         EffectOf(req[r].op, Actor(r), Loaded(r), image),
         image.version = IF Creates(r) THEN 1 ELSE Loaded(r).version,
         Stage(r, Loaded(r), image)
  PROVE  Inv'
  <1> USE DEF Inv, Stage, db
  <1>1. Busy(r) /\ Loaded(r) \in Row
    BY BusyTyped DEF Busy
  <1>2. TypeInv'
    BY <1>1, StageTyped
  <1>3. /\ pc'[r] = "staged" /\ old'[r] = Loaded(r) /\ new'[r] = image
        /\ \A s \in Slots \ {r} : pc'[s] = pc[s] /\ old'[s] = old[s] /\ new'[s] = new[s]
    BY DEF TypeInv, TypeOK
  <1>4. ASSUME NEW s \in Slots PROVE SessionOK(s)'
    <2>1. CASE s = r
      <3>1. TicketKnown(r) /\ Loaded(r).version \in Nat
        BY <1>1 DEF SessionOK, Row, RowAssigning
      <3>2. TicketKnown(r)'
        BY <1>1, <1>3, <3>1 DEF TicketKnown, Creates, Busy, Loaded, Ticket
      <3>3. ImageIsAVersion(r)'
        BY <1>1, <1>3, <3>1 DEF TicketKnown, ImageIsAVersion, Creates, Busy, Loaded, Ticket, Exists
      <3>4. NextVersion(r)'
        BY <1>1, <1>3 DEF NextVersion, Creates, Busy
      <3>5. EffectOf(req[r].op, Actor(r), old[r], new[r])'
        BY <1>3 DEF EffectOf, Actor
      <3> QED BY <2>1, <1>3, <3>2, <3>3, <3>4, <3>5 DEF SessionOK, Writes
    <2>2. CASE s # r
      BY <2>2, <1>3, SessionFrame
    <2> QED BY <2>1, <2>2
  <1>5. OneCreator' /\ OneWriter'
    BY <1>1, <1>3 DEF OneCreator, OneWriter, Creates, Writes, Dirty, Busy, Ticket
  <1>6. RowsOK'
    BY DEF RowsOK
  <1> QED BY <1>2, <1>4, <1>5, <1>6

LEMMA OperationInv ==
  ASSUME Inv, NEW r \in Slots,
         \/ CreateTicket(r) \/ UpdateTicket(r) \/ TransitionTicket(r)
         \/ SoftDeleteTicket(r) \/ AddComment(r)
  PROVE  Inv'
  <1>1. pc[r] = "begun" /\ Busy(r)
    BY DEF CreateTicket, UpdateTicket, TransitionTicket, SoftDeleteTicket, AddComment,
           Handles, Busy
  <1>2. Actor(r) \in Users /\ Loaded(r) \in Row /\ Ticket(r) \in TicketIds
    BY <1>1, BusyTyped DEF Inv
  <1>3. \A a \in Answers : Respond(r, a) => Inv'
    BY RespondInv
  <1>4. ASSUME NEW image \in StagedRow,
               EffectOf(req[r].op, Actor(r), Loaded(r), image),
               image.version = IF Creates(r) THEN 1 ELSE Loaded(r).version,
               Stage(r, Loaded(r), image)
        PROVE  Inv'
    BY <1>1, <1>4, StageInv
  <1>5. ClosedWithDone(Loaded(r)) /\ TicketKnown(r)
    BY <1>2 DEF Inv, RowsOK, Loaded, SessionOK
  <1>6. CASE CreateTicket(r)
    <2>1. Loaded(r) = NoRow
      BY <1>1, <1>2, <1>5, <1>6 DEF CreateTicket, Handles, TicketKnown, Creates, Inv, RowsOK, Loaded
    <2>2. ASSUME NEW content \in Contents, NEW assignee \in Users \cup {None, Ghost},
                 Stage(r, NoRow, Inserted(Actor(r), content, assignee))
          PROVE  Inv'
      <3> DEFINE image == Inserted(Actor(r), content, assignee)
      <3>1. image \in StagedRow
        BY <1>2, InsertedType
      <3>2. /\ image.status = "NEW" /\ ~image.deleted /\ ~image.closed
            /\ image.version = 1 /\ NoRow.version = 0
        BY DEF Inserted, NoRow
      <3>3. image # Loaded(r)
        BY <2>1, <3>2
      <3>4. req[r].op = "create" /\ Creates(r)
        BY <1>1, <1>6 DEF CreateTicket, Handles, Creates
      <3> HIDE DEF image
      <3>5. EffectOf(req[r].op, Actor(r), Loaded(r), image)
        BY <3>2, <3>3, <3>4 DEF EffectOf, ClosedWithDone
      <3> QED BY <1>4, <2>1, <2>2, <3>1, <3>2, <3>4, <3>5 DEF image
    <2> QED BY <1>3, <1>6, <2>2 DEF CreateTicket, Answers
  <1>7. CASE UpdateTicket(r)
    <2>1. ASSUME NEW content \in Contents \cup {Unset}, NEW assignee \in Users \cup {None, Unset, Ghost},
                 Found(Actor(r), Loaded(r)),
                 Stage(r, Loaded(r), Patched(Actor(r), Loaded(r), content, assignee))
          PROVE  Inv'
      <3> DEFINE image == Patched(Actor(r), Loaded(r), content, assignee)
      <3>1. image \in StagedRow
        BY <1>2, PatchedType
      <3>2. EffectOf(req[r].op, Actor(r), Loaded(r), image)
        BY <1>2, <1>5, <1>7, <2>1
           DEF EffectOf, UpdateTicket, Handles, Patched, ClosedWithDone, Row, RowAssigning
      <3>3. image.version = Loaded(r).version /\ ~Creates(r)
        BY <1>2, <1>7 DEF UpdateTicket, Handles, Creates, Patched, Row, RowAssigning
      <3> QED BY <1>4, <2>1, <3>1, <3>2, <3>3
    <2> QED BY <1>3, <1>7, <2>1 DEF UpdateTicket, Answers
  <1>8. CASE TransitionTicket(r)
    <2>1. ASSUME NEW status \in Statuses, ~Loaded(r).deleted,
                 AllowedTransition(Loaded(r).status, status),
                 Stage(r, Loaded(r), Transitioned(Loaded(r), status))
          PROVE  Inv'
      <3> DEFINE image == Transitioned(Loaded(r), status)
      <3>1. image \in StagedRow
        BY <1>2, TransitionedType
      <3>2. Loaded(r).status # "DONE"
        BY <2>1 DEF AllowedTransition
      <3>3. EffectOf(req[r].op, Actor(r), Loaded(r), image)
        BY <1>2, <1>5, <1>8, <2>1, <3>2
           DEF EffectOf, TransitionTicket, Handles, Transitioned, ClosedWithDone, Row, RowAssigning
      <3>4. image.version = Loaded(r).version /\ ~Creates(r)
        BY <1>2, <1>8 DEF TransitionTicket, Handles, Creates, Transitioned, Row, RowAssigning
      <3> QED BY <1>4, <2>1, <3>1, <3>3, <3>4
    <2> QED BY <1>3, <1>8, <2>1 DEF TransitionTicket, Answers
  <1>9. CASE SoftDeleteTicket(r)
    <2>1. ASSUME ~Loaded(r).deleted, Stage(r, Loaded(r), SoftDeleted(Loaded(r)))
          PROVE  Inv'
      <3> DEFINE image == SoftDeleted(Loaded(r))
      <3>1. image \in StagedRow
        BY <1>2, SoftDeletedType
      <3>2. EffectOf(req[r].op, Actor(r), Loaded(r), image)
        BY <1>2, <1>5, <1>9, <2>1
           DEF EffectOf, SoftDeleteTicket, Handles, SoftDeleted, ClosedWithDone, Row, RowAssigning
      <3>3. image.version = Loaded(r).version /\ ~Creates(r)
        BY <1>2, <1>9 DEF SoftDeleteTicket, Handles, Creates, SoftDeleted, Row, RowAssigning
      <3> QED BY <1>4, <2>1, <3>1, <3>2, <3>3
    <2> QED BY <1>3, <1>9, <2>1 DEF SoftDeleteTicket, Answers
  <1>10. CASE AddComment(r)
    <2>1. EffectOf(req[r].op, Actor(r), Loaded(r), Loaded(r)) /\ ~Creates(r)
      BY <1>5, <1>10 DEF EffectOf, AddComment, Handles, Creates
    <2> QED BY <1>2, <1>3, <1>4, <1>10, <2>1, RowIsStaged DEF AddComment, Answers
  <1> QED BY <1>6, <1>7, <1>8, <1>9, <1>10

\* A flush of a change that is made to the committed row, which no other session
\* has flushed, or of no change at all.
LEMMA FlushedInv ==
  ASSUME Inv, NEW r \in Slots, pc[r] = "staged", NEW image \in Row,
         \/ /\ Dirty(r)
            /\ image.status = new[r].status
            /\ image.deleted = new[r].deleted
            /\ image.closed = new[r].closed
            /\ image.version = old[r].version + 1
            /\ Loaded(r).version = old[r].version
            /\ ~RowLocked(r)
            /\ req[r].op # "comment"
         \/ ~Dirty(r) /\ image = new[r],
         Flushed(r, image)
  PROVE  Inv'
  <1> USE DEF Inv, Flushed, db
  <1>1. Busy(r) /\ Pending(r) /\ SessionOK(r) /\ old[r] \in Row
    BY DEF Busy, Pending, TypeInv, TypeOK
  <1>2. TypeInv'
    BY <1>1, FlushedTyped
  <1>3. /\ pc'[r] = "flushed" /\ new'[r] = image
        /\ \A s \in Slots \ {r} : pc'[s] = pc[s] /\ new'[s] = new[s]
    BY DEF TypeInv, TypeOK
  <1>4. old[r].version \in Nat
    BY <1>1 DEF Row, RowAssigning
  <1>5. Dirty(r)' <=> Dirty(r)
    BY <1>3, <1>4 DEF Dirty
  <1>6. ASSUME NEW s \in Slots PROVE SessionOK(s)'
    <2>1. CASE s = r
      <3>1. TicketKnown(r)' /\ ImageIsAVersion(r)'
        BY <1>1, <1>3 DEF SessionOK, TicketKnown, ImageIsAVersion, Pending, Creates, Busy,
                          Loaded, Ticket
      <3>2. NextVersion(r)'
        BY <1>3, <1>4, <1>5 DEF NextVersion, Dirty
      <3>3. EffectOf(req[r].op, Actor(r), old[r], new[r])'
        BY <1>1, <1>3, <1>5 DEF SessionOK, EffectOf, ClosedWithDone, Actor, Dirty
      <3>4. Writes(r)' => old'[r] = Loaded(r)'
        BY <1>1, <1>5 DEF SessionOK, ImageIsAVersion, Writes, Loaded, Ticket
      <3> QED BY <2>1, <1>3, <3>1, <3>2, <3>3, <3>4 DEF SessionOK
    <2>2. CASE s # r
      BY <2>2, <1>3, SessionFrame
    <2> QED BY <2>1, <2>2
  <1>7. OneCreator'
    BY <1>1, <1>3 DEF OneCreator, Creates, Busy, Ticket
  <1>8. OneWriter'
    BY <1>3, <1>5 DEF OneWriter, Writes, Dirty, Ticket, RowLocked
  <1>9. RowsOK'
    BY DEF RowsOK
  <1> QED BY <1>2, <1>6, <1>7, <1>8, <1>9

LEMMA BumpedFields ==
  ASSUME NEW row \in StagedRow
  PROVE  /\ Bumped(row).status = row.status
         /\ Bumped(row).deleted = row.deleted
         /\ Bumped(row).closed = row.closed
         /\ Bumped(row).version = row.version + 1
  BY DEF Bumped, StagedRow, RowAssigning

LEMMA FlushInv ==
  ASSUME Inv, NEW r \in Slots, FlushInsert(r) \/ FlushUpdate(r) \/ FlushNoChange(r)
  PROVE  Inv'
  <1>1. pc[r] = "staged" /\ Busy(r) /\ Pending(r)
    BY DEF FlushInsert, FlushUpdate, FlushNoChange, Busy, Pending
  <1>2. /\ old[r] \in Row /\ new[r] \in StagedRow
        /\ TicketKnown(r) /\ ImageIsAVersion(r) /\ NextVersion(r)
        /\ EffectOf(req[r].op, Actor(r), old[r], new[r])
    BY <1>1 DEF Inv, TypeInv, TypeOK, SessionOK
  <1>3. \A a \in Answers : Respond(r, a) => Inv'
    BY RespondInv
  <1>4. CASE FlushInsert(r)
    <2>1. ASSUME new[r].assignee # Ghost, Flushed(r, new[r]) PROVE Inv'
      <3>1. Creates(r) /\ new[r] \in Row
        BY <1>1, <1>2, <1>4, <2>1, StagedRowType DEF FlushInsert, Creates
      <3>2. Loaded(r).version = 0 /\ old[r].version = 0 /\ new[r].version = 1
        BY <1>1, <1>2, <3>1, BusyTyped
           DEF TicketKnown, ImageIsAVersion, NextVersion, Exists, Inv, Row, RowAssigning
      <3>3. ~RowLocked(r)
        <4> SUFFICES ASSUME NEW s \in Slots \ {r}, pc[s] = "flushed", Ticket(s) = Ticket(r)
                     PROVE  FALSE
          BY DEF RowLocked
        <4>1. Busy(s) /\ TicketKnown(s)
          BY DEF Busy, Inv, SessionOK
        <4>2. ~Exists(Loaded(s))
          BY <3>2 DEF Exists, Loaded
        <4> QED BY <3>1, <4>1, <4>2 DEF TicketKnown, Inv, OneCreator
      <3>4. Dirty(r) /\ req[r].op # "comment"
        BY <1>4, <3>2 DEF Dirty, FlushInsert
      <3> QED BY <1>1, <2>1, <3>1, <3>2, <3>3, <3>4, FlushedInv
    <2> QED BY <1>3, <1>4, <2>1 DEF FlushInsert, Answers
  <1>5. CASE FlushUpdate(r)
    <2>1. ASSUME Loaded(r).version = old[r].version, new[r].assignee # Ghost,
                 Flushed(r, Bumped(new[r]))
          PROVE  Inv'
      <3>1. Bumped(new[r]) \in Row
        BY <1>2, <2>1, BumpedStagedType
      <3>2. new[r].version = old[r].version
        BY <1>1, <1>2, <1>5 DEF NextVersion, Creates, FlushUpdate
      <3>3. Dirty(r) /\ ~RowLocked(r) /\ req[r].op # "comment"
        BY <1>2, <1>5 DEF FlushUpdate, Dirty, EffectOf
      <3> QED BY <1>1, <1>2, <2>1, <3>1, <3>2, <3>3, BumpedFields, FlushedInv
    <2> QED BY <1>3, <1>5, <2>1 DEF FlushUpdate, Answers
  <1>6. CASE FlushNoChange(r)
    <2>1. new[r] \in Row
      BY <1>2, <1>6 DEF FlushNoChange, Dirty
    <2> QED BY <1>1, <1>6, <2>1, FlushedInv DEF FlushNoChange
  <1> QED BY <1>4, <1>5, <1>6

\* What the commit of r makes of the row of its ticket.
LEMMA CommitRow ==
  ASSUME Inv, NEW r \in Slots, Commit(r)
  PROVE  /\ Ticket(r) \in TicketIds
         /\ \A t \in TicketIds \ {Ticket(r)} : rows'[t] = rows[t]
         /\ ~Dirty(r) => rows' = rows /\ rows'[Ticket(r)] = rows[Ticket(r)]
         /\ Dirty(r) => /\ rows[Ticket(r)] = old[r]
                        /\ rows' = [rows EXCEPT ![Ticket(r)] = new[r]]
                        /\ rows'[Ticket(r)] = new[r]
                        /\ new[r].version = old[r].version + 1
         /\ EffectOf(req[r].op, Actor(r), old[r], new[r])
         /\ old[r] \in Row /\ new[r] \in Row
  <1>1. Busy(r) /\ pc[r] = "flushed" /\ Pending(r)
    BY DEF Commit, Busy, Pending
  <1>2. Ticket(r) \in TicketIds /\ rows \in [TicketIds -> Row]
    BY <1>1, BusyTyped DEF Inv, TypeInv, TypeOK
  <1>3. SessionOK(r)
    BY DEF Inv
  <1>4. old[r] \in Row /\ new[r] \in Row
    BY <1>1 DEF Inv, TypeInv, TypeOK, SessionsTyped
  <1>5. /\ Dirty(r) => rows[Ticket(r)] = old[r] /\ new[r].version = old[r].version + 1
        /\ EffectOf(req[r].op, Actor(r), old[r], new[r])
    BY <1>1, <1>3 DEF SessionOK, NextVersion, Writes, Loaded
  <1>6. rows' = [rows EXCEPT ![Ticket(r)] = IF Dirty(r) THEN new[r] ELSE rows[Ticket(r)]]
    <2> DEFINE image == Written(rows[Ticket(r)], old[r], new[r])
    <2>1. image = IF Dirty(r) THEN new[r] ELSE rows[Ticket(r)]
      BY <1>2, <1>4, <1>5, WrittenFacts DEF Dirty
    <2> QED BY <2>1 DEF Commit
  <1> QED BY <1>2, <1>4, <1>5, <1>6

LEMMA CommitInv ==
  ASSUME Inv, NEW r \in Slots, Commit(r)
  PROVE  Inv'
  <1>1. TypeInv'
    BY CommitTyped DEF Inv
  <1>2. Busy(r) /\ pc[r] = "flushed" /\ SessionOK(r)
    BY DEF Commit, Busy, Inv
  <1>3. /\ \A s \in Slots \ {r} : /\ pc'[s] = pc[s] /\ req'[s] = req[s]
                                  /\ old'[s] = old[s] /\ new'[s] = new[s]
        /\ pc'[r] \in {"idle", "committed"}
        /\ pc'[r] = "committed" => req' = req
    BY DEF Commit, CloseSession, session, Inv, TypeInv, TypeOK
  <1>4. RowsOK'
    <2> SUFFICES ASSUME NEW t \in TicketIds, rows'[t] # rows[t]
                 PROVE  Exists(rows'[t]) /\ ClosedWithDone(rows'[t])
      BY DEF RowsOK, Inv
    <2>1. Dirty(r) /\ rows'[t] = new[r] /\ new[r].version = old[r].version + 1
          /\ EffectOf(req[r].op, Actor(r), old[r], new[r]) /\ old[r] \in Row
      BY CommitRow
    <2> QED BY <2>1 DEF EffectOf, Exists, Row, RowAssigning
  <1>5. ASSUME NEW s \in Slots PROVE SessionOK(s)'
    <2>1. CASE s = r
      <3>1. ~Pending(r)' /\ ~Writes(r)' /\ pc'[r] # "staged"
        BY <1>3 DEF Pending, Writes
      <3>2. CASE pc'[r] = "idle"
        BY <2>1, <3>1, <3>2 DEF SessionOK, TicketKnown, ImageIsAVersion, NextVersion, Busy, Pending
      <3>3. CASE pc'[r] = "committed"
        <4>1. Exists(rows'[Ticket(r)])
          <5>1. CASE Dirty(r)
            BY <5>1, CommitRow DEF Exists, Row, RowAssigning
          <5>2. CASE ~Dirty(r)
            <6>1. ~Creates(r)
              BY <5>2, CommitRow DEF Dirty, Creates, EffectOf
            <6> QED BY <1>2, <5>2, <6>1, CommitRow DEF SessionOK, TicketKnown, Loaded
          <5> QED BY <5>1, <5>2
        <4>2. TicketKnown(r)'
          BY <1>3, <3>3, <4>1 DEF TicketKnown, Busy, Creates, Loaded, Ticket
        <4> QED BY <2>1, <3>1, <3>3, <4>2 DEF SessionOK, ImageIsAVersion, NextVersion, Pending
      <3> QED BY <1>3, <3>2, <3>3
    <2>2. CASE s # r
      <3>1. CASE ~Busy(s)
        BY <1>3, <2>2, <3>1 DEF SessionOK, TicketKnown, ImageIsAVersion, NextVersion, Pending,
                                Writes, Busy
      <3>2. CASE Busy(s) /\ rows'[Ticket(s)] = rows[Ticket(s)]
        BY <1>3, <2>2, <3>2, SessionFrame DEF Inv
      <3>3. CASE Busy(s) /\ rows'[Ticket(s)] # rows[Ticket(s)]
        <4>1. Ticket(s) \in TicketIds /\ old[s] \in Row
          BY <3>3, BusyTyped DEF Inv, TypeInv, TypeOK
        <4>2. /\ Ticket(s) = Ticket(r) /\ Dirty(r)
              /\ rows[Ticket(s)] = old[r] /\ rows'[Ticket(s)] = new[r]
              /\ new[r].version = old[r].version + 1
              /\ old[r] \in Row
          BY <3>3, <4>1, CommitRow
        <4>3. Writes(r) /\ ~Writes(s)
          BY <1>2, <2>2, <4>2 DEF Writes, Inv, OneWriter
        <4>4. SessionOK(s) /\ ~(Creates(s) /\ Creates(r))
          BY <2>2, <4>2 DEF Inv, OneCreator
        <4>5. Exists(Loaded(s)) /\ Exists(Loaded(s)')
          BY <1>2, <1>3, <2>2, <3>3, <4>2, <4>4
             DEF SessionOK, TicketKnown, Loaded, Exists, Row, RowAssigning, Ticket
        <4>6. TicketKnown(s)'
          BY <1>3, <2>2, <4>4, <4>5 DEF SessionOK, TicketKnown, Busy, Creates
        <4>7. ImageIsAVersion(s)'
          BY <1>3, <2>2, <4>1, <4>2, <4>4
             DEF SessionOK, ImageIsAVersion, Pending, Creates, Busy, Loaded, Ticket, Row, RowAssigning
        <4>8. NextVersion(s)' /\ ~Writes(s)'
          BY <1>3, <2>2, <4>3, <4>4 DEF SessionOK, NextVersion, Writes, Dirty, Creates, Busy
        <4>9. Pending(s)' => EffectOf(req[s].op, Actor(s), old[s], new[s])'
          BY <1>3, <2>2, <4>4 DEF SessionOK, Pending, EffectOf, Actor
        <4> QED BY <4>6, <4>7, <4>8, <4>9 DEF SessionOK
      <3> QED BY <3>1, <3>2, <3>3
    <2> QED BY <2>1, <2>2
  <1>6. OneCreator'
    BY <1>2, <1>3 DEF OneCreator, Creates, Busy, Ticket, Inv
  <1>7. OneWriter'
    BY <1>3 DEF OneWriter, Writes, Dirty, Ticket, Inv
  <1> QED BY <1>1, <1>4, <1>5, <1>6, <1>7 DEF Inv

LEMMA InvStep == Inv /\ [Next]_vars => Inv'
  <1> SUFFICES ASSUME Inv, [Next]_vars PROVE Inv'
    OBVIOUS
  <1>1. CASE UNCHANGED vars
    <2>1. TypeInv' /\ RowsOK' /\ OneCreator' /\ OneWriter'
      BY <1>1, TypeStep DEF Inv, vars, db, session, RowsOK, OneCreator, OneWriter, Creates, Writes,
                            Dirty, Busy, Ticket
    <2>2. ASSUME NEW s \in Slots PROVE SessionOK(s)'
      BY <1>1, <2>2, SessionFrame DEF Inv, vars, db, session
    <2> QED BY <2>1, <2>2 DEF Inv
  <1>2. ASSUME NEW r \in Slots, Begin(r) PROVE Inv'
    BY <1>2, BeginInv
  <1>3. ASSUME NEW r \in Slots, Serve(r) PROVE Inv'
    <2>1. CASE \/ CreateTicket(r) \/ UpdateTicket(r) \/ TransitionTicket(r)
               \/ SoftDeleteTicket(r) \/ AddComment(r)
      BY <2>1, OperationInv
    <2>2. CASE FlushInsert(r) \/ FlushUpdate(r) \/ FlushNoChange(r)
      BY <2>2, FlushInv
    <2>3. CASE Commit(r)
      BY <2>3, CommitInv
    <2>4. CASE Refresh(r)
      BY <2>4, RespondInv DEF Refresh, Answers
    <2> QED BY <1>3, <2>1, <2>2, <2>3, <2>4 DEF Serve
  <1>4. ASSUME NEW r \in Slots, Fail(r) PROVE Inv'
    BY <1>4, RespondInv DEF Fail, Answers
  <1> QED BY <1>1, <1>2, <1>3, <1>4 DEF Next

LEMMA InvHolds == Spec => []Inv
  BY InvInit, InvStep, PTL DEF Spec

--------------------------------------------------------------------------------
\* The properties.

\* Two transactions never hold an update of the same ticket at once, and the one
\* that does replaces the row it computed its update from.
THEOREM WritesAreCurrent == Spec => []WriteIsCurrent
  <1>1. ASSUME Inv PROVE WriteIsCurrent
    <2> SUFFICES ASSUME NEW r \in Slots, pc[r] = "flushed", Dirty(r)
                 PROVE  /\ Loaded(r) = old[r]
                        /\ new[r].version = old[r].version + 1
                        /\ ~RowLocked(r)
      BY DEF WriteIsCurrent
    <2>1. old[r] \in Row /\ SessionOK(r) /\ Writes(r)
      BY <1>1 DEF Inv, TypeInv, TypeOK, Writes
    <2>2. Loaded(r) = old[r] /\ new[r].version = old[r].version + 1
      BY <2>1 DEF SessionOK, NextVersion, Row, RowAssigning
    <2>3. ~RowLocked(r)
      BY <1>1, <2>1 DEF Inv, OneWriter, Writes, RowLocked
    <2> QED BY <2>2, <2>3
  <1> QED BY InvHolds, <1>1, PTL

\* closed_at is set exactly on the tickets that are DONE.
THEOREM ClosedExactlyWhenDone == Spec => []ClosedIffDone
  <1>1. Inv => ClosedIffDone
    BY DEF Inv, RowsOK, ClosedWithDone, ClosedIffDone
  <1> QED BY InvHolds, <1>1, PTL

\* Only a commit changes a row.
LEMMA OnlyCommitWrites ==
  ASSUME [Next]_vars, rows' # rows
  PROVE  \E r \in Slots : Commit(r)
  BY DEF vars, db, Next, Begin, Serve, CreateTicket, UpdateTicket, TransitionTicket,
         SoftDeleteTicket, AddComment, FlushInsert, FlushUpdate, FlushNoChange, Flushed, Refresh,
         Fail, Respond, Stage

\* A commit that changes the row of t makes an operation's effect on that row.
LEMMA ChangeIsAnEffect ==
  ASSUME Inv, [Next]_vars, NEW t \in TicketIds, rows'[t] # rows[t]
  PROVE  \E r \in Slots : /\ Commit(r)
                          /\ Ticket(r) = t
                          /\ EffectOf(req[r].op, Actor(r), rows[t], rows'[t])
  <1>1. PICK r \in Slots : Commit(r)
    BY OnlyCommitWrites
  <1> QED BY <1>1, CommitRow

\* A committed status only moves along the workflow, and never once the deletion
\* of the ticket is committed.
THEOREM WorkflowIsRespected == Spec => WorkflowRespected
  <1>1. ASSUME Inv, [Next]_vars, NEW t \in TicketIds, rows'[t].status # rows[t].status
        PROVE  AllowedTransition(rows[t].status, rows'[t].status) /\ ~rows[t].deleted
    <2>1. PICK r \in Slots : /\ Commit(r)
                             /\ Ticket(r) = t
                             /\ EffectOf(req[r].op, Actor(r), rows[t], rows'[t])
      BY <1>1, ChangeIsAnEffect
    <2>2. req[r].op \in Operations
      BY <1>1, <2>1, BusyTyped DEF Inv, Commit, Busy, Requests
    <2>3. req[r].op # "create"
      <3> SUFFICES ASSUME req[r].op = "create" PROVE FALSE
        OBVIOUS
      <3>1. rows[t] = NoRow
        BY <1>1, <2>1 DEF Inv, SessionOK, TicketKnown, RowsOK, Creates, Commit, Busy, Loaded
      <3> QED BY <1>1, <2>1, <3>1 DEF EffectOf, NoRow
    <2> QED BY <1>1, <2>1, <2>2, <2>3 DEF EffectOf, Operations
  <1>2. Inv /\ [Next]_vars =>
          [\A t \in TicketIds :
             rows'[t].status # rows[t].status =>
               /\ AllowedTransition(rows[t].status, rows'[t].status)
               /\ ~rows[t].deleted]_vars
    BY <1>1
  <1> QED BY InvHolds, <1>2, PTL DEF Spec, WorkflowRespected

\* A deleted ticket stays deleted, and only an ADMIN still changes its row.
THEOREM DeletionsAreFinal == Spec => DeletionIsFinal
  <1>1. ASSUME Inv, [Next]_vars, NEW t \in TicketIds, rows[t].deleted, rows'[t] # rows[t]
        PROVE  rows'[t].deleted /\ IsAdmin(audit'[t][Len(audit'[t])].actor)
    <2>1. PICK r \in Slots : /\ Commit(r)
                             /\ Ticket(r) = t
                             /\ EffectOf(req[r].op, Actor(r), rows[t], rows'[t])
      BY <1>1, ChangeIsAnEffect
    <2>2. req[r].op \in Operations
      BY <1>1, <2>1, BusyTyped DEF Inv, Commit, Busy, Requests
    <2>3. req[r].op # "create"
      <3> SUFFICES ASSUME req[r].op = "create" PROVE FALSE
        OBVIOUS
      <3>1. rows[t] = NoRow
        BY <1>1, <2>1 DEF Inv, SessionOK, TicketKnown, RowsOK, Creates, Commit, Busy, Loaded
      <3> QED BY <1>1, <3>1 DEF NoRow
    <2>4. req[r].op = "update" /\ rows'[t].deleted /\ IsAdmin(Actor(r))
      BY <1>1, <2>1, <2>2, <2>3 DEF EffectOf, Operations, Found
    <2>5. audit[t] \in Seq(Events) /\ audit' = [audit EXCEPT ![t] = Append(audit[t], EventOf(r))]
          /\ audit \in [TicketIds -> Seq(Events)]
      BY <1>1, <2>1 DEF Inv, TypeInv, TypeOK, Commit
    <2>6. audit'[t][Len(audit'[t])] = EventOf(r)
      BY <2>5
    <2> QED BY <2>4, <2>6 DEF EventOf, Event
  <1>2. Inv /\ [Next]_vars =>
          [\A t \in TicketIds :
             rows[t].deleted /\ rows'[t] # rows[t] =>
               /\ rows'[t].deleted
               /\ IsAdmin(audit'[t][Len(audit'[t])].actor)]_vars
    BY <1>1
  <1> QED BY InvHolds, <1>2, PTL DEF Spec, DeletionIsFinal

--------------------------------------------------------------------------------
\* What a request has computed.

\* The image op makes of a row for actor, and under which conditions it makes it.
ComputedFrom(op, actor, from, image) ==
  /\ op = "create" =>
       \E content \in Contents, assignee \in Users \cup {None, Ghost} :
         MayAssign(actor, assignee) /\ image = Inserted(actor, content, assignee)
  /\ op = "update" =>
       /\ Found(actor, from)
       /\ \E content \in Contents \cup {Unset}, assignee \in Users \cup {None, Unset, Ghost} :
            MayAssign(actor, assignee) /\ image = Patched(actor, from, content, assignee)
  /\ op = "transition" =>
       /\ IsAgentOrAdmin(actor) /\ Exists(from) /\ ~from.deleted
       /\ \E status \in Statuses :
            AllowedTransition(from.status, status) /\ image = Transitioned(from, status)
  /\ op = "delete" => Found(actor, from) /\ ~from.deleted /\ image = SoftDeleted(from)
  /\ op = "comment" => Found(actor, from) /\ image = from

\* The row the flush makes of the image.
WrittenAs(op, from, image) ==
  IF op = "create" \/ image = from THEN image ELSE Bumped(image)

Computed(r) ==
  /\ pc[r] = "staged" => ComputedFrom(req[r].op, Actor(r), old[r], new[r])
  /\ pc[r] = "flushed" =>
       \E image \in {new[r], [new[r] EXCEPT !.version = old[r].version]} :
         /\ ComputedFrom(req[r].op, Actor(r), old[r], image)
         /\ new[r] = WrittenAs(req[r].op, old[r], image)

\* The image a session works on is a row of the trail, and of the same reporter.
ImageInTrail(r) ==
  Pending(r) /\ ~Creates(r) =>
    /\ old[r].reporter = Loaded(r).reporter
    /\ \E i \in DOMAIN audit[Ticket(r)] :
         audit[Ticket(r)][i].type \in ChangeTypes /\ audit[Ticket(r)][i].new = old[r]

--------------------------------------------------------------------------------
\* When a request began, among the events of its ticket.

BeganInTime(r) ==
  Busy(r) =>
    /\ at[r] \in 1 .. clock
    /\ ~Creates(r) => /\ 1 \in DOMAIN stamps[Ticket(r)]
                      /\ stamps[Ticket(r)][1].at < at[r]

\* Who still works on a ticket after its deletion is an ADMIN, or began before.
LateOnlyAdmins(r) ==
  Pending(r) =>
    \A i \in DOMAIN audit[Ticket(r)] :
      audit[Ticket(r)][i].type = "deleted" /\ stamps[Ticket(r)][i].done < at[r]
        => IsAdmin(Actor(r))

\* One of the times holds the time "began".
OneOf(times, began) ==
  \E i \in DOMAIN times : \A j \in DOMAIN times : times[j].at = began <=> j = i

\* An event is recorded once, at the commit.
RecordedOnce(r) ==
  /\ Busy(r) /\ pc[r] # "committed" => \A i \in DOMAIN stamps[Ticket(r)] : stamps[Ticket(r)][i].at # at[r]
  /\ pc[r] = "committed" => OneOf(stamps[Ticket(r)], at[r])

ReadsItsWrite(r) ==
  pc[r] = "committed" =>
    /\ Loaded(r).version >= new[r].version
    /\ Dirty(r) /\ Loaded(r).version = new[r].version => Loaded(r) = new[r]

SessionTrail(r) ==
  /\ Computed(r)
  /\ ImageInTrail(r)
  /\ BeganInTime(r)
  /\ LateOnlyAdmins(r)
  /\ RecordedOnce(r)
  /\ ReadsItsWrite(r)

OwnTimes == \A r, s \in Slots : Busy(r) /\ Busy(s) /\ at[r] = at[s] => r = s

--------------------------------------------------------------------------------
\* The trail of a ticket.

\* The parts of AuditChain, for one ticket.
VersionsExplained(t) ==
  \A v \in 1 .. rows[t].version :
    \E i \in DOMAIN audit[t] : IsChange(audit[t][i]) /\ audit[t][i].new.version = v

ChangesLeadToRow(t) ==
  \A i \in DOMAIN audit[t] :
    IsChange(audit[t][i]) =>
      /\ audit[t][i].type \in ChangeTypes
      /\ audit[t][i].new.version = audit[t][i].old.version + 1
      /\ audit[t][i].new.version <= rows[t].version
      /\ audit[t][i].new.version = rows[t].version => audit[t][i].new = rows[t]

ChangesChain(t) ==
  \A i, j \in DOMAIN audit[t] :
    i < j /\ IsChange(audit[t][i]) /\ IsChange(audit[t][j]) =>
      /\ audit[t][i].new.version <= audit[t][j].old.version
      /\ audit[t][i].new.version = audit[t][j].old.version => audit[t][i].new = audit[t][j].old

\* Events and their times come together, and the first is the creation.
Stamped(t) ==
  /\ DOMAIN stamps[t] = DOMAIN audit[t]
  /\ \A i \in DOMAIN stamps[t] : stamps[t][i].at <= clock /\ stamps[t][i].done <= clock
  /\ Exists(rows[t]) <=> 1 \in DOMAIN audit[t]
  /\ \A i \in DOMAIN audit[t] :
       /\ audit[t][1].type = "created"
       /\ i # 1 => ListedBefore(t, 1, i)

DeletionRecorded(t) ==
  /\ \A i \in DOMAIN audit[t] : audit[t][i].type = "deleted" => rows[t].deleted
  /\ \A i, j \in DOMAIN audit[t] :
       i < j /\ audit[t][i].type = "deleted" /\ ~IsAdmin(audit[t][j].actor)
         => stamps[t][j].at <= stamps[t][i].done

TicketTrail(t) ==
  /\ VersionsExplained(t)
  /\ ChangesLeadToRow(t)
  /\ ChangesChain(t)
  /\ Stamped(t)
  /\ DeletionRecorded(t)

Trail ==
  /\ \A r \in Slots : SessionTrail(r)
  /\ \A t \in TicketIds : TicketTrail(t)
  /\ OwnTimes

LEMMA TrailInit == Init => Trail
  <1> SUFFICES ASSUME Init PROVE Trail
    OBVIOUS
  <1>1. \A r \in Slots : SessionTrail(r)
    BY DEF Init, SessionTrail, Computed, ImageInTrail, BeganInTime, LateOnlyAdmins, RecordedOnce,
           ReadsItsWrite, Pending, Busy
  <1>2. ASSUME NEW t \in TicketIds PROVE TicketTrail(t)
    <2>1. rows[t].version = 0 /\ audit[t] = <<>> /\ stamps[t] = <<>>
      BY DEF Init, NoRow
    <2>2. VersionsExplained(t) /\ ChangesLeadToRow(t) /\ ChangesChain(t) /\ DeletionRecorded(t)
      BY <2>1 DEF VersionsExplained, ChangesLeadToRow, ChangesChain, DeletionRecorded
    <2>3. Stamped(t)
      BY <2>1 DEF Stamped, Exists
    <2> QED BY <2>2, <2>3 DEF TicketTrail
  <1>3. OwnTimes
    BY DEF Init, OwnTimes, Busy
  <1> QED BY <1>1, <1>2, <1>3 DEF Trail

--------------------------------------------------------------------------------
\* Steps that leave the tables alone.

\* The events of a ticket and their times.
LEMMA ElementType ==
  ASSUME NEW S, NEW q \in Seq(S)
  PROVE  Len(q) \in Nat /\ DOMAIN q = 1 .. Len(q) /\ \A i \in DOMAIN q : q[i] \in S
  OBVIOUS

LEMMA EventTypes ==
  ASSUME TypeInv, NEW t \in TicketIds
  PROVE  /\ rows[t] \in Row /\ rows[t].version \in Nat
         /\ audit[t] \in Seq(Events) /\ stamps[t] \in Seq([at : Nat, done : Nat])
         /\ \A i \in DOMAIN audit[t] : audit[t][i] \in Events
         /\ \A i \in DOMAIN stamps[t] : stamps[t][i].at \in Nat /\ stamps[t][i].done \in Nat
  <1>1. /\ rows[t] \in Row /\ audit[t] \in Seq(Events)
        /\ stamps[t] \in Seq([at : Nat, done : Nat])
    BY DEF TypeInv, TypeOK
  <1>2. \A i \in DOMAIN audit[t] : audit[t][i] \in Events
    BY <1>1, ElementType
  <1>3. \A i \in DOMAIN stamps[t] : stamps[t][i] \in [at : Nat, done : Nat]
    BY <1>1, ElementType
  <1> QED BY <1>1, <1>2, <1>3 DEF Row, RowAssigning

LEMMA ClockTypes ==
  ASSUME TypeInv, NEW r \in Slots
  PROVE  clock \in Nat /\ at[r] \in Nat
  BY MaxRequestsAssumption DEF TypeInv, TypeOK

LEMMA TicketTrailFrame ==
  ASSUME TypeInv, NEW t \in TicketIds, TicketTrail(t),
         UNCHANGED db, clock \in Nat, clock' \in Nat, clock <= clock'
  PROVE  TicketTrail(t)'
  <1>1. \A i \in DOMAIN stamps[t] : stamps[t][i].at <= clock' /\ stamps[t][i].done <= clock'
    <2>1. \A i \in DOMAIN stamps[t] : stamps[t][i].at \in Nat /\ stamps[t][i].done \in Nat
      BY EventTypes
    <2>2. \A i \in DOMAIN stamps[t] : stamps[t][i].at <= clock /\ stamps[t][i].done <= clock
      BY DEF TicketTrail, Stamped
    <2> QED BY <2>1, <2>2
  <1> QED BY <1>1 DEF TicketTrail, VersionsExplained, ChangesLeadToRow, ChangesChain, Stamped,
                      DeletionRecorded, ListedBefore, db

LEMMA SessionTrailFrame ==
  ASSUME TypeInv, NEW s \in Slots, SessionTrail(s),
         pc'[s] = pc[s], req'[s] = req[s], at'[s] = at[s], old'[s] = old[s], new'[s] = new[s],
         UNCHANGED db, clock \in Nat, clock' \in Nat, clock <= clock'
  PROVE  SessionTrail(s)'
  <1>1. at[s] \in 1 .. clock => at[s] \in 1 .. clock'
    OBVIOUS
  <1>2. Computed(s)'
    BY DEF SessionTrail, Computed, Actor
  <1>3. BeganInTime(s)'
    BY <1>1 DEF SessionTrail, BeganInTime, Busy, Creates, Ticket, db
  <1> QED BY <1>2, <1>3 DEF SessionTrail, ImageInTrail, LateOnlyAdmins,
             RecordedOnce, ReadsItsWrite, Pending, Creates, Busy, Loaded, Ticket, Actor, Dirty, db

LEMMA IdleTrail ==
  ASSUME NEW s \in Slots, ~Busy(s)
  PROVE  SessionTrail(s)
  BY DEF SessionTrail, Computed, ImageInTrail, BeganInTime, LateOnlyAdmins, RecordedOnce,
         ReadsItsWrite, Pending, Busy

LEMMA RespondTrail ==
  ASSUME Inv, Trail, NEW r \in Slots, NEW a \in Answers, Respond(r, a)
  PROVE  Trail'
  <1>1. TypeInv /\ clock \in Nat /\ clock' = clock /\ UNCHANGED db
    BY ClockTypes DEF Inv, Respond
  <1>2. /\ pc'[r] = "idle"
        /\ \A s \in Slots \ {r} : /\ pc'[s] = pc[s] /\ req'[s] = req[s] /\ at'[s] = at[s]
                                  /\ old'[s] = old[s] /\ new'[s] = new[s]
    BY <1>1 DEF Respond, CloseSession, TypeInv, TypeOK
  <1>3. ASSUME NEW s \in Slots PROVE SessionTrail(s)'
    <2>1. CASE s = r
      BY <1>2, <2>1, IdleTrail DEF SessionTrail, Computed, ImageInTrail, BeganInTime,
         LateOnlyAdmins, RecordedOnce, ReadsItsWrite, Pending, Busy
    <2>2. CASE s # r
      BY <1>1, <1>2, <2>2, SessionTrailFrame DEF Trail
    <2> QED BY <2>1, <2>2
  <1>4. \A t \in TicketIds : TicketTrail(t)'
    BY <1>1, TicketTrailFrame DEF Trail
  <1>5. OwnTimes'
    BY <1>2 DEF Trail, OwnTimes, Busy
  <1> QED BY <1>3, <1>4, <1>5 DEF Trail

LEMMA BeginTrail ==
  ASSUME Inv, Trail, NEW r \in Slots, Begin(r)
  PROVE  Trail'
  <1>1. /\ TypeInv /\ clock \in Nat /\ clock' = clock + 1 /\ UNCHANGED db
        /\ clock' \in Nat /\ clock <= clock'
    BY ClockTypes DEF Inv, Begin
  <1>2. PICK op \in Operations, u \in Users, t \in TicketIds :
          /\ IF op = "create" THEN Fresh(t) ELSE Exists(rows[t])
          /\ req' = [req EXCEPT ![r] = [op |-> op, actor |-> u, ticket |-> t]]
    BY DEF Begin
  <1>3. /\ pc'[r] = "begun" /\ at'[r] = clock + 1
        /\ req'[r].op = op /\ req'[r].ticket = t
        /\ \A s \in Slots \ {r} : /\ pc'[s] = pc[s] /\ req'[s] = req[s] /\ at'[s] = at[s]
                                  /\ old'[s] = old[s] /\ new'[s] = new[s]
    BY <1>1, <1>2 DEF Begin, TypeInv, TypeOK
  <1>4. \A i \in DOMAIN stamps[t] : stamps[t][i].at <= clock /\ stamps[t][i].at \in Nat
    BY <1>1, EventTypes DEF Trail, TicketTrail, Stamped
  <1>5. SessionTrail(r)'
    <2>1. BeganInTime(r)'
      <3>1. op # "create" => 1 \in DOMAIN stamps[t]
        BY <1>2 DEF Trail, TicketTrail, Stamped
      <3> QED BY <1>1, <1>3, <1>4, <3>1 DEF BeganInTime, Busy, Creates, Ticket, db
    <2>2. RecordedOnce(r)'
      BY <1>1, <1>3, <1>4 DEF RecordedOnce, Busy, Ticket, db
    <2> QED BY <1>3, <2>1, <2>2 DEF SessionTrail, Computed, ImageInTrail, LateOnlyAdmins,
               ReadsItsWrite, Pending
  <1>6. \A s \in Slots : SessionTrail(s)'
    BY <1>1, <1>3, <1>5, SessionTrailFrame DEF Trail
  <1>7. \A s \in TicketIds : TicketTrail(s)'
    BY <1>1, TicketTrailFrame DEF Trail
  <1>8. OwnTimes'
    <2>1. \A s \in Slots : Busy(s) => at[s] <= clock /\ at[s] \in Nat
      BY <1>1 DEF Trail, SessionTrail, BeganInTime
    <2> QED BY <1>1, <1>3, <2>1 DEF Trail, OwnTimes, Busy
  <1> QED BY <1>6, <1>7, <1>8 DEF Trail

--------------------------------------------------------------------------------
\* The operations: a request computes its image from the committed row.

LEMMA StageTrail ==
  ASSUME Inv, Trail, NEW r \in Slots, pc[r] = "begun", NEW image,
         ComputedFrom(req[r].op, Actor(r), Loaded(r), image),
         Stage(r, Loaded(r), image)
  PROVE  Trail'
  <1> DEFINE t == Ticket(r)
  <1>1. /\ TypeInv /\ Busy(r) /\ t \in TicketIds /\ req[r].op \in Operations /\ Loaded(r) \in Row
        /\ clock \in Nat /\ clock' = clock /\ UNCHANGED <<db, req, at>>
        /\ SessionTrail(r) /\ TicketTrail(t) /\ TicketKnown(r)
    BY ClockTypes, BusyTyped DEF Inv, Busy, Stage, Trail, SessionOK, Requests
  <1>2. /\ pc'[r] = "staged" /\ old'[r] = Loaded(r) /\ new'[r] = image
        /\ \A s \in Slots \ {r} : pc'[s] = pc[s] /\ old'[s] = old[s] /\ new'[s] = new[s]
    BY <1>1 DEF Stage, TypeInv, TypeOK
  <1>3. Computed(r)'
    BY <1>1, <1>2 DEF Computed, Actor
  <1>4. ImageInTrail(r)'
    <2> SUFFICES ASSUME ~Creates(r)
                 PROVE  \E i \in DOMAIN audit[t] :
                          audit[t][i].type \in ChangeTypes /\ audit[t][i].new = Loaded(r)
      BY <1>1, <1>2 DEF ImageInTrail, Pending, Creates, Busy, Ticket, Loaded, db
    <2>1. Loaded(r).version \in 1 .. rows[t].version
      BY <1>1 DEF TicketKnown, Exists, Loaded, Row, RowAssigning
    <2>2. PICK i \in DOMAIN audit[t] :
            IsChange(audit[t][i]) /\ audit[t][i].new.version = Loaded(r).version
      BY <1>1, <2>1 DEF TicketTrail, VersionsExplained
    <2> QED BY <1>1, <2>2 DEF TicketTrail, ChangesLeadToRow, Loaded
  <1>5. BeganInTime(r)' /\ RecordedOnce(r)' /\ ReadsItsWrite(r)'
    BY <1>1, <1>2 DEF SessionTrail, BeganInTime, RecordedOnce, ReadsItsWrite, Creates, Busy, Ticket, db
  <1>6. LateOnlyAdmins(r)'
    <2>1. Creates(r) => Loaded(r) = NoRow
      BY <1>1 DEF TicketKnown, Inv, RowsOK, Loaded, Creates
    <2>2. Loaded(r).deleted => IsAdmin(Actor(r))
      BY <1>1, <2>1 DEF ComputedFrom, Found, Creates, Operations, NoRow
    <2> QED BY <1>1, <2>2
            DEF LateOnlyAdmins, TicketTrail, DeletionRecorded, Loaded, Ticket, Actor, db
  <1>7. ASSUME NEW s \in Slots PROVE SessionTrail(s)'
    <2>1. CASE s = r
      BY <2>1, <1>3, <1>4, <1>5, <1>6 DEF SessionTrail
    <2>2. CASE s # r
      BY <1>1, <1>2, <2>2, SessionTrailFrame DEF Trail
    <2> QED BY <2>1, <2>2
  <1>8. \A u \in TicketIds : TicketTrail(u)'
    BY <1>1, TicketTrailFrame DEF Trail
  <1>9. OwnTimes'
    BY <1>1, <1>2 DEF Trail, OwnTimes, Busy
  <1> QED BY <1>7, <1>8, <1>9 DEF Trail

LEMMA OperationTrail ==
  ASSUME Inv, Trail, NEW r \in Slots,
         \/ CreateTicket(r) \/ UpdateTicket(r) \/ TransitionTicket(r)
         \/ SoftDeleteTicket(r) \/ AddComment(r)
  PROVE  Trail'
  <1>1. pc[r] = "begun" /\ Busy(r)
    BY DEF CreateTicket, UpdateTicket, TransitionTicket, SoftDeleteTicket, AddComment,
           Handles, Busy
  <1>2. TicketKnown(r) /\ Ticket(r) \in TicketIds
    BY <1>1, BusyTyped DEF Inv, SessionOK
  <1>3. \A a \in Answers : Respond(r, a) => Trail'
    BY RespondTrail
  <1>4. ASSUME NEW image, ComputedFrom(req[r].op, Actor(r), Loaded(r), image),
               Stage(r, Loaded(r), image)
        PROVE  Trail'
    BY <1>1, <1>4, StageTrail
  <1>5. CASE CreateTicket(r)
    <2>1. Loaded(r) = NoRow
      BY <1>1, <1>2, <1>5 DEF CreateTicket, Handles, TicketKnown, Creates, Inv, RowsOK, Loaded
    <2>2. ASSUME NEW content \in Contents, NEW assignee \in Users \cup {None, Ghost},
                 MayAssign(Actor(r), assignee),
                 Stage(r, NoRow, Inserted(Actor(r), content, assignee))
          PROVE  Trail'
      <3> DEFINE image == Inserted(Actor(r), content, assignee)
      <3>1. ComputedFrom(req[r].op, Actor(r), Loaded(r), image)
        BY <1>5, <2>2 DEF ComputedFrom, CreateTicket, Handles
      <3> QED BY <1>4, <2>1, <2>2, <3>1
    <2> QED BY <1>3, <1>5, <2>2 DEF CreateTicket, Answers
  <1>6. CASE UpdateTicket(r)
    <2>1. ASSUME NEW content \in Contents \cup {Unset}, NEW assignee \in Users \cup {None, Unset, Ghost},
                 Found(Actor(r), Loaded(r)), MayAssign(Actor(r), assignee),
                 Stage(r, Loaded(r), Patched(Actor(r), Loaded(r), content, assignee))
          PROVE  Trail'
      <3> DEFINE image == Patched(Actor(r), Loaded(r), content, assignee)
      <3>1. ComputedFrom(req[r].op, Actor(r), Loaded(r), image)
        BY <1>6, <2>1 DEF ComputedFrom, UpdateTicket, Handles
      <3> QED BY <1>4, <2>1, <3>1
    <2> QED BY <1>3, <1>6, <2>1 DEF UpdateTicket, Answers
  <1>7. CASE TransitionTicket(r)
    <2>1. ASSUME NEW status \in Statuses, IsAgentOrAdmin(Actor(r)), Found(Actor(r), Loaded(r)),
                 ~Loaded(r).deleted, AllowedTransition(Loaded(r).status, status),
                 Stage(r, Loaded(r), Transitioned(Loaded(r), status))
          PROVE  Trail'
      <3> DEFINE image == Transitioned(Loaded(r), status)
      <3>1. ComputedFrom(req[r].op, Actor(r), Loaded(r), image)
        BY <1>7, <2>1 DEF ComputedFrom, TransitionTicket, Handles, Found
      <3> QED BY <1>4, <2>1, <3>1
    <2> QED BY <1>3, <1>7, <2>1 DEF TransitionTicket, Answers
  <1>8. CASE SoftDeleteTicket(r)
    <2>1. ASSUME Found(Actor(r), Loaded(r)), ~Loaded(r).deleted,
                 Stage(r, Loaded(r), SoftDeleted(Loaded(r)))
          PROVE  Trail'
      <3>1. ComputedFrom(req[r].op, Actor(r), Loaded(r), SoftDeleted(Loaded(r)))
        BY <1>8, <2>1 DEF ComputedFrom, SoftDeleteTicket, Handles
      <3> QED BY <1>4, <2>1, <3>1
    <2> QED BY <1>3, <1>8, <2>1 DEF SoftDeleteTicket, Answers
  <1>9. CASE AddComment(r)
    <2>1. Found(Actor(r), Loaded(r)) => ComputedFrom(req[r].op, Actor(r), Loaded(r), Loaded(r))
      BY <1>9 DEF ComputedFrom, AddComment, Handles
    <2> QED BY <1>3, <1>4, <1>9, <2>1 DEF AddComment, Answers
  <1> QED BY <1>5, <1>6, <1>7, <1>8, <1>9

--------------------------------------------------------------------------------
\* The flush.

LEMMA FlushedTrail ==
  ASSUME Inv, Trail, NEW r \in Slots, pc[r] = "staged",
         NEW image, image = WrittenAs(req[r].op, old[r], new[r]),
         new[r] \in {image, [image EXCEPT !.version = old[r].version]},
         image = old[r] <=> ~Dirty(r),
         Flushed(r, image)
  PROVE  Trail'
  <1>1. /\ TypeInv /\ Busy(r) /\ Pending(r)
        /\ clock \in Nat /\ clock' = clock /\ UNCHANGED <<db, req, at, old>>
        /\ SessionTrail(r)
    BY ClockTypes DEF Inv, Busy, Pending, Flushed, Trail
  <1>2. /\ pc'[r] = "flushed" /\ new'[r] = image
        /\ \A s \in Slots \ {r} : pc'[s] = pc[s] /\ new'[s] = new[s]
    BY <1>1 DEF Flushed, TypeInv, TypeOK
  <1>3. Computed(r)'
    <2>1. ComputedFrom(req[r].op, Actor(r), old[r], new[r])
      BY <1>1 DEF SessionTrail, Computed
    <2>2. /\ new[r] \in {new'[r], [new'[r] EXCEPT !.version = old[r].version]}
          /\ new'[r] = WrittenAs(req[r].op, old[r], new[r])
      BY <1>2
    <2> QED BY <1>1, <1>2, <2>1, <2>2 DEF Computed, Actor
  <1>4. ImageInTrail(r)' /\ LateOnlyAdmins(r)'
    BY <1>1, <1>2 DEF SessionTrail, ImageInTrail, LateOnlyAdmins, Pending, Creates, Busy, Ticket,
                      Loaded, Actor, db
  <1>5. BeganInTime(r)' /\ RecordedOnce(r)' /\ ReadsItsWrite(r)'
    BY <1>1, <1>2 DEF SessionTrail, BeganInTime, RecordedOnce, ReadsItsWrite, Creates, Busy, Ticket, db
  <1>6. ASSUME NEW s \in Slots PROVE SessionTrail(s)'
    <2>1. CASE s = r
      BY <2>1, <1>3, <1>4, <1>5 DEF SessionTrail
    <2>2. CASE s # r
      BY <1>1, <1>2, <2>2, SessionTrailFrame DEF Trail
    <2> QED BY <2>1, <2>2
  <1>7. \A u \in TicketIds : TicketTrail(u)'
    BY <1>1, TicketTrailFrame DEF Trail
  <1>8. OwnTimes'
    BY <1>1, <1>2 DEF Trail, OwnTimes, Busy
  <1> QED BY <1>6, <1>7, <1>8 DEF Trail

LEMMA FlushTrail ==
  ASSUME Inv, Trail, NEW r \in Slots, FlushInsert(r) \/ FlushUpdate(r) \/ FlushNoChange(r)
  PROVE  Trail'
  <1>1. /\ pc[r] = "staged" /\ old[r] \in Row /\ new[r] \in StagedRow
        /\ ImageIsAVersion(r) /\ NextVersion(r) /\ Busy(r)
    BY DEF FlushInsert, FlushUpdate, FlushNoChange, Inv, TypeInv, TypeOK, SessionOK, Busy
  <1>2. \A a \in Answers : Respond(r, a) => Trail'
    BY RespondTrail
  <1>3. CASE FlushInsert(r)
    <2>1. new[r] = WrittenAs(req[r].op, old[r], new[r])
      BY <1>3 DEF FlushInsert, WrittenAs
    <2> QED BY <1>1, <1>2, <1>3, <2>1, FlushedTrail DEF FlushInsert, Answers, Dirty
  <1>4. CASE FlushUpdate(r)
    <2> DEFINE image == Bumped(new[r])
    <2>1. image = WrittenAs(req[r].op, old[r], new[r])
      BY <1>4 DEF FlushUpdate, WrittenAs, Dirty
    <2>2. new[r].version = old[r].version /\ old[r].version \in Nat
      BY <1>1, <1>4 DEF FlushUpdate, NextVersion, Creates, Row, RowAssigning
    <2>3. new[r] = [image EXCEPT !.version = old[r].version]
      BY <1>1, <2>2 DEF Bumped, StagedRow, RowAssigning
    <2>4. image.version = old[r].version + 1
      BY <1>1, <2>2, BumpedFields
    <2>5. image # old[r] /\ Dirty(r)
      BY <1>4, <2>2, <2>4 DEF FlushUpdate
    <2> HIDE DEF image
    <2>6. Flushed(r, image) => Trail'
      BY <1>1, <2>1, <2>3, <2>5, FlushedTrail
    <2> QED BY <1>2, <1>4, <2>6 DEF FlushUpdate, Answers, image
  <1>5. CASE FlushNoChange(r)
    <2>1. new[r] = WrittenAs(req[r].op, old[r], new[r]) /\ new[r] = old[r]
      BY <1>5 DEF FlushNoChange, WrittenAs, Dirty
    <2> QED BY <1>1, <1>5, <2>1, FlushedTrail DEF FlushNoChange, Dirty
  <1> QED BY <1>3, <1>4, <1>5

--------------------------------------------------------------------------------
\* The commit.

LEMMA AppendFacts ==
  ASSUME NEW S, NEW q \in Seq(S), NEW e \in S
  PROVE  /\ Len(q) \in Nat
         /\ DOMAIN q = 1 .. Len(q)
         /\ DOMAIN Append(q, e) = 1 .. Len(q) + 1
         /\ \A i \in 1 .. Len(q) : Append(q, e)[i] = q[i]
         /\ Append(q, e)[Len(q) + 1] = e
  OBVIOUS

LEMMA OneOfNew ==
  ASSUME NEW n \in Nat, NEW times, NEW began,
         DOMAIN times = 1 .. n + 1,
         \A i \in 1 .. n : times[i].at # began,
         times[n + 1].at = began
  PROVE  OneOf(times, began)
  <1>1. n + 1 \in DOMAIN times
    OBVIOUS
  <1>2. ASSUME NEW j \in DOMAIN times PROVE times[j].at = began <=> j = n + 1
    <2>1. j \in 1 .. n \/ j = n + 1
      OBVIOUS
    <2> QED BY <2>1
  <1> QED BY <1>1, <1>2 DEF OneOf

LEMMA OneOfLonger ==
  ASSUME NEW n \in Nat, NEW shorter, NEW longer, NEW began,
         DOMAIN shorter = 1 .. n, DOMAIN longer = 1 .. n + 1,
         \A i \in 1 .. n : longer[i] = shorter[i],
         longer[n + 1].at # began,
         OneOf(shorter, began)
  PROVE  OneOf(longer, began)
  <1>1. PICK i \in DOMAIN shorter : \A j \in DOMAIN shorter : shorter[j].at = began <=> j = i
    BY DEF OneOf
  <1>2. i \in DOMAIN longer /\ i # n + 1 /\ longer[i] = shorter[i]
    BY <1>1
  <1>3. ASSUME NEW j \in DOMAIN longer PROVE longer[j].at = began <=> j = i
    <2>1. CASE j \in 1 .. n
      BY <1>1, <2>1
    <2>2. CASE j = n + 1
      BY <1>2, <2>2
    <2> QED BY <2>1, <2>2
  <1> QED BY <1>2, <1>3 DEF OneOf

\* What a request has flushed, told by its operation.
LEMMA FlushedEffect ==
  ASSUME Inv, Trail, NEW r \in Slots, pc[r] = "flushed"
  PROVE  /\ req[r].op \in Operations /\ old[r] \in Row /\ new[r] \in Row
         /\ req[r].op = "create" => new[r].reporter = Actor(r) /\ Dirty(r)
         /\ req[r].op # "create" => new[r].reporter = old[r].reporter
         /\ req[r].op = "delete" => new[r].deleted /\ Dirty(r)
         /\ req[r].op = "transition" => Dirty(r)
         /\ req[r].op = "comment" => ~Dirty(r)
         /\ old[r].deleted => ~Dirty(r) \/ new[r].deleted
  <1>1. /\ Busy(r) /\ Pending(r) /\ SessionOK(r) /\ Computed(r)
        /\ old[r] \in Row /\ new[r] \in Row
    BY DEF Busy, Pending, Inv, TypeInv, TypeOK, SessionsTyped, Trail, SessionTrail
  <1>2. req[r].op \in Operations
    BY <1>1, BusyTyped DEF Inv, Requests
  <1>3. EffectOf(req[r].op, Actor(r), old[r], new[r])
    BY <1>1 DEF SessionOK
  <1>4. PICK image \in {new[r], [new[r] EXCEPT !.version = old[r].version]} :
          /\ ComputedFrom(req[r].op, Actor(r), old[r], image)
          /\ new[r] = WrittenAs(req[r].op, old[r], image)
    BY <1>1 DEF Computed
  <1>5. image.reporter = new[r].reporter /\ image.deleted = new[r].deleted /\ image.status = new[r].status
    BY <1>1, <1>4 DEF Row, RowAssigning
  <1>6. req[r].op = "create" => new[r].reporter = Actor(r)
    BY <1>4, <1>5 DEF ComputedFrom, Inserted, NoRow
  <1>7. req[r].op # "create" => new[r].reporter = old[r].reporter
    BY <1>1, <1>2, <1>4, <1>5
       DEF ComputedFrom, Patched, Transitioned, SoftDeleted, Operations, Row, RowAssigning
  <1>8. req[r].op = "delete" => new[r].deleted /\ ~old[r].deleted
    BY <1>1, <1>4, <1>5 DEF ComputedFrom, SoftDeleted, Row, RowAssigning
  <1>9. req[r].op = "transition" => new[r].status # old[r].status
    BY <1>3 DEF EffectOf, AllowedTransition
  <1>10. old[r].deleted => ~Dirty(r) \/ new[r].deleted
    <2>1. Creates(r) => ~Exists(Loaded(r)) /\ old[r] = Loaded(r)
      BY <1>1, BusyTyped DEF Creates, SessionOK, TicketKnown, ImageIsAVersion, Exists, Pending, Inv,
         Row, RowAssigning
    <2>2. Creates(r) => ~old[r].deleted
      BY <1>1, <2>1, BusyTyped DEF Inv, RowsOK, Loaded, NoRow
    <2> QED BY <1>1, <1>2, <1>3, <2>2 DEF EffectOf, Operations, Creates, Dirty
  <1> QED BY <1>1, <1>2, <1>3, <1>6, <1>7, <1>8, <1>9, <1>10 DEF EffectOf, Dirty

\* The event a commit appends.
LEMMA EventFacts ==
  ASSUME Inv, Trail, NEW r \in Slots, pc[r] = "flushed"
  PROVE  /\ EventOf(r) \in Events
         /\ EventOf(r).actor = Actor(r)
         /\ IsChange(EventOf(r)) <=> Dirty(r)
         /\ Dirty(r) => EventOf(r).old = old[r] /\ EventOf(r).new = new[r]
         /\ req[r].op # "comment" => EventOf(r).type \in ChangeTypes
         /\ EventOf(r).type = "created" <=> req[r].op = "create"
         /\ EventOf(r).type = "deleted" <=> req[r].op = "delete"
  <1>1. EventOf(r) \in Events /\ TypeInv
    BY EventTyped DEF Inv
  <1>2. req[r].op \in Operations
    BY FlushedEffect
  <1>3. CASE req[r].op = "comment"
    BY <1>1, <1>3, FlushedEffect DEF EventOf, CommentEvent, Event, IsChange
  <1>4. CASE req[r].op # "comment"
    <2>1. /\ EventType[req[r].op] \in ChangeTypes
          /\ EventType[req[r].op] = "created" <=> req[r].op = "create"
          /\ EventType[req[r].op] = "deleted" <=> req[r].op = "delete"
      BY <1>2, <1>4 DEF EventType, ChangeTypes, Operations
    <2>2. /\ EventOf(r).type = EventType[req[r].op] /\ EventOf(r).actor = Actor(r)
          /\ EventOf(r).old = old[r] /\ EventOf(r).new = new[r]
      BY <1>4 DEF EventOf, Event
    <2> QED BY <1>1, <1>4, <2>1, <2>2 DEF IsChange, Dirty
  <1> QED BY <1>3, <1>4

\* The trail after the commit: one event and its times more, of one ticket.
LEMMA CommitAppends ==
  ASSUME Inv, Trail, NEW r \in Slots, Commit(r)
  PROVE  LET t == Ticket(r) IN
         /\ t \in TicketIds /\ Len(audit[t]) \in Nat
         /\ \A u \in TicketIds \ {t} : /\ rows'[u] = rows[u] /\ audit'[u] = audit[u]
                                      /\ stamps'[u] = stamps[u]
         /\ DOMAIN audit[t] = 1 .. Len(audit[t]) /\ DOMAIN stamps[t] = 1 .. Len(audit[t])
         /\ DOMAIN audit'[t] = 1 .. Len(audit[t]) + 1
         /\ DOMAIN stamps'[t] = 1 .. Len(audit[t]) + 1
         /\ \A i \in 1 .. Len(audit[t]) : audit'[t][i] = audit[t][i] /\ stamps'[t][i] = stamps[t][i]
         /\ audit'[t][Len(audit[t]) + 1] = EventOf(r)
         /\ stamps'[t][Len(audit[t]) + 1].at = at[r]
         /\ stamps'[t][Len(audit[t]) + 1].done = clock
  <1> DEFINE t == Ticket(r)
  <1> DEFINE stamp == [at |-> at[r], done |-> clock]
  <1>1. /\ pc[r] = "flushed" /\ Busy(r) /\ t \in TicketIds
        /\ EventOf(r) \in Events /\ stamp \in [at : Nat, done : Nat]
    BY BusyTyped, EventFacts, ClockTypes DEF Commit, Busy, Inv
  <1>2. stamp.at = at[r] /\ stamp.done = clock
    OBVIOUS
  <1> HIDE DEF stamp
  <1>3. /\ audit[t] \in Seq(Events) /\ stamps[t] \in Seq([at : Nat, done : Nat])
        /\ audit'[t] = Append(audit[t], EventOf(r)) /\ stamps'[t] = Append(stamps[t], stamp)
        /\ \A u \in TicketIds \ {t} : audit'[u] = audit[u] /\ stamps'[u] = stamps[u]
    BY <1>1 DEF Inv, TypeInv, TypeOK, Commit, stamp
  <1>4. DOMAIN stamps[t] = DOMAIN audit[t]
    BY <1>1 DEF Trail, TicketTrail, Stamped
  <1>5. /\ Len(audit[t]) \in Nat /\ DOMAIN audit[t] = 1 .. Len(audit[t])
        /\ DOMAIN audit'[t] = 1 .. Len(audit[t]) + 1
        /\ \A i \in 1 .. Len(audit[t]) : audit'[t][i] = audit[t][i]
        /\ audit'[t][Len(audit[t]) + 1] = EventOf(r)
    BY <1>1, <1>3, AppendFacts
  <1>6. Len(stamps[t]) = Len(audit[t])
    BY <1>3, <1>4, <1>5, ElementType
  <1>7. /\ DOMAIN stamps'[t] = 1 .. Len(stamps[t]) + 1
        /\ \A i \in 1 .. Len(stamps[t]) : stamps'[t][i] = stamps[t][i]
        /\ stamps'[t][Len(stamps[t]) + 1] = stamp
    BY <1>1, <1>3, AppendFacts
  <1> QED BY <1>1, <1>2, <1>3, <1>4, <1>5, <1>6, <1>7, CommitRow

\* What a commit does to the row of its ticket, in terms of its version.
LEMMA CommitVersions ==
  ASSUME Inv, Trail, NEW r \in Slots, Commit(r)
  PROVE  LET t == Ticket(r) IN
         /\ rows[t] \in Row /\ rows[t].version \in Nat
         /\ rows'[t] \in Row /\ rows'[t].version \in Nat
         /\ Dirty(r) => /\ rows'[t] = new[r] /\ rows[t] = old[r]
                        /\ rows'[t].version = rows[t].version + 1
         /\ ~Dirty(r) => rows'[t] = rows[t]
         /\ Exists(rows'[t])
         /\ Exists(rows[t]) <=> ~Creates(r)
         /\ rows[t].deleted => rows'[t].deleted
         /\ ~Creates(r) => rows'[t].reporter = rows[t].reporter
  <1> DEFINE t == Ticket(r)
  <1>1. pc[r] = "flushed" /\ Busy(r) /\ TicketKnown(r)
    BY DEF Commit, Busy, Inv, SessionOK
  <1>2. t \in TicketIds /\ rows[t] \in Row /\ rows'[t] \in Row
    BY CommitRow, CommitTyped DEF Inv, TypeInv, TypeOK
  <1>3. rows[t].version \in Nat /\ rows'[t].version \in Nat
    BY <1>2 DEF Row, RowAssigning
  <1>4. /\ Dirty(r) => /\ rows'[t] = new[r] /\ rows[t] = old[r]
                       /\ rows'[t].version = rows[t].version + 1
        /\ ~Dirty(r) => rows'[t] = rows[t]
    BY CommitRow
  <1>5. Exists(rows[t]) <=> ~Creates(r)
    BY <1>1 DEF TicketKnown, Loaded
  <1>6. Exists(rows'[t])
    BY <1>1, <1>3, <1>4, <1>5, FlushedEffect DEF Exists, Creates
  <1>7. rows[t].deleted => rows'[t].deleted
    BY <1>1, <1>4, FlushedEffect
  <1>8. ~Creates(r) => rows'[t].reporter = rows[t].reporter
    BY <1>1, <1>4, FlushedEffect DEF Creates
  <1> QED BY <1>2, <1>3, <1>4, <1>5, <1>6, <1>7, <1>8

LEMMA CommitTicketTrail ==
  ASSUME Inv, Trail, NEW r \in Slots, Commit(r), NEW t, t = Ticket(r)
  PROVE  TicketTrail(t)'
  <1> DEFINE n == Len(audit[t])
             e == EventOf(r)
  <1>1. /\ pc[r] = "flushed" /\ Busy(r) /\ Pending(r) /\ TypeInv /\ t \in TicketIds /\ clock' = clock
        /\ clock \in Nat /\ at[r] \in 1 .. clock
        /\ TicketTrail(t) /\ SessionTrail(r)
    BY BusyTyped, ClockTypes
       DEF Commit, Busy, Pending, Inv, Trail, SessionTrail, BeganInTime
  <1>2. /\ n \in Nat /\ DOMAIN audit[t] = 1 .. n /\ DOMAIN stamps[t] = 1 .. n
        /\ DOMAIN audit'[t] = 1 .. n + 1 /\ DOMAIN stamps'[t] = 1 .. n + 1
        /\ \A i \in 1 .. n : audit'[t][i] = audit[t][i] /\ stamps'[t][i] = stamps[t][i]
        /\ audit'[t][n + 1] = e
        /\ stamps'[t][n + 1].at = at[r] /\ stamps'[t][n + 1].done = clock
    BY CommitAppends
  <1>3. /\ rows[t].version \in Nat /\ rows'[t].version \in Nat
        /\ Dirty(r) => /\ rows'[t] = new[r] /\ rows[t] = old[r]
                       /\ rows'[t].version = rows[t].version + 1
        /\ ~Dirty(r) => rows'[t] = rows[t]
        /\ Exists(rows'[t])
        /\ Exists(rows[t]) <=> ~Creates(r)
        /\ rows[t].deleted => rows'[t].deleted
    BY CommitVersions
  <1>4. /\ e.actor = Actor(r)
        /\ IsChange(e) <=> Dirty(r)
        /\ Dirty(r) => e.old = old[r] /\ e.new = new[r]
        /\ req[r].op # "comment" => e.type \in ChangeTypes
        /\ e.type = "created" <=> req[r].op = "create"
        /\ e.type = "deleted" <=> req[r].op = "delete"
    BY <1>1, EventFacts
  <1>5. /\ req[r].op = "delete" => new[r].deleted /\ Dirty(r)
        /\ req[r].op = "comment" => ~Dirty(r)
    BY <1>1, FlushedEffect
  <1>6. /\ \A i \in 1 .. n : audit[t][i].new.version \in Nat
        /\ \A i \in 1 .. n : stamps[t][i].at \in Nat /\ stamps[t][i].done \in Nat
    <2>1. \A i \in 1 .. n : audit[t][i] \in Events
      BY <1>1, <1>2, EventTypes
    <2> QED BY <1>1, <1>2, <2>1, EventTypes DEF Events, Row, RowAssigning
  <1> HIDE DEF n, e
  <1>7. VersionsExplained(t)'
    <2> SUFFICES ASSUME NEW v \in 1 .. rows'[t].version
                 PROVE  \E i \in 1 .. n + 1 : IsChange(audit'[t][i]) /\ audit'[t][i].new.version = v
      BY <1>2 DEF VersionsExplained, IsChange
    <2>1. CASE v \in 1 .. rows[t].version
      <3>1. PICK i \in 1 .. n : IsChange(audit[t][i]) /\ audit[t][i].new.version = v
        BY <1>1, <1>2, <2>1 DEF TicketTrail, VersionsExplained
      <3> QED BY <1>2, <3>1
    <2>2. CASE Dirty(r) /\ v = rows'[t].version
      BY <1>2, <1>3, <1>4, <2>2
    <2> QED BY <1>3, <2>1, <2>2
  <1>8. ChangesLeadToRow(t)'
    <2> SUFFICES ASSUME NEW i \in 1 .. n + 1, IsChange(audit'[t][i])
                 PROVE  /\ audit'[t][i].type \in ChangeTypes
                        /\ audit'[t][i].new.version = audit'[t][i].old.version + 1
                        /\ audit'[t][i].new.version <= rows'[t].version
                        /\ audit'[t][i].new.version = rows'[t].version => audit'[t][i].new = rows'[t]
      BY <1>2 DEF ChangesLeadToRow, IsChange
    <2>1. CASE i \in 1 .. n
      <3>1. /\ audit[t][i].type \in ChangeTypes
            /\ audit[t][i].new.version = audit[t][i].old.version + 1
            /\ audit[t][i].new.version <= rows[t].version
            /\ audit[t][i].new.version = rows[t].version => audit[t][i].new = rows[t]
        BY <1>1, <1>2, <2>1 DEF TicketTrail, ChangesLeadToRow
      <3>2. audit'[t][i] = audit[t][i] /\ audit[t][i].new.version \in Nat
        BY <1>2, <1>6, <2>1
      <3>3. /\ audit[t][i].new.version <= rows'[t].version
            /\ audit[t][i].new.version = rows'[t].version => audit[t][i].new = rows'[t]
        <4>1. CASE Dirty(r)
          BY <1>3, <3>1, <3>2, <4>1
        <4>2. CASE ~Dirty(r)
          BY <1>3, <3>1, <4>2
        <4> QED BY <4>1, <4>2
      <3> QED BY <3>1, <3>2, <3>3
    <2>2. CASE i = n + 1
      BY <1>2, <1>3, <1>4, <1>5, <2>2
    <2> QED BY <1>2, <2>1, <2>2
  <1>9. ChangesChain(t)'
    <2> SUFFICES ASSUME NEW i \in 1 .. n + 1, NEW j \in 1 .. n + 1, i < j,
                        IsChange(audit'[t][i]), IsChange(audit'[t][j])
                 PROVE  /\ audit'[t][i].new.version <= audit'[t][j].old.version
                        /\ audit'[t][i].new.version = audit'[t][j].old.version
                             => audit'[t][i].new = audit'[t][j].old
      BY <1>2 DEF ChangesChain, IsChange
    <2>1. i \in 1 .. n
      BY <1>2
    <2>2. CASE j \in 1 .. n
      <3>1. audit'[t][i] = audit[t][i] /\ audit'[t][j] = audit[t][j]
        BY <1>2, <2>1, <2>2
      <3>2. IsChange(audit[t][i]) /\ IsChange(audit[t][j])
        BY <3>1 DEF IsChange
      <3> QED BY <1>1, <1>2, <2>1, <2>2, <3>1, <3>2 DEF TicketTrail, ChangesChain
    <2>3. CASE j = n + 1
      <3>1. /\ audit[t][i].new.version <= rows[t].version
            /\ audit[t][i].new.version = rows[t].version => audit[t][i].new = rows[t]
        BY <1>1, <1>2, <2>1 DEF TicketTrail, ChangesLeadToRow
      <3> QED BY <1>2, <1>3, <1>4, <2>1, <2>3, <3>1
    <2> QED BY <1>2, <2>2, <2>3
  <1>10. Stamped(t)'
    <2>1. n = 0 <=> Creates(r)
      BY <1>1, <1>2, <1>3 DEF TicketTrail, Stamped
    <2>2. \A i \in 1 .. n + 1 : stamps'[t][i].at <= clock' /\ stamps'[t][i].done <= clock'
      <3> SUFFICES ASSUME NEW i \in 1 .. n + 1
                   PROVE  stamps'[t][i].at <= clock /\ stamps'[t][i].done <= clock
        BY <1>1
      <3>1. CASE i \in 1 .. n
        BY <1>1, <1>2, <3>1 DEF TicketTrail, Stamped
      <3>2. CASE i = n + 1
        BY <1>1, <1>2, <3>2
      <3> QED BY <1>2, <3>1, <3>2
    <2>3. audit'[t][1].type = "created"
      <3>1. CASE n = 0
        BY <1>2, <1>4, <2>1, <3>1 DEF Creates
      <3>2. CASE n # 0
        <4>1. 1 \in 1 .. n
          BY <1>2, <3>2
        <4> QED BY <1>1, <1>2, <4>1 DEF TicketTrail, Stamped
      <3> QED BY <3>1, <3>2
    <2>4. ASSUME NEW i \in 1 .. n + 1, i # 1 PROVE stamps'[t][1].at < stamps'[t][i].at
      <3>1. n # 0 /\ 1 \in 1 .. n
        BY <1>2, <2>4
      <3>2. CASE i \in 1 .. n
        BY <1>1, <1>2, <2>4, <3>1, <3>2 DEF TicketTrail, Stamped, ListedBefore
      <3>3. CASE i = n + 1
        BY <1>1, <1>2, <2>1, <3>1, <3>3 DEF SessionTrail, BeganInTime
      <3> QED BY <1>2, <3>2, <3>3
    <2> QED BY <1>2, <1>3, <2>2, <2>3, <2>4 DEF Stamped, ListedBefore
  <1>11. DeletionRecorded(t)'
    <2>1. ASSUME NEW i \in 1 .. n + 1, audit'[t][i].type = "deleted" PROVE rows'[t].deleted
      <3>1. CASE i \in 1 .. n
        BY <1>1, <1>2, <1>3, <2>1, <3>1 DEF TicketTrail, DeletionRecorded
      <3>2. CASE i = n + 1
        BY <1>2, <1>3, <1>4, <1>5, <2>1, <3>2
      <3> QED BY <1>2, <3>1, <3>2
    <2>2. ASSUME NEW i \in 1 .. n + 1, NEW j \in 1 .. n + 1, i < j,
                 audit'[t][i].type = "deleted", ~IsAdmin(audit'[t][j].actor)
          PROVE  stamps'[t][j].at <= stamps'[t][i].done
      <3>1. i \in 1 .. n
        BY <1>2, <2>2
      <3>2. CASE j \in 1 .. n
        BY <1>1, <1>2, <2>2, <3>1, <3>2 DEF TicketTrail, DeletionRecorded
      <3>3. CASE j = n + 1
        <4>1. ~(stamps[t][i].done < at[r])
          BY <1>1, <1>2, <1>4, <2>2, <3>1, <3>3 DEF SessionTrail, LateOnlyAdmins
        <4> QED BY <1>1, <1>2, <1>6, <3>1, <3>3, <4>1
      <3> QED BY <1>2, <3>2, <3>3
    <2> QED BY <1>2, <2>1, <2>2 DEF DeletionRecorded, IsAdmin
  <1> QED BY <1>7, <1>8, <1>9, <1>10, <1>11 DEF TicketTrail

LEMMA CommitSessionTrail ==
  ASSUME Inv, Trail, NEW r \in Slots, Commit(r), NEW s \in Slots
  PROVE  SessionTrail(s)'
  <1> DEFINE t == Ticket(r)
             n == Len(audit[t])
  <1>1. /\ pc[r] = "flushed" /\ Busy(r) /\ Pending(r) /\ TypeInv /\ t \in TicketIds /\ clock' = clock
        /\ clock \in Nat /\ at[r] \in Nat /\ at[s] \in Nat
        /\ TicketTrail(t) /\ SessionTrail(r) /\ SessionTrail(s)
    BY BusyTyped, ClockTypes DEF Commit, Busy, Pending, Inv, Trail
  <1>2. /\ n \in Nat /\ DOMAIN audit[t] = 1 .. n /\ DOMAIN stamps[t] = 1 .. n
        /\ DOMAIN audit'[t] = 1 .. n + 1 /\ DOMAIN stamps'[t] = 1 .. n + 1
        /\ \A i \in 1 .. n : audit'[t][i] = audit[t][i] /\ stamps'[t][i] = stamps[t][i]
        /\ stamps'[t][n + 1].at = at[r] /\ stamps'[t][n + 1].done = clock
        /\ \A u \in TicketIds \ {t} : /\ rows'[u] = rows[u] /\ audit'[u] = audit[u]
                                     /\ stamps'[u] = stamps[u]
    BY CommitAppends
  <1>3. /\ rows[t].version \in Nat /\ rows'[t].version \in Nat
        /\ Dirty(r) => /\ rows'[t] = new[r] /\ rows[t] = old[r]
                       /\ rows'[t].version = rows[t].version + 1
        /\ ~Dirty(r) => rows'[t] = rows[t]
        /\ Exists(rows[t]) <=> ~Creates(r)
        /\ ~Creates(r) => rows'[t].reporter = rows[t].reporter
    BY CommitVersions
  <1>4. /\ \A p \in Slots \ {r} : /\ pc'[p] = pc[p] /\ req'[p] = req[p] /\ at'[p] = at[p]
                                  /\ old'[p] = old[p] /\ new'[p] = new[p]
        /\ pc'[r] \in {"idle", "committed"}
        /\ pc'[r] = "committed" => /\ req'[r] = req[r] /\ at'[r] = at[r] /\ old'[r] = old[r]
                                   /\ new'[r] = new[r]
    BY DEF Commit, CloseSession, session, Inv, TypeInv, TypeOK
  <1> HIDE DEF n
  <1>5. CASE s = r
    <2>1. CASE pc'[r] = "idle"
      BY <1>5, <2>1 DEF SessionTrail, Computed, ImageInTrail, BeganInTime, LateOnlyAdmins,
         RecordedOnce, ReadsItsWrite, Pending, Busy
    <2>2. CASE pc'[r] = "committed"
      <3>1. Ticket(r)' = t /\ ~Pending(r)' /\ (Creates(r)' <=> Creates(r))
        BY <1>1, <1>4, <2>2 DEF Ticket, Pending, Creates, Busy
      <3>2. Computed(r)' /\ ImageInTrail(r)' /\ LateOnlyAdmins(r)'
        BY <2>2, <3>1 DEF Computed, ImageInTrail, LateOnlyAdmins
      <3>3. BeganInTime(r)'
        BY <1>1, <1>2, <1>4, <2>2, <3>1 DEF SessionTrail, BeganInTime
      <3>4. RecordedOnce(r)'
        <4>1. \A i \in 1 .. n : stamps'[t][i].at # at[r]
          BY <1>1, <1>2 DEF SessionTrail, RecordedOnce
        <4>2. OneOf(stamps'[t], at[r])
          <5> DEFINE times == stamps'[t]
          <5>1. /\ n \in Nat /\ DOMAIN times = 1 .. n + 1 /\ times[n + 1].at = at[r]
                /\ \A i \in 1 .. n : times[i].at # at[r]
            BY <1>2, <4>1
          <5> HIDE DEF times
          <5>2. OneOf(times, at[r])
            BY <5>1, OneOfNew
          <5> QED BY <5>2 DEF times
        <4> QED BY <1>4, <2>2, <3>1, <4>2 DEF RecordedOnce, Busy
      <3>5. ReadsItsWrite(r)'
        <4>1. SessionOK(r) /\ old[r].version <= Loaded(r).version
          BY <1>1 DEF Inv, SessionOK, ImageIsAVersion
        <4>2. Dirty(r)' <=> Dirty(r)
          BY <1>4, <2>2 DEF Dirty
        <4> QED BY <1>1, <1>3, <1>4, <2>2, <3>1, <4>1, <4>2 DEF ReadsItsWrite, Loaded, Dirty
      <3> QED BY <1>5, <3>2, <3>3, <3>4, <3>5 DEF SessionTrail
    <2> QED BY <1>4, <2>1, <2>2
  <1>6. CASE s # r /\ ~Busy(s)
    BY <1>4, <1>6 DEF SessionTrail, Computed, ImageInTrail, BeganInTime, LateOnlyAdmins,
       RecordedOnce, ReadsItsWrite, Pending, Busy
  <1>7. CASE s # r /\ Busy(s) /\ Ticket(s) # t
    <2>1. Ticket(s) \in TicketIds \ {t}
      BY <1>1, <1>7, BusyTyped
    <2>2. /\ rows'[Ticket(s)] = rows[Ticket(s)] /\ audit'[Ticket(s)] = audit[Ticket(s)]
          /\ stamps'[Ticket(s)] = stamps[Ticket(s)]
      BY <1>2, <2>1
    <2>3. Ticket(s)' = Ticket(s) /\ Loaded(s)' = Loaded(s)
      BY <1>4, <1>7, <2>2 DEF Ticket, Loaded
    <2>4. Computed(s)' /\ BeganInTime(s)'
      BY <1>1, <1>4, <1>7, <2>2, <2>3 DEF SessionTrail, Computed, BeganInTime, Actor, Busy, Creates
    <2> QED BY <1>1, <1>4, <1>7, <2>2, <2>3, <2>4
            DEF SessionTrail, ImageInTrail, LateOnlyAdmins, RecordedOnce, ReadsItsWrite, Pending,
                Creates, Busy, Actor, Dirty
  <1>8. CASE s # r /\ Busy(s) /\ Ticket(s) = t
    <2>1. /\ pc'[s] = pc[s] /\ req'[s] = req[s] /\ at'[s] = at[s] /\ old'[s] = old[s] /\ new'[s] = new[s]
          /\ Ticket(s)' = t /\ Actor(s)' = Actor(s)
          /\ (Busy(s)' <=> Busy(s)) /\ (Creates(s)' <=> Creates(s)) /\ (Pending(s)' <=> Pending(s))
          /\ (Dirty(s)' <=> Dirty(s))
      BY <1>4, <1>8 DEF Ticket, Actor, Busy, Creates, Pending, Dirty
    <2>2. Computed(s)'
      BY <1>1, <2>1 DEF SessionTrail, Computed
    <2>3. ~Creates(s) => ~Creates(r)
      BY <1>3, <1>8 DEF Inv, SessionOK, TicketKnown, Loaded
    <2>4. ImageInTrail(s)'
      <3> SUFFICES ASSUME Pending(s), ~Creates(s)
                   PROVE  /\ old[s].reporter = rows'[t].reporter
                          /\ \E i \in 1 .. n + 1 : /\ audit'[t][i].type \in ChangeTypes
                                                  /\ audit'[t][i].new = old[s]
        BY <1>2, <2>1 DEF ImageInTrail, Loaded
      <3>1. PICK i \in 1 .. n : audit[t][i].type \in ChangeTypes /\ audit[t][i].new = old[s]
        BY <1>1, <1>2, <1>8 DEF SessionTrail, ImageInTrail
      <3>2. old[s].reporter = rows'[t].reporter
        BY <1>1, <1>3, <1>8, <2>3 DEF SessionTrail, ImageInTrail, Loaded
      <3> QED BY <1>2, <3>1, <3>2
    <2>5. BeganInTime(s)'
      BY <1>1, <1>2, <1>8, <2>1 DEF SessionTrail, BeganInTime
    <2>6. LateOnlyAdmins(s)'
      <3> SUFFICES ASSUME Pending(s), NEW i \in 1 .. n + 1, audit'[t][i].type = "deleted",
                          stamps'[t][i].done < at[s]
                   PROVE  IsAdmin(Actor(s))
        BY <1>2, <2>1 DEF LateOnlyAdmins
      <3>1. at[s] <= clock
        BY <1>1, <1>8 DEF SessionTrail, BeganInTime
      <3>2. i \in 1 .. n
        BY <1>1, <1>2, <3>1
      <3> QED BY <1>1, <1>2, <1>8, <3>2 DEF SessionTrail, LateOnlyAdmins
    <2>7. RecordedOnce(s)'
      <3>1. at[s] # at[r]
        BY <1>1, <1>8 DEF Trail, OwnTimes
      <3>2. \A i \in 1 .. n + 1 : i \in 1 .. n \/ i = n + 1
        BY <1>2
      <3>3. CASE pc[s] # "committed"
        <4>1. \A i \in 1 .. n + 1 : stamps'[t][i].at # at[s]
          BY <1>1, <1>2, <1>8, <3>1, <3>2, <3>3 DEF SessionTrail, RecordedOnce
        <4> QED BY <1>2, <2>1, <3>3, <4>1 DEF RecordedOnce
      <3>4. CASE pc[s] = "committed"
        <4>1. OneOf(stamps[t], at[s])
          BY <1>1, <1>8, <3>4 DEF SessionTrail, RecordedOnce
        <4>2. OneOf(stamps'[t], at[s])
          BY <1>2, <3>1, <4>1, OneOfLonger
        <4> QED BY <2>1, <3>4, <4>2 DEF RecordedOnce
      <3> QED BY <3>3, <3>4
    <2>8. ReadsItsWrite(s)'
      <3>1. new[s] \in StagedRow /\ new[s].version \in Nat
        BY <1>1 DEF TypeInv, TypeOK, StagedRow, RowAssigning
      <3> QED BY <1>1, <1>3, <1>8, <2>1, <3>1 DEF SessionTrail, ReadsItsWrite, Loaded
    <2> QED BY <2>2, <2>4, <2>5, <2>6, <2>7, <2>8 DEF SessionTrail
  <1> QED BY <1>5, <1>6, <1>7, <1>8

LEMMA CommitTrail ==
  ASSUME Inv, Trail, NEW r \in Slots, Commit(r)
  PROVE  Trail'
  <1>1. \A s \in Slots : SessionTrail(s)'
    BY CommitSessionTrail
  <1>2. ASSUME NEW u \in TicketIds PROVE TicketTrail(u)'
    <2>1. CASE u = Ticket(r)
      <3>1. Ticket(r) \in TicketIds
        BY CommitRow
      <3> QED BY <2>1, <3>1, CommitTicketTrail
    <2>2. CASE u # Ticket(r)
      <3>1. rows'[u] = rows[u] /\ audit'[u] = audit[u] /\ stamps'[u] = stamps[u] /\ clock' = clock
        BY <2>2, CommitAppends DEF Commit
      <3> QED BY <1>2, <3>1 DEF Trail, TicketTrail, VersionsExplained, ChangesLeadToRow, ChangesChain,
                 Stamped, DeletionRecorded, ListedBefore
    <2> QED BY <2>1, <2>2
  <1>3. OwnTimes'
    <2>1. /\ \A s \in Slots \ {r} : pc'[s] = pc[s] /\ at'[s] = at[s]
          /\ pc'[r] # "idle" => at'[r] = at[r]
          /\ pc[r] # "idle"
      BY DEF Commit, CloseSession, session, Inv, TypeInv, TypeOK
    <2> QED BY <2>1 DEF Trail, OwnTimes, Busy
  <1> QED BY <1>1, <1>2, <1>3 DEF Trail

LEMMA TrailStep == Inv /\ Trail /\ [Next]_vars => Trail'
  <1> SUFFICES ASSUME Inv, Trail, [Next]_vars PROVE Trail'
    OBVIOUS
  <1>1. CASE UNCHANGED vars
    <2>1. UNCHANGED <<db, clock, pc, req, at, old, new>>
      BY <1>1 DEF vars, session
    <2>2. \A s \in Slots : SessionTrail(s)'
      BY <2>1, ClockTypes, SessionTrailFrame DEF Inv, Trail
    <2>3. ASSUME NEW t \in TicketIds PROVE TicketTrail(t)'
      <3>1. UNCHANGED <<rows, audit, stamps, clock>> /\ TicketTrail(t)
        BY <2>1 DEF db, Trail
      <3> QED BY <3>1 DEF TicketTrail, VersionsExplained, ChangesLeadToRow, ChangesChain, Stamped,
                 DeletionRecorded, ListedBefore
    <2>4. OwnTimes'
      BY <2>1 DEF Trail, OwnTimes, Busy
    <2> QED BY <2>2, <2>3, <2>4 DEF Trail
  <1>2. ASSUME NEW r \in Slots, Begin(r) PROVE Trail'
    BY <1>2, BeginTrail
  <1>3. ASSUME NEW r \in Slots, Serve(r) PROVE Trail'
    <2>1. CASE \/ CreateTicket(r) \/ UpdateTicket(r) \/ TransitionTicket(r)
               \/ SoftDeleteTicket(r) \/ AddComment(r)
      BY <2>1, OperationTrail
    <2>2. CASE FlushInsert(r) \/ FlushUpdate(r) \/ FlushNoChange(r)
      BY <2>2, FlushTrail
    <2>3. CASE Commit(r)
      BY <2>3, CommitTrail
    <2>4. CASE Refresh(r)
      BY <2>4, RespondTrail DEF Refresh, Answers
    <2> QED BY <1>3, <2>1, <2>2, <2>3, <2>4 DEF Serve
  <1>4. ASSUME NEW r \in Slots, Fail(r) PROVE Trail'
    BY <1>4, RespondTrail DEF Fail, Answers
  <1> QED BY <1>1, <1>2, <1>3, <1>4 DEF Next

LEMMA TrailHolds == Spec => [](Inv /\ Trail)
  BY InvInit, InvStep, TrailInit, TrailStep, PTL DEF Spec

--------------------------------------------------------------------------------
\* The properties.

\* The events of a ticket explain its row: every version has its event, and the
\* events of changes form one chain that ends in the row as it is.
THEOREM TrailExplainsRow == Spec => []AuditChain
  <1>1. Trail => AuditChain
    BY DEF Trail, TicketTrail, VersionsExplained, ChangesLeadToRow, ChangesChain, AuditChain
  <1> QED BY TrailHolds, <1>1, PTL

\* What others than an ADMIN add to a deleted ticket comes from requests that
\* began before the deletion was committed.
THEOREM LateWorkOverlapsDeletion == Spec => []NoLateWork
  <1>1. Trail => NoLateWork
    BY DEF Trail, TicketTrail, DeletionRecorded, NoLateWork
  <1> QED BY TrailHolds, <1>1, PTL

\* Listed by created_at, the creation of a ticket comes before all its events.
THEOREM CreationComesFirst == Spec => []CreationListedFirst
  <1>1. Trail => CreationListedFirst
    BY DEF Trail, TicketTrail, Stamped, CreationListedFirst
  <1> QED BY TrailHolds, <1>1, PTL

\* The row an answer is made from contains what the request itself wrote.
THEOREM WritesAreRead == Spec => []ReadYourWrites
  <1>1. Trail => ReadYourWrites
    BY DEF Trail, SessionTrail, ReadsItsWrite, ReadYourWrites
  <1> QED BY TrailHolds, <1>1, PTL

\* A step of one request leaves the stage of the others.
LEMMA OthersKeepStage ==
  ASSUME TypeInv, NEW s \in Slots, Begin(s) \/ Serve(s) \/ Fail(s), NEW r \in Slots \ {s}
  PROVE  pc'[r] = pc[r]
  BY DEF TypeInv, TypeOK, Begin, Serve, CreateTicket, UpdateTicket, TransitionTicket,
         SoftDeleteTicket, AddComment, FlushInsert, FlushUpdate, FlushNoChange, Commit, Refresh,
         Fail, Respond, CloseSession, Stage, Flushed

LEMMA OneOfSet ==
  ASSUME NEW S, NEW q \in Seq(S), NEW began, OneOf(q, began)
  PROVE  \E i \in 1 .. Len(q) : {j \in 1 .. Len(q) : q[j].at = began} = {i}
  <1>1. DOMAIN q = 1 .. Len(q)
    OBVIOUS
  <1>2. PICK i \in DOMAIN q : \A j \in DOMAIN q : q[j].at = began <=> j = i
    BY DEF OneOf
  <1>3. {j \in 1 .. Len(q) : q[j].at = began} = {i}
    BY <1>1, <1>2
  <1> QED BY <1>1, <1>2, <1>3

\* The answer to r, given as the step ends it.
TrueAnswer(r) ==
  /\ res'[r] \in Refusals => Recorded(r) = {}
  /\ res'[r] = "conflict" => Loaded(r).version > old[r].version
  /\ res'[r] = "ok" =>
       \/ \E i \in 1 .. Len(stamps'[Ticket(r)]) :
            {j \in 1 .. Len(stamps'[Ticket(r)]) : stamps'[Ticket(r)][j].at = at[r]} = {i}
       \/ req[r].op = "delete" /\ Loaded(r).deleted

LEMMA EndsTruly ==
  ASSUME Inv, Trail, NEW r \in Slots, Serve(r) \/ Fail(r), Busy(r), pc'[r] = "idle"
  PROVE  TrueAnswer(r)
  <1> DEFINE t == Ticket(r)
  <1>1. /\ TypeInv /\ t \in TicketIds /\ SessionTrail(r) /\ SessionOK(r)
    BY BusyTyped DEF Inv, Trail
  <1>2. \A a : Respond(r, a) => res'[r] = a
    BY <1>1 DEF Respond, CloseSession, TypeInv, TypeOK
  <1>3. pc[r] # "committed" => Recorded(r) = {}
    BY <1>1 DEF SessionTrail, RecordedOnce, Recorded
  <1>4. \A loaded, image : ~Stage(r, loaded, image) /\ ~Flushed(r, image)
    BY <1>1 DEF Stage, Flushed, TypeInv, TypeOK
  <1>5. CASE CreateTicket(r) \/ UpdateTicket(r) \/ TransitionTicket(r) \/ AddComment(r)
    <2>1. pc[r] = "begun" /\ res'[r] \in {"forbidden", "not_found", "invalid_transition"}
      BY <1>2, <1>4, <1>5 DEF CreateTicket, UpdateTicket, TransitionTicket, AddComment, Handles
    <2> QED BY <1>3, <2>1 DEF TrueAnswer
  <1>6. CASE SoftDeleteTicket(r)
    <2>1. /\ pc[r] = "begun" /\ req[r].op = "delete"
          /\ res'[r] = "not_found" \/ (res'[r] = "ok" /\ Loaded(r).deleted)
      BY <1>2, <1>4, <1>6 DEF SoftDeleteTicket, Handles
    <2> QED BY <1>3, <2>1 DEF TrueAnswer
  <1>7. CASE FlushInsert(r) \/ FlushUpdate(r) \/ FlushNoChange(r)
    <2>1. /\ pc[r] = "staged"
          /\ \/ res'[r] = "internal_error"
             \/ res'[r] = "conflict" /\ Loaded(r).version # old[r].version
      BY <1>2, <1>4, <1>7 DEF FlushInsert, FlushUpdate, FlushNoChange
    <2>2. Loaded(r).version \in Nat /\ old[r].version \in Nat
      BY <1>1, BusyTyped DEF TypeInv, TypeOK, Row, RowAssigning
    <2>3. Loaded(r).version # old[r].version => Loaded(r).version > old[r].version
      BY <1>1, <2>1, <2>2 DEF SessionOK, ImageIsAVersion, Pending
    <2> QED BY <1>3, <2>1, <2>3 DEF TrueAnswer
  <1>8. CASE Commit(r)
    <2> DEFINE n == Len(audit[t])
    <2>1. pc[r] = "flushed" /\ res'[r] = "ok"
      BY <1>1, <1>8 DEF Commit, CloseSession, TypeInv, TypeOK
    <2>2. stamps'[t] \in Seq([at : Nat, done : Nat])
      BY <1>1, <1>8, CommitTyped DEF TypeInv, TypeOK
    <2>3. /\ n \in Nat /\ DOMAIN stamps[t] = 1 .. n /\ DOMAIN stamps'[t] = 1 .. n + 1
          /\ \A i \in 1 .. n : stamps'[t][i] = stamps[t][i]
          /\ stamps'[t][n + 1].at = at[r]
      BY <1>8, CommitAppends
    <2> HIDE DEF n
    <2>4. \A i \in 1 .. n : stamps'[t][i].at # at[r]
      BY <1>3, <2>1, <2>3 DEF Recorded
    <2>5. OneOf(stamps'[t], at[r])
      BY <2>3, <2>4, OneOfNew
    <2>6. \E i \in 1 .. Len(stamps'[t]) : {j \in 1 .. Len(stamps'[t]) : stamps'[t][j].at = at[r]} = {i}
      <3> DEFINE times == stamps'[t]
      <3>1. times \in Seq([at : Nat, done : Nat]) /\ OneOf(times, at[r])
        BY <2>2, <2>5
      <3> HIDE DEF times
      <3>2. \E i \in 1 .. Len(times) : {j \in 1 .. Len(times) : times[j].at = at[r]} = {i}
        BY <3>1, OneOfSet
      <3> QED BY <3>2 DEF times
    <2> QED BY <2>1, <2>6 DEF TrueAnswer, Refusals
  <1>9. CASE Refresh(r)
    <2>1. pc[r] = "committed" /\ res'[r] = "ok" /\ stamps' = stamps
      BY <1>2, <1>9 DEF Refresh, Respond, db
    <2>2. stamps[t] \in Seq([at : Nat, done : Nat]) /\ OneOf(stamps[t], at[r])
      BY <1>1, <2>1, EventTypes DEF SessionTrail, RecordedOnce
    <2>3. \E i \in 1 .. Len(stamps[t]) : {j \in 1 .. Len(stamps[t]) : stamps[t][j].at = at[r]} = {i}
      BY <2>2, OneOfSet
    <2> QED BY <2>1, <2>3 DEF TrueAnswer, Refusals
  <1>10. CASE Fail(r)
    BY <1>2, <1>10 DEF Fail, TrueAnswer, Refusals
  <1> QED BY <1>5, <1>6, <1>7, <1>8, <1>9, <1>10 DEF Serve

\* A refusal left nothing behind, a conflict means that the row has moved on, and a
\* success has left one event, or asked to delete what was deleted.
THEOREM AnswersTellTheTruth == Spec => AnswersAreTrue
  <1>1. ASSUME Inv, Trail, [Next]_vars, NEW r \in Slots, Busy(r), pc'[r] = "idle"
        PROVE  TrueAnswer(r)
    <2>1. Next
      BY <1>1 DEF vars, Busy
    <2>2. PICK s \in Slots : Begin(s) \/ Serve(s) \/ Fail(s)
      BY <2>1 DEF Next
    <2>3. s = r
      BY <1>1, <2>2, OthersKeepStage DEF Inv, Busy
    <2>4. Serve(r) \/ Fail(r)
      BY <1>1, <2>2, <2>3 DEF Begin, Busy
    <2> QED BY <1>1, <2>4, EndsTruly
  <1>2. Inv /\ Trail /\ [Next]_vars =>
          [\A r \in Slots :
             Busy(r) /\ pc'[r] = "idle" =>
               /\ res'[r] \in Refusals => Recorded(r) = {}
               /\ res'[r] = "conflict" => Loaded(r).version > old[r].version
               /\ res'[r] = "ok" =>
                    \/ \E i \in 1 .. Len(stamps'[Ticket(r)]) :
                         {j \in 1 .. Len(stamps'[Ticket(r)]) :
                            stamps'[Ticket(r)][j].at = at[r]} = {i}
                    \/ req[r].op = "delete" /\ Loaded(r).deleted]_vars
    BY <1>1 DEF TrueAnswer
  <1> QED BY TrailHolds, <1>2, PTL DEF Spec, AnswersAreTrue

--------------------------------------------------------------------------------
\* The refinement of TicketLifecycle.

\* The operators of TicketModel are the same in both modules.
LEMMA SameDecisions ==
  /\ \A row : Lifecycle!Exists(row) <=> Exists(row)
  /\ \A u : Lifecycle!IsAgentOrAdmin(u) <=> IsAgentOrAdmin(u)
  /\ \A u, row : Lifecycle!CanAccess(u, row) <=> CanAccess(u, row)
  /\ \A u, row : Lifecycle!Found(u, row) <=> Found(u, row)
  /\ \A u, assignee : Lifecycle!MayAssign(u, assignee) <=> MayAssign(u, assignee)
  /\ \A from, to : Lifecycle!AllowedTransition(from, to) <=> AllowedTransition(from, to)
  /\ Lifecycle!ChangeTypes = ChangeTypes /\ Lifecycle!Statuses = Statuses
  BY DEF Lifecycle!Exists, Exists, Lifecycle!IsAgentOrAdmin, IsAgentOrAdmin, Lifecycle!CanAccess,
         CanAccess, Lifecycle!Found, Found, Lifecycle!IsAdmin, IsAdmin, Lifecycle!MayAssign, MayAssign,
         Lifecycle!AllowedTransition, AllowedTransition, Lifecycle!ChangeTypes, ChangeTypes,
         Lifecycle!Statuses, Statuses

LEMMA SameRows ==
  /\ Lifecycle!NoRow = NoRow
  /\ \A u, c, a : Lifecycle!Inserted(u, c, a) = Inserted(u, c, a)
  /\ \A u, row, c, a : Lifecycle!Patched(u, row, c, a) = Patched(u, row, c, a)
  /\ \A row, status : Lifecycle!Transitioned(row, status) = Transitioned(row, status)
  /\ \A row : Lifecycle!SoftDeleted(row) = SoftDeleted(row)
  /\ \A row : Lifecycle!Bumped(row) = Bumped(row)
  /\ \A type, u, from, to : Lifecycle!Event(type, u, from, to) = Event(type, u, from, to)
  /\ \A u : Lifecycle!CommentEvent(u) = CommentEvent(u)
  BY DEF Lifecycle!NoRow, NoRow, Lifecycle!Inserted, Inserted, Lifecycle!Patched, Patched,
         Lifecycle!IsAgentOrAdmin, IsAgentOrAdmin, Lifecycle!Transitioned, Transitioned,
         Lifecycle!SoftDeleted, SoftDeleted, Lifecycle!Bumped, Bumped, Lifecycle!Event, Event,
         Lifecycle!CommentEvent, CommentEvent

\* The step of the atomic service that a commit is.
LEMMA CommitRefines ==
  ASSUME Inv, Trail, NEW r \in Slots, Commit(r)
  PROVE  Lifecycle!Next
  <1> DEFINE t == Ticket(r)
             u == Actor(r)
  <1>1. /\ pc[r] = "flushed" /\ Busy(r) /\ Pending(r) /\ t \in TicketIds /\ u \in Users
        /\ SessionOK(r) /\ SessionTrail(r)
    BY BusyTyped DEF Commit, Busy, Pending, Inv, Trail
  <1>2. /\ Dirty(r) => rows[t] = old[r] /\ rows' = [rows EXCEPT ![t] = new[r]]
        /\ ~Dirty(r) => rows' = rows
        /\ Exists(rows[t]) <=> ~Creates(r)
        /\ rows[t] \in Row
    BY <1>1, CommitRow, CommitVersions
  <1>3. /\ audit' = [audit EXCEPT ![t] = Append(audit[t], EventOf(r))]
        /\ req[r].op # "comment" => comments' = comments
        /\ req[r].op = "comment" => comments' = [comments EXCEPT ![t] = Append(comments[t], u)]
    BY DEF Commit
  <1>4. /\ req[r].op \in Operations /\ old[r] \in Row /\ new[r] \in Row
        /\ req[r].op = "create" => Dirty(r)
        /\ req[r].op = "delete" => Dirty(r)
        /\ req[r].op = "transition" => Dirty(r)
        /\ req[r].op = "comment" => ~Dirty(r)
    BY <1>1, FlushedEffect
  <1>5. new[r].assignee # Ghost /\ old[r].assignee # Ghost
    BY <1>4, MarkersAssumption DEF Row, RowAssigning
  <1>6. PICK image \in {new[r], [new[r] EXCEPT !.version = old[r].version]} :
          /\ ComputedFrom(req[r].op, u, old[r], image)
          /\ new[r] = WrittenAs(req[r].op, old[r], image)
    BY <1>1 DEF SessionTrail, Computed
  <1>7. image.assignee = new[r].assignee
    BY <1>4, <1>6 DEF Row, RowAssigning
  <1>8. ~Creates(r) => \/ Dirty(r) /\ image # old[r] /\ new[r] = Bumped(image)
                       \/ ~Dirty(r) /\ image = old[r]
    <2>1. [old[r] EXCEPT !.version = old[r].version] = old[r]
      BY <1>4 DEF Row, RowAssigning
    <2>2. ~Dirty(r) => image = old[r]
      BY <1>6, <2>1 DEF Dirty
    <2> QED BY <1>1, <1>6, <2>2 DEF WrittenAs, Dirty, Creates
  <1>9. ASSUME NEW type \in ChangeTypes, EventOf(r) = Event(type, u, old[r], new[r]), Dirty(r),
               req[r].op # "comment"
        PROVE  Lifecycle!Change(t, type, u, new[r])
    BY <1>1, <1>2, <1>3, <1>9, SameRows DEF Lifecycle!Change, Lifecycle!Record
  <1>10. CASE req[r].op = "create"
    <2>1. PICK content \in Contents, assignee \in Users \cup {None, Ghost} :
            MayAssign(u, assignee) /\ image = Inserted(u, content, assignee)
      BY <1>6, <1>10 DEF ComputedFrom
    <2>2. new[r] = image /\ assignee # Ghost
      BY <1>5, <1>6, <1>7, <1>10, <2>1 DEF WrittenAs, Inserted, NoRow
    <2>3. EventOf(r) = Event("created", u, old[r], new[r])
      BY <1>10 DEF EventOf, EventType
    <2>4. Lifecycle!Create(u, t, content, assignee)
      BY <1>1, <1>2, <1>4, <1>9, <1>10, <2>1, <2>2, <2>3, SameDecisions, SameRows
         DEF Lifecycle!Create, Creates, ChangeTypes
    <2> QED BY <1>1, <2>1, <2>2, <2>4 DEF Lifecycle!Next
  <1>11. CASE req[r].op = "update" /\ Dirty(r)
    <2>1. PICK content \in Contents \cup {Unset}, assignee \in Users \cup {None, Unset, Ghost} :
            MayAssign(u, assignee) /\ image = Patched(u, old[r], content, assignee)
      BY <1>6, <1>11 DEF ComputedFrom
    <2>2. assignee # Ghost
      BY <1>4, <1>5, <1>7, <2>1, MarkersAssumption DEF Patched, Row, RowAssigning
    <2>3. EventOf(r) = Event("updated", u, old[r], new[r])
      BY <1>11 DEF EventOf, EventType
    <2>4. Found(u, rows[t])
      BY <1>2, <1>6, <1>11 DEF ComputedFrom
    <2>5. Lifecycle!Update(u, t, content, assignee)
      BY <1>2, <1>8, <1>9, <1>11, <2>1, <2>3, <2>4, SameDecisions, SameRows
         DEF Lifecycle!Update, Creates, ChangeTypes
    <2> QED BY <1>1, <2>1, <2>2, <2>5 DEF Lifecycle!Next
  <1>12. CASE req[r].op = "update" /\ ~Dirty(r)
    <2>1. Found(u, old[r]) /\ old[r] = new[r]
      BY <1>6, <1>12 DEF ComputedFrom, Dirty
    <2>2. PICK i \in DOMAIN audit[t] : audit[t][i].type \in ChangeTypes /\ audit[t][i].new = old[r]
      BY <1>1, <1>12 DEF SessionTrail, ImageInTrail, Creates
    <2>3. CanAccess(u, rows[t])
      BY <1>1, <1>12, <2>1 DEF SessionTrail, ImageInTrail, Creates, Found, CanAccess, Loaded
    <2>4. EventOf(r) = Event("updated", u, audit[t][i].new, audit[t][i].new)
      BY <1>12, <2>1, <2>2 DEF EventOf, EventType
    <2>5. Lifecycle!UpdateNothing(u, t)
      BY <1>2, <1>3, <1>12, <2>1, <2>2, <2>3, <2>4, SameDecisions, SameRows
         DEF Lifecycle!UpdateNothing, Lifecycle!Record, Creates
    <2> QED BY <1>1, <2>5 DEF Lifecycle!Next
  <1>13. CASE req[r].op = "transition"
    <2>1. IsAgentOrAdmin(u) /\ Exists(rows[t]) /\ ~rows[t].deleted
      BY <1>2, <1>4, <1>6, <1>13 DEF ComputedFrom
    <2>2. PICK status \in Statuses :
            AllowedTransition(rows[t].status, status) /\ image = Transitioned(rows[t], status)
      BY <1>2, <1>4, <1>6, <1>13 DEF ComputedFrom
    <2>3. EventOf(r) = Event("transition", u, old[r], new[r])
      BY <1>13 DEF EventOf, EventType
    <2>4. Lifecycle!Transition(u, t, status)
      BY <1>4, <1>8, <1>9, <1>13, <2>1, <2>2, <2>3, SameDecisions, SameRows
         DEF Lifecycle!Transition, Creates, ChangeTypes
    <2> QED BY <1>1, <2>2, <2>4, SameDecisions DEF Lifecycle!Next
  <1>14. CASE req[r].op = "delete"
    <2>1. Found(u, rows[t]) /\ ~rows[t].deleted /\ image = SoftDeleted(rows[t])
      BY <1>2, <1>4, <1>6, <1>14 DEF ComputedFrom
    <2>2. EventOf(r) = Event("deleted", u, old[r], new[r])
      BY <1>14 DEF EventOf, EventType
    <2>3. Lifecycle!Delete(u, t)
      BY <1>4, <1>8, <1>9, <1>14, <2>1, <2>2, SameDecisions, SameRows
         DEF Lifecycle!Delete, Creates, ChangeTypes
    <2> QED BY <1>1, <2>3 DEF Lifecycle!Next
  <1>15. CASE req[r].op = "comment"
    <2>1. Found(u, old[r])
      BY <1>6, <1>15 DEF ComputedFrom
    <2>2. CanAccess(u, rows[t])
      BY <1>1, <1>15, <2>1 DEF SessionTrail, ImageInTrail, Creates, Found, CanAccess, Loaded
    <2>3. EventOf(r) = CommentEvent(u)
      BY <1>15 DEF EventOf
    <2>4. Lifecycle!Comment(u, t)
      BY <1>2, <1>3, <1>4, <1>15, <2>2, <2>3, SameDecisions, SameRows
         DEF Lifecycle!Comment, Lifecycle!Record, Creates
    <2> QED BY <1>1, <2>4 DEF Lifecycle!Next
  <1> QED BY <1>4, <1>10, <1>11, <1>12, <1>13, <1>14, <1>15 DEF Operations

LEMMA OnlyCommitsShow ==
  ASSUME [Next]_vars, ~\E r \in Slots : Commit(r)
  PROVE  UNCHANGED <<rows, audit, comments>>
  BY DEF vars, db, Next, Begin, Serve, CreateTicket, UpdateTicket, TransitionTicket,
         SoftDeleteTicket, AddComment, FlushInsert, FlushUpdate, FlushNoChange, Flushed, Refresh,
         Fail, Respond, Stage

\* The interleaved service implements the one in which every request is a single
\* step: a commit is the step of its operation, every other step changes nothing.
THEOREM ServiceImplementsLifecycle == Spec => ImplementsLifecycle
  <1>1. Init => Lifecycle!Init
    BY SameRows DEF Init, Lifecycle!Init
  <1>2. Inv /\ Trail /\ [Next]_vars => [Lifecycle!Next]_(Lifecycle!vars)
    BY CommitRefines, OnlyCommitsShow DEF Lifecycle!vars
  <1> QED BY <1>1, <1>2, TrailHolds, PTL DEF Spec, ImplementsLifecycle, Lifecycle!Spec
================================================================================
