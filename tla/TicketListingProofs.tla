--------------------------- MODULE TicketListingProofs ---------------------------
(***************************************************************************)
(* Proofs about TicketListing, for any users, tickets, filters, page sizes, *)
(* numbers of commits and of requests: that what is shown is recent and may *)
(* be seen, that pages fit their totals, and what a walk over them misses.  *)
(***************************************************************************)
EXTENDS TicketListing, FiniteSetTheorems, TLAPS

LEMMA MinOf ==
  ASSUME NEW a \in Int, NEW b \in Int
  PROVE  Min({a, b}) = IF a <= b THEN a ELSE b
  BY DEF Min

--------------------------------------------------------------------------------
\* Rows as they are written.

\* b is a or a later row of the same ticket.
Onwards(a, b) ==
  \/ a = NoRow
  \/ /\ Exists(a)
     /\ a.version <= b.version
     /\ b.reporter = a.reporter
     /\ a.deleted => b.deleted

\* row is, or was, the committed row of t.
Traced(row, t) ==
  \E j \in DOMAIN audit[t] : audit[t][j].type \in ChangeTypes /\ audit[t][j].new = row

LEMMA NoRowType == NoRow \in Row /\ ~Exists(NoRow) /\ ~NoRow.deleted /\ NoRow.version = 0
  BY DEF NoRow, Row, RowAssigning, Statuses, Exists

LEMMA OnwardsReflexive ==
  ASSUME NEW a \in Row, a = NoRow \/ Exists(a)
  PROVE  Onwards(a, a)
  BY DEF Onwards, Row, RowAssigning

LEMMA OnwardsTransitive ==
  ASSUME NEW a \in Row, NEW b \in Row, NEW c \in Row, Onwards(a, b), Onwards(b, c)
  PROVE  Onwards(a, c)
  <1>1. CASE a = NoRow
    BY <1>1 DEF Onwards
  <1>2. CASE a # NoRow
    <2>1. Exists(a) /\ a.version <= b.version /\ a.version \in Nat /\ b.version \in Nat /\ c.version \in Nat
      BY <1>2 DEF Onwards, Row, RowAssigning
    <2>2. b # NoRow
      BY <2>1, NoRowType DEF Exists
    <2> QED BY <1>2, <2>1, <2>2 DEF Onwards
  <1> QED BY <1>1, <1>2

--------------------------------------------------------------------------------
\* A commit of a writer changes one ticket, onwards, and leaves an event.

Existing == {t \in TicketIds : Exists(rows[t])}

Known(t) == IF Exists(rows[t]) THEN Traced(rows[t], t) ELSE rows[t] = NoRow

Tables ==
  /\ rows \in [TicketIds -> Row] /\ audit \in [TicketIds -> Seq(Events)]
  /\ \A t \in TicketIds : Known(t)
  /\ IsFiniteSet(Existing)

\* The operators of TicketModel are the same for the writers.
LEMMA SameDecisions ==
  /\ \A row : Writers!Exists(row) <=> Exists(row)
  /\ \A u : Writers!IsAgentOrAdmin(u) <=> IsAgentOrAdmin(u)
  /\ \A u, row : Writers!CanAccess(u, row) <=> CanAccess(u, row)
  /\ \A u, row : Writers!Found(u, row) <=> Found(u, row)
  /\ \A u, assignee : Writers!MayAssign(u, assignee) <=> MayAssign(u, assignee)
  /\ \A from, to : Writers!AllowedTransition(from, to) <=> AllowedTransition(from, to)
  /\ Writers!ChangeTypes = ChangeTypes /\ Writers!Statuses = Statuses
  BY DEF Writers!Exists, Exists, Writers!IsAgentOrAdmin, IsAgentOrAdmin, Writers!CanAccess,
         CanAccess, Writers!Found, Found, Writers!IsAdmin, IsAdmin, Writers!MayAssign, MayAssign,
         Writers!AllowedTransition, AllowedTransition, Writers!ChangeTypes, ChangeTypes,
         Writers!Statuses, Statuses

LEMMA SameRows ==
  /\ Writers!NoRow = NoRow
  /\ \A u, c, a : Writers!Inserted(u, c, a) = Inserted(u, c, a)
  /\ \A u, row, c, a : Writers!Patched(u, row, c, a) = Patched(u, row, c, a)
  /\ \A row, status : Writers!Transitioned(row, status) = Transitioned(row, status)
  /\ \A row : Writers!SoftDeleted(row) = SoftDeleted(row)
  /\ \A row : Writers!Bumped(row) = Bumped(row)
  /\ \A type, u, from, to : Writers!Event(type, u, from, to) = Event(type, u, from, to)
  /\ \A u : Writers!CommentEvent(u) = CommentEvent(u)
  BY DEF Writers!NoRow, NoRow, Writers!Inserted, Inserted, Writers!Patched, Patched,
         Writers!IsAgentOrAdmin, IsAgentOrAdmin, Writers!Transitioned, Transitioned,
         Writers!SoftDeleted, SoftDeleted, Writers!Bumped, Bumped, Writers!Event, Event,
         Writers!CommentEvent, CommentEvent

LEMMA InsertedType ==
  ASSUME NEW u \in Users, NEW c \in Contents, NEW a \in Users \cup {None}
  PROVE  Inserted(u, c, a) \in Row /\ Exists(Inserted(u, c, a))
  <1>1. Inserted(u, c, a) \in Row
    BY DEF Inserted, NoRow, Row, RowAssigning, Statuses
  <1>2. Inserted(u, c, a).version = 1
    BY DEF Inserted, NoRow
  <1> QED BY <1>1, <1>2 DEF Exists

\* The commit of one writer to t, of row and with the event.
Commits(t, row, event) ==
  /\ rows' = [rows EXCEPT ![t] = row]
  /\ audit' = [audit EXCEPT ![t] = Append(audit[t], event)]
  /\ row \in Row /\ event \in Events
  /\ Onwards(rows[t], row)
  /\ \/ row = rows[t]
     \/ Exists(row) /\ event.type \in ChangeTypes /\ event.new = row

LEMMA ChangeCommits ==
  ASSUME Tables, NEW t \in TicketIds, NEW type \in ChangeTypes, NEW u \in Users, NEW row \in Row,
         Exists(row), Onwards(rows[t], row), Writers!Change(t, type, u, row)
  PROVE  Commits(t, row, Event(type, u, rows[t], row))
  <1>1. Event(type, u, rows[t], row) \in Events
    BY DEF Tables, Event, Events
  <1>2. /\ rows' = [rows EXCEPT ![t] = row]
        /\ audit' = [audit EXCEPT ![t] = Append(audit[t], Event(type, u, rows[t], row))]
    BY SameRows DEF Writers!Change, Writers!Record
  <1>3. Event(type, u, rows[t], row).type = type /\ Event(type, u, rows[t], row).new = row
    BY DEF Event
  <1> QED BY <1>1, <1>2, <1>3 DEF Commits

LEMMA WriterCommits ==
  ASSUME Tables, Writers!Next
  PROVE  \E t \in TicketIds, row \in Row, event \in Events : Commits(t, row, event)
  <1> PICK u \in Users, t \in TicketIds :
        \/ \E c \in Contents, a \in Users \cup {None} : Writers!Create(u, t, c, a)
        \/ \E c \in Contents \cup {Unset}, a \in Users \cup {None, Unset} : Writers!Update(u, t, c, a)
        \/ \E s \in Statuses : Writers!Transition(u, t, s)
        \/ Writers!Delete(u, t)
        \/ Writers!UpdateNothing(u, t)
        \/ Writers!Comment(u, t)
    BY SameDecisions DEF Writers!Next
  <1> DEFINE old == rows[t]
  <1>1. old \in Row /\ (~Exists(old) => old = NoRow)
    BY DEF Tables, Known
  <1>2. ASSUME NEW row \in Row, Exists(old), row.reporter = old.reporter,
               row.version = old.version, old.deleted => row.deleted
        PROVE  Bumped(row) \in Row /\ Exists(Bumped(row)) /\ Onwards(old, Bumped(row))
    BY <1>1, <1>2 DEF Bumped, Row, RowAssigning, Exists, Onwards
  <1>3. ASSUME NEW c \in Contents, NEW a \in Users \cup {None}, Writers!Create(u, t, c, a)
        PROVE  \E row \in Row, event \in Events : Commits(t, row, event)
    <2> DEFINE row == Inserted(u, c, a)
    <2>1. row \in Row /\ Exists(row)
      BY InsertedType
    <2>2. Onwards(old, row)
      BY <1>1, <1>3, SameDecisions DEF Onwards, Writers!Create
    <2>3. Commits(t, row, Event("created", u, old, row))
      BY <1>3, <2>1, <2>2, ChangeCommits, SameDecisions, SameRows DEF Writers!Create, ChangeTypes
    <2> QED BY <2>3 DEF Commits
  <1>4. ASSUME NEW c \in Contents \cup {Unset}, NEW a \in Users \cup {None, Unset},
               Writers!Update(u, t, c, a)
        PROVE  \E row \in Row, event \in Events : Commits(t, row, event)
    <2> DEFINE image == Patched(u, old, c, a)
               row == Bumped(image)
    <2>1. /\ image \in Row /\ image.reporter = old.reporter /\ image.version = old.version
          /\ image.deleted = old.deleted
      BY <1>1 DEF Patched, Row, RowAssigning
    <2>2. Exists(old)
      BY <1>4, SameDecisions DEF Writers!Update, Found
    <2> HIDE DEF image
    <2>3. row \in Row /\ Exists(row) /\ Onwards(old, row)
      BY <1>2, <2>1, <2>2
    <2>4. Commits(t, row, Event("updated", u, old, row))
      BY <1>4, <2>3, ChangeCommits, SameDecisions, SameRows DEF Writers!Update, ChangeTypes, image
    <2> QED BY <2>4 DEF Commits
  <1>5. ASSUME NEW s \in Statuses, Writers!Transition(u, t, s)
        PROVE  \E row \in Row, event \in Events : Commits(t, row, event)
    <2> DEFINE image == Transitioned(old, s)
               row == Bumped(image)
    <2>1. /\ image \in Row /\ image.reporter = old.reporter /\ image.version = old.version
          /\ image.deleted = old.deleted
      BY <1>1 DEF Transitioned, Row, RowAssigning
    <2>2. Exists(old)
      BY <1>5, SameDecisions DEF Writers!Transition
    <2> HIDE DEF image
    <2>3. row \in Row /\ Exists(row) /\ Onwards(old, row)
      BY <1>2, <2>1, <2>2
    <2>4. Commits(t, row, Event("transition", u, old, row))
      BY <1>5, <2>3, ChangeCommits, SameDecisions, SameRows DEF Writers!Transition, ChangeTypes, image
    <2> QED BY <2>4 DEF Commits
  <1>6. ASSUME Writers!Delete(u, t)
        PROVE  \E row \in Row, event \in Events : Commits(t, row, event)
    <2> DEFINE image == SoftDeleted(old)
               row == Bumped(image)
    <2>1. /\ image \in Row /\ image.reporter = old.reporter /\ image.version = old.version
          /\ image.deleted
      BY <1>1 DEF SoftDeleted, Row, RowAssigning
    <2>2. Exists(old)
      BY <1>6, SameDecisions DEF Writers!Delete, Found
    <2> HIDE DEF image
    <2>3. row \in Row /\ Exists(row) /\ Onwards(old, row)
      BY <1>2, <2>1, <2>2
    <2>4. Commits(t, row, Event("deleted", u, old, row))
      BY <1>6, <2>3, ChangeCommits, SameDecisions, SameRows DEF Writers!Delete, ChangeTypes, image
    <2> QED BY <2>4 DEF Commits
  <1>7. ASSUME NEW event \in Events, Exists(old), rows' = rows,
               audit' = [audit EXCEPT ![t] = Append(audit[t], event)]
        PROVE  Commits(t, old, event)
    <2>1. Onwards(old, old)
      BY <1>1, <1>7, OnwardsReflexive
    <2>2. rows' = [rows EXCEPT ![t] = old]
      BY <1>7 DEF Tables
    <2> QED BY <1>1, <1>7, <2>1, <2>2 DEF Commits
  <1>8. ASSUME Writers!UpdateNothing(u, t)
        PROVE  \E row \in Row, event \in Events : Commits(t, row, event)
    <2>1. PICK i \in DOMAIN audit[t] :
            Writers!Record(t, Event("updated", u, audit[t][i].new, audit[t][i].new))
      BY <1>8, SameRows DEF Writers!UpdateNothing
    <2>2. audit[t][i] \in Events
      BY DEF Tables
    <2>3. Event("updated", u, audit[t][i].new, audit[t][i].new) \in Events
      BY <2>2 DEF Event, Events, ChangeTypes
    <2>4. Exists(old) /\ rows' = rows
      BY <1>8, SameDecisions DEF Writers!UpdateNothing
    <2>5. Commits(t, old, Event("updated", u, audit[t][i].new, audit[t][i].new))
      BY <1>7, <2>1, <2>3, <2>4 DEF Writers!Record
    <2> QED BY <1>1, <2>3, <2>5
  <1>9. ASSUME Writers!Comment(u, t)
        PROVE  \E row \in Row, event \in Events : Commits(t, row, event)
    <2>1. CommentEvent(u) \in Events
      BY NoRowType DEF CommentEvent, Event, Events
    <2>2. Commits(t, old, CommentEvent(u))
      BY <1>7, <1>9, <2>1, SameDecisions, SameRows DEF Writers!Comment, Writers!Record
    <2> QED BY <1>1, <2>1, <2>2
  <1> QED BY <1>3, <1>4, <1>5, <1>6, <1>8, <1>9

\* What a commit does to the tables, to a ticket and to what was a row of it.
LEMMA CommitsKeepTables ==
  ASSUME Tables, NEW t \in TicketIds, NEW row \in Row, NEW event \in Events, Commits(t, row, event)
  PROVE  /\ Tables'
         /\ \A s \in TicketIds \ {t} : rows'[s] = rows[s]
         /\ \A s \in TicketIds : /\ Onwards(rows[s], rows'[s])
                                 /\ \A x : Traced(x, s) => Traced(x, s)'
  <1>1. /\ rows' \in [TicketIds -> Row] /\ audit' \in [TicketIds -> Seq(Events)]
        /\ rows'[t] = row /\ \A s \in TicketIds \ {t} : rows'[s] = rows[s]
    BY DEF Commits, Tables
  <1>2. /\ audit'[t] = Append(audit[t], event) /\ audit[t] \in Seq(Events)
        /\ \A s \in TicketIds \ {t} : audit'[s] = audit[s]
    BY DEF Commits, Tables
  <1>3. /\ DOMAIN audit[t] \subseteq DOMAIN audit'[t]
        /\ \A j \in DOMAIN audit[t] : audit'[t][j] = audit[t][j]
        /\ Len(audit[t]) + 1 \in DOMAIN audit'[t] /\ audit'[t][Len(audit[t]) + 1] = event
    BY <1>2
  <1>4. ASSUME NEW s \in TicketIds, NEW x, Traced(x, s) PROVE Traced(x, s)'
    BY <1>2, <1>3, <1>4 DEF Traced
  <1>5. ASSUME NEW s \in TicketIds PROVE Onwards(rows[s], rows'[s])
    <2>1. CASE s = t
      BY <1>1, <2>1 DEF Commits
    <2>2. CASE s # t
      BY <1>1, <2>2, OnwardsReflexive DEF Tables, Known
    <2> QED BY <2>1, <2>2
  <1>6. ASSUME NEW s \in TicketIds PROVE Known(s)'
    <2>1. PICK x : x = rows'[s]
      OBVIOUS
    <2>2. CASE s # t \/ row = rows[t]
      <3>1. rows'[s] = rows[s]
        BY <1>1, <2>2
      <3>2. Known(s)
        BY DEF Tables
      <3>3. CASE Exists(rows[s])
        <4>1. Traced(x, s)'
          BY <1>4, <2>1, <3>1, <3>2, <3>3 DEF Known
        <4> QED BY <2>1, <3>1, <3>3, <4>1 DEF Known, Traced
      <3>4. CASE ~Exists(rows[s])
        BY <3>1, <3>2, <3>4 DEF Known
      <3> QED BY <3>3, <3>4
    <2>3. CASE s = t /\ row # rows[t]
      <3>1. Exists(row) /\ event.type \in ChangeTypes /\ event.new = row
        BY <2>3 DEF Commits
      <3> QED BY <1>1, <1>3, <2>3, <3>1 DEF Known, Traced
    <2> QED BY <2>2, <2>3
  <1>7. IsFiniteSet(Existing')
    <2>1. Existing' \subseteq Existing \cup {t}
      BY <1>1 DEF Existing
    <2>2. IsFiniteSet(Existing \cup {t})
      BY FS_AddElement DEF Tables
    <2> QED BY <2>1, <2>2, FS_Subset
  <1> QED BY <1>1, <1>4, <1>5, <1>6, <1>7 DEF Tables

--------------------------------------------------------------------------------
\* The reader: who asks for what, and the images between the row as the request began
\* and the row as it is.

Asked ==
  /\ query \in [op     : {"none", "list", "get", "get_deleted", "events"},
               actor  : Readers \cup {None},
               ticket : TicketIds \cup {None},
               filter : Filters \cup {None},
               offset : Nat]
  /\ query.op = "list" => /\ query.filter \in Filters /\ query.actor \in Readers
                          /\ query.filter.deleted => IsAdmin(query.actor)
  /\ query.op = "get_deleted" => IsAdmin(query.actor)
  /\ query.op \in {"get", "get_deleted", "events"} =>
       query.ticket \in TicketIds /\ Exists(rows[query.ticket])

Stages ==
  /\ stage \in {"idle", "begun", "counted", "found"}
  /\ stage = "counted" => query.op = "list"
  /\ stage = "found" => query.op = "events" /\ Exists(images[query.ticket])
  /\ stage # "idle" => query.op # "none"

Between(t) ==
  /\ Onwards(began[t], rows[t])
  /\ Exists(images[t]) => /\ Onwards(began[t], images[t]) /\ Onwards(images[t], rows[t])
                          /\ Traced(images[t], t)

ImagesHold ==
  /\ began \in [TicketIds -> Row] /\ images \in [TicketIds -> Row]
  /\ stage # "idle" => \A t \in TicketIds : Between(t)

Reading == Asked /\ Stages /\ ImagesHold

LEMMA WriteKeepsReading ==
  ASSUME Tables, Reading, Write
  PROVE  Tables' /\ Reading'
  <1> PICK t \in TicketIds, row \in Row, event \in Events : Commits(t, row, event)
    BY WriterCommits DEF Write
  <1>1. /\ Tables'
        /\ \A s \in TicketIds : /\ Onwards(rows[s], rows'[s])
                                /\ \A x : Traced(x, s) => Traced(x, s)'
    BY CommitsKeepTables
  <1>2. /\ stage' = stage /\ query' = query /\ images' = images /\ began' = began
    BY DEF Write, session
  <1>3. rows \in [TicketIds -> Row] /\ rows' \in [TicketIds -> Row]
    BY <1>1 DEF Tables
  <1>4. \A s \in TicketIds : Exists(rows[s]) => Exists(rows'[s])
    BY <1>1, <1>3, NoRowType DEF Onwards, Exists, Row, RowAssigning
  <1>5. Asked'
    BY <1>2, <1>4 DEF Reading, Asked
  <1>6. ASSUME NEW s \in TicketIds, Between(s) PROVE Between(s)'
    BY <1>1, <1>2, <1>3, <1>6, OnwardsTransitive DEF Between, Reading, ImagesHold
  <1> QED BY <1>1, <1>2, <1>5, <1>6 DEF Reading, Stages, ImagesHold

LEMMA ReadingInit == Init => Tables /\ Reading
  <1> SUFFICES ASSUME Init PROVE Tables /\ Reading
    OBVIOUS
  <1>1. rows = [t \in TicketIds |-> NoRow] /\ audit = [t \in TicketIds |-> <<>>]
    BY SameRows DEF Init, Writers!Init
  <1>2. Existing = {}
    BY <1>1, NoRowType DEF Existing
  <1>3. Tables
    BY <1>1, <1>2, NoRowType, FS_EmptySet DEF Tables, Known
  <1>4. Asked /\ Stages
    BY DEF Init, NoQuery, Asked, Stages
  <1>5. ImagesHold
    BY NoRowType DEF Init, NoImages, ImagesHold
  <1> QED BY <1>3, <1>4, <1>5 DEF Reading

LEMMA AuthenticateKeeps ==
  ASSUME Tables, Stages, NEW q, Authenticate(q), q.op # "none"
  PROVE  Tables' /\ Stages' /\ ImagesHold'
  <1>1. /\ rows' = rows /\ audit' = audit /\ stage' = "begun" /\ query' = q /\ began' = rows
        /\ images' = LoadedWithUser(q.actor)
    BY DEF Authenticate, tables
  <1>2. Tables'
    BY <1>1 DEF Tables, Known, Traced, Existing
  <1>3. \A t \in TicketIds : images'[t] \in {rows[t], NoRow}
    BY <1>1 DEF LoadedWithUser
  <1>4. images' \in [TicketIds -> Row] /\ began' \in [TicketIds -> Row]
    <2>1. DOMAIN images' = TicketIds /\ images' = [t \in TicketIds |-> images'[t]]
      BY <1>1 DEF LoadedWithUser
    <2> QED BY <1>1, <1>3, <2>1, NoRowType DEF Tables
  <1>5. ASSUME NEW t \in TicketIds PROVE Between(t)'
    <2>1. PICK x : x = rows[t]
      OBVIOUS
    <2>2. x \in Row /\ (x = NoRow \/ (Exists(x) /\ Traced(x, t)))
      BY <2>1 DEF Tables, Known
    <2>3. Onwards(x, x)
      BY <2>2, OnwardsReflexive
    <2>4. Traced(x, t)' <=> Traced(x, t)
      BY <1>1 DEF Traced
    <2>5. rows'[t] = x /\ began'[t] = x /\ images'[t] \in {x, NoRow}
      BY <1>1, <1>3, <2>1
    <2>6. CASE images'[t] = NoRow
      BY <2>3, <2>5, <2>6, NoRowType DEF Between
    <2>7. CASE images'[t] = x /\ x # NoRow
      BY <2>2, <2>3, <2>4, <2>5, <2>7 DEF Between, Traced
    <2> QED BY <2>5, <2>6, <2>7
  <1>6. Stages'
    BY <1>1 DEF Stages
  <1> QED BY <1>2, <1>4, <1>5, <1>6 DEF ImagesHold

LEMMA AnswerKeeps ==
  ASSUME Tables, Reading, NEW answer, Answer(answer)
  PROVE  Tables' /\ Reading'
  <1>1. /\ rows' = rows /\ audit' = audit /\ stage' = "idle" /\ query' = query
        /\ began' = NoImages /\ images' = NoImages
    BY DEF Answer, tables
  <1>2. Tables'
    BY <1>1 DEF Tables, Known, Traced, Existing
  <1>3. ImagesHold'
    BY <1>1, NoRowType DEF ImagesHold, NoImages
  <1> QED BY <1>1, <1>2, <1>3 DEF Reading, Asked, Stages

\* What the session shows of a ticket is a row it has had since the request began.
LEMMA ImageIsRecent ==
  ASSUME Tables, Reading, stage # "idle", NEW t \in TicketIds, Exists(rows[t])
  PROVE  /\ Image(t) \in Row /\ Exists(Image(t)) /\ Traced(Image(t), t)
         /\ Onwards(began[t], Image(t)) /\ Onwards(Image(t), rows[t])
  <1>1. Between(t) /\ rows[t] \in Row /\ images[t] \in Row /\ Known(t)
    BY DEF Reading, ImagesHold, Tables
  <1>2. Onwards(rows[t], rows[t])
    BY <1>1, OnwardsReflexive
  <1> QED BY <1>1, <1>2 DEF Image, Between, Known

LEMMA CheckTicketKeeps ==
  ASSUME Tables, Reading, CheckTicket
  PROVE  Tables' /\ Reading'
  <1> DEFINE t == query.ticket
  <1>1. stage = "begun" /\ query.op = "events" /\ t \in TicketIds /\ Exists(rows[t])
    BY DEF CheckTicket, Reading, Asked
  <1>2. CASE Answer(<<>>)
    BY <1>2, AnswerKeeps
  <1>3. CASE /\ stage' = "found"
             /\ images' = [images EXCEPT ![t] = Image(t)]
             /\ UNCHANGED <<tables, commits, reads, query, total, shown, began, counted>>
    <2>1. rows' = rows /\ audit' = audit /\ query' = query /\ began' = began
      BY <1>3 DEF tables
    <2>2. PICK x : x = Image(t)
      OBVIOUS
    <2>3. /\ x \in Row /\ Exists(x) /\ Traced(x, t)
          /\ Onwards(began[t], x) /\ Onwards(x, rows[t])
      BY <1>1, <2>2, ImageIsRecent
    <2>4. images' \in [TicketIds -> Row] /\ images'[t] = x
          /\ \A s \in TicketIds \ {t} : images'[s] = images[s]
      BY <1>1, <1>3, <2>2, <2>3 DEF Reading, ImagesHold
    <2>5. Tables'
      BY <2>1 DEF Tables, Known, Traced, Existing
    <2>6. ASSUME NEW s \in TicketIds PROVE Between(s)'
      <3>1. Between(s)
        BY <1>1 DEF Reading, ImagesHold
      <3>2. CASE s = t
        BY <2>1, <2>3, <2>4, <3>1, <3>2 DEF Between, Traced
      <3>3. CASE s # t
        BY <2>1, <2>4, <3>1, <3>3 DEF Between, Traced
      <3> QED BY <3>2, <3>3
    <2>7. Stages'
      BY <1>1, <1>3, <2>1, <2>3, <2>4 DEF Stages
    <2> QED BY <2>1, <2>4, <2>5, <2>6, <2>7 DEF Reading, Asked, ImagesHold
  <1> QED BY <1>2, <1>3 DEF CheckTicket

LEMMA ReadsKeepReading ==
  ASSUME Tables, Reading, [Next]_vars
  PROVE  Tables' /\ Reading'
  <1>1. CASE Write
    BY <1>1, WriteKeepsReading
  <1>2. CASE BeginList
    <2> PICK u \in Readers, f \in Filters :
          /\ f.deleted => IsAdmin(u)
          /\ Authenticate([op |-> "list", actor |-> u, ticket |-> None, filter |-> f, offset |-> 0])
      BY <1>2 DEF BeginList
    <2> DEFINE q == [op |-> "list", actor |-> u, ticket |-> None, filter |-> f, offset |-> 0]
    <2>1. query' = q /\ rows' = rows
      BY DEF Authenticate, tables
    <2>2. Asked'
      BY <2>1 DEF Asked
    <2> QED BY <2>2, AuthenticateKeeps DEF Reading
  <1>3. CASE NextPage
    <2> DEFINE q == [query EXCEPT !.offset = @ + PageSize]
    <2>1. query' = q /\ rows' = rows /\ query.op = "list" /\ Authenticate(q)
      BY <1>3 DEF NextPage, Authenticate, tables
    <2>2. /\ q.op = "list" /\ q.actor = query.actor /\ q.filter = query.filter
          /\ query \in [op     : {"none", "list", "get", "get_deleted", "events"},
                        actor  : Readers \cup {None},
                        ticket : TicketIds \cup {None},
                        filter : Filters \cup {None},
                        offset : Nat]
      BY <2>1 DEF Reading, Asked
    <2>3. PageSize \in Nat
      BY ReaderAssumption
    <2>4. q \in [op     : {"none", "list", "get", "get_deleted", "events"},
                 actor  : Readers \cup {None},
                 ticket : TicketIds \cup {None},
                 filter : Filters \cup {None},
                 offset : Nat]
      BY <2>2, <2>3
    <2> HIDE DEF q
    <2>5. Asked'
      BY <2>1, <2>2, <2>4 DEF Reading, Asked
    <2> QED BY <2>1, <2>2, <2>5, AuthenticateKeeps DEF Reading
  <1>4. CASE BeginOne
    <2> PICK u \in Readers, t \in TicketIds, op \in {"get", "get_deleted", "events"} :
          /\ Exists(rows[t])
          /\ op = "get_deleted" => IsAdmin(u)
          /\ Authenticate([op |-> op, actor |-> u, ticket |-> t, filter |-> None, offset |-> 0])
      BY <1>4 DEF BeginOne
    <2> DEFINE q == [op |-> op, actor |-> u, ticket |-> t, filter |-> None, offset |-> 0]
    <2>1. query' = q /\ rows' = rows
      BY DEF Authenticate, tables
    <2>2. Asked'
      BY <2>1 DEF Asked
    <2> QED BY <2>2, AuthenticateKeeps DEF Reading
  <1>5. CASE Count
    <2>1. /\ rows' = rows /\ audit' = audit /\ stage' = "counted" /\ query' = query
          /\ images' = images /\ began' = began /\ stage = "begun" /\ query.op = "list"
      BY <1>5 DEF Count, tables
    <2> QED BY <2>1 DEF Tables, Known, Existing, Traced, Reading, Asked, Stages, ImagesHold, Between
  <1>6. CASE SelectPage
    <2>1. \E answer : Answer(answer)
      BY <1>6 DEF SelectPage
    <2> QED BY <2>1, AnswerKeeps
  <1>7. CASE GetTicket
    <2>1. \E answer : Answer(answer)
      BY <1>7 DEF GetTicket
    <2> QED BY <2>1, AnswerKeeps
  <1>8. CASE CheckTicket
    BY <1>8, CheckTicketKeeps
  <1>9. CASE ListEvents
    <2>1. \E answer : Answer(answer)
      BY <1>9 DEF ListEvents
    <2> QED BY <2>1, AnswerKeeps
  <1>10. CASE UNCHANGED vars
    <2>1. /\ rows' = rows /\ audit' = audit /\ stage' = stage /\ query' = query
          /\ images' = images /\ began' = began
      BY <1>10 DEF vars, tables, session
    <2> QED BY <2>1 DEF Tables, Known, Existing, Traced, Reading, Asked, Stages, ImagesHold, Between
  <1> QED BY <1>1, <1>2, <1>3, <1>4, <1>5, <1>6, <1>7, <1>8, <1>9, <1>10 DEF Next

--------------------------------------------------------------------------------
\* Lists and their pages.

\* How many of n tickets a page has.
PageLength(n, offset) ==
  IF n <= offset THEN 0 ELSE IF n - offset <= PageSize THEN n - offset ELSE PageSize

LEMMA PageLengthsDiffer ==
  ASSUME NEW n \in Nat, NEW m \in Nat, NEW offset \in Nat, NEW d \in Nat, n <= m + d
  PROVE  PageLength(n, offset) <= PageLength(m, offset) + d
  <1>1. PageSize \in Nat
    BY ReaderAssumption
  <1>2. CASE n <= offset
    BY <1>1, <1>2 DEF PageLength
  <1>3. CASE n > offset /\ m <= offset
    <2>1. n - offset <= d
      BY <1>3
    <2> QED BY <1>1, <1>3, <2>1 DEF PageLength
  <1>4. CASE n > offset /\ m > offset
    <2> PICK a \in Nat, b \in Nat : a = n - offset /\ b = m - offset /\ a <= b + d
      BY <1>4
    <2> QED BY <1>1, <1>4 DEF PageLength
  <1> QED BY <1>2, <1>3, <1>4

LEMMA PageOf ==
  ASSUME NEW S, NEW s \in Seq(S), NEW offset \in Nat
  PROVE  /\ Page(s, offset) \in Seq(S)
         /\ Len(Page(s, offset)) = PageLength(Len(s), offset)
         /\ DOMAIN Page(s, offset) = 1 .. PageLength(Len(s), offset)
         /\ \A i \in 1 .. PageLength(Len(s), offset) :
              /\ offset + i \in 1 .. Len(s) /\ offset + i <= offset + PageSize
              /\ Page(s, offset)[i] = s[offset + i]
  <1> DEFINE n == Len(s)
             last == IF offset + PageSize <= n THEN offset + PageSize ELSE n
  <1>1. n \in Nat /\ PageSize \in Nat \ {0} /\ offset + PageSize \in Int
    BY ReaderAssumption
  <1>2. Page(s, offset) = SubSeq(s, offset + 1, last)
    <2>1. Min({offset + PageSize, Len(s)}) = last
      BY <1>1, MinOf
    <2> QED BY <2>1 DEF Page
  <1>3. last \in Nat /\ last <= n /\ last <= offset + PageSize
    BY <1>1
  <1>4. PageLength(n, offset) = IF offset + 1 <= last THEN last - offset ELSE 0
    BY <1>1 DEF PageLength
  <1> HIDE DEF last, n
  <1>5. /\ SubSeq(s, offset + 1, last) \in Seq(S)
        /\ Len(SubSeq(s, offset + 1, last)) = PageLength(n, offset)
        /\ \A i \in 1 .. PageLength(n, offset) : SubSeq(s, offset + 1, last)[i] = s[offset + i]
    BY <1>1, <1>3, <1>4 DEF n
  <1>6. PageLength(n, offset) \in Nat
    BY <1>3, <1>4
  <1>7. \A i \in 1 .. PageLength(n, offset) : offset + i \in 1 .. n /\ offset + i <= offset + PageSize
    BY <1>1, <1>3, <1>4
  <1> QED BY <1>2, <1>5, <1>6, <1>7 DEF n

\* What a page shows: tickets that match the list, by their images.
LEMMA PageShows ==
  ASSUME Tables, Reading, SelectPage
  PROVE  \E s \in Orders(query.actor, query.filter, rows) :
           LET page == Page(s, query.offset)
               n    == Cardinality(Matching(query.actor, query.filter, rows)) IN
           /\ s \in Seq(TicketIds) /\ Len(s) = n /\ IsFiniteSet(Matching(query.actor, query.filter, rows))
           /\ shown' = [i \in 1 .. PageLength(n, query.offset) |-> Item(page[i])]
           /\ Len(shown') = PageLength(n, query.offset)
           /\ \A i \in 1 .. PageLength(n, query.offset) :
                /\ page[i] \in Matching(query.actor, query.filter, rows)
                /\ query.offset + i \in 1 .. n /\ page[i] = s[query.offset + i]
                /\ query.offset + i <= query.offset + PageSize
           /\ walk' = [walk EXCEPT !.seen = @ \cup {page[i] : i \in 1 .. PageLength(n, query.offset)}]
  <1> DEFINE M == Matching(query.actor, query.filter, rows)
             n == Cardinality(M)
             k == PageLength(n, query.offset)
  <1>1. query.op = "list" /\ query.offset \in Nat
    BY DEF SelectPage, Reading, Asked, Stages
  <1>2. IsFiniteSet(M) /\ n \in Nat /\ M \subseteq TicketIds
    <2>1. M \subseteq Existing
      BY DEF Matching, Selects, Existing
    <2> QED BY <2>1, FS_Subset, FS_CardinalityType DEF Tables, Existing
  <1> PICK s \in Orders(query.actor, query.filter, rows) :
        LET page == Page(s, query.offset) IN
        /\ Answer([i \in DOMAIN page |-> Item(page[i])])
        /\ walk' = [walk EXCEPT !.seen = @ \cup ToSet(page)]
    BY DEF SelectPage
  <1> DEFINE page == Page(s, query.offset)
  <1>3. s \in [1 .. n -> M]
    BY DEF Orders, SetToSeqs
  <1>4. s \in Seq(M) /\ Len(s) = n /\ s \in Seq(TicketIds)
    BY <1>2, <1>3
  <1>5. /\ DOMAIN page = 1 .. k
        /\ \A i \in 1 .. k : /\ query.offset + i \in 1 .. n /\ query.offset + i <= query.offset + PageSize
                             /\ page[i] = s[query.offset + i]
    BY <1>1, <1>4, PageOf
  <1>6. k \in Nat
    BY <1>1, <1>2, ReaderAssumption DEF PageLength
  <1>7. shown' = [i \in 1 .. k |-> Item(page[i])] /\ Len(shown') = k
    <2>1. shown' = [i \in DOMAIN page |-> Item(page[i])]
      BY DEF Answer
    <2> HIDE DEF page, k
    <2>2. shown' = [i \in 1 .. k |-> Item(page[i])]
      BY <1>5, <2>1
    <2> QED BY <1>6, <2>2
  <1>8. ToSet(page) = {page[i] : i \in 1 .. k}
    BY <1>5 DEF ToSet
  <1>9. \A i \in 1 .. k : page[i] \in M
    BY <1>3, <1>5
  <1> HIDE DEF page, k, n, M
  <1>10. /\ s \in Seq(TicketIds) /\ Len(s) = n /\ IsFiniteSet(M)
         /\ shown' = [i \in 1 .. k |-> Item(page[i])]
         /\ Len(shown') = k
         /\ \A i \in 1 .. k : /\ page[i] \in M
                              /\ query.offset + i \in 1 .. n /\ page[i] = s[query.offset + i]
                              /\ query.offset + i <= query.offset + PageSize
         /\ walk' = [walk EXCEPT !.seen = @ \cup {page[i] : i \in 1 .. k}]
    BY <1>2, <1>4, <1>5, <1>7, <1>8, <1>9 DEF page
  <1> QED BY <1>10 DEF page, k, n, M

--------------------------------------------------------------------------------
\* The answers.

LEMMA AnsweringSteps ==
  ASSUME Reading, [Next]_vars, Answering
  PROVE  \/ SelectPage /\ query.op = "list"
         \/ GetTicket
         \/ CheckTicket /\ shown' = <<>> /\ stage # "found"
         \/ ListEvents
  <1>1. stage # "idle" /\ stage' = "idle"
    BY DEF Answering
  <1>2. SelectPage => query.op = "list"
    BY DEF SelectPage, Reading, Stages
  <1>3. CheckTicket => shown' = <<>> /\ stage # "found"
    BY <1>1 DEF CheckTicket, Answer
  <1>4. ~Write /\ ~(UNCHANGED vars)
    BY <1>1 DEF Write, vars, session
  <1>5. ~BeginList /\ ~NextPage /\ ~BeginOne
    BY <1>1 DEF BeginList, NextPage, BeginOne, Authenticate
  <1>6. ~Count
    BY <1>1 DEF Count
  <1> QED BY <1>2, <1>3, <1>4, <1>5, <1>6 DEF Next

\* Everything shown but events is an item of a ticket there is: one of a list, or the
\* one that was asked for.
LEMMA ShownItems ==
  ASSUME Tables, Reading, [Next]_vars, Answering, query.op # "events"
  PROVE  \A i \in DOMAIN shown' :
           \E t \in TicketIds :
             /\ shown'[i] = Item(t) /\ Exists(rows[t])
             /\ \/ query.op = "list" /\ Selects(query.actor, query.filter, rows[t])
                \/ /\ query.op \in {"get", "get_deleted"}
                   /\ Image(t).deleted => query.op = "get_deleted"
                   /\ CanAccess(query.actor, Image(t))
  <1>1. (SelectPage /\ query.op = "list") \/ GetTicket \/ shown' = <<>>
    BY AnsweringSteps DEF ListEvents, Reading, Stages
  <1>2. CASE SelectPage /\ query.op = "list"
    <2> DEFINE k == PageLength(Cardinality(Matching(query.actor, query.filter, rows)), query.offset)
    <2>1. PICK page :
            /\ shown' = [i \in 1 .. k |-> Item(page[i])]
            /\ \A i \in 1 .. k : page[i] \in Matching(query.actor, query.filter, rows)
      <3> PICK s \in Orders(query.actor, query.filter, rows) :
            LET page == Page(s, query.offset)
                n    == Cardinality(Matching(query.actor, query.filter, rows)) IN
            /\ shown' = [i \in 1 .. PageLength(n, query.offset) |-> Item(page[i])]
            /\ Len(shown') = PageLength(n, query.offset)
            /\ \A i \in 1 .. PageLength(n, query.offset) :
                 page[i] \in Matching(query.actor, query.filter, rows)
        BY <1>2, PageShows
      <3> QED OBVIOUS
    <2> HIDE DEF k
    <2>2. ASSUME NEW i \in DOMAIN shown'
          PROVE  \E t \in TicketIds : /\ shown'[i] = Item(t) /\ Exists(rows[t])
                                      /\ Selects(query.actor, query.filter, rows[t])
      <3>1. i \in 1 .. k /\ shown'[i] = Item(page[i]) /\ page[i] \in Matching(query.actor, query.filter, rows)
        BY <2>1
      <3> QED BY <3>1 DEF Matching, Selects
    <2> QED BY <1>2, <2>2
  <1>3. CASE GetTicket
    <2> DEFINE t == query.ticket
    <2>1. /\ query.op \in {"get", "get_deleted"}
          /\ \/ shown' = <<>>
             \/ /\ shown' = <<Item(t)>>
                /\ Image(t).deleted => query.op = "get_deleted"
                /\ CanAccess(query.actor, Image(t))
      BY <1>3 DEF GetTicket, Answer
    <2>2. t \in TicketIds /\ Exists(rows[t])
      BY <2>1 DEF Reading, Asked
    <2> QED BY <2>1, <2>2
  <1>4. CASE shown' = <<>>
    BY <1>4
  <1> QED BY <1>1, <1>2, <1>3, <1>4

LEMMA ReadingAlways == Spec => [](Tables /\ Reading)
  <1>1. Tables /\ Reading /\ [Next]_vars => Tables' /\ Reading'
    BY ReadsKeepReading
  <1> QED BY <1>1, ReadingInit, PTL DEF Spec

\* What is shown of a ticket is a committed row of it, not older than the request, and
\* the events that are listed include the one that made the row that was checked.
THEOREM AnswersRecent == Spec => AnswersAreRecent
  <1>1. ASSUME Tables, Reading, [Next]_vars, Answering, query.op # "events", NEW i \in DOMAIN shown'
        PROVE  LET x == shown'[i] IN
               /\ x.row.version >= began[x.id].version
               /\ \E j \in DOMAIN audit[x.id] :
                    audit[x.id][j].type \in ChangeTypes /\ audit[x.id][j].new = x.row
    <2> PICK t \in TicketIds : shown'[i] = Item(t) /\ Exists(rows[t])
      BY <1>1, ShownItems
    <2>1. shown'[i].id = t /\ shown'[i].row = Image(t)
      BY DEF Item
    <2>2. Image(t) \in Row /\ Exists(Image(t)) /\ Traced(Image(t), t) /\ Onwards(began[t], Image(t))
      BY <1>1, ImageIsRecent DEF Answering
    <2>3. Image(t).version >= began[t].version
      <3>1. Image(t).version \in Nat /\ began[t].version \in Nat
        BY <1>1, <2>2 DEF Reading, ImagesHold, Row, RowAssigning
      <3> QED BY <2>2, <3>1, NoRowType DEF Onwards
    <2> QED BY <2>1, <2>2, <2>3 DEF Traced
  <1>2. ASSUME Tables, Reading, [Next]_vars, stage = "found", stage' = "idle"
        PROVE  \E i \in DOMAIN shown' :
                 shown'[i].type \in ChangeTypes /\ shown'[i].new = images[query.ticket]
    <2> DEFINE t == query.ticket
    <2>1. query.op = "events" /\ t \in TicketIds /\ Exists(images[t])
      BY <1>2 DEF Reading, Stages, Asked
    <2>2. ListEvents
      BY <1>2, <2>1, AnsweringSteps DEF Answering, GetTicket
    <2>3. shown' = audit[t]
      BY <2>2 DEF ListEvents, Answer, EventsOf
    <2>4. Traced(images[t], t)
      BY <1>2, <2>1 DEF Reading, ImagesHold, Between
    <2> QED BY <2>3, <2>4 DEF Traced
  <1>3. Tables /\ Reading /\ [Next]_vars =>
          [/\ Answering /\ query.op # "events" =>
                \A i \in DOMAIN shown' :
                  LET x == shown'[i] IN
                  /\ x.row.version >= began[x.id].version
                  /\ \E j \in DOMAIN audit[x.id] :
                       audit[x.id][j].type \in ChangeTypes /\ audit[x.id][j].new = x.row
           /\ stage = "found" /\ stage' = "idle" =>
                \E i \in DOMAIN shown' :
                  shown'[i].type \in ChangeTypes /\ shown'[i].new = images[query.ticket]]_vars
    BY <1>1, <1>2
  <1> QED BY <1>3, ReadingAlways, PTL DEF Spec, AnswersAreRecent

\* A USER is shown tickets of its own, and a deleted one is shown to an ADMIN who asks
\* for those.
THEOREM AnswersVisible == Spec => AnswersAreVisible
  <1>1. ASSUME Tables, Reading, [Next]_vars, Answering, query.op # "events", NEW i \in DOMAIN shown'
        PROVE  LET x == shown'[i] IN
               /\ CanAccess(query.actor, x.row)
               /\ x.row.deleted \/ began[x.id].deleted =>
                    /\ IsAdmin(query.actor)
                    /\ query.op = "list" => query.filter.deleted
                    /\ query.op # "get"
    <2> PICK t \in TicketIds :
          /\ shown'[i] = Item(t) /\ Exists(rows[t])
          /\ \/ query.op = "list" /\ Selects(query.actor, query.filter, rows[t])
             \/ /\ query.op \in {"get", "get_deleted"}
                /\ Image(t).deleted => query.op = "get_deleted"
                /\ CanAccess(query.actor, Image(t))
      BY <1>1, ShownItems
    <2>1. shown'[i].id = t /\ shown'[i].row = Image(t)
      BY DEF Item
    <2> PICK image : image = Image(t)
      OBVIOUS
    <2>2. /\ Exists(image)
          /\ Onwards(began[t], image) /\ Onwards(image, rows[t])
      BY <1>1, ImageIsRecent DEF Answering
    <2>3. /\ rows[t].reporter = image.reporter
          /\ image.deleted => rows[t].deleted
          /\ began[t].deleted => image.deleted
      BY <2>2, NoRowType DEF Onwards
    <2>4. CASE query.op = "list" /\ Selects(query.actor, query.filter, rows[t])
      <3>1. CanAccess(query.actor, image)
        BY <2>3, <2>4 DEF Selects, CanAccess
      <3>2. image.deleted \/ began[t].deleted => query.filter.deleted
        BY <2>3, <2>4 DEF Selects
      <3> QED BY <1>1, <2>1, <2>4, <3>1, <3>2 DEF Reading, Asked
    <2>5. CASE /\ query.op \in {"get", "get_deleted"}
               /\ image.deleted => query.op = "get_deleted"
               /\ CanAccess(query.actor, image)
      BY <1>1, <2>1, <2>3, <2>5 DEF Reading, Asked
    <2> QED BY <2>4, <2>5
  <1>2. Tables /\ Reading /\ [Next]_vars =>
          [Answering /\ query.op # "events" =>
             \A i \in DOMAIN shown' :
               LET x == shown'[i] IN
               /\ CanAccess(query.actor, x.row)
               /\ x.row.deleted \/ began[x.id].deleted =>
                    /\ IsAdmin(query.actor)
                    /\ query.op = "list" => query.filter.deleted
                    /\ query.op # "get"]_vars
    BY <1>1
  <1> QED BY <1>2, ReadingAlways, PTL DEF Spec, AnswersAreVisible

--------------------------------------------------------------------------------
\* The total: while a page is being read, each commit adds or takes one ticket at most.

Matches == Matching(query.actor, query.filter, rows)

LEMMA MatchingFinite ==
  ASSUME NEW u, NEW f, NEW table, IsFiniteSet({t \in TicketIds : Exists(table[t])})
  PROVE  /\ IsFiniteSet(Matching(u, f, table)) /\ Cardinality(Matching(u, f, table)) \in Nat
         /\ Matching(u, f, table) \subseteq TicketIds
  <1>1. Matching(u, f, table) \subseteq {t \in TicketIds : Exists(table[t])}
    BY DEF Matching, Selects
  <1> QED BY <1>1, FS_Subset, FS_CardinalityType

LEMMA MatchesFinite ==
  ASSUME Tables
  PROVE  IsFiniteSet(Matches) /\ Cardinality(Matches) \in Nat /\ Matches \subseteq TicketIds
  BY MatchingFinite DEF Tables, Existing, Matches

LEMMA OneAtMost ==
  ASSUME NEW A, NEW B, NEW t, IsFiniteSet(A), IsFiniteSet(B), A \subseteq B \cup {t}
  PROVE  Cardinality(A) <= Cardinality(B) + 1
  <1>1. /\ IsFiniteSet(B \cup {t}) /\ Cardinality(B) \in Nat
        /\ Cardinality(B \cup {t}) \in {Cardinality(B), Cardinality(B) + 1}
    BY FS_AddElement, FS_CardinalityType
  <1>2. Cardinality(A) <= Cardinality(B \cup {t})
    BY <1>1, FS_Subset
  <1> QED BY <1>1, <1>2, FS_CardinalityType

Counting ==
  /\ commits \in Nat /\ counted \in Nat /\ counted <= commits /\ total \in Nat
  /\ stage = "counted" => /\ total <= Cardinality(Matches) + (commits - counted)
                          /\ Cardinality(Matches) <= total + (commits - counted)

LEMMA WriteKeepsCounting ==
  ASSUME Tables, Reading, Counting, Write
  PROVE  Counting'
  <1> PICK t \in TicketIds, row \in Row, event \in Events : Commits(t, row, event)
    BY WriterCommits DEF Write
  <1>1. Tables' /\ \A s \in TicketIds \ {t} : rows'[s] = rows[s]
    BY CommitsKeepTables
  <1>2. /\ stage' = stage /\ query' = query /\ counted' = counted /\ total' = total
        /\ commits' = commits + 1
    BY DEF Write, session
  <1>3. /\ IsFiniteSet(Matches) /\ Cardinality(Matches) \in Nat
        /\ IsFiniteSet(Matches') /\ Cardinality(Matches') \in Nat
    BY <1>1, MatchesFinite, MatchingFinite DEF Tables, Existing, Matches
  <1>4. Matches' \subseteq Matches \cup {t} /\ Matches \subseteq Matches' \cup {t}
    BY <1>1, <1>2 DEF Matches, Matching
  <1>5. /\ Cardinality(Matches') <= Cardinality(Matches) + 1
        /\ Cardinality(Matches) <= Cardinality(Matches') + 1
    BY <1>3, <1>4, OneAtMost
  <1> QED BY <1>2, <1>3, <1>5 DEF Counting

LEMMA CountingKept ==
  ASSUME Tables, Reading, Counting, [Next]_vars
  PROVE  Counting'
  <1>1. CASE Write
    BY <1>1, WriteKeepsCounting
  <1>2. CASE BeginList \/ NextPage \/ BeginOne
    BY <1>2 DEF BeginList, NextPage, BeginOne, Authenticate, Counting
  <1>3. CASE Count
    <2>1. /\ counted' = commits /\ commits' = commits /\ rows' = rows /\ query' = query
          /\ total' = Cardinality(Matches)
      BY <1>3 DEF Count, Matches, tables
    <2>2. Matches' = Matches
      BY <2>1 DEF Matches
    <2> QED BY <2>1, <2>2, MatchesFinite DEF Counting
  <1>4. ASSUME NEW answer, Answer(answer) PROVE Counting'
    BY <1>4 DEF Answer, Counting
  <1>5. CASE SelectPage \/ GetTicket \/ ListEvents
    BY <1>4, <1>5 DEF SelectPage, GetTicket, ListEvents
  <1>6. CASE CheckTicket
    BY <1>4, <1>6 DEF CheckTicket, Counting
  <1>7. CASE UNCHANGED vars
    <2>1. Matches' = Matches
      BY <1>7 DEF vars, tables, session, Matches
    <2> QED BY <1>7, <2>1 DEF vars, session, Counting
  <1> QED BY <1>1, <1>2, <1>3, <1>5, <1>6, <1>7 DEF Next

LEMMA CountingAlways == Spec => [](Tables /\ Reading /\ Counting)
  <1>1. Init => Counting
    BY DEF Init, Counting
  <1>2. Tables /\ Reading /\ Counting /\ [Next]_vars => Tables' /\ Reading' /\ Counting'
    BY ReadsKeepReading, CountingKept
  <1> QED BY <1>1, <1>2, ReadingInit, PTL DEF Spec

\* A page has as many tickets as its total promises, but for the commits since the count.
THEOREM PagesFitTotals == Spec => PageFitsTotal
  <1>1. ASSUME Tables, Reading, Counting, [Next]_vars, Answering, query.op = "list"
        PROVE  LET rest     == IF total > query.offset THEN total - query.offset ELSE 0
                   expected == IF rest < PageSize THEN rest ELSE PageSize
               IN /\ Len(shown') <= expected + (commits - counted)
                  /\ expected <= Len(shown') + (commits - counted)
    <2> DEFINE n == Cardinality(Matches)
    <2>1. SelectPage
      BY <1>1, AnsweringSteps DEF GetTicket, CheckTicket, ListEvents, Reading, Stages
    <2>2. Len(shown') = PageLength(n, query.offset)
      BY <1>1, <2>1, PageShows DEF Matches
    <2>3. n \in Nat /\ query.offset \in Nat /\ PageSize \in Nat
      BY <1>1, MatchesFinite, ReaderAssumption DEF Reading, Asked
    <2>4. /\ total \in Nat /\ commits - counted \in Nat
          /\ total <= n + (commits - counted) /\ n <= total + (commits - counted)
      BY <1>1, <2>1 DEF Counting, SelectPage
    <2> HIDE DEF n
    <2>5. PICK d \in Nat : d = commits - counted
      BY <2>4
    <2> DEFINE rest     == IF total > query.offset THEN total - query.offset ELSE 0
               expected == IF rest < PageSize THEN rest ELSE PageSize
    <2>6. expected = PageLength(total, query.offset)
      BY <2>3, <2>4 DEF PageLength
    <2>7. /\ PageLength(n, query.offset) <= PageLength(total, query.offset) + d
          /\ PageLength(total, query.offset) <= PageLength(n, query.offset) + d
      BY <2>3, <2>4, <2>5, PageLengthsDiffer
    <2> QED BY <2>2, <2>5, <2>6, <2>7
  <1>2. Tables /\ Reading /\ Counting /\ [Next]_vars =>
          [Answering /\ query.op = "list" =>
             LET rest     == IF total > query.offset THEN total - query.offset ELSE 0
                 expected == IF rest < PageSize THEN rest ELSE PageSize
             IN /\ Len(shown') <= expected + (commits - counted)
                /\ expected <= Len(shown') + (commits - counted)]_vars
    BY <1>1
  <1> QED BY <1>2, CountingAlways, PTL DEF Spec, PageFitsTotal

--------------------------------------------------------------------------------
\* A walk.  A ticket's place is the number of tickets listed before it; those that are
\* missed are the ones that have a place on the pages so far and were not shown.

Before(f, u, t) == IF f.sort = "default" THEN u > t ELSE u < t

Ahead(M, f, t) == {u \in M : Before(f, u, t)}

Place(M, f, t) == Cardinality(Ahead(M, f, t))

\* Where the pages so far end.
Reached == IF stage = "idle" THEN query.offset + PageSize ELSE query.offset

LastPage == stage = "idle" /\ Len(shown) < PageSize

Missed ==
  {t \in walk.stayed \ walk.seen : LastPage \/ Place(Matches, query.filter, t) < Reached}

Walks == query.op = "list" /\ query.filter.sort # "status"

WalkShape == walk \in [seen : SUBSET TicketIds, stayed : SUBSET TicketIds, left : Nat]

Walking ==
  /\ WalkShape
  /\ Walks => walk.stayed \subseteq Matches /\ Cardinality(Missed) <= walk.left

LEMMA AheadFinite ==
  ASSUME NEW M, IsFiniteSet(M), NEW f, NEW t
  PROVE  IsFiniteSet(Ahead(M, f, t)) /\ Place(M, f, t) \in Nat
  <1>1. Ahead(M, f, t) \subseteq M
    BY DEF Ahead
  <1> QED BY <1>1, FS_Subset, FS_CardinalityType DEF Place

\* Two tickets do not have the same place.
LEMMA PlacesDiffer ==
  ASSUME NEW M \in SUBSET Nat, IsFiniteSet(M), NEW f, NEW x \in M, NEW y \in M,
         Place(M, f, x) = Place(M, f, y)
  PROVE  x = y
  <1>1. ASSUME NEW a \in M, NEW b \in M, Before(f, a, b)
        PROVE  Place(M, f, a) # Place(M, f, b)
    <2>1. Ahead(M, f, a) \subseteq Ahead(M, f, b)
      <3>1. ASSUME NEW u \in M, Before(f, u, a) PROVE Before(f, u, b)
        <4>1. u \in Nat /\ a \in Nat /\ b \in Nat
          OBVIOUS
        <4> QED BY <1>1, <3>1, <4>1 DEF Before
      <3> QED BY <3>1 DEF Ahead
    <2>2. a \in Ahead(M, f, b) /\ a \notin Ahead(M, f, a)
      BY <1>1 DEF Ahead, Before
    <2> QED BY <2>1, <2>2, AheadFinite, FS_Subset DEF Place
  <1>2. x = y \/ Before(f, x, y) \/ Before(f, y, x)
    BY DEF Before
  <1> QED BY <1>1, <1>2

\* The k-th ticket of a list has k - 1 before it, and every ticket is on the list.
LEMMA PlaceInOrder ==
  ASSUME NEW u, NEW f, NEW table, f.sort \in {"default", "created_at"},
         NEW s \in Orders(u, f, table), IsFiniteSet(Matching(u, f, table)),
         NEW t \in Matching(u, f, table)
  PROVE  \E k \in 1 .. Cardinality(Matching(u, f, table)) :
           s[k] = t /\ Place(Matching(u, f, table), f, t) = k - 1
  <1> DEFINE M == Matching(u, f, table)
             n == Cardinality(M)
  <1>1. M \subseteq Nat /\ n \in Nat
    BY FS_CardinalityType, ReaderAssumption DEF Matching
  <1>2. s \in [1 .. n -> M] /\ (\A i, j \in 1 .. n : i # j => s[i] # s[j]) /\ InOrder(f, table, s)
    BY DEF Orders, SetToSeqs
  <1> HIDE DEF M, n
  <1>3. s \in Injection(1 .. n, M)
    BY <1>2 DEF Injection, IsInjective
  <1>4. IsFiniteSet(1 .. n) /\ Cardinality(1 .. n) = n
    BY <1>1, FS_Interval
  <1>5. s \in Surjection(1 .. n, M)
    BY <1>3, <1>4, FS_Injection DEF M, n
  <1>6. PICK k \in 1 .. n : s[k] = t
    BY <1>5 DEF Surjection, M
  <1>7. \A i, j \in 1 .. n : i < j => Before(f, s[i], s[j])
    BY <1>2 DEF InOrder, Before
  <1>8. ASSUME NEW i \in 1 .. n PROVE Before(f, s[i], t) <=> i < k
    <2>1. s[i] \in Nat /\ t \in Nat
      BY <1>1, <1>2, <1>6
    <2>2. i < k => Before(f, s[i], t)
      BY <1>6, <1>7
    <2>3. k < i => Before(f, t, s[i])
      BY <1>6, <1>7
    <2>4. ~(Before(f, s[i], t) /\ Before(f, t, s[i])) /\ ~Before(f, t, t)
      BY <2>1 DEF Before
    <2>5. i < k \/ i = k \/ k < i
      BY <1>1
    <2> QED BY <1>6, <2>2, <2>3, <2>4, <2>5
  <1>9. Ahead(M, f, t) = {s[i] : i \in 1 .. (k - 1)}
    <2>1. ASSUME NEW x \in Ahead(M, f, t) PROVE x \in {s[i] : i \in 1 .. (k - 1)}
      <3>1. PICK i \in 1 .. n : s[i] = x
        BY <1>5, <2>1 DEF Surjection, Ahead
      <3>2. i < k
        BY <1>8, <2>1, <3>1 DEF Ahead
      <3> QED BY <1>1, <3>1, <3>2
    <2>2. ASSUME NEW i \in 1 .. (k - 1) PROVE s[i] \in Ahead(M, f, t)
      <3>1. i \in 1 .. n /\ i < k
        BY <1>1
      <3> QED BY <1>2, <1>8, <3>1 DEF Ahead
    <2> QED BY <2>1, <2>2
  <1>10. Cardinality(Ahead(M, f, t)) = k - 1
    <2> DEFINE g == [i \in 1 .. (k - 1) |-> s[i]]
    <2>1. g \in Bijection(1 .. (k - 1), Ahead(M, f, t))
      <3>1. \A i \in 1 .. (k - 1) : i \in 1 .. n
        BY <1>1
      <3> QED BY <1>2, <1>9, <3>1 DEF Bijection, Injection, Surjection, IsInjective
    <2>2. IsFiniteSet(1 .. (k - 1)) /\ Cardinality(1 .. (k - 1)) = k - 1
      BY <1>1, FS_Interval
    <2> QED BY <2>1, <2>2, FS_Bijection DEF ExistsBijection
  <1> QED BY <1>6, <1>10 DEF Place, M, n

LEMMA WalkFilter ==
  ASSUME Reading, Walks
  PROVE  query.filter \in Filters /\ query.filter.sort \in {"default", "created_at"}
  <1>1. query.filter \in Filters
    BY DEF Reading, Asked, Walks
  <1> QED BY <1>1, ReaderAssumption DEF Walks

\* A commit takes one ticket of the list at most, and then one that had a place behind
\* the pages so far may have one on them.
AtMostOneBehind(M, N, f, reached) ==
  /\ M \subseteq N => \A x : Place(N, f, x) < reached => Place(M, f, x) < reached
  /\ \E y : \A x \in M : Place(N, f, x) < reached => Place(M, f, x) < reached \/ x = y

LEMMA CommitMissesOne ==
  ASSUME NEW M \in SUBSET Nat, NEW N \in SUBSET Nat, IsFiniteSet(M), IsFiniteSet(N),
         NEW t, M \subseteq N \cup {t}, NEW f, NEW reached \in Nat
  PROVE  AtMostOneBehind(M, N, f, reached)
  <1>1. ASSUME NEW x PROVE /\ Place(M, f, x) \in Nat /\ Place(N, f, x) \in Nat
                           /\ Place(M, f, x) <= Place(N, f, x) + 1
                           /\ M \subseteq N => Place(M, f, x) <= Place(N, f, x)
    <2>1. /\ IsFiniteSet(Ahead(M, f, x)) /\ Place(M, f, x) \in Nat
          /\ IsFiniteSet(Ahead(N, f, x)) /\ Place(N, f, x) \in Nat
      BY AheadFinite
    <2>2. Ahead(M, f, x) \subseteq Ahead(N, f, x) \cup {t}
      BY DEF Ahead
    <2>3. M \subseteq N => Ahead(M, f, x) \subseteq Ahead(N, f, x)
      BY DEF Ahead
    <2> QED BY <2>1, <2>2, <2>3, OneAtMost, FS_Subset DEF Place
  <1>2. PICK y : \A x \in M : Place(M, f, x) = reached => x = y
    <2>1. CASE \E y \in M : Place(M, f, y) = reached
      BY <2>1, PlacesDiffer
    <2> QED BY <2>1
  <1>3. ASSUME NEW x \in M, Place(N, f, x) < reached
        PROVE  Place(M, f, x) < reached \/ x = y
    BY <1>1, <1>2, <1>3
  <1>4. ASSUME M \subseteq N, NEW x, Place(N, f, x) < reached
        PROVE  Place(M, f, x) < reached
    BY <1>1, <1>4
  <1> QED BY <1>3, <1>4 DEF AtMostOneBehind

LEMMA WriteKeepsWalking ==
  ASSUME Tables, Reading, Walking, Write
  PROVE  Walking'
  <1> PICK t \in TicketIds, row \in Row, event \in Events : Commits(t, row, event)
    BY WriterCommits DEF Write
  <1>1. Tables' /\ \A s \in TicketIds \ {t} : rows'[s] = rows[s]
    BY CommitsKeepTables
  <1>2. stage' = stage /\ query' = query /\ shown' = shown
    BY DEF Write, session
  <1>3. /\ Matches \in SUBSET Nat /\ IsFiniteSet(Matches)
        /\ Matches' \in SUBSET Nat /\ IsFiniteSet(Matches')
        /\ IsFiniteSet(Matches \ Matches') /\ Cardinality(Matches \ Matches') \in Nat
    <2>1. IsFiniteSet(Matches) /\ IsFiniteSet(Matches')
      BY <1>1, MatchingFinite DEF Tables, Existing, Matches
    <2>2. Matches \subseteq TicketIds /\ Matches' \subseteq TicketIds
      BY DEF Matches, Matching
    <2> QED BY <2>1, <2>2, FS_Subset, FS_CardinalityType, ReaderAssumption
  <1>4. Matches \subseteq Matches' \cup {t}
    BY <1>1, <1>2 DEF Matches, Matching
  <1>5. query.op # "list" => Walking'
    BY <1>2 DEF Write, Watch, Walking, WalkShape, Walks
  <1>6. ASSUME query.op = "list"
        PROVE  /\ walk'.seen = walk.seen /\ walk'.stayed = walk.stayed \cap Matches'
               /\ walk'.left = walk.left + Cardinality(Matches \ Matches')
               /\ WalkShape'
    <2>1. walk' = [walk EXCEPT !.stayed = @ \cap Matches',
                               !.left = @ + Cardinality(Matches \ Matches')]
      <3>1. Matches' = Matching(query.actor, query.filter, rows')
        BY <1>2 DEF Matches
      <3>2. Watch
        BY DEF Write
      <3> QED BY <1>6, <3>1, <3>2 DEF Watch, Matches
    <2> PICK left : left = walk.left + Cardinality(Matches \ Matches')
      OBVIOUS
    <2>2. walk \in [seen : SUBSET TicketIds, stayed : SUBSET TicketIds, left : Nat]
      BY DEF Walking, WalkShape
    <2>3. left \in Nat /\ walk' = [walk EXCEPT !.stayed = @ \cap Matches', !.left = left]
      BY <1>3, <2>1, <2>2
    <2>4. /\ walk'.seen = walk.seen /\ walk'.stayed = walk.stayed \cap Matches' /\ walk'.left = left
          /\ walk' \in [seen : SUBSET TicketIds, stayed : SUBSET TicketIds, left : Nat]
      BY <2>2, <2>3
    <2> QED BY <2>4 DEF WalkShape
  <1>7. ASSUME Walks PROVE walk'.stayed \subseteq Matches' /\ Cardinality(Missed') <= walk'.left
    <2> DEFINE f == query.filter
               d == Cardinality(Matches \ Matches')
    <2>1. /\ walk'.seen = walk.seen /\ walk'.stayed = walk.stayed \cap Matches'
          /\ walk'.left = walk.left + d
      BY <1>6, <1>7 DEF Walks
    <2>2. Reached \in Nat /\ Reached' = Reached /\ (LastPage' <=> LastPage) /\ f' = f
      BY <1>2, ReaderAssumption DEF Reached, LastPage, Reading, Asked
    <2>3. /\ IsFiniteSet(Missed) /\ Cardinality(Missed) <= walk.left /\ walk.left \in Nat
          /\ walk.stayed \subseteq Matches
      <3>1. /\ walk.stayed \subseteq Matches /\ Cardinality(Missed) <= walk.left
            /\ walk.left \in Nat
        BY <1>7 DEF Walking, WalkShape
      <3>2. Missed \subseteq Matches
        BY <3>1 DEF Missed
      <3> QED BY <1>3, <3>1, <3>2, FS_Subset
    <2>4. \/ d = 0 /\ Missed' \subseteq Missed
          \/ d = 1 /\ \E y : Missed' \subseteq Missed \cup {y}
      <3>1. AtMostOneBehind(Matches, Matches', f, Reached)
        BY <1>3, <1>4, <2>2, CommitMissesOne
      <3>2. CASE Matches \subseteq Matches'
        <4>1. Matches \ Matches' = {}
          BY <3>2
        <4>2. \A x : Place(Matches', f, x) < Reached => Place(Matches, f, x) < Reached
          BY <3>1, <3>2 DEF AtMostOneBehind
        <4> QED BY <2>1, <2>2, <2>3, <4>1, <4>2, FS_EmptySet DEF Missed
      <3>3. CASE ~(Matches \subseteq Matches')
        <4> PICK y : \A x \in Matches :
                       Place(Matches', f, x) < Reached => Place(Matches, f, x) < Reached \/ x = y
          BY <3>1, <3>3 DEF AtMostOneBehind
        <4>1. d = 1
          <5>1. Matches \ Matches' = {t}
            BY <1>4, <3>3
          <5> QED BY <5>1, FS_Singleton
        <4>2. Missed' \subseteq Missed \cup {y}
          BY <2>1, <2>2, <2>3 DEF Missed
        <4> QED BY <4>1, <4>2
      <3> QED BY <3>2, <3>3
    <2>5. CASE d = 0 /\ Missed' \subseteq Missed
      BY <2>1, <2>3, <2>5, FS_Subset, FS_CardinalityType
    <2>6. CASE d = 1 /\ \E y : Missed' \subseteq Missed \cup {y}
      <3> PICK y : Missed' \subseteq Missed \cup {y}
        BY <2>6
      <3>1. IsFiniteSet(Missed')
        BY <2>3, FS_AddElement, FS_Subset
      <3>2. Cardinality(Missed') <= Cardinality(Missed) + 1
        BY <2>3, <3>1, OneAtMost
      <3> QED BY <2>1, <2>3, <2>6, <3>1, <3>2, FS_CardinalityType
    <2> QED BY <2>1, <2>4, <2>5, <2>6
  <1> QED BY <1>1, <1>2, <1>3, <1>5, <1>6, <1>7 DEF Walking, Walks, WalkShape

\* A page shows every ticket whose place is on it; the last one, all the rest.
LEMMA SelectPageKeepsWalking ==
  ASSUME Tables, Reading, Walking, SelectPage
  PROVE  Walking'
  <1> DEFINE n == Cardinality(Matches)
             length == PageLength(n, query.offset)
  <1>0. PICK s \in Orders(query.actor, query.filter, rows) :
        LET page == Page(s, query.offset) IN
        /\ Len(shown') = PageLength(n, query.offset)
        /\ \A i \in 1 .. PageLength(n, query.offset) :
             page[i] \in Matches /\ page[i] = s[query.offset + i]
        /\ walk' = [walk EXCEPT !.seen = @ \cup {page[i] : i \in 1 .. PageLength(n, query.offset)}]
    BY PageShows DEF Matches
  <1> DEFINE page == Page(s, query.offset)
  <1>1. /\ Len(shown') = length
        /\ \A i \in 1 .. length : page[i] \in Matches /\ page[i] = s[query.offset + i]
        /\ walk' = [walk EXCEPT !.seen = @ \cup {page[i] : i \in 1 .. length}]
    BY <1>0
  <1>2. /\ stage = "counted" /\ query.op = "list" /\ query.offset \in Nat
        /\ PageSize \in Nat \ {0}
        /\ n \in Nat /\ IsFiniteSet(Matches) /\ Matches \subseteq TicketIds
    BY MatchesFinite, ReaderAssumption DEF SelectPage, Reading, Asked, Stages
  <1>3. /\ stage' = "idle" /\ query' = query /\ rows' = rows
    BY DEF SelectPage, Answer, tables
  <1>4. Matches' = Matches
    BY <1>3 DEF Matches
  <1>5. /\ walk \in [seen : SUBSET TicketIds, stayed : SUBSET TicketIds, left : Nat]
        /\ {page[i] : i \in 1 .. length} \in SUBSET TicketIds
    BY <1>1, <1>2 DEF Walking, WalkShape
  <1> HIDE DEF n, length, page
  <1>6. /\ WalkShape'
        /\ walk'.stayed = walk.stayed /\ walk'.left = walk.left
        /\ walk'.seen = walk.seen \cup {page[i] : i \in 1 .. length}
    BY <1>1, <1>5 DEF WalkShape
  <1>7. ASSUME Walks PROVE walk'.stayed \subseteq Matches' /\ Cardinality(Missed') <= walk'.left
    <2>1. walk.stayed \subseteq Matches /\ Cardinality(Missed) <= walk.left
      BY <1>7 DEF Walking
    <2>2. Missed = {t \in walk.stayed \ walk.seen : Place(Matches, query.filter, t) < query.offset}
      BY <1>2 DEF Missed, LastPage, Reached
    <2>3. ASSUME NEW t \in Missed' PROVE t \in Missed
      <3>1. /\ t \in walk.stayed /\ t \notin walk.seen /\ t \notin {page[i] : i \in 1 .. length}
            /\ \/ length < PageSize
               \/ Place(Matches, query.filter, t) < query.offset + PageSize
        BY <1>1, <1>3, <1>4, <1>6, <2>3 DEF Missed, LastPage, Reached
      <3>2. PICK k \in 1 .. n : s[k] = t /\ Place(Matches, query.filter, t) = k - 1
        <4>1. query.filter.sort \in {"default", "created_at"}
          BY <1>7, WalkFilter
        <4>2. t \in Matches
          BY <2>1, <3>1
        <4> QED BY <1>2, <4>1, <4>2, PlaceInOrder DEF Matches, n
      <3>3. k - 1 < query.offset
        <4> SUFFICES ASSUME query.offset < k PROVE FALSE
          BY <1>2, <3>2
        <4>1. k - query.offset \in 1 .. length
          BY <1>2, <3>1, <3>2 DEF length, PageLength
        <4>2. page[k - query.offset] = s[k]
          <5>1. query.offset + (k - query.offset) = k
            BY <1>2
          <5> QED BY <1>1, <4>1, <5>1
        <4> QED BY <3>1, <3>2, <4>1, <4>2
      <3> QED BY <2>2, <3>1, <3>2, <3>3
    <2>4. IsFiniteSet(Missed)
      <3>1. Missed \subseteq Matches
        BY <2>1 DEF Missed
      <3> QED BY <1>2, <3>1, FS_Subset
    <2>5. Missed' \subseteq Missed
      BY <2>3
    <2>6. /\ Cardinality(Missed') <= Cardinality(Missed)
          /\ Cardinality(Missed') \in Nat /\ Cardinality(Missed) \in Nat
      BY <2>4, <2>5, FS_Subset, FS_CardinalityType
    <2> QED BY <1>4, <1>5, <1>6, <2>1, <2>6
  <1> QED BY <1>3, <1>6, <1>7 DEF Walking, Walks

LEMMA WalkingKept ==
  ASSUME Tables, Reading, Walking, [Next]_vars
  PROVE  Walking'
  <1>1. CASE Write
    BY <1>1, WriteKeepsWalking
  <1>2. CASE BeginList
    <2> PICK u \in Readers, f \in Filters :
          /\ Authenticate([op |-> "list", actor |-> u, ticket |-> None, filter |-> f, offset |-> 0])
          /\ walk' = [seen |-> {}, stayed |-> Matching(u, f, rows), left |-> 0]
      BY <1>2 DEF BeginList
    <2>1. /\ query'.actor = u /\ query'.filter = f /\ query'.offset = 0
          /\ rows' = rows /\ stage' = "begun"
      BY DEF Authenticate, tables
    <2>2. Matches' = Matching(u, f, rows) /\ Matches' \subseteq TicketIds
      BY <2>1 DEF Matches, Matching
    <2>3. IsFiniteSet(Matches')
      BY <2>2, MatchingFinite DEF Tables, Existing
    <2>4. Missed' = {}
      <3>1. \A t : Place(Matches', f, t) \in Nat
        BY <2>3, AheadFinite
      <3>2. Reached' = 0 /\ ~LastPage' /\ query'.filter = f
        BY <2>1 DEF Reached, LastPage
      <3>3. \A t : ~(Place(Matches', f, t) < 0)
        BY <3>1
      <3> QED BY <3>2, <3>3 DEF Missed
    <2> QED BY <2>2, <2>4, FS_EmptySet DEF Walking, WalkShape
  <1>3. CASE NextPage
    <2>1. /\ query.op = "list" /\ Len(shown) = PageSize /\ stage = "idle" /\ walk' = walk
          /\ query' = [query EXCEPT !.offset = @ + PageSize]
          /\ rows' = rows /\ stage' = "begun"
      BY <1>3 DEF NextPage, Authenticate, tables
    <2>2. /\ query'.op = query.op /\ query'.actor = query.actor /\ query'.filter = query.filter
          /\ query'.offset = query.offset + PageSize
      <3>1. query \in [op     : {"none", "list", "get", "get_deleted", "events"},
                       actor  : Readers \cup {None},
                       ticket : TicketIds \cup {None},
                       filter : Filters \cup {None},
                       offset : Nat]
        BY DEF Reading, Asked
      <3> QED BY <2>1, <3>1
    <2>3. Matches' = Matches
      BY <2>1, <2>2 DEF Matches
    <2>4. Reached' = Reached /\ ~LastPage' /\ ~LastPage
      BY <2>1, <2>2, ReaderAssumption DEF Reached, LastPage
    <2>5. Missed' = Missed
      BY <2>1, <2>2, <2>3, <2>4 DEF Missed
    <2> QED BY <2>1, <2>2, <2>3, <2>5 DEF Walking, WalkShape, Walks
  <1>4. CASE BeginOne
    <2>1. query'.op # "list" /\ walk' = NoWalk
      BY <1>4 DEF BeginOne, Authenticate
    <2> QED BY <2>1 DEF Walking, Walks, WalkShape, NoWalk
  <1>5. CASE Count
    <2>1. /\ walk' = walk /\ query' = query /\ rows' = rows
          /\ stage = "begun" /\ stage' = "counted"
      BY <1>5 DEF Count, tables
    <2>2. Matches' = Matches
      BY <2>1 DEF Matches
    <2>3. Missed' = Missed
      BY <2>1, <2>2 DEF Missed, Reached, LastPage
    <2> QED BY <2>1, <2>2, <2>3 DEF Walking, WalkShape, Walks
  <1>6. CASE SelectPage
    BY <1>6, SelectPageKeepsWalking
  <1>7. CASE GetTicket \/ CheckTicket \/ ListEvents
    <2>1. query.op # "list" /\ query' = query /\ walk' = walk
      BY <1>7 DEF GetTicket, CheckTicket, ListEvents, Answer, Reading, Stages
    <2> QED BY <2>1 DEF Walking, Walks, WalkShape
  <1>8. CASE UNCHANGED vars
    <2>1. walk' = walk /\ query' = query /\ rows' = rows /\ stage' = stage /\ shown' = shown
      BY <1>8 DEF vars, tables, session
    <2>2. Matches' = Matches
      BY <2>1 DEF Matches
    <2>3. Missed' = Missed
      BY <2>1, <2>2 DEF Missed, Reached, LastPage
    <2> QED BY <2>1, <2>2, <2>3 DEF Walking, WalkShape, Walks
  <1> QED BY <1>1, <1>2, <1>3, <1>4, <1>5, <1>6, <1>7, <1>8 DEF Next

\* A client that asks for pages by created_at until one is not full has missed, of the tickets that
\* matched all the while, at most one for each that ceased to match.
THEOREM WalksMissFew == Spec => []WalksMissLittle
  <1>1. Init => Walking
    <2> SUFFICES ASSUME Init PROVE Walking
      OBVIOUS
    <2>1. walk = NoWalk /\ query = NoQuery
      BY DEF Init
    <2> QED BY <2>1 DEF Walking, Walks, WalkShape, NoWalk, NoQuery
  <1>2. Tables /\ Reading /\ Walking /\ [Next]_vars => Tables' /\ Reading' /\ Walking'
    BY ReadsKeepReading, WalkingKept
  <1>3. Walking => WalksMissLittle
    <2> SUFFICES ASSUME Walking, query.op = "list", query.filter.sort # "status",
                        stage = "idle", Len(shown) < PageSize
                 PROVE  Cardinality(walk.stayed \ walk.seen) <= walk.left
      BY DEF WalksMissLittle
    <2>1. Missed = walk.stayed \ walk.seen
      BY DEF Missed, LastPage
    <2> QED BY <2>1 DEF Walking, Walks
  <1> QED BY <1>1, <1>2, <1>3, ReadingInit, PTL DEF Spec
================================================================================
