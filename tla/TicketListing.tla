----------------------------- MODULE TicketListing -----------------------------
(***************************************************************************)
(* What a reader of tickets sees while others write: GET of one ticket, of  *)
(* its events, and of a list, page after page.                              *)
(*                                                                         *)
(* The writers are TicketLifecycle's, which Tickets implements: each commits *)
(* a row and its event in one step.  The reader is one client whose         *)
(* requests are served by several statements at READ COMMITTED, so others   *)
(* commit between them.                                                     *)
(*                                                                         *)
(* The session has an image of every ticket it has loaded, and a ticket it   *)
(* meets again is shown as that image.  It loads some with the user, whose   *)
(* relationships are eager: those the user reports, is assigned, or has left *)
(* an event or a comment on.                                                *)
(*                                                                         *)
(* A ticket id is its rank by created_at, which is when the creating         *)
(* transaction began; the creations commit in any order.                     *)
(***************************************************************************)
EXTENDS TicketModel, FiniteSets, SequencesExt

CONSTANTS
  Readers,     \* the users the client may read as
  Filters,     \* the lists it may ask for
  PageSize,    \* limit
  MaxCommits,  \* bound on the commits of a behaviour
  MaxReads     \* bound on the requests of the reader

ASSUME ReaderAssumption ==
  /\ TicketIds \subseteq Nat
  /\ Readers \subseteq Users
  /\ Filters \subseteq [status : Statuses \cup {None}, deleted : BOOLEAN,
                        sort : {"default", "created_at", "status"}]
  /\ PageSize \in 1 .. 100
  /\ MaxCommits \in Nat /\ MaxReads \in Nat

VARIABLES
  rows, audit, comments,  \* the tables
  commits,                \* counts the commits
  reads,                  \* counts the requests of the reader
  stage,                  \* "idle", "begun", "counted" or "found"
  query,                  \* the reader's request
  images,                 \* the images of the session
  total,                  \* the count of the list
  shown,                  \* the answer: ids and images, or the events
  began,                  \* the tickets table when the request began
  counted,                \* commits when the list was counted
  walk                    \* the pages since offset 0: what they showed, what has matched
                          \* all the while, and how many tickets have ceased to match

tables == <<rows, audit, comments>>
session == <<stage, query, images, total, shown, began, counted>>
vars == <<tables, commits, reads, session, walk>>

Writers == INSTANCE TicketLifecycle WITH rows <- rows, audit <- audit, comments <- comments

NoQuery == [op |-> "none", actor |-> None, ticket |-> None, filter |-> None, offset |-> 0]
NoWalk == [seen |-> {}, stayed |-> {}, left |-> 0]
NoImages == [t \in TicketIds |-> NoRow]

--------------------------------------------------------------------------------
\* The list: its conditions and its order.

\* Mutant: a USER lists everybody's tickets.
SelectsAnyReporter(u, f, row) ==
  /\ Exists(row)
  /\ ~f.deleted => ~row.deleted
  /\ f.status # None => row.status = f.status

\* repo.list_tickets, with the reporter_id list_tickets forces upon a USER.
Selects(u, f, row) ==
  /\ Exists(row)
  /\ ~f.deleted => ~row.deleted
  /\ f.status # None => row.status = f.status
  /\ ~IsAgentOrAdmin(u) => row.reporter = u

Matching(u, f, table) == {t \in TicketIds : Selects(u, f, table[t])}

\* The ticket_status enum in its order.
Rank(status) ==
  CASE status = "NEW" -> 1 [] status = "IN_PROGRESS" -> 2
    [] status = "DONE" -> 3 [] status = "CANCELED" -> 4

\* parse_sort, and created_at DESC in its absence.  Tickets of one status may come in
\* any order, and in another for the next page.
InOrder(f, table, s) ==
  \A i, j \in DOMAIN s : i < j =>
    CASE f.sort = "default"    -> s[i] > s[j]
      [] f.sort = "created_at" -> s[i] < s[j]
      [] f.sort = "status"     -> Rank(table[s[i]].status) <= Rank(table[s[j]].status)

Orders(u, f, table) == {s \in SetToSeqs(Matching(u, f, table)) : InOrder(f, table, s)}

\* Mutant: OFFSET counts from one.
PageOffByOne(s, offset) ==
  SubSeq(s, offset + 2, Min({offset + 1 + PageSize, Len(s)}))

\* LIMIT and OFFSET.
Page(s, offset) == SubSeq(s, offset + 1, Min({offset + PageSize, Len(s)}))

--------------------------------------------------------------------------------

Init ==
  /\ Writers!Init
  /\ commits = 0 /\ reads = 0
  /\ stage = "idle"
  /\ query = NoQuery
  /\ images = NoImages
  /\ total = 0
  /\ shown = <<>>
  /\ began = NoImages
  /\ counted = 0
  /\ walk = NoWalk

\* What the walk sees of a commit: the tickets that match from its start on, and
\* those that have ceased to.
Watch ==
  LET before == Matching(query.actor, query.filter, rows)
      after  == Matching(query.actor, query.filter, rows')
  IN walk' = IF query.op # "list" THEN walk
             ELSE [walk EXCEPT !.stayed = @ \cap after,
                               !.left   = @ + Cardinality(before \ after)]

Write ==
  /\ commits < MaxCommits
  /\ commits' = commits + 1
  /\ Writers!Next
  /\ Watch
  /\ UNCHANGED <<reads, session>>

\* Mutant: users come from a cache, with their tickets as they were created.
LoadedFromCache(u) ==
  [t \in TicketIds |-> IF rows[t].reporter = u THEN audit[t][1].new ELSE NoRow]

\* get_current_user: the user and its eager relationships.
LoadedWithUser(u) ==
  [t \in TicketIds |->
    IF \/ rows[t].reporter = u \/ rows[t].assignee = u
       \/ \E i \in DOMAIN audit[t] : audit[t][i].actor = u
       \/ \E i \in DOMAIN comments[t] : comments[t][i] = u
    THEN rows[t] ELSE NoRow]

\* A request begins: an authenticated session, with nothing to show yet.
Authenticate(q) ==
  /\ stage = "idle"
  /\ reads < MaxReads
  /\ reads' = reads + 1
  /\ query' = q
  /\ images' = LoadedWithUser(q.actor)
  /\ stage' = "begun"
  /\ shown' = <<>>
  /\ began' = rows
  /\ UNCHANGED <<tables, commits, total, counted>>

\* The client asks for the first page of a list; include_deleted takes an ADMIN.
BeginList ==
  \E u \in Readers, f \in Filters :
    /\ f.deleted => IsAdmin(u)
    /\ Authenticate([op |-> "list", actor |-> u, ticket |-> None, filter |-> f, offset |-> 0])
    /\ walk' = [seen |-> {}, stayed |-> Matching(u, f, rows), left |-> 0]

\* ... or for the next one, after a page that was full.
NextPage ==
  /\ query.op = "list"
  /\ Len(shown) = PageSize
  /\ Authenticate([query EXCEPT !.offset = @ + PageSize])
  /\ UNCHANGED walk

\* The client asks for a ticket it knows of, or for its events (or its comments, which
\* are read in the same way).
BeginOne ==
  \E u \in Readers, t \in TicketIds, op \in {"get", "get_deleted", "events"} :
    /\ Exists(rows[t])
    /\ op = "get_deleted" => IsAdmin(u)
    /\ Authenticate([op |-> op, actor |-> u, ticket |-> t, filter |-> None, offset |-> 0])
    /\ walk' = NoWalk

\* Mutant: the count has not been told the conditions.
CountAll ==
  /\ stage = "begun" /\ query.op = "list"
  /\ total' = Cardinality({t \in TicketIds : Exists(rows[t])})
  /\ counted' = commits
  /\ stage' = "counted"
  /\ UNCHANGED <<tables, commits, reads, query, images, shown, began, walk>>

Count ==
  /\ stage = "begun" /\ query.op = "list"
  /\ total' = Cardinality(Matching(query.actor, query.filter, rows))
  /\ counted' = commits
  /\ stage' = "counted"
  /\ UNCHANGED <<tables, commits, reads, query, images, shown, began, walk>>

Image(t) == IF Exists(images[t]) THEN images[t] ELSE rows[t]

Item(t) == [id |-> t, row |-> Image(t)]

\* The answer; the session is closed and its images are gone.
Answer(answer) ==
  /\ shown' = answer
  /\ stage' = "idle"
  /\ images' = NoImages
  /\ total' = 0
  /\ began' = NoImages
  /\ counted' = 0
  /\ UNCHANGED <<tables, commits, reads, query>>

SelectPage ==
  /\ stage = "counted"
  /\ \E s \in Orders(query.actor, query.filter, rows) :
       LET page == Page(s, query.offset) IN
       /\ Answer([i \in DOMAIN page |-> Item(page[i])])
       /\ walk' = [walk EXCEPT !.seen = @ \cup ToSet(page)]

\* get_ticket, where even an ADMIN must ask for what is deleted.
GetTicket ==
  LET t == query.ticket IN
  /\ stage = "begun" /\ query.op \in {"get", "get_deleted"}
  /\ IF /\ Image(t).deleted => query.op = "get_deleted"
        /\ CanAccess(query.actor, Image(t))
     THEN Answer(<<Item(t)>>) ELSE Answer(<<>>)
  /\ UNCHANGED walk

\* list_events and list_comments check the ticket first ...
CheckTicket ==
  LET t == query.ticket IN
  /\ stage = "begun" /\ query.op = "events"
  /\ \/ /\ ~Found(query.actor, Image(t))
        /\ Answer(<<>>)
     \/ /\ Found(query.actor, Image(t))
        /\ stage' = "found"
        /\ images' = [images EXCEPT ![t] = Image(t)]
        /\ UNCHANGED <<tables, commits, reads, query, total, shown, began, counted>>
  /\ UNCHANGED walk

\* repo.list_events.  (Tickets says in which order they are listed.)
EventsOf(t) == audit[t]

ListEvents ==
  /\ stage = "found"
  /\ Answer(EventsOf(query.ticket))
  /\ UNCHANGED walk

Next ==
  \/ Write
  \/ BeginList \/ NextPage \/ BeginOne
  \/ Count \/ SelectPage
  \/ GetTicket
  \/ CheckTicket \/ ListEvents

Spec == Init /\ [][Next]_vars

--------------------------------------------------------------------------------

TypeOK ==
  /\ Writers!TypeOK
  /\ commits \in 0 .. MaxCommits /\ reads \in 0 .. MaxReads
  /\ stage \in {"idle", "begun", "counted", "found"}
  /\ query \in [op     : {"none", "list", "get", "get_deleted", "events"},
               actor  : Readers \cup {None},
               ticket : TicketIds \cup {None},
               filter : Filters \cup {None},
               offset : Nat]
  /\ images \in [TicketIds -> Row]
  /\ stage = "idle" => images = NoImages
  /\ total \in 0 .. Cardinality(TicketIds)
  /\ began \in [TicketIds -> Row]
  /\ counted \in 0 .. commits
  /\ walk \in [seen : SUBSET TicketIds, stayed : SUBSET TicketIds, left : Nat]

--------------------------------------------------------------------------------

Answering == stage # "idle" /\ stage' = "idle"

\* A ticket is answered as it was at some moment of the request: never older than the
\* request, whatever the session had loaded, and never anything but a committed row.
\* The events that are listed explain the row that was checked for them.
AnswersAreRecent ==
  [][/\ Answering /\ query.op # "events" =>
          \A i \in DOMAIN shown' :
            LET x == shown'[i] IN
            /\ x.row.version >= began[x.id].version
            /\ \E j \in DOMAIN audit[x.id] :
                 audit[x.id][j].type \in ChangeTypes /\ audit[x.id][j].new = x.row
     /\ stage = "found" /\ stage' = "idle" =>
          \E i \in DOMAIN shown' :
            shown'[i].type \in ChangeTypes /\ shown'[i].new = images[query.ticket]]_vars

\* A USER is answered tickets of its own, and nobody but an ADMIN who asks for them is
\* answered one that was deleted before the request, or is shown as deleted.
AnswersAreVisible ==
  [][Answering /\ query.op # "events" =>
       \A i \in DOMAIN shown' :
         LET x == shown'[i] IN
         /\ CanAccess(query.actor, x.row)
         /\ x.row.deleted \/ began[x.id].deleted =>
              /\ IsAdmin(query.actor)
              /\ query.op = "list" => query.filter.deleted
              /\ query.op # "get"]_vars

\* The page agrees with the total but for the commits between the two statements.
PageFitsTotal ==
  [][Answering /\ query.op = "list" =>
       LET rest     == IF total > query.offset THEN total - query.offset ELSE 0
           expected == IF rest < PageSize THEN rest ELSE PageSize
       IN /\ Len(shown') <= expected + (commits - counted)
          /\ expected <= Len(shown') + (commits - counted)]_vars

\* A client that asks for pages in an order by created_at until one is not full sees
\* every ticket that has matched from the first page on, but for at most one for each
\* that has ceased to match: tickets that come, late creations included, hide nothing.
\* It is not said of the other orders: by status there are ties, and by updated_at,
\* which is not modelled, a ticket that is changed moves to another page.
WalksMissLittle ==
  query.op = "list" /\ query.filter.sort # "status" /\ stage = "idle" /\ Len(shown) < PageSize
    => Cardinality(walk.stayed \ walk.seen) <= walk.left
================================================================================
