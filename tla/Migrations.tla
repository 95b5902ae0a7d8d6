------------------------------- MODULE Migrations -------------------------------
(***************************************************************************)
(* The schema: alembic's runs over the three revisions (alembic/versions,    *)
(* alembic/env.py), and the start of the service on whatever they have left.  *)
(*                                                                         *)
(* A run reads the revision of the database and executes, in one             *)
(* transaction, the statements of every revision on the way to its target,   *)
(* with a change of the alembic_version row after each.  PostgreSQL's DDL is  *)
(* transactional and locks what it touches, so runs wait for each other, and   *)
(* the one that notices that it has come too late is rolled back.            *)
(*                                                                         *)
(* db is the set of what there is: types, tables, the tags column, and the    *)
(* rows of alembic_version.  Other columns and the indexes are parts of        *)
(* their tables, of which every revision creates and drops all.  The first    *)
(* statement, CREATE EXTENSION IF NOT EXISTS pgcrypto, is left out: nothing    *)
(* drops the extension, and of two runs that make it one is refused, as it    *)
(* would be at the type user_role, which is created next.                    *)
(***************************************************************************)
EXTENDS Naturals, Sequences

CONSTANTS
  Runs,      \* alembic processes that may overlap
  MaxRuns    \* bound on the runs of a behaviour

ASSUME MaxRunsAssumption == MaxRuns \in Nat

VARIABLES
  db,        \* what is committed
  stage,     \* each run: "off", "running", "done", "refused" (by a statement) or "killed"
  todo,      \* the statements it still has to execute
  made,      \* what its transaction has created
  gone,      \* ... and dropped
  alone,     \* whether no other run has been under way since it began
  owner,     \* the run whose transaction has locked a thing: a set of one, or none
  runs,      \* counts the runs
  admin,     \* whether users has the row of the admin
  service    \* "off", "found", "up" or "failed"

transaction == <<stage, todo, made, gone, owner>>
mvars == <<db, transaction, alone, runs, admin, service>>

Revisions == <<"d5e3d822f9c2", "743810191430", "53820a15a21c">>
Latest == 3
Versions == {Revisions[k] : k \in 1 .. Latest}
Types == {"user_role", "ticket_status", "ticket_priority"}
Tables == {"alembic_version", "users", "tickets", "ticket_comments", "ticket_events",
           "refresh_tokens"}
Things == Types \cup Tables \cup {"tags"} \cup Versions

\* What a thing stands on: it cannot be created without it.
References(x) ==
  CASE x = "users"                               -> {"user_role"}
    [] x = "tickets"                             -> {"users", "ticket_status", "ticket_priority"}
    [] x \in {"ticket_comments", "ticket_events"} -> {"tickets", "users"}
    [] x = "refresh_tokens"                      -> {"users"}
    [] x = "tags"                                -> {"tickets"}
    [] x \in Versions                            -> {"alembic_version"}
    [] OTHER                                     -> {}

--------------------------------------------------------------------------------
\* The revisions.

Create(x) == [off |-> {}, on |-> {x}]
Drop(x) == [off |-> {x}, on |-> {}]
Creating(s) == [i \in DOMAIN s |-> Create(s[i])]
Dropping(s) == [i \in DOMAIN s |-> Drop(s[i])]

\* Mutant: the users are dropped before what refers to them.
InitModelsUsersFirst ==
  [upgrade   |-> Creating(<<"user_role", "users", "ticket_status", "ticket_priority", "tickets",
                            "ticket_comments", "ticket_events">>),
   downgrade |-> Dropping(<<"ticket_events", "ticket_comments", "users", "tickets">>)]

\* create_table creates the enum types of its columns first; drop_table is not told of
\* any columns, and drops no types.
InitModels ==
  [upgrade   |-> Creating(<<"user_role", "users", "ticket_status", "ticket_priority", "tickets",
                            "ticket_comments", "ticket_events">>),
   downgrade |-> Dropping(<<"ticket_events", "ticket_comments", "tickets", "users">>)]

\* Mutant: the tokens survive the downgrade.
RefreshTokensKept ==
  [upgrade |-> Creating(<<"refresh_tokens">>), downgrade |-> <<>>]

RefreshTokens ==
  [upgrade |-> Creating(<<"refresh_tokens">>), downgrade |-> Dropping(<<"refresh_tokens">>)]

\* Mutant: the column of the models has no migration.
TicketTagsForgotten ==
  [upgrade |-> <<>>, downgrade |-> <<>>]

TicketTags ==
  [upgrade |-> Creating(<<"tags">>), downgrade |-> Dropping(<<"tags">>)]

Migration == <<InitModels, RefreshTokens, TicketTags>>

\* alembic inserts, updates or deletes the row of alembic_version, and counts it.
Move(from, to) ==
  <<[off |-> IF from = 0 THEN {} ELSE {Revisions[from]},
     on  |-> IF to = 0 THEN {} ELSE {Revisions[to]}]>>

At(k) == db \cap Versions = IF k = 0 THEN {} ELSE {Revisions[k]}

Up(k, target, j) ==
  IF k < j /\ j <= target THEN Migration[j].upgrade \o Move(j - 1, j) ELSE <<>>

Down(k, target, j) ==
  IF target < j /\ j <= k THEN Migration[j].downgrade \o Move(j, j - 1) ELSE <<>>

\* The statements from revision k to target, the table alembic_version included.
Plan(k, target) ==
  (IF "alembic_version" \in db THEN <<>> ELSE <<Create("alembic_version")>>)
    \o (Up(k, target, 1) \o (Up(k, target, 2) \o Up(k, target, 3)))
    \o (Down(k, target, 3) \o (Down(k, target, 2) \o Down(k, target, 1)))

--------------------------------------------------------------------------------

\* Named with an M because AccountsProofs extends Accounts beside this module.
MInit ==
  /\ db = {}
  /\ stage = [p \in Runs |-> "off"]
  /\ todo = [p \in Runs |-> <<>>]
  /\ made = [p \in Runs |-> {}] /\ gone = [p \in Runs |-> {}]
  /\ alone = [p \in Runs |-> TRUE]
  /\ owner = [x \in Things |-> {}]
  /\ runs = 0
  /\ admin = FALSE
  /\ service = "off"

Running(p) == stage[p] = "running"

\* alembic upgrade or downgrade to a revision: the revision of the database is read.
BeginRun(p) ==
  /\ ~Running(p) /\ runs < MaxRuns
  /\ runs' = runs + 1
  /\ \E k, target \in 0 .. Latest :
       /\ At(k)
       /\ todo' = [todo EXCEPT ![p] = Plan(k, target)]
  /\ stage' = [stage EXCEPT ![p] = "running"]
  /\ alone' = [q \in Runs |-> IF q = p THEN \A r \in Runs : ~Running(r)
                              ELSE alone[q] /\ ~Running(q)]
  /\ UNCHANGED <<db, made, gone, owner, admin, service>>

--------------------------------------------------------------------------------
\* A statement, as PostgreSQL executes it.

Pending(p) == Running(p) /\ todo[p] # <<>>
Visible(p) == (db \ gone[p]) \cup made[p]

\* The things a statement locks until the end of its transaction: creating or dropping
\* what refers to a table locks that table too.
Locks(s) ==
  LET touched == s.off \cup s.on
  IN touched \cup {x \in Tables : x # "alembic_version" /\ \E y \in touched : x \in References(y)}

Blockers(p) ==
  IF Pending(p) THEN (UNION {owner[x] : x \in Locks(Head(todo[p]))}) \ {p} ELSE {}

\* DROP TABLE drops its columns.
Dropped(s) == s.off \cup IF "tickets" \in s.off THEN {"tags"} ELSE {}

\* What it drops is there and nothing else refers to it; what it creates is not there,
\* but what that refers to is.
Possible(p, s) ==
  /\ s.off \subseteq Visible(p)
  /\ \A x \in Visible(p) \ Dropped(s) : References(x) \cap s.off = {}
  /\ s.on \cap Visible(p) = {}
  /\ \A x \in s.on : References(x) \subseteq Visible(p)

Execute(p) ==
  LET s == Head(todo[p]) IN
  /\ Pending(p) /\ Blockers(p) = {}
  /\ Possible(p, s)
  /\ made' = [made EXCEPT ![p] = (@ \ Dropped(s)) \cup s.on]
  /\ gone' = [gone EXCEPT ![p] = (@ \cup Dropped(s)) \ s.on]
  /\ owner' = [x \in Things |-> IF x \in Locks(s) THEN {p} ELSE owner[x]]
  /\ todo' = [todo EXCEPT ![p] = Tail(@)]
  /\ UNCHANGED <<db, stage, alone, runs, admin, service>>

\* Mutant: the connection of a run that has failed is not closed.
EndUnclosed(p, outcome) ==
  /\ stage' = [stage EXCEPT ![p] = outcome]
  /\ todo' = [todo EXCEPT ![p] = <<>>]
  /\ made' = [made EXCEPT ![p] = {}] /\ gone' = [gone EXCEPT ![p] = {}]
  /\ owner' = IF outcome = "refused" THEN owner
              ELSE [x \in Things |-> owner[x] \ {p}]

\* The transaction ends, and with it its locks.
End(p, outcome) ==
  /\ stage' = [stage EXCEPT ![p] = outcome]
  /\ todo' = [todo EXCEPT ![p] = <<>>]
  /\ made' = [made EXCEPT ![p] = {}] /\ gone' = [gone EXCEPT ![p] = {}]
  /\ owner' = [x \in Things |-> owner[x] \ {p}]

Rollback(p, outcome) ==
  /\ End(p, outcome)
  /\ UNCHANGED <<db, alone, runs, admin, service>>

\* A statement that fails, or a change of alembic_version that finds no row, ends the
\* run.  Nobody waits for what would have to give way to a thing that is there already.
Refuse(p) ==
  LET s == Head(todo[p]) IN
  /\ Pending(p)
  /\ \/ Blockers(p) = {} /\ ~Possible(p, s)
     \/ s.on \cap Visible(p) # {}
  /\ Rollback(p, "refused")

\* PostgreSQL finds runs that wait for each other and ends one of them.
Victim(p) ==
  /\ \E D \in SUBSET Runs :
       /\ p \in D
       /\ \A q \in D : Blockers(q) \cap D # {} /\ \E r \in D : q \in Blockers(r)
  /\ Rollback(p, "refused")

Kill(p) == Running(p) /\ Rollback(p, "killed")

\* context.begin_transaction() has been left; a dropped table takes its rows along.
Commit(p) ==
  /\ Running(p) /\ todo[p] = <<>>
  /\ db' = Visible(p)
  /\ admin' = (admin /\ "users" \notin gone[p])
  /\ End(p, "done")
  /\ UNCHANGED <<alone, runs, service>>

--------------------------------------------------------------------------------
\* The start of the service, for its first seed.  (Accounts has the others.)

\* What the mapped classes select.
Mapped == (Tables \ {"alembic_version"}) \cup {"tags"}

\* to_regclass('public.users'): without the table, the seed is passed over.
LookForUsers ==
  /\ service \in {"off", "failed"}
  /\ service' = IF "users" \in db THEN "found" ELSE "up"
  /\ UNCHANGED <<db, transaction, alone, runs, admin>>

\* The account is selected and, when it is there, so are its eager relationships, which
\* go through every mapped table; else it is inserted.
SeedAdmin ==
  /\ service = "found"
  /\ \/ /\ "users" \in db /\ (admin => Mapped \subseteq db)
        /\ service' = "up"
        /\ admin' = TRUE
     \/ /\ "users" \notin db \/ (admin /\ ~(Mapped \subseteq db))
        /\ service' = "failed"
        /\ UNCHANGED admin
  /\ UNCHANGED <<db, transaction, alone, runs>>

StopService ==
  /\ service = "up"
  /\ service' = "off"
  /\ UNCHANGED <<db, transaction, alone, runs, admin>>

--------------------------------------------------------------------------------

Progress(p) == Execute(p) \/ Refuse(p) \/ Victim(p) \/ Commit(p)

MNext ==
  \/ \E p \in Runs : BeginRun(p) \/ Progress(p) \/ Kill(p)
  \/ LookForUsers \/ SeedAdmin \/ StopService

MSpec == MInit /\ [][MNext]_mvars

\* A statement that can be executed is, and PostgreSQL looks for deadlocks.
MFairSpec == MSpec /\ \A p \in Runs : WF_mvars(Progress(p))

--------------------------------------------------------------------------------

Statements == [off : SUBSET Things, on : SUBSET Things]

MTypeOK ==
  /\ db \subseteq Things
  /\ stage \in [Runs -> {"off", "running", "done", "refused", "killed"}]
  /\ \A p \in Runs :
       /\ \A i \in DOMAIN todo[p] : todo[p][i] \in Statements
       /\ made[p] \subseteq Things /\ gone[p] \subseteq Things /\ made[p] \cap gone[p] = {}
       /\ made[p] \cup gone[p] \subseteq {x \in Things : owner[x] = {p}} \cup {"tags"}
  /\ owner \in [Things -> {{}} \cup {{p} : p \in Runs}]
  /\ \A x \in Things : \A p \in owner[x] : Running(p)
  /\ alone \in [Runs -> BOOLEAN]
  /\ runs \in 0 .. MaxRuns
  /\ admin \in BOOLEAN
  /\ service \in {"off", "found", "up", "failed"}

--------------------------------------------------------------------------------

\* What each revision is meant to leave, by the models of its day.
Schema(k) ==
  IF k = 0 THEN {}
  ELSE {"users", "tickets", "ticket_comments", "ticket_events"}
         \cup (IF k >= 2 THEN {"refresh_tokens"} ELSE {})
         \cup (IF k >= 3 THEN {"tags"} ELSE {})

\* The database always has one revision and is what that revision says, however runs
\* overlap, wait for each other, come too late or die: not a table of another one is
\* there, and no type is missing.
SchemaMatchesRevision ==
  \E k \in 0 .. Latest :
    /\ At(k)
    /\ db \cap Mapped = Schema(k)
    /\ k > 0 => Types \subseteq db

\* A run that nobody has disturbed is refused only where an earlier downgrade has left
\* its types behind.
RefusedOnlyByLeftovers ==
  [][\A p \in Runs : Running(p) /\ stage'[p] = "refused" /\ alone[p] =>
       At(0) /\ db \cap Types # {}]_mvars

\* The service may be started before, between and after migrations; its start fails
\* for the sake of the schema only while the database is not at the latest revision.
StartFailsOnlyBehind ==
  [][service = "found" /\ service' = "failed" => ~At(Latest)]_mvars

\* Every run comes to an end, those that wait for each other included.
RunsEnd == \A p \in Runs : Running(p) ~> ~Running(p)
================================================================================
