----------------------------- MODULE ConnectionPool -----------------------------
(***************************************************************************)
(* What requests wait for: a connection of the pool of their process        *)
(* (db/engine.py), the row locks of PostgreSQL, and Redis.                  *)
(*                                                                         *)
(* A session takes a connection with the first statement of a transaction  *)
(* and gives it back at the commit; db.refresh then begins another.  The   *)
(* query of get_current_user opens the transaction of every authenticated  *)
(* request, so whatever the endpoint awaits after it, Redis included, it   *)
(* awaits with the connection held.                                        *)
(*                                                                         *)
(* A request is the sequence of what its endpoint awaits:                  *)
(*   "sql"     a statement that waits for no other session                 *)
(*   "lock"    an UPDATE of a shared row, or an INSERT of a unique address  *)
(*   "commit"  the COMMIT, with whatever is still to be flushed            *)
(*   "redis"   a command of redis_client, which has no timeout             *)
(***************************************************************************)
EXTENDS Naturals, Sequences, FiniteSets

CONSTANTS
  Instances,  \* the processes of the service
  Capacity,   \* connections of a process: pool_size and max_overflow of the engine
  Rows,       \* rows and addresses two requests may want
  Requests,   \* the requests of a behaviour
  Endpoints   \* the endpoints it calls

ASSUME ParametersAssumption ==
  /\ Capacity \in Nat \ {0}
  /\ IsFiniteSet(Requests)
  /\ Endpoints \subseteq {"read", "write", "delete", "create", "keyed_create", "login",
                          "register", "rotate", "logout", "readyz"}

VARIABLES
  redis,     \* whether Redis answers or hangs
  stage,     \* "new", "running" or "answered"
  endpoint,  \* what the request calls, in which process, on which row
  todo,      \* what it still has to await
  tx,        \* whether its session is in a transaction
  held,      \* how many connections it holds
  owner      \* the request whose transaction has locked a row

vars == <<redis, stage, endpoint, todo, tx, held, owner>>

nobody == "nobody"
NoCall == [name |-> "none", home |-> "none", row |-> "none"]

\* Mutant: a write tells Redis before it commits.
WriteAnnounced == <<"sql", "lock", "redis", "sql", "commit", "sql">>

\* update_ticket and transition_ticket: the user, the row and the flush of its UPDATE,
\* the event, the commit, the refresh.
Write == <<"sql", "lock", "sql", "commit", "sql">>

Delete == <<"sql", "lock", "sql", "commit">>
Create == <<"sql", "commit", "sql">>
KeyedCreate == <<"sql", "redis">> \o Create \o <<"redis">>
Login == <<"redis", "redis", "sql", "commit">>
Register == <<"redis", "sql", "lock", "commit", "sql">>
Rotate == <<"sql", "lock", "commit", "sql", "commit">>
Logout == <<"sql", "lock", "commit">>

Awaits(name) ==
  CASE name = "read"         -> <<"sql">>
    [] name = "write"        -> Write
    [] name = "delete"       -> Delete
    [] name = "create"       -> Create
    [] name = "keyed_create" -> KeyedCreate
    [] name = "login"        -> Login
    [] name = "register"     -> Register
    [] name = "rotate"       -> Rotate
    [] name = "logout"       -> Logout
    [] name = "readyz"       -> <<"sql", "redis">>

Running(r) == stage[r] = "running"
At(r, op) == Running(r) /\ todo[r] # <<>> /\ Head(todo[r]) = op

Callers(i) == {r \in Requests : endpoint[r].home = i}

\* The connections a process has lent, each as the request that has it and a number.
InUse(i) == Cardinality(UNION {{r} \X (1 .. held[r]) : r \in Callers(i)})
Free(r) == InUse(endpoint[r].home) < Capacity

--------------------------------------------------------------------------------

Init ==
  /\ redis = "up"
  /\ stage = [r \in Requests |-> "new"]
  /\ endpoint = [r \in Requests |-> NoCall]
  /\ todo = [r \in Requests |-> <<>>]
  /\ tx = [r \in Requests |-> FALSE]
  /\ held = [r \in Requests |-> 0]
  /\ owner = [w \in Rows |-> nobody]

Begin(r) ==
  /\ stage[r] = "new"
  /\ stage' = [stage EXCEPT ![r] = "running"]
  /\ \E name \in Endpoints, i \in Instances, w \in Rows :
       /\ endpoint' = [endpoint EXCEPT ![r] = [name |-> name, home |-> i, row |-> w]]
       /\ todo' = [todo EXCEPT ![r] = Awaits(name)]
  /\ UNCHANGED <<redis, tx, held, owner>>

Done(r) == todo' = [todo EXCEPT ![r] = Tail(@)]

Unlocked(r) == [w \in Rows |-> IF owner[w] = r THEN nobody ELSE owner[w]]

\* A statement, with a connection of the pool if none is held yet.
Sql(r) ==
  /\ At(r, "sql")
  /\ \/ tx[r] /\ UNCHANGED <<tx, held>>
     \/ /\ ~tx[r] /\ Free(r)
        /\ tx' = [tx EXCEPT ![r] = TRUE]
        /\ held' = [held EXCEPT ![r] = @ + 1]
  /\ Done(r)
  /\ UNCHANGED <<redis, stage, endpoint, owner>>

\* It waits for the transaction that has the row.
Lock(r) ==
  /\ At(r, "lock")
  /\ owner[endpoint[r].row] = nobody
  /\ owner' = [owner EXCEPT ![endpoint[r].row] = r]
  /\ Done(r)
  /\ UNCHANGED <<redis, stage, endpoint, tx, held>>

\* Mutant: the refresh is done by a second session, while the first is still open.
CommitSecondSession(r) ==
  /\ At(r, "commit")
  /\ tx' = [tx EXCEPT ![r] = FALSE]
  /\ owner' = Unlocked(r)
  /\ Done(r)
  /\ UNCHANGED <<redis, stage, endpoint, held>>

Commit(r) ==
  /\ At(r, "commit")
  /\ tx' = [tx EXCEPT ![r] = FALSE]
  /\ held' = [held EXCEPT ![r] = 0]
  /\ owner' = Unlocked(r)
  /\ Done(r)
  /\ UNCHANGED <<redis, stage, endpoint>>

Redis(r) ==
  /\ At(r, "redis")
  /\ redis = "up"
  /\ Done(r)
  /\ UNCHANGED <<redis, stage, endpoint, tx, held, owner>>

\* The answer; get_db closes the session, which rolls back what is open.
Answer(r) ==
  /\ stage' = [stage EXCEPT ![r] = "answered"]
  /\ endpoint' = [endpoint EXCEPT ![r] = NoCall]
  /\ todo' = [todo EXCEPT ![r] = <<>>]
  /\ tx' = [tx EXCEPT ![r] = FALSE]
  /\ held' = [held EXCEPT ![r] = 0]
  /\ owner' = Unlocked(r)
  /\ UNCHANGED redis

Finish(r) == Running(r) /\ todo[r] = <<>> /\ Answer(r)

\* An early return, an exception, or a statement the server ends.
GiveUp(r) == Running(r) /\ todo[r] # <<>> /\ Answer(r)

\* Mutant: the engine waits for a connection as long as it takes.
WaitForever(r) == FALSE /\ UNCHANGED vars

\* QueuePool waits pool_timeout for a connection and raises; readyz catches it.
PoolTimeout(r) ==
  /\ At(r, "sql") /\ ~tx[r] /\ ~Free(r)
  /\ \/ endpoint[r].name # "readyz" /\ Answer(r)
     \/ /\ endpoint[r].name = "readyz"
        /\ Done(r)
        /\ UNCHANGED <<redis, stage, endpoint, tx, held, owner>>

Hang ==
  /\ redis = "up"
  /\ redis' = "hung"
  /\ UNCHANGED <<stage, endpoint, todo, tx, held, owner>>

Recover ==
  /\ redis = "hung"
  /\ redis' = "up"
  /\ UNCHANGED <<stage, endpoint, todo, tx, held, owner>>

Progress(r) == Sql(r) \/ Lock(r) \/ Commit(r) \/ Redis(r) \/ Finish(r)

Next ==
  \/ \E r \in Requests : Begin(r) \/ Progress(r) \/ GiveUp(r) \/ PoolTimeout(r)
  \/ Hang \/ Recover

Spec == Init /\ [][Next]_vars

\* What is possible happens: the event loop runs every task that can go on, PostgreSQL
\* grants a free lock.
Served == \A r \in Requests : WF_vars(Progress(r))

\* As if a request waited for a connection as long as it takes.
PatientSpec == Spec /\ Served

\* The pool raises after pool_timeout.
PoolGivesUp == \A r \in Requests : WF_vars(PoolTimeout(r))

--------------------------------------------------------------------------------

TypeOK ==
  /\ redis \in {"up", "hung"}
  /\ stage \in [Requests -> {"new", "running", "answered"}]
  /\ endpoint \in [Requests -> [name : Endpoints, home : Instances, row : Rows] \cup {NoCall}]
  /\ \A r \in Requests : Running(r) <=> endpoint[r] # NoCall
  /\ todo \in [Requests -> Seq({"sql", "lock", "commit", "redis"})]
  /\ tx \in [Requests -> BOOLEAN]
  /\ held = [r \in Requests |-> IF tx[r] THEN 1 ELSE 0]
  /\ \A i \in Instances : InUse(i) <= Capacity
  /\ owner \in [Rows -> Requests \cup {nobody}]

--------------------------------------------------------------------------------

\* The next step of a request waits for nobody.
CanMove(r) ==
  \/ At(r, "sql") /\ (tx[r] \/ Free(r))
  \/ At(r, "lock") /\ owner[endpoint[r].row] = nobody
  \/ At(r, "commit")
  \/ At(r, "redis") /\ redis = "up"
  \/ Running(r) /\ todo[r] = <<>>

\* Whoever has locked a row waits for nothing, neither for the pool nor for another row
\* nor for a Redis that hangs: a lock is held for statements of its own only.
LockHoldersMove ==
  \A w \in Rows : owner[w] # nobody => CanMove(owner[w])

\* There is no deadlock over connections, rows and processes.  While Redis answers, a
\* request that waits for a row waits for one that moves, and a request that waits for
\* the pool waits for a connection whose holder moves or waits for such a row.
WaitsAreShort ==
  redis = "up" =>
    \A r \in Requests : Running(r) =>
      \/ CanMove(r)
      \/ At(r, "lock") /\ CanMove(owner[endpoint[r].row])
      \/ \E q \in Requests :
           /\ held[q] > 0 /\ endpoint[q].home = endpoint[r].home
           /\ CanMove(q) \/ (At(q, "lock") /\ CanMove(owner[endpoint[q].row]))

Plain(r) == \A k \in DOMAIN todo[r] : todo[r][k] # "redis"

\* Because the pool gives up, a request that does not use Redis is answered although
\* Redis hangs, with connections and all, for ever.
PlainRequestsAnswered ==
  PoolGivesUp => \A r \in Requests : Running(r) /\ Plain(r) ~> stage[r] = "answered"

\* If Redis answers from some time on, every request is answered, and none needs the
\* timeout of the pool for that.
EveryoneAnswered ==
  <>[](redis = "up") => \A r \in Requests : Running(r) ~> stage[r] = "answered"
================================================================================
