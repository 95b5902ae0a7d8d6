--------------------------- MODULE ConnectionPoolProofs ---------------------------
(***************************************************************************)
(* Proofs about ConnectionPool, for any number of processes, connections,   *)
(* rows and requests: whoever has locked a row waits for nothing, and so    *)
(* no request waits for one that waits for it.                              *)
(***************************************************************************)
EXTENDS ConnectionPool, FiniteSetTheorems, TLAPS

--------------------------------------------------------------------------------
\* The endpoints, as sequences.  All that the proofs need to know of them is Shape.

Ops == {"sql", "lock", "commit", "redis"}

\* From place k on, nothing but statements comes before a commit.
CommitAhead(s, k) ==
  \E m \in DOMAIN s : m >= k /\ s[m] = "commit" /\ \A j \in k .. m - 1 : s[j] = "sql"

\* A transaction is open at place k, if t says whether one is now.
Opened(s, k, t) ==
  \/ t /\ \A j \in 1 .. k - 1 : s[j] # "commit"
  \/ \E m \in 1 .. k - 1 : s[m] = "sql" /\ \A j \in m + 1 .. k - 1 : s[j] # "commit"

\* A row is locked in a transaction, which goes on to its commit with statements only.
Shape(s, t) ==
  \A k \in DOMAIN s : s[k] = "lock" => CommitAhead(s, k + 1) /\ Opened(s, k, t)

NoLock(s) == \A k \in DOMAIN s : s[k] # "lock"

\* Whether a transaction is open after op.
After(op, t) == op = "sql" \/ (t /\ op # "commit")

LEMMA TailFacts ==
  ASSUME NEW s \in Seq(Ops), s # <<>>
  PROVE  /\ Len(s) \in Nat /\ Len(s) >= 1 /\ DOMAIN s = 1 .. Len(s)
         /\ Head(s) = s[1] /\ Head(s) \in Ops /\ Tail(s) \in Seq(Ops)
         /\ DOMAIN Tail(s) = 1 .. Len(s) - 1
         /\ \A k \in 1 .. Len(s) - 1 : Tail(s)[k] = s[k + 1]
  OBVIOUS

LEMMA CommitComes ==
  ASSUME NEW s \in Seq(Ops), s # <<>>, NEW k \in Nat, CommitAhead(s, k + 1),
         k = 0 => Head(s) # "commit"
  PROVE  CommitAhead(Tail(s), IF k = 0 THEN 1 ELSE k)
  <1>1. PICK m \in DOMAIN s : m >= k + 1 /\ s[m] = "commit" /\ \A j \in k + 1 .. m - 1 : s[j] = "sql"
    BY DEF CommitAhead
  <1>2. /\ Len(s) \in Nat /\ DOMAIN s = 1 .. Len(s) /\ Head(s) = s[1]
        /\ DOMAIN Tail(s) = 1 .. Len(s) - 1
        /\ \A j \in 1 .. Len(s) - 1 : Tail(s)[j] = s[j + 1]
    BY TailFacts
  <1> DEFINE l == IF k = 0 THEN 1 ELSE k
             n == m - 1
  <1>3. m > 1 /\ m \in Nat
    BY <1>1, <1>2
  <1>4. n \in DOMAIN Tail(s) /\ n >= l /\ Tail(s)[n] = "commit"
    BY <1>1, <1>2, <1>3
  <1>5. \A j \in l .. n - 1 : Tail(s)[j] = "sql"
    BY <1>1, <1>2, <1>3
  <1> HIDE DEF l, n
  <1>6. CommitAhead(Tail(s), l)
    BY <1>4, <1>5 DEF CommitAhead
  <1> QED BY <1>6 DEF l

\* What is left of a sequence keeps its shape.
LEMMA TailShape ==
  ASSUME NEW s \in Seq(Ops), s # <<>>, NEW t \in BOOLEAN, Shape(s, t)
  PROVE  Shape(Tail(s), After(Head(s), t))
  <1>1. /\ Len(s) \in Nat /\ DOMAIN s = 1 .. Len(s) /\ Head(s) = s[1]
        /\ DOMAIN Tail(s) = 1 .. Len(s) - 1
        /\ \A j \in 1 .. Len(s) - 1 : Tail(s)[j] = s[j + 1]
    BY TailFacts
  <1> SUFFICES ASSUME NEW k \in DOMAIN Tail(s), Tail(s)[k] = "lock"
               PROVE  CommitAhead(Tail(s), k + 1) /\ Opened(Tail(s), k, After(Head(s), t))
    BY DEF Shape
  <1>2. k \in Nat /\ k + 1 \in DOMAIN s /\ s[k + 1] = "lock" /\ k >= 1
    BY <1>1
  <1>3. CommitAhead(s, k + 2) /\ Opened(s, k + 1, t)
    <2>1. CommitAhead(s, (k + 1) + 1) /\ Opened(s, k + 1, t)
      BY <1>2 DEF Shape
    <2>2. (k + 1) + 1 = k + 2
      BY <1>2
    <2> QED BY <2>1, <2>2
  <1>4. CommitAhead(Tail(s), k + 1)
    <2>1. k + 1 \in Nat /\ k + 1 # 0 /\ k + 2 = (k + 1) + 1
      BY <1>2
    <2> QED BY <1>3, <2>1, CommitComes
  <1>5. CASE t /\ \A j \in 1 .. k : s[j] # "commit"
    <2>1. After(Head(s), t) /\ \A j \in 1 .. k - 1 : Tail(s)[j] # "commit"
      BY <1>1, <1>2, <1>5 DEF After
    <2> QED BY <1>4, <2>1 DEF Opened
  <1>6. ASSUME NEW m \in 1 .. k, s[m] = "sql", \A j \in m + 1 .. k : s[j] # "commit"
        PROVE  Opened(Tail(s), k, After(Head(s), t))
    <2>1. CASE m = 1
      <3>1. After(Head(s), t) /\ \A j \in 1 .. k - 1 : Tail(s)[j] # "commit"
        BY <1>1, <1>2, <1>6, <2>1 DEF After
      <3> QED BY <3>1 DEF Opened
    <2>2. CASE m > 1
      <3> DEFINE n == m - 1
      <3>1. n \in 1 .. k - 1 /\ Tail(s)[n] = "sql" /\ \A j \in n + 1 .. k - 1 : Tail(s)[j] # "commit"
        BY <1>1, <1>2, <1>6, <2>2
      <3> HIDE DEF n
      <3> QED BY <3>1 DEF Opened
    <2> QED BY <1>2, <2>1, <2>2
  <1>7. (k + 1) - 1 = k
    BY <1>2
  <1> QED BY <1>3, <1>4, <1>5, <1>6, <1>7 DEF Opened

LEMMA TailNoLock ==
  ASSUME NEW s \in Seq(Ops), s # <<>>, NoLock(s)
  PROVE  NoLock(Tail(s))
  BY TailFacts DEF NoLock

LEMMA NoLockShape ==
  ASSUME NEW s, NEW t, NoLock(s)
  PROVE  Shape(s, t)
  BY DEF NoLock, Shape

\* A sequence that locks at place k, after the statement at i, and commits at place m.
LocksAt(s, i, k, m) ==
  /\ i \in DOMAIN s /\ k \in DOMAIN s /\ m \in DOMAIN s
  /\ k = i + 1 /\ m > k
  /\ \A j \in DOMAIN s : s[j] = "lock" => j = k
  /\ s[i] = "sql" /\ s[m] = "commit" /\ \A j \in k + 1 .. m - 1 : s[j] = "sql"

LEMMA LocksOnce ==
  ASSUME NEW s \in Seq(Ops), NEW i, NEW k, NEW m, LocksAt(s, i, k, m)
  PROVE  Shape(s, FALSE)
  <1> USE DEF LocksAt
  <1>1. k \in Nat /\ m \in Nat
    OBVIOUS
  <1>2. CommitAhead(s, k + 1)
    BY <1>1 DEF CommitAhead
  <1>3. Opened(s, k, FALSE)
    <2>1. i \in 1 .. k - 1 /\ s[i] = "sql" /\ \A j \in i + 1 .. k - 1 : s[j] # "commit"
      BY <1>1
    <2> QED BY <2>1 DEF Opened
  <1> QED BY <1>2, <1>3 DEF Shape

LEMMA AwaitsShape ==
  ASSUME NEW name \in Endpoints
  PROVE  /\ Awaits(name) \in Seq(Ops) /\ Shape(Awaits(name), FALSE)
         /\ name = "readyz" => NoLock(Awaits(name))
  <1>1. name \in {"read", "write", "delete", "create", "keyed_create", "login",
                 "register", "rotate", "logout", "readyz"}
    BY ParametersAssumption
  <1>2. CASE name = "read"
    <2>1. Awaits(name) = <<"sql">>
      BY <1>2 DEF Awaits
    <2>2. <<"sql">> \in Seq(Ops) /\ NoLock(<<"sql">>)
      BY DEF Ops, NoLock
    <2> QED BY <1>2, <2>1, <2>2, NoLockShape
  <1>3. CASE name = "readyz"
    <2>1. Awaits(name) = <<"sql", "redis">>
      BY <1>3 DEF Awaits
    <2>2. <<"sql", "redis">> \in Seq(Ops) /\ NoLock(<<"sql", "redis">>)
      BY DEF Ops, NoLock
    <2> QED BY <2>1, <2>2, NoLockShape
  <1>4. CASE name = "login"
    <2>1. Awaits(name) = Login /\ Login \in Seq(Ops) /\ NoLock(Login)
      BY <1>4 DEF Awaits, Login, Ops, NoLock
    <2> QED BY <1>4, <2>1, NoLockShape
  <1>5. Create \in Seq(Ops) /\ NoLock(Create)
    BY DEF Create, Ops, NoLock
  <1>6. CASE name = "create"
    <2>1. Awaits(name) = Create
      BY <1>6 DEF Awaits
    <2> QED BY <1>5, <1>6, <2>1, NoLockShape
  <1>7. CASE name = "keyed_create"
    <2>1. ASSUME NEW s \in Seq(Ops), NEW u \in Seq(Ops), NoLock(s), NoLock(u)
          PROVE  s \o u \in Seq(Ops) /\ NoLock(s \o u)
      BY <2>1 DEF NoLock
    <2>2. /\ <<"sql", "redis">> \in Seq(Ops) /\ NoLock(<<"sql", "redis">>)
          /\ <<"redis">> \in Seq(Ops) /\ NoLock(<<"redis">>)
      BY DEF Ops, NoLock
    <2>3. KeyedCreate \in Seq(Ops) /\ NoLock(KeyedCreate)
      BY <1>5, <2>1, <2>2 DEF KeyedCreate
    <2>4. Awaits(name) = KeyedCreate
      BY <1>7 DEF Awaits
    <2> QED BY <1>7, <2>3, <2>4, NoLockShape
  <1>8. CASE name = "write"
    <2>1. Write \in Seq(Ops) /\ LocksAt(Write, 1, 2, 4)
      BY DEF Write, Ops, LocksAt
    <2>2. Awaits(name) = Write
      BY <1>8 DEF Awaits
    <2> QED BY <1>8, <2>1, <2>2, LocksOnce
  <1>9. CASE name = "delete"
    <2>1. Delete \in Seq(Ops) /\ LocksAt(Delete, 1, 2, 4)
      BY DEF Delete, Ops, LocksAt
    <2>2. Awaits(name) = Delete
      BY <1>9 DEF Awaits
    <2> QED BY <1>9, <2>1, <2>2, LocksOnce
  <1>10. CASE name = "register"
    <2>1. Register \in Seq(Ops) /\ LocksAt(Register, 2, 3, 4)
      BY DEF Register, Ops, LocksAt
    <2>2. Awaits(name) = Register
      BY <1>10 DEF Awaits
    <2> QED BY <1>10, <2>1, <2>2, LocksOnce
  <1>11. CASE name = "rotate"
    <2>1. Rotate \in Seq(Ops) /\ LocksAt(Rotate, 1, 2, 3)
      BY DEF Rotate, Ops, LocksAt
    <2>2. Awaits(name) = Rotate
      BY <1>11 DEF Awaits
    <2> QED BY <1>11, <2>1, <2>2, LocksOnce
  <1>12. CASE name = "logout"
    <2>1. Logout \in Seq(Ops) /\ LocksAt(Logout, 1, 2, 3)
      BY DEF Logout, Ops, LocksAt
    <2>2. Awaits(name) = Logout
      BY <1>12 DEF Awaits
    <2> QED BY <1>12, <2>1, <2>2, LocksOnce
  <1> QED BY <1>1, <1>2, <1>3, <1>4, <1>6, <1>7, <1>8, <1>9, <1>10, <1>11, <1>12

--------------------------------------------------------------------------------
\* The inductive invariant.

Calls == [name : Endpoints, home : Instances, row : Rows]

Types ==
  /\ redis \in {"up", "hung"}
  /\ stage \in [Requests -> {"new", "running", "answered"}]
  /\ endpoint \in [Requests -> Calls \cup {NoCall}]
  /\ todo \in [Requests -> Seq(Ops)]
  /\ tx \in [Requests -> BOOLEAN]
  /\ held \in [Requests -> Nat]
  /\ owner \in [Rows -> Requests \cup {nobody}]

\* What a request has to await fits what it has open; readyz, which goes on without a
\* connection, locks nothing.
OnCourse(r) ==
  /\ Running(r) => /\ endpoint[r] \in Calls
                   /\ Shape(todo[r], tx[r])
                   /\ endpoint[r].name = "readyz" => NoLock(todo[r])
  /\ held[r] = IF tx[r] THEN 1 ELSE 0
  /\ tx[r] => Running(r)

\* A transaction that has locked a row has nothing but statements before its commit.
AboutToCommit(r) == Running(r) /\ tx[r] /\ CommitAhead(todo[r], 1)

Inv ==
  /\ Types
  /\ \A r \in Requests : OnCourse(r)
  /\ \A w \in Rows : owner[w] # nobody => AboutToCommit(owner[w])

LEMMA InvInit == Init => Inv
  <1> SUFFICES ASSUME Init PROVE Inv
    OBVIOUS
  <1>1. <<>> \in Seq(Ops)
    OBVIOUS
  <1>2. Types
    BY <1>1 DEF Init, Types
  <1>3. \A r \in Requests : OnCourse(r)
    BY DEF Init, OnCourse, Running
  <1>4. \A w \in Rows : owner[w] = nobody
    BY DEF Init
  <1> QED BY <1>2, <1>3, <1>4 DEF Inv

\* A step of r alone: what it has to show.
LEMMA StepKeeps ==
  ASSUME Inv, NEW r \in Requests, Types',
         \A q \in Requests \ {r} : /\ stage'[q] = stage[q] /\ endpoint'[q] = endpoint[q]
                                   /\ todo'[q] = todo[q] /\ tx'[q] = tx[q] /\ held'[q] = held[q],
         OnCourse(r)',
         \A w \in Rows : \/ owner'[w] = nobody
                         \/ owner'[w] = owner[w] /\ owner[w] # r
                         \/ owner'[w] = r /\ AboutToCommit(r)'
  PROVE  Inv'
  <1>1. ASSUME NEW q \in Requests PROVE OnCourse(q)'
    <2>1. CASE q # r
      BY <2>1 DEF Inv, OnCourse, Running
    <2>2. CASE q = r
      BY <2>2
    <2> QED BY <2>1, <2>2
  <1>2. ASSUME NEW w \in Rows, owner'[w] # nobody
        PROVE  /\ stage'[owner'[w]] = "running" /\ tx'[owner'[w]]
               /\ CommitAhead(todo'[owner'[w]], 1)
    <2>1. CASE owner'[w] = owner[w] /\ owner[w] # r
      <3>1. owner[w] \in Requests \ {r} /\ AboutToCommit(owner[w])
        BY <1>2, <2>1 DEF Inv, Types
      <3> QED BY <2>1, <3>1 DEF AboutToCommit, Running
    <2>2. CASE owner'[w] = r /\ AboutToCommit(r)'
      BY <2>2 DEF AboutToCommit, Running
    <2> QED BY <1>2, <2>1, <2>2
  <1> QED BY <1>1, <1>2 DEF Inv, AboutToCommit, Running

\* The next of what r has to await.
LEMMA Next1 ==
  ASSUME Inv, NEW r \in Requests, NEW op \in Ops, At(r, op)
  PROVE  /\ Running(r) /\ todo[r] \in Seq(Ops) /\ todo[r] # <<>> /\ Head(todo[r]) = op
         /\ tx[r] \in BOOLEAN /\ OnCourse(r) /\ endpoint[r] \in Calls
         /\ Tail(todo[r]) \in Seq(Ops)
         /\ Shape(Tail(todo[r]), After(op, tx[r]))
         /\ NoLock(todo[r]) => NoLock(Tail(todo[r]))
  <1>1. Running(r) /\ todo[r] \in Seq(Ops) /\ todo[r] # <<>> /\ Head(todo[r]) = op /\ tx[r] \in BOOLEAN
    BY DEF At, Inv, Types
  <1>2. OnCourse(r) /\ endpoint[r] \in Calls /\ Shape(todo[r], tx[r])
    BY <1>1 DEF Inv, OnCourse
  <1>3. Shape(Tail(todo[r]), After(op, tx[r]))
    BY <1>1, <1>2, TailShape
  <1> QED BY <1>1, <1>2, <1>3, TailFacts, TailNoLock

\* Whoever locks has a transaction open, which goes on to its commit.
LEMMA AtLock ==
  ASSUME Inv, NEW r \in Requests, At(r, "lock")
  PROVE  tx[r] /\ CommitAhead(Tail(todo[r]), 1)
  <1> DEFINE s == todo[r]
  <1>1. /\ s \in Seq(Ops) /\ s # <<>> /\ Head(s) = "lock" /\ Shape(s, tx[r])
    BY Next1 DEF Ops, OnCourse
  <1> HIDE DEF s
  <1>2. 1 \in DOMAIN s /\ s[1] = "lock"
    BY <1>1, TailFacts
  <1>3. CommitAhead(s, 2) /\ Opened(s, 1, tx[r])
    <2>1. CommitAhead(s, 1 + 1) /\ Opened(s, 1, tx[r])
      BY <1>1, <1>2 DEF Shape
    <2> QED BY <2>1
  <1>4. CommitAhead(Tail(s), 1)
    <2>1. CommitAhead(s, 1 + 1)
      BY <1>3
    <2> QED BY <1>1, <2>1, CommitComes
  <1>5. tx[r]
    BY <1>3 DEF Opened
  <1> QED BY <1>4, <1>5 DEF s

\* A transaction about to commit comes closer to it with each statement.
LEMMA StatementBefore ==
  ASSUME Inv, NEW r \in Requests, AboutToCommit(r)
  PROVE  /\ At(r, "sql") \/ At(r, "commit")
         /\ At(r, "sql") => CommitAhead(Tail(todo[r]), 1)
  <1> DEFINE s == todo[r]
  <1>1. s \in Seq(Ops) /\ Running(r) /\ CommitAhead(s, 1)
    BY DEF Inv, Types, AboutToCommit
  <1> HIDE DEF s
  <1>2. PICK m \in DOMAIN s : m >= 1 /\ s[m] = "commit" /\ \A j \in 1 .. m - 1 : s[j] = "sql"
    BY <1>1 DEF CommitAhead
  <1>3. s # <<>> /\ DOMAIN s = 1 .. Len(s) /\ Len(s) \in Nat
    BY <1>1, <1>2
  <1>4. Head(s) = s[1] /\ s[1] \in {"sql", "commit"}
    BY <1>1, <1>2, <1>3
  <1>5. ASSUME Head(s) = "sql" PROVE CommitAhead(Tail(s), 1)
    <2>1. CommitAhead(s, 0 + 1) /\ Head(s) # "commit"
      BY <1>1, <1>5
    <2> QED BY <1>1, <1>3, <2>1, CommitComes
  <1> QED BY <1>1, <1>3, <1>4, <1>5 DEF s, At

--------------------------------------------------------------------------------
\* The steps.

LEMMA BeginKeeps ==
  ASSUME Inv, NEW r \in Requests, Begin(r)
  PROVE  Inv'
  <1>1. PICK name \in Endpoints, i \in Instances, w \in Rows :
          /\ endpoint' = [endpoint EXCEPT ![r] = [name |-> name, home |-> i, row |-> w]]
          /\ todo' = [todo EXCEPT ![r] = Awaits(name)]
    BY DEF Begin
  <1> DEFINE call == [name |-> name, home |-> i, row |-> w]
  <1>2. call \in Calls /\ call.name = name
    BY DEF Calls
  <1> HIDE DEF call
  <1>3. /\ Awaits(name) \in Seq(Ops) /\ Shape(Awaits(name), FALSE)
        /\ name = "readyz" => NoLock(Awaits(name))
    BY AwaitsShape
  <1>4. /\ Types /\ stage[r] = "new" /\ stage' = [stage EXCEPT ![r] = "running"]
        /\ endpoint' = [endpoint EXCEPT ![r] = call]
        /\ UNCHANGED <<redis, tx, held, owner>>
    BY <1>1 DEF Begin, Inv, call
  <1>5. Types'
    BY <1>1, <1>2, <1>3, <1>4 DEF Types
  <1>6. tx[r] = FALSE /\ held[r] = 0
    BY <1>4 DEF Inv, OnCourse, Running, Types
  <1>7. stage'[r] = "running" /\ endpoint'[r] = call /\ todo'[r] = Awaits(name)
    BY <1>1, <1>4 DEF Types
  <1>8. OnCourse(r)'
    BY <1>2, <1>3, <1>4, <1>6, <1>7 DEF OnCourse, Running
  <1>9. \A w1 \in Rows : owner'[w1] = nobody \/ (owner'[w1] = owner[w1] /\ owner[w1] # r)
    BY <1>4, <1>6 DEF Inv, AboutToCommit
  <1>10. \A q \in Requests \ {r} : /\ stage'[q] = stage[q] /\ endpoint'[q] = endpoint[q]
                                   /\ todo'[q] = todo[q] /\ tx'[q] = tx[q] /\ held'[q] = held[q]
    BY <1>1, <1>4 DEF Types
  <1> QED BY <1>5, <1>8, <1>9, <1>10, StepKeeps

\* A request goes on: what it has to await shrinks, and its transaction opens or not.
LEMMA GoesOn ==
  ASSUME Inv, NEW r \in Requests, NEW op \in Ops, At(r, op), Done(r),
         UNCHANGED <<redis, stage, endpoint>>,
         tx' \in [Requests -> BOOLEAN], held' \in [Requests -> Nat],
         tx'[r] = After(op, tx[r]) \/ (endpoint[r].name = "readyz" /\ tx'[r] = tx[r]),
         held'[r] = IF tx'[r] THEN 1 ELSE 0,
         \A q \in Requests \ {r} : tx'[q] = tx[q] /\ held'[q] = held[q],
         owner' \in [Rows -> Requests \cup {nobody}],
         \A w \in Rows : \/ owner'[w] = nobody
                         \/ owner'[w] = owner[w] /\ owner[w] # r
                         \/ owner'[w] = r /\ tx'[r] /\ CommitAhead(Tail(todo[r]), 1)
  PROVE  Inv'
  <1>1. /\ Running(r) /\ Tail(todo[r]) \in Seq(Ops) /\ OnCourse(r) /\ endpoint[r] \in Calls
        /\ Shape(Tail(todo[r]), After(op, tx[r]))
        /\ NoLock(todo[r]) => NoLock(Tail(todo[r]))
    BY Next1
  <1>2. /\ todo'[r] = Tail(todo[r]) /\ \A q \in Requests \ {r} : todo'[q] = todo[q]
        /\ todo' \in [Requests -> Seq(Ops)]
    BY <1>1 DEF Done, Inv, Types
  <1>3. Types'
    BY <1>2 DEF Inv, Types
  <1>4. endpoint[r].name = "readyz" => NoLock(Tail(todo[r]))
    BY <1>1 DEF OnCourse
  <1>5. Shape(todo'[r], tx'[r])
    BY <1>1, <1>2, <1>4, NoLockShape
  <1>6. Running(r)'
    BY <1>1 DEF Running
  <1>7. OnCourse(r)'
    BY <1>1, <1>2, <1>4, <1>5, <1>6 DEF OnCourse
  <1>8. \A w \in Rows : owner'[w] = r /\ tx'[r] /\ CommitAhead(Tail(todo[r]), 1) => AboutToCommit(r)'
    BY <1>2, <1>6 DEF AboutToCommit
  <1> QED BY <1>2, <1>3, <1>7, <1>8, StepKeeps

\* Who holds the rows of r, and those of the others.
LEMMA Holders ==
  ASSUME Inv, NEW r \in Requests, NEW w \in Rows
  PROVE  \/ owner[w] = nobody
         \/ owner[w] # r
         \/ owner[w] = r /\ AboutToCommit(r)
  BY DEF Inv

LEMMA SqlKeeps ==
  ASSUME Inv, NEW r \in Requests, Sql(r)
  PROVE  Inv'
  <1>1. At(r, "sql") /\ "sql" \in Ops /\ After("sql", tx[r]) /\ Done(r) /\ Types
        /\ UNCHANGED <<redis, stage, endpoint, owner>>
    BY DEF Sql, Ops, After, Inv
  <1>2. held[r] = IF tx[r] THEN 1 ELSE 0
    BY DEF Inv, OnCourse
  <1>3. /\ tx' \in [Requests -> BOOLEAN] /\ held' \in [Requests -> Nat]
        /\ tx'[r] = TRUE /\ held'[r] = 1
        /\ \A q \in Requests \ {r} : tx'[q] = tx[q] /\ held'[q] = held[q]
    <2>1. CASE tx[r] /\ UNCHANGED <<tx, held>>
      BY <1>1, <1>2, <2>1 DEF Types
    <2>2. CASE /\ ~tx[r] /\ tx' = [tx EXCEPT ![r] = TRUE]
               /\ held' = [held EXCEPT ![r] = @ + 1]
      BY <1>1, <1>2, <2>2 DEF Types
    <2> QED BY <2>1, <2>2 DEF Sql
  <1>4. \A w \in Rows : \/ owner'[w] = nobody
                        \/ owner'[w] = owner[w] /\ owner[w] # r
                        \/ owner'[w] = r /\ tx'[r] /\ CommitAhead(Tail(todo[r]), 1)
    BY <1>1, <1>3, Holders, StatementBefore
  <1>5. owner' \in [Rows -> Requests \cup {nobody}]
    BY <1>1 DEF Types
  <1>6. tx'[r] = After("sql", tx[r]) /\ held'[r] = IF tx'[r] THEN 1 ELSE 0
    BY <1>3 DEF After
  <1> QED BY <1>1, <1>3, <1>4, <1>5, <1>6, GoesOn

LEMMA LockKeeps ==
  ASSUME Inv, NEW r \in Requests, Lock(r)
  PROVE  Inv'
  <1>1. /\ At(r, "lock") /\ "lock" \in Ops /\ Done(r) /\ Types
        /\ UNCHANGED <<redis, stage, endpoint, tx, held>>
        /\ owner' = [owner EXCEPT ![endpoint[r].row] = r]
    BY DEF Lock, Ops, Inv
  <1>2. tx[r] /\ CommitAhead(Tail(todo[r]), 1) /\ held[r] = 1
    BY <1>1, AtLock DEF Inv, OnCourse
  <1>3. After("lock", tx[r]) = tx[r] /\ tx'[r] = tx[r]
    BY <1>1, <1>2 DEF After
  <1>4. owner' \in [Rows -> Requests \cup {nobody}]
    BY <1>1 DEF Types
  <1>5. \A w \in Rows : owner'[w] = r \/ (owner'[w] = owner[w] /\ owner[w] # r)
    BY <1>1 DEF Types
  <1> QED BY <1>1, <1>2, <1>3, <1>4, <1>5, GoesOn DEF Types

LEMMA UnlockedOwners ==
  ASSUME Types, NEW r \in Requests, owner' = Unlocked(r)
  PROVE  /\ owner' \in [Rows -> Requests \cup {nobody}]
         /\ \A w \in Rows : owner'[w] = nobody \/ (owner'[w] = owner[w] /\ owner[w] # r)
  BY DEF Types, Unlocked

LEMMA CommitKeeps ==
  ASSUME Inv, NEW r \in Requests, Commit(r)
  PROVE  Inv'
  <1>1. /\ At(r, "commit") /\ "commit" \in Ops /\ Done(r) /\ Types
        /\ UNCHANGED <<redis, stage, endpoint>> /\ owner' = Unlocked(r)
        /\ tx' = [tx EXCEPT ![r] = FALSE] /\ held' = [held EXCEPT ![r] = 0]
    BY DEF Commit, Ops, Inv
  <1>2. /\ tx' \in [Requests -> BOOLEAN] /\ held' \in [Requests -> Nat]
        /\ tx'[r] = FALSE /\ held'[r] = 0 /\ After("commit", tx[r]) = FALSE
        /\ \A q \in Requests \ {r} : tx'[q] = tx[q] /\ held'[q] = held[q]
    BY <1>1 DEF Types, After
  <1>3. /\ owner' \in [Rows -> Requests \cup {nobody}]
        /\ \A w \in Rows : owner'[w] = nobody \/ (owner'[w] = owner[w] /\ owner[w] # r)
    BY <1>1, UnlockedOwners
  <1>4. tx'[r] = After("commit", tx[r]) /\ held'[r] = IF tx'[r] THEN 1 ELSE 0
    BY <1>2
  <1> QED BY <1>1, <1>2, <1>3, <1>4, GoesOn

LEMMA RedisKeeps ==
  ASSUME Inv, NEW r \in Requests, Redis(r)
  PROVE  Inv'
  <1>1. /\ At(r, "redis") /\ "redis" \in Ops /\ Done(r) /\ Types
        /\ UNCHANGED <<redis, stage, endpoint, tx, held, owner>>
    BY DEF Redis, Ops, Inv
  <1>2. tx'[r] = After("redis", tx[r]) /\ held'[r] = IF tx'[r] THEN 1 ELSE 0
    BY <1>1 DEF Types, After, Inv, OnCourse
  <1>3. \A w \in Rows : owner[w] = nobody \/ owner[w] # r
    BY <1>1, Holders, StatementBefore DEF At
  <1> QED BY <1>1, <1>2, <1>3, GoesOn DEF Types

LEMMA AnswerKeeps ==
  ASSUME Inv, NEW r \in Requests, Answer(r)
  PROVE  Inv'
  <1>1. Types /\ <<>> \in Seq(Ops)
    BY DEF Inv
  <1>2. Types'
    BY <1>1, UnlockedOwners DEF Types, Answer
  <1>3. stage'[r] = "answered" /\ tx'[r] = FALSE /\ held'[r] = 0
    BY <1>1 DEF Types, Answer
  <1>4. OnCourse(r)'
    BY <1>3 DEF OnCourse, Running
  <1>5. \A q \in Requests \ {r} : /\ stage'[q] = stage[q] /\ endpoint'[q] = endpoint[q]
                                  /\ todo'[q] = todo[q] /\ tx'[q] = tx[q] /\ held'[q] = held[q]
    BY <1>1 DEF Types, Answer
  <1> QED BY <1>1, <1>2, <1>4, <1>5, UnlockedOwners, StepKeeps DEF Answer

LEMMA TimeoutKeeps ==
  ASSUME Inv, NEW r \in Requests, PoolTimeout(r)
  PROVE  Inv'
  <1>1. CASE Answer(r)
    BY <1>1, AnswerKeeps
  <1>2. CASE /\ endpoint[r].name = "readyz" /\ Done(r)
             /\ UNCHANGED <<redis, stage, endpoint, tx, held, owner>>
    <2>1. At(r, "sql") /\ "sql" \in Ops /\ Types /\ ~tx[r]
      BY DEF PoolTimeout, Ops, Inv
    <2>2. held'[r] = IF tx'[r] THEN 1 ELSE 0
      BY <1>2 DEF Inv, OnCourse
    <2>3. \A w \in Rows : owner[w] = nobody \/ owner[w] # r
      BY <2>1, Holders DEF AboutToCommit
    <2> QED BY <1>2, <2>1, <2>2, <2>3, GoesOn DEF Types
  <1> QED BY <1>1, <1>2 DEF PoolTimeout

LEMMA InvStep == Inv /\ [Next]_vars => Inv'
  <1> SUFFICES ASSUME Inv, [Next]_vars PROVE Inv'
    OBVIOUS
  <1>1. ASSUME NEW r \in Requests, Begin(r) \/ Progress(r) \/ GiveUp(r) \/ PoolTimeout(r)
        PROVE  Inv'
    BY <1>1, BeginKeeps, SqlKeeps, LockKeeps, CommitKeeps, RedisKeeps, AnswerKeeps, TimeoutKeeps
       DEF Progress, Finish, GiveUp
  <1>2. CASE Hang \/ Recover \/ UNCHANGED vars
    BY <1>2 DEF Hang, Recover, vars, Inv, Types, OnCourse, AboutToCommit, Running
  <1> QED BY <1>1, <1>2 DEF Next

--------------------------------------------------------------------------------

LEMMA HoldersMove ==
  ASSUME Inv
  PROVE  LockHoldersMove
  <1> SUFFICES ASSUME NEW w \in Rows, owner[w] # nobody PROVE CanMove(owner[w])
    BY DEF LockHoldersMove
  <1>1. owner[w] \in Requests /\ AboutToCommit(owner[w])
    BY DEF Inv, Types
  <1> QED BY <1>1, StatementBefore DEF CanMove, AboutToCommit

\* A request that cannot move waits for a row that is locked or for the pool, if Redis
\* answers.
LEMMA WaitsFor ==
  ASSUME Inv, redis = "up", NEW r \in Requests, Running(r), ~CanMove(r)
  PROVE  \/ At(r, "lock") /\ CanMove(owner[endpoint[r].row])
         \/ At(r, "sql") /\ ~tx[r] /\ ~Free(r)
  <1>1. todo[r] \in Seq(Ops) /\ todo[r] # <<>> /\ endpoint[r] \in Calls
    BY DEF CanMove, Inv, Types, OnCourse
  <1>2. Head(todo[r]) \in Ops
    BY <1>1, TailFacts
  <1>3. At(r, "sql") \/ At(r, "lock")
    BY <1>1, <1>2 DEF Ops, At, CanMove
  <1>4. CASE At(r, "lock")
    <2>1. endpoint[r].row \in Rows
      BY <1>1 DEF Calls
    <2> QED BY <1>4, <2>1, HoldersMove DEF LockHoldersMove, CanMove
  <1> QED BY <1>3, <1>4 DEF CanMove

\* A pool that is exhausted has lent its connections to requests of the same process.
LEMMA Lent ==
  ASSUME Inv, NEW r \in Requests, ~Free(r)
  PROVE  \E q \in Requests : held[q] > 0 /\ endpoint[q].home = endpoint[r].home
  <1> SUFFICES ASSUME \A q \in Requests : endpoint[q].home = endpoint[r].home => ~(held[q] > 0)
               PROVE  FALSE
    OBVIOUS
  <1>1. \A q \in Callers(endpoint[r].home) : 1 .. held[q] = {}
    BY DEF Callers, Inv, Types
  <1>2. UNION {{q} \X (1 .. held[q]) : q \in Callers(endpoint[r].home)} = {}
    BY <1>1
  <1>3. InUse(endpoint[r].home) = 0
    BY <1>2, FS_EmptySet DEF InUse
  <1> QED BY <1>3, ParametersAssumption DEF Free

\* A row is locked only for statements of the same transaction, never while it waits for
\* a connection, another row or Redis: from the order of awaits in services/tickets.py,
\* services/auth.py and their endpoints.
THEOREM RowsAreReleased == Spec => []LockHoldersMove
  BY InvInit, InvStep, HoldersMove, PTL DEF Spec

\* Connections, rows and processes cannot deadlock: whatever a request waits for, who
\* has it can move, or waits for a row whose owner can.
THEOREM NobodyWaitsInCircles == Spec => []WaitsAreShort
  <1>1. ASSUME Inv PROVE WaitsAreShort
    <2> SUFFICES ASSUME redis = "up", NEW r \in Requests, Running(r), ~CanMove(r),
                        ~(At(r, "lock") /\ CanMove(owner[endpoint[r].row]))
                 PROVE  \E q \in Requests :
                          /\ held[q] > 0 /\ endpoint[q].home = endpoint[r].home
                          /\ CanMove(q) \/ (At(q, "lock") /\ CanMove(owner[endpoint[q].row]))
      BY DEF WaitsAreShort
    <2>1. ~Free(r)
      BY <1>1, WaitsFor
    <2>2. PICK q \in Requests : held[q] > 0 /\ endpoint[q].home = endpoint[r].home
      BY <1>1, <2>1, Lent
    <2>3. Running(q) /\ tx[q]
      BY <1>1, <2>2 DEF Inv, OnCourse
    <2>4. CanMove(q) \/ (At(q, "lock") /\ CanMove(owner[endpoint[q].row]))
      BY <1>1, <2>3, WaitsFor
    <2> QED BY <2>2, <2>4
  <1> QED BY <1>1, InvInit, InvStep, PTL DEF Spec
================================================================================
