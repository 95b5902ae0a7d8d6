---------------------------- MODULE IdempotentCreate ----------------------------
(***************************************************************************)
(* POST /v1/tickets with an Idempotency-Key (routers/tickets.py): a request *)
(* looks its key up in Redis, creates the ticket in PostgreSQL when the key *)
(* is not there, and stores the answer under the key when the ticket is     *)
(* committed.  Nothing joins the two stores, nor reserves the key meanwhile.*)
(*                                                                         *)
(* A ticket is its place in the sequence of the committed ones; an answer   *)
(* is the ticket it shows.  What a creation does inside the database is the *)
(* matter of Tickets.                                                      *)
(***************************************************************************)
EXTENDS Naturals, Sequences

CONSTANTS
  Users,        \* the authenticated users
  Keys,         \* the values of the Idempotency-Key header
  None,         \* a request without the header
  Slots,        \* requests that can be served at the same time
  MaxRequests,  \* bound on the requests of a behaviour
  RedisFails,   \* whether a Redis command may raise RedisError
  KeysExpire    \* whether a behaviour may be longer than the 24 hours of a key

ASSUME ParametersAssumption ==
  /\ None \notin Keys
  /\ MaxRequests \in Nat
  /\ RedisFails \in BOOLEAN
  /\ KeysExpire \in BOOLEAN

VARIABLES
  tickets,  \* the committed tickets: their user, key, and when the request began
  store,    \* Redis: the ticket of the answer stored under each key, 0 if none
  lost,     \* the Redis keys an answer was not stored under, or that have expired
  clock,    \* counts the requests begun
  pc,       \* the stage of the request in each slot
  req,      \* its user, its key and when it began
  made,     \* the ticket it has committed
  log       \* the 201 answers, in order: the request, its ticket and when it ended

session == <<req, made>>
vars == <<tickets, store, lost, clock, pc, session, log>>

Stages == {"idle", "begun", "missed", "committed"}
Requests == [user : Users, key : Keys \cup {None}, began : Nat]
NoRequest == [user |-> None, key |-> None, began |-> 0]

\* Mutant: the key is not qualified by the user.
SharedRedisKey(u, k) == <<CHOOSE v \in Users : TRUE, k>>

\* idemp:tickets:create:{user.id}:{idempotency_key}
RedisKey(u, k) == <<u, k>>

RedisKeys == Users \X Keys

KeyOf(r) == RedisKey(req[r].user, req[r].key)

Keyed(r) == req[r].key # None

\* The answer GET finds for the request, 0 if none.
Cached(r) == IF Keyed(r) THEN store[KeyOf(r)] ELSE 0

--------------------------------------------------------------------------------

Init ==
  /\ tickets = <<>>
  /\ store = [rk \in RedisKeys |-> 0]
  /\ lost = {}
  /\ clock = 0
  /\ pc = [r \in Slots |-> "idle"]
  /\ req = [r \in Slots |-> NoRequest]
  /\ made = [r \in Slots |-> 0]
  /\ log = <<>>

Goto(r, stage) == pc' = [pc EXCEPT ![r] = stage]

\* The request is over; what it has committed stays.
Close(r) ==
  /\ Goto(r, "idle")
  /\ req' = [req EXCEPT ![r] = NoRequest]
  /\ made' = [made EXCEPT ![r] = 0]

\* 403, 422, 500 or 503.
Refuse(r) == Close(r) /\ UNCHANGED log

\* 201 with the body of ticket t.
Answer(r, t) ==
  /\ Close(r)
  /\ log' = Append(log, [user |-> req[r].user, key |-> req[r].key, began |-> req[r].began,
                         ended |-> clock, ticket |-> t])

Begin(r) ==
  /\ pc[r] = "idle"
  /\ clock < MaxRequests
  /\ \E u \in Users, k \in Keys \cup {None} :
       req' = [req EXCEPT ![r] = [user |-> u, key |-> k, began |-> clock + 1]]
  /\ clock' = clock + 1
  /\ Goto(r, "begun")
  /\ UNCHANGED <<tickets, store, lost, made, log>>

\* Mutant: a GET that fails counts as a miss, as a failed rate limit counts as a pass.
LookupFailingOpen(r) ==
  /\ pc[r] = "begun"
  /\ \/ /\ Cached(r) # 0
        /\ Answer(r, Cached(r))
     \/ /\ Cached(r) = 0 \/ RedisFails
        /\ Goto(r, "missed")
        /\ UNCHANGED <<session, log>>
  /\ UNCHANGED <<tickets, store, lost, clock>>

\* Mutant: whatever GET returns is replayed.
LookupWithoutMiss(r) ==
  /\ pc[r] = "begun"
  /\ IF Keyed(r)
     THEN Answer(r, Cached(r))
     ELSE Goto(r, "missed") /\ UNCHANGED <<session, log>>
  /\ UNCHANGED <<tickets, store, lost, clock>>

\* GET: a hit replays the stored answer, an error refuses the request.
Lookup(r) ==
  /\ pc[r] = "begun"
  /\ \/ /\ Cached(r) # 0
        /\ Answer(r, Cached(r))
     \/ /\ Cached(r) = 0
        /\ Goto(r, "missed")
        /\ UNCHANGED <<session, log>>
     \/ /\ Keyed(r) /\ RedisFails
        /\ Refuse(r)
  /\ UNCHANGED <<tickets, store, lost, clock>>

\* svc.create_ticket: refused for its assignee, or committed and refreshed.
CreateTicket(r) ==
  /\ pc[r] = "missed"
  /\ \/ /\ Refuse(r)
        /\ UNCHANGED tickets
     \/ /\ tickets' = Append(tickets, req[r])
        /\ made' = [made EXCEPT ![r] = Len(tickets')]
        /\ Goto(r, "committed")
        /\ UNCHANGED <<req, log>>
  /\ UNCHANGED <<store, lost, clock>>

\* Mutant: SET without NX.
SetOverwriting(rk, t) == store' = [store EXCEPT ![rk] = t]

\* SET key answer EX 86400 NX.
SetIfAbsent(rk, t) == store' = [store EXCEPT ![rk] = IF store[rk] = 0 THEN t ELSE store[rk]]

\* The answer is stored, then given.  A SET that fails is ignored; it may have
\* taken effect all the same.
Store(r) ==
  /\ pc[r] = "committed"
  /\ \/ /\ ~Keyed(r)
        /\ UNCHANGED <<store, lost>>
     \/ /\ Keyed(r)
        /\ SetIfAbsent(KeyOf(r), made[r])
        /\ UNCHANGED lost
     \/ /\ Keyed(r) /\ RedisFails
        /\ lost' = lost \cup {KeyOf(r)}
        /\ SetIfAbsent(KeyOf(r), made[r]) \/ UNCHANGED store
  /\ Answer(r, made[r])
  /\ UNCHANGED <<tickets, clock>>

\* The process, a connection or db.refresh fails.
Fail(r) ==
  /\ pc[r] # "idle"
  /\ Refuse(r)
  /\ UNCHANGED <<tickets, store, lost, clock>>

\* The 24 hours of a key are over.
Expire(rk) ==
  /\ KeysExpire
  /\ store[rk] # 0
  /\ store' = [store EXCEPT ![rk] = 0]
  /\ lost' = lost \cup {rk}
  /\ UNCHANGED <<tickets, clock, pc, session, log>>

Serve(r) == Lookup(r) \/ CreateTicket(r) \/ Store(r)

Next ==
  \/ \E r \in Slots : Begin(r) \/ Serve(r) \/ Fail(r)
  \/ \E rk \in RedisKeys : Expire(rk)

Spec == Init /\ [][Next]_vars

--------------------------------------------------------------------------------

Ticket == [user : Users, key : Keys \cup {None}, began : Nat]

TypeOK ==
  /\ tickets \in Seq(Ticket)
  /\ store \in [RedisKeys -> 0 .. Len(tickets)]
  /\ lost \subseteq RedisKeys
  /\ clock \in 0 .. MaxRequests
  /\ pc \in [Slots -> Stages]
  /\ req \in [Slots -> Requests \cup {NoRequest}]
  /\ made \in [Slots -> 0 .. Len(tickets)]
  /\ log \in Seq([user : Users, key : Keys \cup {None}, began : Nat, ended : Nat,
                  ticket : 1 .. Len(tickets)])

--------------------------------------------------------------------------------

\* The answers under key rk.
AnswersTo(rk) == {i \in DOMAIN log : <<log[i].user, log[i].key>> = rk}

\* A 201 shows a committed ticket that the same user asked for with the same key,
\* whoever else uses that key.
AnswersAreOwn ==
  \A i \in DOMAIN log :
    /\ tickets[log[i].ticket].user = log[i].user
    /\ tickets[log[i].ticket].key = log[i].key

\* A client that waits for the 201 before it retries creates no second ticket: the
\* answer is stored by then.  Only a SET that failed or a key that expired excuses.
NoCreationAfterAnswer ==
  \A rk \in RedisKeys \ lost : \A i \in AnswersTo(rk), t \in DOMAIN tickets :
    <<tickets[t].user, tickets[t].key>> = rk => tickets[t].began <= log[i].ended

\* Requests that race may each get a ticket of their own, but those that begin when
\* one of them is answered all get the same.
AnswersSettle ==
  \A rk \in RedisKeys \ lost : \A i, j, k \in AnswersTo(rk) :
    log[i].ended < log[j].began /\ log[i].ended < log[k].began
      => log[j].ticket = log[k].ticket

\* README 8.3: repeating a request with its key creates no duplicate, as long as
\* Redis is available.
NoDuplicates ==
  \A t, u \in DOMAIN tickets :
    /\ tickets[t].key # None
    /\ tickets[t].user = tickets[u].user /\ tickets[t].key = tickets[u].key
    => t = u
================================================================================
