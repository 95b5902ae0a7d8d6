------------------------- MODULE IdempotentCreateProofs -------------------------
(***************************************************************************)
(* Proofs about IdempotentCreate, for any users, keys and requests, whether *)
(* or not Redis fails and keys expire: answers show tickets of their own    *)
(* request, and neither a retry after an answer creates a ticket, nor does a *)
(* race before it makes what is replayed ambiguous.                         *)
(***************************************************************************)
EXTENDS IdempotentCreate, TLAPS

--------------------------------------------------------------------------------
\* Sequences.

LEMMA Elements ==
  ASSUME NEW S, NEW q \in Seq(S)
  PROVE  Len(q) \in Nat /\ DOMAIN q = 1 .. Len(q) /\ \A i \in 1 .. Len(q) : q[i] \in S
  OBVIOUS

LEMMA Appended ==
  ASSUME NEW S, NEW q \in Seq(S), NEW e \in S
  PROVE  /\ Append(q, e) \in Seq(S)
         /\ Len(Append(q, e)) = Len(q) + 1
         /\ DOMAIN Append(q, e) = 1 .. Len(q) + 1
         /\ \A i \in 1 .. Len(q) : Append(q, e)[i] = q[i]
         /\ Append(q, e)[Len(q) + 1] = e
  OBVIOUS

LEMMA SeqOfMore ==
  ASSUME NEW S, NEW T, S \subseteq T, NEW q \in Seq(S)
  PROVE  q \in Seq(T)
  OBVIOUS

--------------------------------------------------------------------------------
\* Type correctness.  That a busy slot holds a request, and a committed one a
\* ticket, must be known as well.

AnswersAbout(n) ==
  [user : Users, key : Keys \cup {None}, began : Nat, ended : Nat, ticket : 1 .. n]

SessionsTyped ==
  \A r \in Slots :
    /\ pc[r] # "idle" => req[r] \in Requests
    /\ pc[r] = "committed" => made[r] # 0

TypeInv == TypeOK /\ SessionsTyped

LEMMA TypeInit == Init => TypeInv
  <1> SUFFICES ASSUME Init PROVE TypeInv
    OBVIOUS
  <1>1. tickets = <<>> /\ log = <<>> /\ Len(tickets) = 0
    BY DEF Init
  <1>2. /\ clock \in 0 .. MaxRequests /\ pc \in [Slots -> Stages]
        /\ req \in [Slots -> Requests \cup {NoRequest}]
        /\ store \in [RedisKeys -> 0 .. Len(tickets)] /\ made \in [Slots -> 0 .. Len(tickets)]
        /\ lost \subseteq RedisKeys
    BY <1>1, ParametersAssumption DEF Init, Stages
  <1>3. SessionsTyped
    BY DEF Init, SessionsTyped
  <1> QED BY <1>1, <1>2, <1>3 DEF TypeInv, TypeOK

\* The request that ends, in every case.
LEMMA CloseTyped ==
  ASSUME TypeInv, NEW r \in Slots, Close(r)
  PROVE  /\ pc' \in [Slots -> Stages] /\ pc'[r] = "idle"
         /\ req' \in [Slots -> Requests \cup {NoRequest}]
         /\ made' \in [Slots -> 0 .. Len(tickets)]
         /\ SessionsTyped'
         /\ \A s \in Slots \ {r} : pc'[s] = pc[s] /\ req'[s] = req[s] /\ made'[s] = made[s]
  <1>1. Len(tickets) \in Nat
    BY Elements DEF TypeInv, TypeOK
  <1>2. /\ pc' \in [Slots -> Stages] /\ pc'[r] = "idle"
        /\ req' \in [Slots -> Requests \cup {NoRequest}]
        /\ made' \in [Slots -> 0 .. Len(tickets)]
        /\ \A s \in Slots \ {r} : pc'[s] = pc[s] /\ req'[s] = req[s] /\ made'[s] = made[s]
    BY <1>1 DEF TypeInv, TypeOK, Close, Goto, Stages
  <1> QED BY <1>2 DEF TypeInv, SessionsTyped

LEMMA AnswerTyped ==
  ASSUME TypeInv, NEW r \in Slots, pc[r] # "idle", NEW t \in 1 .. Len(tickets), Answer(r, t)
  PROVE  log' \in Seq(AnswersAbout(Len(tickets)))
  <1>1. [user |-> req[r].user, key |-> req[r].key, began |-> req[r].began, ended |-> clock, ticket |-> t]
          \in AnswersAbout(Len(tickets))
    BY ParametersAssumption DEF TypeInv, TypeOK, SessionsTyped, Requests, AnswersAbout
  <1>2. log \in Seq(AnswersAbout(Len(tickets)))
    BY DEF TypeInv, TypeOK, AnswersAbout
  <1> QED BY <1>1, <1>2, Appended DEF Answer

\* What a request reads and what it has made are tickets.
LEMMA KnownTickets ==
  ASSUME TypeInv, NEW r \in Slots, pc[r] # "idle"
  PROVE  /\ req[r] \in Requests /\ Len(tickets) \in Nat
         /\ Keyed(r) <=> KeyOf(r) \in RedisKeys
         /\ Cached(r) \in 0 .. Len(tickets)
         /\ pc[r] = "committed" => made[r] \in 1 .. Len(tickets)
  <1>1. req[r] \in Requests /\ Len(tickets) \in Nat
    BY Elements DEF TypeInv, TypeOK, SessionsTyped
  <1>2. Keyed(r) <=> KeyOf(r) \in RedisKeys
    BY <1>1, ParametersAssumption DEF Keyed, KeyOf, RedisKey, RedisKeys, Requests
  <1>3. Cached(r) \in 0 .. Len(tickets)
    BY <1>1, <1>2 DEF TypeInv, TypeOK, Cached
  <1>4. pc[r] = "committed" => made[r] \in 1 .. Len(tickets)
    BY <1>1 DEF TypeInv, TypeOK, SessionsTyped
  <1> QED BY <1>1, <1>2, <1>3, <1>4

LEMMA BeginTyped ==
  ASSUME TypeInv, NEW r \in Slots, Begin(r)
  PROVE  TypeInv'
  <1>1. PICK u \in Users, k \in Keys \cup {None} :
          req' = [req EXCEPT ![r] = [user |-> u, key |-> k, began |-> clock + 1]]
    BY DEF Begin
  <1>2. [user |-> u, key |-> k, began |-> clock + 1] \in Requests /\ clock' \in 0 .. MaxRequests
    BY ParametersAssumption DEF TypeInv, TypeOK, Requests, Begin
  <1>3. pc' \in [Slots -> Stages] /\ req' \in [Slots -> Requests \cup {NoRequest}]
    BY <1>1, <1>2 DEF TypeInv, TypeOK, Begin, Goto, Stages
  <1>4. SessionsTyped'
    BY <1>1, <1>2 DEF TypeInv, TypeOK, SessionsTyped, Begin, Goto
  <1> QED BY <1>2, <1>3, <1>4 DEF TypeInv, TypeOK, Begin

LEMMA LookupTyped ==
  ASSUME TypeInv, NEW r \in Slots, Lookup(r)
  PROVE  TypeInv'
  <1>1. pc[r] # "idle" /\ UNCHANGED <<tickets, store, lost, clock>> /\ Cached(r) \in 0 .. Len(tickets)
    BY KnownTickets DEF Lookup
  <1>2. CASE Cached(r) # 0 /\ Answer(r, Cached(r))
    <2>1. Cached(r) \in 1 .. Len(tickets)
      BY <1>1, <1>2, KnownTickets
    <2>2. log' \in Seq(AnswersAbout(Len(tickets))) /\ Close(r)
      BY <1>1, <1>2, <2>1, AnswerTyped DEF Answer
    <2> QED BY <1>1, <2>2, CloseTyped DEF TypeInv, TypeOK, AnswersAbout
  <1>3. CASE Goto(r, "missed") /\ UNCHANGED <<session, log>>
    <2>1. pc' \in [Slots -> Stages] /\ UNCHANGED <<req, made, log>> /\ SessionsTyped'
      BY <1>1, <1>3 DEF TypeInv, TypeOK, SessionsTyped, Goto, Stages, session
    <2> QED BY <1>1, <2>1 DEF TypeInv, TypeOK
  <1>4. CASE Refuse(r)
    BY <1>1, <1>4, CloseTyped DEF Refuse, TypeInv, TypeOK
  <1> QED BY <1>2, <1>3, <1>4 DEF Lookup

LEMMA CreateTyped ==
  ASSUME TypeInv, NEW r \in Slots, CreateTicket(r)
  PROVE  TypeInv'
  <1>1. pc[r] # "idle" /\ UNCHANGED <<store, lost, clock>> /\ req[r] \in Requests
    BY KnownTickets DEF CreateTicket
  <1>2. CASE Refuse(r) /\ UNCHANGED tickets
    BY <1>1, <1>2, CloseTyped DEF Refuse, TypeInv, TypeOK
  <1>3. CASE /\ tickets' = Append(tickets, req[r])
             /\ made' = [made EXCEPT ![r] = Len(tickets')]
             /\ Goto(r, "committed")
             /\ UNCHANGED <<req, log>>
    <2> DEFINE n == Len(tickets)
    <2>1. /\ tickets' \in Seq(Ticket) /\ n \in Nat /\ Len(tickets') = n + 1
      BY <1>1, <1>3, Appended, Elements DEF TypeInv, TypeOK, Ticket, Requests
    <2>2. /\ store' \in [RedisKeys -> 0 .. n + 1]
          /\ made' \in [Slots -> 0 .. n + 1]
          /\ pc' \in [Slots -> Stages]
      BY <1>1, <1>3, <2>1 DEF TypeInv, TypeOK, Goto, Stages
    <2>3. log' \in Seq(AnswersAbout(n + 1))
      <3>1. AnswersAbout(n) \subseteq AnswersAbout(n + 1)
        BY <2>1 DEF AnswersAbout
      <3>2. log \in Seq(AnswersAbout(n))
        BY DEF TypeInv, TypeOK, AnswersAbout
      <3> QED BY <1>3, <3>1, <3>2, SeqOfMore
    <2>4. SessionsTyped'
      BY <1>1, <1>3, <2>1 DEF TypeInv, TypeOK, SessionsTyped, Goto
    <2> QED BY <1>1, <1>3, <2>1, <2>2, <2>3, <2>4 DEF TypeInv, TypeOK, AnswersAbout
  <1> QED BY <1>2, <1>3 DEF CreateTicket

LEMMA StoreTyped ==
  ASSUME TypeInv, NEW r \in Slots, Store(r)
  PROVE  TypeInv'
  <1>1. /\ pc[r] # "idle" /\ UNCHANGED <<tickets, clock>> /\ Answer(r, made[r])
        /\ made[r] \in 1 .. Len(tickets) /\ Len(tickets) \in Nat
        /\ Keyed(r) <=> KeyOf(r) \in RedisKeys
    BY KnownTickets DEF Store
  <1>2. store' \in [RedisKeys -> 0 .. Len(tickets)] /\ lost' \subseteq RedisKeys
    BY <1>1 DEF Store, SetIfAbsent, TypeInv, TypeOK
  <1>3. log' \in Seq(AnswersAbout(Len(tickets))) /\ Close(r)
    BY <1>1, AnswerTyped DEF Answer
  <1> QED BY <1>1, <1>2, <1>3, CloseTyped DEF TypeInv, TypeOK, AnswersAbout

LEMMA TypeStep == TypeInv /\ [Next]_vars => TypeInv'
  <1> SUFFICES ASSUME TypeInv, [Next]_vars PROVE TypeInv'
    OBVIOUS
  <1>1. CASE UNCHANGED vars
    BY <1>1 DEF vars, session, TypeInv, TypeOK, SessionsTyped
  <1>2. ASSUME NEW r \in Slots, Begin(r) PROVE TypeInv'
    BY <1>2, BeginTyped
  <1>3. ASSUME NEW r \in Slots, Serve(r) PROVE TypeInv'
    BY <1>3, LookupTyped, CreateTyped, StoreTyped DEF Serve
  <1>4. ASSUME NEW r \in Slots, Fail(r) PROVE TypeInv'
    BY <1>4, CloseTyped DEF Fail, Refuse, TypeInv, TypeOK
  <1>5. ASSUME NEW rk \in RedisKeys, Expire(rk) PROVE TypeInv'
    <2>1. Len(tickets) \in Nat
      BY Elements DEF TypeInv, TypeOK
    <2> QED BY <1>5, <2>1 DEF Expire, session, TypeInv, TypeOK, SessionsTyped
  <1> QED BY <1>1, <1>2, <1>3, <1>4, <1>5 DEF Next

\* The stores only ever hold tickets and answers of their types; an answer, stored
\* or given, shows a ticket that is committed.
THEOREM TypeCorrect == Spec => []TypeOK
  <1>1. TypeInv => TypeOK
    BY DEF TypeInv
  <1> QED BY TypeInit, TypeStep, <1>1, PTL DEF Spec

--------------------------------------------------------------------------------
\* Whose tickets are shown.  Not only the answers given must be of their own request,
\* but also those stored, and those about to be stored.

\* Ticket t was asked for by the user, and with the key, of rk.
TicketOf(t, rk) == <<tickets[t].user, tickets[t].key>> = rk

Owned ==
  /\ \A i \in DOMAIN log : TicketOf(log[i].ticket, RedisKey(log[i].user, log[i].key))
  /\ \A rk \in RedisKeys : store[rk] # 0 => TicketOf(store[rk], rk)
  /\ \A r \in Slots : pc[r] = "committed" => TicketOf(made[r], KeyOf(r))

\* No time lies ahead.
Times ==
  /\ \A r \in Slots : pc[r] # "idle" => req[r].began <= clock
  /\ \A t \in DOMAIN tickets : tickets[t].began <= clock
  /\ \A i \in DOMAIN log : log[i].began <= clock /\ log[i].ended <= clock

\* What an answer settles about its key, unless the key is lost.  NoCreationAfterAnswer
\* is not inductive: it must also be known that no request that began later has missed
\* the key; and AnswersSettle needs that such answers are the one in the store.
SettledBy(rk, i) ==
  /\ store[rk] # 0
  /\ \A r \in Slots : pc[r] \in {"missed", "committed"} /\ KeyOf(r) = rk
                         => req[r].began <= log[i].ended
  /\ \A t \in DOMAIN tickets : TicketOf(t, rk) => tickets[t].began <= log[i].ended
  /\ \A j \in AnswersTo(rk) : log[i].ended < log[j].began => log[j].ticket = store[rk]

Settled == \A rk \in RedisKeys \ lost : \A i \in AnswersTo(rk) : SettledBy(rk, i)

IInv == TypeInv /\ Owned /\ Times /\ Settled

LEMMA IInvInit == Init => IInv
  <1> SUFFICES ASSUME Init PROVE IInv
    OBVIOUS
  <1>1. tickets = <<>> /\ log = <<>> /\ \A rk \in RedisKeys : store[rk] = 0
    BY DEF Init
  <1>2. \A r \in Slots : pc[r] = "idle"
    BY DEF Init
  <1>3. Owned /\ Times /\ Settled
    BY <1>1, <1>2 DEF Owned, Times, Settled, AnswersTo
  <1> QED BY <1>3, TypeInit DEF IInv

LEMMA LogTypes ==
  ASSUME TypeInv
  PROVE  /\ Len(tickets) \in Nat /\ Len(log) \in Nat /\ clock \in Nat
         /\ DOMAIN tickets = 1 .. Len(tickets) /\ DOMAIN log = 1 .. Len(log)
         /\ \A i \in 1 .. Len(log) : /\ log[i].ticket \in 1 .. Len(tickets)
                                    /\ log[i].began \in Nat /\ log[i].ended \in Nat
         /\ \A t \in 1 .. Len(tickets) : tickets[t].began \in Nat
         /\ \A rk \in RedisKeys : store[rk] \in 0 .. Len(tickets)
  <1>1. tickets \in Seq(Ticket) /\ log \in Seq(AnswersAbout(Len(tickets)))
    BY DEF TypeInv, TypeOK, AnswersAbout
  <1>2. /\ Len(tickets) \in Nat /\ DOMAIN tickets = 1 .. Len(tickets)
        /\ \A t \in 1 .. Len(tickets) : tickets[t] \in Ticket
    BY <1>1, Elements
  <1>3. /\ Len(log) \in Nat /\ DOMAIN log = 1 .. Len(log)
        /\ \A i \in 1 .. Len(log) : log[i] \in AnswersAbout(Len(tickets))
    BY <1>1, Elements
  <1>4. clock \in Nat /\ \A rk \in RedisKeys : store[rk] \in 0 .. Len(tickets)
    BY <1>2, ParametersAssumption DEF TypeInv, TypeOK
  <1> QED BY <1>2, <1>3, <1>4 DEF Ticket, AnswersAbout

\* A request that ends without an answer takes nothing with it.
LEMMA EndKeeps ==
  ASSUME IInv, NEW r \in Slots, Close(r), UNCHANGED <<tickets, store, lost, clock, log>>
  PROVE  Owned' /\ Times' /\ Settled'
  <1>1. /\ pc'[r] = "idle"
        /\ \A s \in Slots \ {r} : pc'[s] = pc[s] /\ req'[s] = req[s] /\ made'[s] = made[s]
    BY CloseTyped DEF IInv
  <1>2. Owned'
    BY <1>1 DEF IInv, Owned, TicketOf, KeyOf, RedisKey
  <1>3. Times'
    BY <1>1 DEF IInv, Times
  <1>4. Settled'
    <2> SUFFICES ASSUME NEW rk \in RedisKeys \ lost, NEW i \in AnswersTo(rk) PROVE SettledBy(rk, i)'
      BY DEF Settled, AnswersTo
    <2>1. SettledBy(rk, i)
      BY DEF IInv, Settled
    <2> QED BY <1>1, <2>1 DEF SettledBy, AnswersTo, TicketOf, KeyOf, RedisKey
  <1> QED BY <1>2, <1>3, <1>4

\* An answer that shows a ticket of the request, stored under its key or not given
\* after another answer to the key.
LEMMA AnswerKeeps ==
  ASSUME IInv, NEW r \in Slots, pc[r] # "idle", NEW t \in 1 .. Len(tickets),
         TicketOf(t, KeyOf(r)), Answer(r, t), UNCHANGED <<tickets, clock>>, lost \subseteq lost',
         \A rk \in RedisKeys : store[rk] # 0 => store'[rk] = store[rk],
         \A rk \in RedisKeys : store'[rk] # 0 => TicketOf(store'[rk], rk),
         KeyOf(r) \in RedisKeys \ lost' =>
           /\ store'[KeyOf(r)] # 0
           /\ \A i \in AnswersTo(KeyOf(r)) : log[i].ended < req[r].began => t = store[KeyOf(r)]
  PROVE  Owned' /\ Times' /\ Settled'
  <1> DEFINE e == [user |-> req[r].user, key |-> req[r].key, began |-> req[r].began,
                   ended |-> clock, ticket |-> t]
             n == Len(log)
  <1>1. /\ pc'[r] = "idle"
        /\ \A s \in Slots \ {r} : pc'[s] = pc[s] /\ req'[s] = req[s] /\ made'[s] = made[s]
    BY CloseTyped DEF IInv, Answer
  <1>2. /\ n \in Nat /\ clock \in Nat /\ DOMAIN log = 1 .. n
        /\ DOMAIN tickets = 1 .. Len(tickets)
        /\ \A i \in 1 .. n : log[i].began \in Nat /\ log[i].ended \in Nat
    BY LogTypes DEF IInv
  <1>3. /\ DOMAIN log' = 1 .. n + 1
        /\ \A i \in 1 .. n : log'[i] = log[i]
        /\ log'[n + 1] = e
    <2>1. e \in AnswersAbout(Len(tickets)) /\ log \in Seq(AnswersAbout(Len(tickets)))
      BY <1>2, KnownTickets DEF IInv, TypeInv, TypeOK, AnswersAbout, Requests
    <2> QED BY <2>1, Appended DEF Answer
  <1>4. /\ e.user = req[r].user /\ e.key = req[r].key /\ e.began = req[r].began
        /\ e.ended = clock /\ e.ticket = t
    OBVIOUS
  <1>5. req[r].began <= clock /\ req[r].began \in Nat
    BY KnownTickets DEF IInv, Times, Requests
  <1> HIDE DEF e, n
  <1>6. Owned'
    <2>1. ASSUME NEW i \in 1 .. n + 1
          PROVE  TicketOf(log'[i].ticket, RedisKey(log'[i].user, log'[i].key))
      <3>1. CASE i \in 1 .. n
        BY <1>2, <1>3, <3>1 DEF IInv, Owned
      <3>2. CASE i = n + 1
        BY <1>3, <1>4, <3>2 DEF KeyOf
      <3> QED BY <1>2, <3>1, <3>2
    <2> QED BY <1>1, <1>3, <2>1 DEF IInv, Owned, TicketOf, KeyOf, RedisKey
  <1>7. Times'
    <2>1. ASSUME NEW i \in 1 .. n + 1 PROVE log'[i].began <= clock /\ log'[i].ended <= clock
      <3>1. CASE i \in 1 .. n
        BY <1>2, <1>3, <3>1 DEF IInv, Times
      <3>2. CASE i = n + 1
        BY <1>2, <1>3, <1>4, <1>5, <3>2
      <3> QED BY <1>2, <3>1, <3>2
    <2> QED BY <1>1, <1>3, <2>1 DEF IInv, Times
  <1>8. Settled'
    <2> SUFFICES ASSUME NEW rk \in RedisKeys \ lost', NEW i \in 1 .. n + 1,
                        <<log'[i].user, log'[i].key>> = rk
                 PROVE  SettledBy(rk, i)'
      BY <1>3 DEF Settled, AnswersTo
    <2>1. rk \in RedisKeys \ lost
      OBVIOUS
    <2>2. \A j \in 1 .. n + 1 : j \in 1 .. n \/ j = n + 1
      BY <1>2
    <2>3. CASE i \in 1 .. n
      <3>1. i \in AnswersTo(rk) /\ log'[i] = log[i]
        BY <1>2, <1>3, <2>3 DEF AnswersTo
      <3>2. SettledBy(rk, i)
        BY <2>1, <3>1 DEF IInv, Settled
      <3>3. store'[rk] = store[rk] /\ store[rk] # 0
        BY <3>2 DEF SettledBy
      <3>4. ASSUME NEW j \in 1 .. n + 1, <<log'[j].user, log'[j].key>> = rk, log[i].ended < log'[j].began
            PROVE  log'[j].ticket = store[rk]
        <4>1. CASE j \in 1 .. n
          BY <1>2, <1>3, <3>2, <3>4, <4>1 DEF SettledBy, AnswersTo
        <4>2. CASE j = n + 1
          BY <1>3, <1>4, <3>1, <3>4, <4>2 DEF KeyOf, RedisKey
        <4> QED BY <2>2, <4>1, <4>2
      <3>5. \A s \in Slots : pc'[s] \in {"missed", "committed"} /\ KeyOf(s)' = rk
                              => req'[s].began <= log[i].ended
        BY <1>1, <3>2 DEF SettledBy, KeyOf, RedisKey
      <3> QED BY <1>3, <3>1, <3>2, <3>3, <3>4, <3>5 DEF SettledBy, AnswersTo, TicketOf
    <2>4. CASE i = n + 1
      <3>1. KeyOf(r) = rk /\ log'[i] = e
        BY <1>3, <1>4, <2>4 DEF KeyOf, RedisKey
      <3>2. store'[rk] # 0
        BY <3>1
      <3>3. \A s \in Slots : pc'[s] # "idle" => req'[s].began <= clock
        BY <1>1 DEF IInv, Times
      <3>4. \A u \in DOMAIN tickets : tickets[u].began <= clock
        BY DEF IInv, Times
      <3>5. \A j \in 1 .. n + 1 : ~(clock < log'[j].began)
        <4>1. \A j \in 1 .. n : ~(clock < log[j].began)
          BY <1>2 DEF IInv, Times
        <4> QED BY <1>2, <1>3, <1>4, <1>5, <2>2, <4>1
      <3> QED BY <1>3, <1>4, <3>1, <3>2, <3>3, <3>4, <3>5 DEF SettledBy, AnswersTo
    <2> QED BY <2>2, <2>3, <2>4
  <1> QED BY <1>6, <1>7, <1>8

LEMMA BeginKeeps ==
  ASSUME IInv, NEW r \in Slots, Begin(r)
  PROVE  Owned' /\ Times' /\ Settled'
  <1>1. PICK u \in Users, k \in Keys \cup {None} :
          req' = [req EXCEPT ![r] = [user |-> u, key |-> k, began |-> clock + 1]]
    BY DEF Begin
  <1>2. /\ pc'[r] = "begun" /\ req'[r].began = clock + 1
        /\ clock' = clock + 1 /\ UNCHANGED <<tickets, store, lost, made, log>>
        /\ \A s \in Slots \ {r} : pc'[s] = pc[s] /\ req'[s] = req[s]
    BY <1>1 DEF Begin, Goto, IInv, TypeInv, TypeOK
  <1>3. Owned'
    BY <1>2 DEF IInv, Owned, TicketOf, KeyOf, RedisKey
  <1>4. Times'
    <2>1. /\ clock \in Nat
          /\ \A s \in Slots : pc[s] # "idle" => req[s].began <= clock /\ req[s].began \in Nat
          /\ \A t \in DOMAIN tickets : tickets[t].began <= clock /\ tickets[t].began \in Nat
      BY LogTypes, KnownTickets DEF IInv, Times, Requests
    <2>2. \A i \in DOMAIN log : /\ log[i].began <= clock /\ log[i].began \in Nat
                               /\ log[i].ended <= clock /\ log[i].ended \in Nat
      BY LogTypes DEF IInv, Times
    <2> QED BY <1>2, <2>1, <2>2 DEF Times
  <1>5. Settled'
    <2> SUFFICES ASSUME NEW rk \in RedisKeys \ lost, NEW i \in AnswersTo(rk) PROVE SettledBy(rk, i)'
      BY <1>2 DEF Settled, AnswersTo
    <2>1. SettledBy(rk, i)
      BY DEF IInv, Settled
    <2> QED BY <1>2, <2>1 DEF SettledBy, AnswersTo, TicketOf, KeyOf, RedisKey
  <1> QED BY <1>3, <1>4, <1>5

LEMMA LookupKeeps ==
  ASSUME IInv, NEW r \in Slots, Lookup(r)
  PROVE  Owned' /\ Times' /\ Settled'
  <1>1. /\ pc[r] = "begun" /\ UNCHANGED <<tickets, store, lost, clock>>
        /\ Keyed(r) <=> KeyOf(r) \in RedisKeys
        /\ Cached(r) \in 0 .. Len(tickets) /\ Len(tickets) \in Nat
    BY KnownTickets DEF Lookup, IInv
  <1>2. CASE Cached(r) # 0 /\ Answer(r, Cached(r))
    <2>1. Cached(r) \in 1 .. Len(tickets) /\ Cached(r) = store[KeyOf(r)] /\ KeyOf(r) \in RedisKeys
      BY <1>1, <1>2 DEF Cached
    <2>2. TicketOf(Cached(r), KeyOf(r))
      BY <1>2, <2>1 DEF IInv, Owned
    <2>3. \A rk \in RedisKeys : store'[rk] # 0 => TicketOf(store'[rk], rk)
      BY <1>1 DEF IInv, Owned
    <2> QED BY <1>1, <1>2, <2>1, <2>2, <2>3, AnswerKeeps
  <1>3. CASE Cached(r) = 0 /\ Goto(r, "missed") /\ UNCHANGED <<session, log>>
    <2>1. /\ pc'[r] = "missed" /\ UNCHANGED <<req, made, log>>
          /\ \A s \in Slots \ {r} : pc'[s] = pc[s]
      BY <1>3 DEF Goto, session, IInv, TypeInv, TypeOK
    <2>2. Owned' /\ Times'
      BY <1>1, <2>1 DEF IInv, Owned, Times, TicketOf, KeyOf, RedisKey
    <2>3. Settled'
      <3> SUFFICES ASSUME NEW rk \in RedisKeys \ lost, NEW i \in AnswersTo(rk)
                   PROVE  SettledBy(rk, i)'
        BY <1>1, <2>1 DEF Settled, AnswersTo
      <3>1. SettledBy(rk, i)
        BY DEF IInv, Settled
      <3>2. KeyOf(r) # rk
        BY <1>1, <1>3, <3>1 DEF SettledBy, Cached
      <3> QED BY <1>1, <2>1, <3>1, <3>2 DEF SettledBy, AnswersTo, TicketOf, KeyOf, RedisKey
    <2> QED BY <2>2, <2>3
  <1>4. CASE Refuse(r)
    BY <1>1, <1>4, EndKeeps DEF Refuse
  <1> QED BY <1>2, <1>3, <1>4 DEF Lookup

LEMMA CreateKeeps ==
  ASSUME IInv, NEW r \in Slots, CreateTicket(r)
  PROVE  Owned' /\ Times' /\ Settled'
  <1> DEFINE n == Len(tickets)
  <1>1. /\ pc[r] = "missed" /\ UNCHANGED <<store, lost, clock>> /\ req[r] \in Requests
        /\ n \in Nat /\ DOMAIN tickets = 1 .. n
        /\ \A rk \in RedisKeys : store[rk] \in 0 .. n
        /\ \A i \in DOMAIN log : log[i].ticket \in 1 .. n
    BY KnownTickets, LogTypes DEF CreateTicket, IInv
  <1>2. CASE Refuse(r) /\ UNCHANGED tickets
    BY <1>1, <1>2, EndKeeps DEF Refuse
  <1>3. CASE /\ tickets' = Append(tickets, req[r])
             /\ made' = [made EXCEPT ![r] = Len(tickets')]
             /\ Goto(r, "committed")
             /\ UNCHANGED <<req, log>>
    <2>1. /\ DOMAIN tickets' = 1 .. n + 1 /\ Len(tickets') = n + 1
          /\ \A t \in 1 .. n : tickets'[t] = tickets[t]
          /\ tickets'[n + 1] = req[r]
      <3>1. tickets \in Seq(Ticket) /\ req[r] \in Ticket
        BY <1>1 DEF IInv, TypeInv, TypeOK, Ticket, Requests
      <3> QED BY <1>3, <3>1, Appended
    <2>2. /\ pc'[r] = "committed" /\ made'[r] = n + 1
          /\ \A s \in Slots \ {r} : pc'[s] = pc[s] /\ made'[s] = made[s]
      BY <1>3, <2>1 DEF Goto, IInv, TypeInv, TypeOK
    <2>3. \A s \in Slots \ {r} : pc[s] = "committed" => made[s] \in 1 .. n
      BY KnownTickets DEF IInv
    <2> HIDE DEF n
    <2>4. Owned'
      <3>1. \A i \in DOMAIN log' : TicketOf(log[i].ticket, RedisKey(log[i].user, log[i].key))'
        BY <1>1, <1>3, <2>1 DEF IInv, Owned, TicketOf, RedisKey
      <3>2. ASSUME NEW rk \in RedisKeys, store'[rk] # 0 PROVE TicketOf(store[rk], rk)'
        <4>1. store[rk] \in 1 .. n /\ TicketOf(store[rk], rk)
          BY <1>1, <3>2 DEF IInv, Owned
        <4> QED BY <1>1, <2>1, <4>1 DEF TicketOf
      <3>3. ASSUME NEW s \in Slots, pc'[s] = "committed" PROVE TicketOf(made[s], KeyOf(s))'
        <4>1. CASE s = r
          BY <1>3, <2>1, <2>2, <4>1 DEF TicketOf, KeyOf, RedisKey
        <4>2. CASE s # r
          <5>1. pc[s] = "committed" /\ made'[s] = made[s] /\ made[s] \in 1 .. n
            BY <2>2, <2>3, <3>3, <4>2
          <5>2. TicketOf(made[s], KeyOf(s)) /\ tickets'[made'[s]] = tickets[made[s]]
            BY <2>1, <5>1 DEF IInv, Owned
          <5> QED BY <1>3, <5>2 DEF TicketOf, KeyOf, RedisKey
        <4> QED BY <4>1, <4>2
      <3> QED BY <3>1, <3>2, <3>3 DEF Owned
    <2>5. Times'
      <3>1. req[r].began <= clock
        BY <1>1 DEF IInv, Times
      <3>2. ASSUME NEW t \in 1 .. n + 1 PROVE tickets'[t].began <= clock
        <4>1. CASE t \in 1 .. n
          BY <1>1, <2>1, <4>1 DEF IInv, Times
        <4>2. CASE t = n + 1
          BY <2>1, <3>1, <4>2
        <4> QED BY <1>1, <4>1, <4>2
      <3>3. \A s \in Slots : pc'[s] # "idle" => req'[s].began <= clock
        BY <1>1, <1>3, <2>2 DEF IInv, Times
      <3> QED BY <1>1, <1>3, <2>1, <3>2, <3>3 DEF IInv, Times
    <2>6. Settled'
      <3> SUFFICES ASSUME NEW rk \in RedisKeys \ lost, NEW i \in AnswersTo(rk)
                   PROVE  SettledBy(rk, i)'
        BY <1>1, <1>3 DEF Settled, AnswersTo
      <3>1. SettledBy(rk, i)
        BY DEF IInv, Settled
      <3>2. KeyOf(r) = rk => req[r].began <= log[i].ended
        BY <1>1, <3>1 DEF SettledBy
      <3>3. ASSUME NEW t \in 1 .. n + 1, TicketOf(t, rk)' PROVE tickets'[t].began <= log[i].ended
        <4>1. CASE t \in 1 .. n
          BY <1>1, <2>1, <3>1, <3>3, <4>1 DEF SettledBy, TicketOf
        <4>2. CASE t = n + 1
          BY <2>1, <3>2, <3>3, <4>2 DEF TicketOf, KeyOf, RedisKey
        <4> QED BY <1>1, <4>1, <4>2
      <3>4. \A s \in Slots : pc'[s] \in {"missed", "committed"} /\ KeyOf(s)' = rk
                              => req'[s].began <= log[i].ended
        BY <1>1, <1>3, <2>2, <3>1 DEF SettledBy, KeyOf, RedisKey
      <3> QED BY <1>1, <1>3, <2>1, <3>1, <3>3, <3>4 DEF SettledBy, AnswersTo
    <2> QED BY <2>4, <2>5, <2>6
  <1> QED BY <1>2, <1>3 DEF CreateTicket

LEMMA StoreKeeps ==
  ASSUME IInv, NEW r \in Slots, Store(r)
  PROVE  Owned' /\ Times' /\ Settled'
  <1>1. /\ pc[r] = "committed" /\ UNCHANGED <<tickets, clock>> /\ Answer(r, made[r])
        /\ made[r] \in 1 .. Len(tickets) /\ made[r] # 0 /\ TicketOf(made[r], KeyOf(r))
        /\ Keyed(r) <=> KeyOf(r) \in RedisKeys
    BY KnownTickets DEF Store, IInv, Owned
  <1>2. /\ lost \subseteq lost'
        /\ \/ store' = store
           \/ /\ KeyOf(r) \in RedisKeys
              /\ store' = [store EXCEPT ![KeyOf(r)] =
                             IF store[KeyOf(r)] = 0 THEN made[r] ELSE store[KeyOf(r)]]
        /\ KeyOf(r) \in RedisKeys \ lost' => store' # store \/ store[KeyOf(r)] # 0
    BY <1>1 DEF Store, SetIfAbsent, IInv, TypeInv, TypeOK
  <1>3. \A rk \in RedisKeys : store[rk] # 0 => store'[rk] = store[rk]
    BY <1>2 DEF IInv, TypeInv, TypeOK
  <1>4. \A rk \in RedisKeys : store'[rk] # 0 => TicketOf(store'[rk], rk)
    BY <1>1, <1>2 DEF IInv, Owned, TypeInv, TypeOK
  <1>5. ASSUME KeyOf(r) \in RedisKeys \ lost'
        PROVE  /\ store'[KeyOf(r)] # 0
               /\ \A i \in AnswersTo(KeyOf(r)) : ~(log[i].ended < req[r].began)
    <2>1. store'[KeyOf(r)] # 0
      BY <1>1, <1>2, <1>5 DEF IInv, TypeInv, TypeOK
    <2>2. ASSUME NEW i \in AnswersTo(KeyOf(r)) PROVE ~(log[i].ended < req[r].began)
      <3>1. SettledBy(KeyOf(r), i)
        BY <1>2, <1>5 DEF IInv, Settled
      <3>2. log[i].ended \in Nat /\ req[r].began \in Nat
        BY <1>1, LogTypes, KnownTickets DEF IInv, AnswersTo, Requests
      <3> QED BY <1>1, <3>1, <3>2 DEF SettledBy
    <2> QED BY <2>1, <2>2
  <1> QED BY <1>1, <1>2, <1>3, <1>4, <1>5, AnswerKeeps

LEMMA ExpireKeeps ==
  ASSUME IInv, NEW rk \in RedisKeys, Expire(rk)
  PROVE  Owned' /\ Times' /\ Settled'
  <1>1. /\ UNCHANGED <<tickets, clock, pc, req, made, log>> /\ lost' = lost \cup {rk}
        /\ \A k \in RedisKeys : store'[k] = IF k = rk THEN 0 ELSE store[k]
    BY DEF Expire, session, IInv, TypeInv, TypeOK
  <1>2. Owned' /\ Times'
    BY <1>1 DEF IInv, Owned, Times, TicketOf, KeyOf, RedisKey
  <1>3. Settled'
    <2> SUFFICES ASSUME NEW k \in RedisKeys \ (lost \cup {rk}), NEW i \in AnswersTo(k)
                 PROVE  SettledBy(k, i)'
      BY <1>1 DEF Settled, AnswersTo
    <2>1. SettledBy(k, i)
      BY DEF IInv, Settled
    <2> QED BY <1>1, <2>1 DEF SettledBy, AnswersTo, TicketOf, KeyOf, RedisKey
  <1> QED BY <1>2, <1>3

LEMMA IInvStep == IInv /\ [Next]_vars => IInv'
  <1> SUFFICES ASSUME IInv, [Next]_vars PROVE IInv'
    OBVIOUS
  <1>1. TypeInv'
    BY TypeStep DEF IInv
  <1>2. Owned' /\ Times' /\ Settled'
    <2>1. CASE UNCHANGED vars
      <3>1. UNCHANGED <<tickets, store, lost, clock, pc, req, made, log>>
        BY <2>1 DEF vars, session
      <3>2. Owned' /\ Times'
        BY <3>1 DEF IInv, Owned, Times, TicketOf, KeyOf, RedisKey
      <3>3. Settled'
        BY <3>1 DEF IInv, Settled, SettledBy, AnswersTo, TicketOf, KeyOf, RedisKey
      <3> QED BY <3>2, <3>3
    <2>2. ASSUME NEW r \in Slots, Begin(r) PROVE Owned' /\ Times' /\ Settled'
      BY <2>2, BeginKeeps
    <2>3. ASSUME NEW r \in Slots, Serve(r) PROVE Owned' /\ Times' /\ Settled'
      BY <2>3, LookupKeeps, CreateKeeps, StoreKeeps DEF Serve
    <2>4. ASSUME NEW r \in Slots, Fail(r) PROVE Owned' /\ Times' /\ Settled'
      BY <2>4, EndKeeps DEF Fail, Refuse
    <2>5. ASSUME NEW rk \in RedisKeys, Expire(rk) PROVE Owned' /\ Times' /\ Settled'
      BY <2>5, ExpireKeeps
    <2> QED BY <2>1, <2>2, <2>3, <2>4, <2>5 DEF Next
  <1> QED BY <1>1, <1>2 DEF IInv

LEMMA IInvHolds == Spec => []IInv
  BY IInvInit, IInvStep, PTL DEF Spec

\* A 201 shows a committed ticket that the same user asked for with the same key.
THEOREM AnswersShowOwnTickets == Spec => []AnswersAreOwn
  <1>1. IInv => AnswersAreOwn
    BY DEF IInv, Owned, TicketOf, RedisKey, AnswersAreOwn
  <1> QED BY IInvHolds, <1>1, PTL

\* A retry after the 201 creates no second ticket, unless the key is lost.
THEOREM RetriesCreateNothing == Spec => []NoCreationAfterAnswer
  <1>1. IInv => NoCreationAfterAnswer
    BY DEF IInv, Settled, SettledBy, TicketOf, NoCreationAfterAnswer
  <1> QED BY IInvHolds, <1>1, PTL

\* Requests that begin after one answer to their key all get the same ticket.
THEOREM AnswersConverge == Spec => []AnswersSettle
  <1>1. IInv => AnswersSettle
    <2> SUFFICES ASSUME IInv, NEW rk \in RedisKeys \ lost,
                        NEW i \in AnswersTo(rk), NEW j \in AnswersTo(rk), NEW k \in AnswersTo(rk),
                        log[i].ended < log[j].began, log[i].ended < log[k].began
                 PROVE  log[j].ticket = log[k].ticket
      BY DEF AnswersSettle
    <2>1. SettledBy(rk, i)
      BY DEF IInv, Settled
    <2> QED BY <2>1 DEF SettledBy
  <1> QED BY IInvHolds, <1>1, PTL
================================================================================
