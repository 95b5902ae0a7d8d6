------------------------------- MODULE RateLimit -------------------------------
(***************************************************************************)
(* The fixed-window counters of core/rate_limit.py and the endpoints that   *)
(* ask them (api/routers/auth.py): POST register asks for its address,     *)
(* POST login for its address and then for its e-mail.                     *)
(*                                                                         *)
(* hit() reads the clock, sends INCR, sends EXPIRE when the count is 1,     *)
(* and compares: Redis orders the commands of all processes, and anything  *)
(* may happen between two of them.  Redis may fail at each; hit() then     *)
(* lets the request pass.                                                  *)
(*                                                                         *)
(* Time is whole seconds, as int(time.time()) is; a second can pass at any *)
(* step.                                                                   *)
(***************************************************************************)
EXTENDS Integers, Sequences, FiniteSets

CONSTANTS
  Keys,      \* "rl:login:ip:<ip>", "rl:login:email:<email>", "rl:register:ip:<ip>"
  Limit,     \* settings.rate_limit_..., by key
  W,         \* settings.rate_limit_window_sec
  Requests,  \* the requests of a behaviour
  Paths,     \* the keys a request asks, in their order
  MaxTime,   \* bound on the clock
  MaxFaults  \* bound on the failures of Redis and of processes

ASSUME ParametersAssumption ==
  /\ Limit \in [Keys -> Nat]
  /\ W \in Nat \ {0}
  /\ IsFiniteSet(Requests)
  /\ Paths \subseteq Seq(Keys) \ {<<>>}
  /\ \A p \in Paths : \A i, j \in DOMAIN p : p[i] = p[j] => i = j
  /\ MaxTime \in Nat /\ MaxFaults \in Nat

VARIABLES
  now,      \* the clock
  counter,  \* Redis: the count of each key and window, and when it dies
  pc,       \* the stage of each request
  path,     \* the keys it asks
  hit,      \* its call of hit(): which key, window_start, and whether its INCR was
            \* executed no later than a second after the window
  asked,    \* the calls of hit() so far: request, key and window
  passed,   \* those with such an INCR that were allowed by its count, and the count
  faults    \* counts the failures

vars == <<now, counter, pc, path, hit, asked, passed, faults>>

Starts == {t \in 0 .. MaxTime : t % W = 0}

WindowStart(t) == t - (t % W)

NoCounter == [count |-> 0, dies |-> 0]
NoHit == [pos |-> 0, start |-> 0, ontime |-> FALSE]

Key(r) == path[r][hit[r].pos]

\* Mutant: one counter for a key, whatever the window.
OneCounter(r) == 0

\* redis_key: the key and the window.
CounterKey(r) == hit[r].start

CounterOf(r) == counter[Key(r)][CounterKey(r)]

--------------------------------------------------------------------------------

Init ==
  /\ now = 0
  /\ counter = [k \in Keys |-> [s \in Starts |-> NoCounter]]
  /\ pc = [r \in Requests |-> "new"]
  /\ path = [r \in Requests |-> <<>>]
  /\ hit = [r \in Requests |-> NoHit]
  /\ asked = {}
  /\ passed = {}
  /\ faults = 0

\* hit() is called for the pos-th key of p: it reads the clock.
Ask(r, p, pos) ==
  /\ hit' = [hit EXCEPT ![r] =
       [pos |-> pos, start |-> WindowStart(now), ontime |-> FALSE]]
  /\ asked' = asked \cup {[req |-> r, key |-> p[pos], start |-> WindowStart(now)]}
  /\ pc' = [pc EXCEPT ![r] = "incr"]

Begin(r) ==
  /\ pc[r] = "new"
  /\ \E p \in Paths :
       /\ path' = [path EXCEPT ![r] = p]
       /\ Ask(r, p, 1)
  /\ UNCHANGED <<now, counter, passed, faults>>

\* hit() has returned True: on to the next key, or to the work of the endpoint.
Allow(r) ==
  \/ /\ hit[r].pos < Len(path[r])
     /\ Ask(r, path[r], hit[r].pos + 1)
  \/ /\ hit[r].pos = Len(path[r])
     /\ pc' = [pc EXCEPT ![r] = "served"]
     /\ UNCHANGED <<hit, asked>>

Pass(r, count, ontime) ==
  /\ passed' = IF ontime
       THEN passed \cup {[req |-> r, key |-> Key(r), start |-> hit[r].start, count |-> count]}
       ELSE passed
  /\ Allow(r)

\* The comparison; a refused request is answered 429 with its Retry-After.
Conclude(r, count, ontime) ==
  \/ /\ count > Limit[Key(r)]
     /\ pc' = [pc EXCEPT ![r] = "refused"]
     /\ UNCHANGED <<hit, asked, passed>>
  \/ /\ count <= Limit[Key(r)]
     /\ Pass(r, count, ontime)

--------------------------------------------------------------------------------
\* The commands.

Incremented(r) ==
  [counter EXCEPT ![Key(r)][CounterKey(r)].count = CounterOf(r).count + 1]

OnTime(r) == now <= hit[r].start + W

\* redis_client.incr; a count of 1 asks for an EXPIRE before the comparison.
Incr(r) ==
  /\ pc[r] = "incr"
  /\ counter' = Incremented(r)
  /\ \/ /\ CounterOf(r).count = 0
        /\ pc' = [pc EXCEPT ![r] = "expire"]
        /\ hit' = [hit EXCEPT ![r].ontime = OnTime(r)]
        /\ UNCHANGED <<asked, passed>>
     \/ /\ CounterOf(r).count > 0
        /\ Conclude(r, CounterOf(r).count + 1, OnTime(r))
  /\ UNCHANGED <<now, path, faults>>

\* Mutant: the time to live is the window.
WithoutGrace(r) ==
  [counter EXCEPT ![Key(r)][CounterKey(r)].dies = now + W]

\* redis_client.expire: the counter lives for window_sec + 1 seconds from here.
Mortal(r) ==
  [counter EXCEPT ![Key(r)][CounterKey(r)].dies = now + W + 1]

Expire(r) ==
  /\ pc[r] = "expire"
  /\ counter' = Mortal(r)
  /\ Conclude(r, 1, hit[r].ontime)
  /\ UNCHANGED <<now, path, faults>>

--------------------------------------------------------------------------------
\* Failures.

\* A command fails, executed or not.  The client library may send it again; else hit()
\* catches the RedisError and returns True.
Fault(r) ==
  /\ faults < MaxFaults
  /\ faults' = faults + 1
  /\ \/ pc[r] = "incr"   /\ counter' \in {counter, Incremented(r)}
     \/ pc[r] = "expire" /\ counter' \in {counter, Mortal(r)}
  /\ \/ UNCHANGED <<pc, hit, asked>>
     \/ Allow(r)
  /\ UNCHANGED <<now, path, passed>>

\* The process that serves the request ends.
Crash(r) ==
  /\ pc[r] \in {"incr", "expire"}
  /\ faults < MaxFaults
  /\ faults' = faults + 1
  /\ pc' = [pc EXCEPT ![r] = "lost"]
  /\ UNCHANGED <<now, counter, path, hit, asked, passed>>

--------------------------------------------------------------------------------
\* Redis and the clock.  A counter whose EXPIRE was executed within second t is gone
\* at some moment of the second t + W + 1.

Evict(k, s) ==
  /\ counter[k][s].dies = now /\ now > 0
  /\ counter' = [counter EXCEPT ![k][s] = NoCounter]
  /\ UNCHANGED <<now, pc, path, hit, asked, passed, faults>>

Tick ==
  /\ now < MaxTime
  /\ now' = now + 1
  /\ counter' = [k \in Keys |-> [s \in Starts |->
       IF counter[k][s].dies \in 1 .. now THEN NoCounter ELSE counter[k][s]]]
  /\ UNCHANGED <<pc, path, hit, asked, passed, faults>>

Next ==
  \/ \E r \in Requests : Begin(r) \/ Incr(r) \/ Expire(r) \/ Fault(r) \/ Crash(r)
  \/ \E k \in Keys, s \in Starts : Evict(k, s)
  \/ Tick

Spec == Init /\ [][Next]_vars

--------------------------------------------------------------------------------

Counters == [count : Nat, dies : Nat]
Hits == [pos : Nat, start : Starts, ontime : BOOLEAN]

TypeOK ==
  /\ now \in 0 .. MaxTime
  /\ counter \in [Keys -> [Starts -> Counters]]
  /\ pc \in [Requests -> {"new", "incr", "expire", "refused", "served", "lost"}]
  /\ path \in [Requests -> Paths \cup {<<>>}]
  /\ hit \in [Requests -> Hits \cup {NoHit}]
  /\ \A r \in Requests : pc[r] # "new" => hit[r] \in Hits /\ hit[r].pos \in DOMAIN path[r]
  /\ asked \subseteq [req : Requests, key : Keys, start : Starts]
  /\ passed \subseteq [req : Requests, key : Keys, start : Starts, count : Nat]
  /\ faults \in 0 .. MaxFaults

--------------------------------------------------------------------------------

\* The requests of one window that a key lets through by its counter are at most its
\* limit, whatever dies or is counted twice in between.  (Those left out: a request
\* stalled for more than a second past its window before its INCR, which may find the
\* counter gone, and one that passes because Redis fails.)
LimitPerWindow ==
  \A k \in Keys, s \in Starts :
    Cardinality({p \in passed : p.key = k /\ p.start = s}) <= Limit[k]

\* A request is refused only after as many others of the same key and window as the
\* limit has, give or take those counted twice: neither another window nor a counter
\* that was never given its time to live can refuse it.
RefusedOnlyWhenFull ==
  \A r \in Requests : pc[r] = "refused" =>
    Cardinality({a \in asked : a.key = Key(r) /\ a.start = hit[r].start}) + faults
      > Limit[Key(r)]
================================================================================
