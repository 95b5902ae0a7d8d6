---------------------------- MODULE RateLimitProofs ----------------------------
(***************************************************************************)
(* Proofs about RateLimit, for any keys, limits, window and requests, any   *)
(* number of failures and any time: type correctness, that the counter of a *)
(* window lets through no more than its limit, and that it refuses nobody   *)
(* before that.                                                             *)
(***************************************************************************)
EXTENDS RateLimit, FiniteSetTheorems, TLAPS

--------------------------------------------------------------------------------
\* Windows.

\* A multiple of the window that is less than it is 0.
LEMMA SmallMultiple ==
  ASSUME NEW w \in Nat \ {0}, NEW q \in Int, w * q \in 0 .. w - 1
  PROVE  w * q = 0
  <1>1. CASE q >= 1
    <2>1. w * q >= w
      BY <1>1, Z3
    <2> QED BY <2>1
  <1>2. CASE q <= -1
    <2>1. w * q <= -w
      BY <1>2, Z3
    <2> QED BY <2>1
  <1>3. CASE q = 0
    BY <1>3
  <1> QED BY <1>1, <1>2, <1>3

\* Division with remainder.
LEMMA DivMod ==
  ASSUME NEW w \in Nat \ {0}, NEW x \in Nat
  PROVE  /\ x % w \in 0 .. w - 1
         /\ x = w * (x \div w) + (x % w)
         /\ x \div w \in Int
  OBVIOUS

LEMMA Distributes ==
  ASSUME NEW w \in Int, NEW a \in Int, NEW b \in Int
  PROVE  w * (a - b) = w * a - w * b
  BY Z3

LEMMA MultipleHasNoRest ==
  ASSUME NEW w \in Nat \ {0}, NEW q \in Int, w * q >= 0
  PROVE  (w * q) % w = 0
  <1> DEFINE x == w * q
             d == x \div w
             m == x % w
  <1>1. x \in Nat
    OBVIOUS
  <1>2. m \in 0 .. w - 1 /\ x = w * d + m /\ d \in Int
    BY <1>1, DivMod
  <1> HIDE DEF d, m
  <1>3. w * (q - d) = m
    <2>1. w * (q - d) = w * q - w * d
      BY <1>2, Distributes
    <2>2. w * d \in Int
      BY <1>2
    <2> QED BY <1>1, <1>2, <2>1, <2>2
  <1>4. m = 0
    <2>1. q - d \in Int
      BY <1>2
    <2> QED BY <1>2, <1>3, <2>1, SmallMultiple
  <1> QED BY <1>4 DEF m

\* window_start is the start of a window, and not in the future.
LEMMA WindowStartIsStart ==
  ASSUME NEW t \in 0 .. MaxTime
  PROVE  WindowStart(t) \in Starts /\ WindowStart(t) <= t
  <1> DEFINE d == t \div W
             m == t % W
  <1>1. W \in Nat \ {0} /\ MaxTime \in Nat
    BY ParametersAssumption
  <1>2. m \in 0 .. W - 1 /\ t = W * d + m /\ d \in Int
    BY <1>1, DivMod
  <1>3. WindowStart(t) = t - m
    BY DEF WindowStart
  <1> HIDE DEF d, m
  <1>4. WindowStart(t) = W * d /\ W * d \in Int /\ W * d <= t
    BY <1>1, <1>2, <1>3
  <1>5. W * d >= 0
    <2>1. CASE d >= 0
      BY <1>1, <1>2, <2>1, Z3
    <2>2. CASE d <= -1
      <3>1. W * d <= -W
        BY <1>1, <1>2, <2>2, Z3
      <3> QED BY <1>1, <1>2, <3>1
    <2> QED BY <1>2, <2>1, <2>2
  <1>6. (W * d) % W = 0
    BY <1>1, <1>2, <1>5, MultipleHasNoRest
  <1> QED BY <1>1, <1>4, <1>5, <1>6 DEF Starts

--------------------------------------------------------------------------------
\* The inductive invariant.

\* Requests that have begun ask a path.
Underway(r) == pc[r] # "new"

\* No counter dies before a second after its window is over.
CountersOutliveWindows ==
  \A k \in Keys, s \in Starts : counter[k][s].dies # 0 => counter[k][s].dies > s + W

\* The window of a call of hit() has begun.
HitsBegan == \A r \in Requests : Underway(r) => hit[r].start <= now

\* A request whose INCR came first, and in time, has yet to send its EXPIRE.
First(r) == pc[r] = "expire" /\ hit[r].ontime

\* The counts of the requests that passed are distinct places within the limit ...
PlacesAreDistinct ==
  /\ \A p \in passed : p.count \in 1 .. Limit[p.key]
  /\ \A p, q \in passed :
       p.key = q.key /\ p.start = q.start /\ p.count = q.count => p = q

\* ... and none that the counter will give again while requests are in time.
CounterIsAhead ==
  /\ \A p \in passed : now <= p.start + W => counter[p.key][p.start].count >= p.count
  /\ \A r \in Requests : First(r) /\ now <= hit[r].start + W => CounterOf(r).count >= 1

\* The first place belongs to nobody else.
FirstIsAlone ==
  \A r \in Requests : First(r) =>
    /\ \A p \in passed : p.key = Key(r) /\ p.start = hit[r].start => p.count # 1
    /\ \A q \in Requests : First(q) /\ Key(q) = Key(r) /\ hit[q].start = hit[r].start => q = r

Inv ==
  /\ TypeOK
  /\ CountersOutliveWindows
  /\ HitsBegan
  /\ PlacesAreDistinct
  /\ CounterIsAhead
  /\ FirstIsAlone

--------------------------------------------------------------------------------
\* The step of one request.

Stages == {"new", "incr", "expire", "refused", "served", "lost"}

\* Where a step leaves the calls of hit(): that of r is a call of its path, in a window
\* that has begun, and those of the others are as they were.
CallsMove(r) ==
  /\ pc' \in [Requests -> Stages]
  /\ hit' \in [Requests -> Hits \cup {NoHit}]
  /\ asked' \subseteq [req : Requests, key : Keys, start : Starts]
  /\ \A q \in Requests \ {r} : pc'[q] = pc[q] /\ hit'[q] = hit[q]
  /\ hit'[r] \in Hits
  /\ hit'[r].start <= now

\* What a step makes of the counters: they grow, and get a life that is long enough.
CountersGrow ==
  /\ counter' \in [Keys -> [Starts -> Counters]]
  /\ \A k \in Keys, s \in Starts :
       /\ counter'[k][s].count >= counter[k][s].count
       /\ counter'[k][s].dies = counter[k][s].dies \/ counter'[k][s].dies > s + W

RequestStep(r) ==
  /\ now' = now
  /\ path' \in [Requests -> Paths \cup {<<>>}]
  /\ \A q \in Requests \ {r} : path'[q] = path[q]
  /\ CallsMove(r)
  /\ hit'[r].pos \in DOMAIN path'[r]
  /\ CountersGrow

LEMMA PathType ==
  ASSUME NEW p \in Paths, NEW i \in DOMAIN p
  PROVE  p[i] \in Keys /\ i \in Nat /\ i >= 1 /\ i <= Len(p)
  BY ParametersAssumption

LEMMA CallType ==
  ASSUME TypeOK, NEW r \in Requests, Underway(r)
  PROVE  /\ path[r] \in Paths
         /\ hit[r] \in Hits
         /\ hit[r].pos \in DOMAIN path[r]
         /\ hit[r].start \in Starts
         /\ Key(r) \in Keys
  <1>1. hit[r] \in Hits /\ hit[r].pos \in DOMAIN path[r] /\ path[r] \in Paths \cup {<<>>}
    BY DEF TypeOK, Underway
  <1>2. path[r] \in Paths
    BY <1>1
  <1>3. Key(r) \in Keys
    BY <1>1, <1>2, PathType DEF Key
  <1> QED BY <1>1, <1>2, <1>3 DEF Hits

LEMMA AskMoves ==
  ASSUME TypeOK, NEW r \in Requests, NEW p \in Paths, NEW pos \in DOMAIN p, Ask(r, p, pos)
  PROVE  /\ CallsMove(r)
         /\ hit'[r].pos = pos
         /\ pc'[r] = "incr"
  <1>1. WindowStart(now) \in Starts /\ WindowStart(now) <= now
    BY WindowStartIsStart DEF TypeOK
  <1>2. pos \in Nat /\ p[pos] \in Keys
    BY PathType
  <1>3. [pos |-> pos, start |-> WindowStart(now), ontime |-> FALSE] \in Hits
    BY <1>1, <1>2 DEF Hits
  <1>4. pc' \in [Requests -> Stages] /\ pc'[r] = "incr"
    BY DEF TypeOK, Ask, Stages
  <1>5. hit' \in [Requests -> Hits \cup {NoHit}]
    BY <1>3 DEF TypeOK, Ask
  <1>6. hit'[r] = [pos |-> pos, start |-> WindowStart(now), ontime |-> FALSE]
    BY DEF TypeOK, Ask
  <1>7. asked' \subseteq [req : Requests, key : Keys, start : Starts]
    BY <1>1, <1>2 DEF TypeOK, Ask
  <1>8. \A q \in Requests \ {r} : pc'[q] = pc[q] /\ hit'[q] = hit[q]
    BY DEF TypeOK, Ask
  <1> QED BY <1>1, <1>3, <1>4, <1>5, <1>6, <1>7, <1>8 DEF CallsMove

\* A step that leaves the call of r as it is, but for pc and ontime.
LEMMA StageMoves ==
  ASSUME Inv, NEW r \in Requests, Underway(r), NEW stage \in Stages,
         pc' = [pc EXCEPT ![r] = stage],
         UNCHANGED asked,
         \/ UNCHANGED hit
         \/ hit' = [hit EXCEPT ![r].ontime = OnTime(r)]
  PROVE  /\ CallsMove(r)
         /\ hit'[r].pos = hit[r].pos /\ hit'[r].start = hit[r].start
         /\ pc'[r] = stage
  <1>1. hit[r] \in Hits /\ hit[r].start \in Starts
    BY CallType DEF Inv
  <1>2. OnTime(r) \in BOOLEAN
    BY DEF OnTime
  <1>3. hit \in [Requests -> Hits \cup {NoHit}] /\ pc \in [Requests -> Stages]
    BY DEF Inv, TypeOK, Stages
  <1>4. /\ hit' \in [Requests -> Hits \cup {NoHit}]
        /\ hit'[r] \in Hits
        /\ hit'[r].pos = hit[r].pos /\ hit'[r].start = hit[r].start
        /\ \A q \in Requests \ {r} : hit'[q] = hit[q]
    BY <1>1, <1>2, <1>3 DEF Hits
  <1>5. /\ pc' \in [Requests -> Stages] /\ pc'[r] = stage
        /\ \A q \in Requests \ {r} : pc'[q] = pc[q]
    BY <1>3
  <1>6. hit[r].start <= now
    BY DEF Inv, HitsBegan
  <1>7. asked' \subseteq [req : Requests, key : Keys, start : Starts]
    BY DEF Inv, TypeOK
  <1> QED BY <1>4, <1>5, <1>6, <1>7 DEF CallsMove

LEMMA AllowMoves ==
  ASSUME Inv, NEW r \in Requests, Underway(r), Allow(r)
  PROVE  /\ CallsMove(r)
         /\ hit'[r].pos \in DOMAIN path[r]
         /\ pc'[r] \in {"incr", "served"}
  <1>1. path[r] \in Paths /\ hit[r].pos \in DOMAIN path[r]
    BY CallType DEF Inv
  <1>2. CASE hit[r].pos < Len(path[r]) /\ Ask(r, path[r], hit[r].pos + 1)
    <2>1. hit[r].pos + 1 \in DOMAIN path[r]
      BY <1>1, <1>2, ParametersAssumption
    <2> QED BY <1>1, <1>2, <2>1, AskMoves DEF Inv
  <1>3. CASE pc' = [pc EXCEPT ![r] = "served"] /\ UNCHANGED <<hit, asked>>
    BY <1>1, <1>3, StageMoves DEF Stages
  <1> QED BY <1>2, <1>3 DEF Allow

LEMMA CounterTypes ==
  ASSUME TypeOK, NEW k \in Keys, NEW s \in Starts
  PROVE  /\ counter[k][s] \in Counters
         /\ counter[k][s].count \in Nat /\ counter[k][s].dies \in Nat
         /\ s \in Int /\ now \in Int /\ W \in Int /\ W > 0
  <1>1. counter[k][s] \in Counters
    BY DEF TypeOK
  <1>2. s \in Int /\ now \in Int /\ W \in Int /\ W > 0
    BY ParametersAssumption DEF TypeOK, Starts
  <1> QED BY <1>1, <1>2 DEF Counters

\* INCR and EXPIRE make the counters grow.
LEMMA CommandsGrow ==
  ASSUME Inv, NEW r \in Requests, Underway(r),
         counter' \in {counter, Incremented(r), Mortal(r)}
  PROVE  CountersGrow
  <1> DEFINE k0 == Key(r)
             s0 == hit[r].start
  <1>1. k0 \in Keys /\ s0 \in Starts
    BY CallType DEF Inv
  <1>2. s0 <= now
    BY DEF Inv, HitsBegan
  <1>3. counter \in [Keys -> [Starts -> Counters]]
    BY DEF Inv, TypeOK
  <1>4. /\ counter[k0][s0] \in Counters
        /\ counter[k0][s0].count \in Nat /\ counter[k0][s0].dies \in Nat
        /\ s0 \in Int /\ now \in Int /\ W \in Int /\ W > 0
    BY <1>1, CounterTypes DEF Inv
  <1> HIDE DEF k0, s0
  <1>5. CASE counter' = counter
    <2>1. \A k \in Keys, s \in Starts : counter[k][s].count \in Nat
      BY CounterTypes DEF Inv
    <2> QED BY <1>3, <1>5, <2>1 DEF CountersGrow
  <1>6. ASSUME NEW c \in Counters, counter' = [counter EXCEPT ![k0][s0] = c],
               c.count >= counter[k0][s0].count,
               c.dies = counter[k0][s0].dies \/ c.dies > s0 + W
        PROVE  CountersGrow
    <2>1. counter' \in [Keys -> [Starts -> Counters]]
      BY <1>1, <1>3, <1>6
    <2>2. \A k \in Keys, s \in Starts :
            counter'[k][s] = IF k = k0 /\ s = s0 THEN c ELSE counter[k][s]
      BY <1>1, <1>3, <1>6
    <2>3. \A k \in Keys, s \in Starts : counter[k][s].count \in Nat
      BY CounterTypes DEF Inv
    <2> QED BY <1>6, <2>1, <2>2, <2>3 DEF CountersGrow
  <1>7. CASE counter' = Incremented(r)
    <2> DEFINE c == [counter[k0][s0] EXCEPT !.count = counter[k0][s0].count + 1]
    <2>1. counter' = [counter EXCEPT ![k0][s0] = c]
      BY <1>1, <1>3, <1>7 DEF Incremented, CounterOf, CounterKey, k0, s0
    <2>2. c \in Counters /\ c.count = counter[k0][s0].count + 1 /\ c.dies = counter[k0][s0].dies
      BY <1>4 DEF Counters
    <2> HIDE DEF c
    <2>3. c.count >= counter[k0][s0].count
      BY <1>4, <2>2
    <2> QED BY <1>6, <2>1, <2>2, <2>3
  <1>8. CASE counter' = Mortal(r)
    <2> DEFINE c == [counter[k0][s0] EXCEPT !.dies = now + W + 1]
    <2>1. counter' = [counter EXCEPT ![k0][s0] = c]
      BY <1>1, <1>3, <1>8 DEF Mortal, CounterKey, k0, s0
    <2>2. now + W + 1 \in Nat /\ now + W + 1 > s0 + W
      BY <1>2, <1>4, ParametersAssumption DEF Inv, TypeOK, s0
    <2>3. c \in Counters /\ c.count = counter[k0][s0].count /\ c.dies = now + W + 1
      BY <1>4, <2>2 DEF Counters
    <2> HIDE DEF c
    <2>4. c.count >= counter[k0][s0].count
      BY <1>4, <2>3
    <2> QED BY <1>6, <2>1, <2>2, <2>3, <2>4
  <1> QED BY <1>5, <1>7, <1>8

\* INCR makes the count of its own counter one more.
LEMMA IncrCounts ==
  ASSUME TypeOK, NEW r \in Requests, Underway(r), counter' = Incremented(r)
  PROVE  counter'[Key(r)][hit[r].start].count = CounterOf(r).count + 1
  <1>1. Key(r) \in Keys /\ hit[r].start \in Starts
    BY CallType
  <1>2. counter[Key(r)][hit[r].start] \in Counters
    BY <1>1, CounterTypes
  <1> QED BY <1>1, <1>2 DEF TypeOK, Incremented, CounterOf, CounterKey, Counters

\* What every step of a request keeps.
LEMMA RequestKeeps ==
  ASSUME Inv, NEW r \in Requests, RequestStep(r)
  PROVE  CountersOutliveWindows' /\ HitsBegan'
  <1>1. CountersOutliveWindows'
    BY DEF Inv, CountersOutliveWindows, RequestStep, CountersGrow
  <1>2. HitsBegan'
    BY DEF Inv, HitsBegan, Underway, RequestStep, CallsMove
  <1> QED BY <1>1, <1>2

LEMMA RequestTypes ==
  ASSUME Inv, NEW r \in Requests, RequestStep(r),
         passed' \subseteq [req : Requests, key : Keys, start : Starts, count : Nat],
         faults' \in 0 .. MaxFaults
  PROVE  TypeOK'
  BY DEF Inv, TypeOK, RequestStep, CallsMove, CountersGrow, Stages

--------------------------------------------------------------------------------
\* What a step makes of the places.

Places == PlacesAreDistinct /\ CounterIsAhead /\ FirstIsAlone

Passes == [req : Requests, key : Keys, start : Starts, count : Nat]

\* The others stay first, or not, with the same counter.
LEMMA OthersStay ==
  ASSUME NEW r \in Requests, RequestStep(r), NEW q \in Requests, q # r
  PROVE  /\ First(q)' <=> First(q)
         /\ Key(q)' = Key(q)
         /\ hit'[q] = hit[q]
         /\ CounterOf(q)' = counter'[Key(q)][hit[q].start]
  <1>1. hit'[q] = hit[q] /\ pc'[q] = pc[q] /\ path'[q] = path[q]
    BY DEF RequestStep, CallsMove
  <1> QED BY <1>1 DEF First, Key, CounterOf, CounterKey

LEMMA FirstUnderway ==
  ASSUME NEW r \in Requests, First(r)
  PROVE  Underway(r)
  BY DEF First, Underway

\* Growing counters stay ahead of the places they were ahead of.
LEMMA GrowthStaysAhead ==
  ASSUME Inv, CountersGrow
  PROVE  /\ \A p \in passed : now <= p.start + W => counter'[p.key][p.start].count >= p.count
         /\ \A q \in Requests : First(q) /\ now <= hit[q].start + W =>
              counter'[Key(q)][hit[q].start].count >= 1
  <1>1. ASSUME NEW p \in passed, now <= p.start + W
        PROVE  counter'[p.key][p.start].count >= p.count
    <2>1. p \in Passes
      BY DEF Inv, TypeOK, Passes
    <2>2. p.key \in Keys /\ p.start \in Starts /\ p.count \in Nat
      BY <2>1 DEF Passes
    <2>3. counter[p.key][p.start].count >= p.count
      BY <1>1 DEF Inv, CounterIsAhead
    <2>4. /\ counter[p.key][p.start].count \in Nat
          /\ counter'[p.key][p.start].count \in Nat
          /\ counter'[p.key][p.start].count >= counter[p.key][p.start].count
      BY <2>2, CounterTypes DEF Inv, CountersGrow, Counters
    <2> QED BY <2>2, <2>3, <2>4
  <1>2. ASSUME NEW q \in Requests, First(q), now <= hit[q].start + W
        PROVE  counter'[Key(q)][hit[q].start].count >= 1
    <2>1. Key(q) \in Keys /\ hit[q].start \in Starts
      BY <1>2, FirstUnderway, CallType DEF Inv
    <2>2. counter[Key(q)][hit[q].start].count >= 1
      BY <1>2 DEF Inv, CounterIsAhead, CounterOf, CounterKey
    <2>3. /\ counter[Key(q)][hit[q].start].count \in Nat
          /\ counter'[Key(q)][hit[q].start].count \in Nat
          /\ counter'[Key(q)][hit[q].start].count >= counter[Key(q)][hit[q].start].count
      BY <2>1, CounterTypes DEF Inv, CountersGrow, Counters
    <2> QED BY <2>2, <2>3
  <1> QED BY <1>1, <1>2

\* A step in which no request passes, or becomes first.
LEMMA QuietStep ==
  ASSUME Inv, NEW r \in Requests, RequestStep(r), passed' = passed,
         First(r)' => First(r) /\ hit'[r] = hit[r] /\ path'[r] = path[r]
  PROVE  Places'
  <1>1. \A q \in Requests : First(q)' =>
          /\ First(q) /\ Key(q)' = Key(q) /\ hit'[q] = hit[q]
          /\ CounterOf(q)' = counter'[Key(q)][hit[q].start]
    <2> TAKE q \in Requests
    <2>1. CASE q = r
      BY <2>1 DEF Key, CounterOf, CounterKey
    <2>2. CASE q # r
      BY <2>2, OthersStay
    <2> QED BY <2>1, <2>2
  <1>2. now' = now /\ now \in Int
    BY DEF RequestStep, Inv, TypeOK
  <1>3. PlacesAreDistinct'
    BY DEF Inv, PlacesAreDistinct
  <1>4. CounterIsAhead'
    BY <1>1, <1>2, GrowthStaysAhead DEF CounterIsAhead, RequestStep
  <1>5. FirstIsAlone'
    BY <1>1 DEF Inv, FirstIsAlone
  <1> QED BY <1>3, <1>4, <1>5 DEF Places

\* A step in which x passes.
LEMMA PassStep ==
  ASSUME Inv, NEW r \in Requests, RequestStep(r), ~First(r)',
         NEW x \in Passes, passed' = passed \cup {x},
         x.count \in 1 .. Limit[x.key],
         \A p \in passed : p.key = x.key /\ p.start = x.start => p.count # x.count,
         now <= x.start + W => counter'[x.key][x.start].count >= x.count,
         \A q \in Requests \ {r} :
           First(q) /\ Key(q) = x.key /\ hit[q].start = x.start => x.count # 1
  PROVE  Places'
  <1>1. \A q \in Requests : First(q)' =>
          /\ q # r /\ First(q) /\ Key(q)' = Key(q) /\ hit'[q] = hit[q]
          /\ CounterOf(q)' = counter'[Key(q)][hit[q].start]
    BY OthersStay
  <1>2. now' = now
    BY DEF RequestStep
  <1>3. PlacesAreDistinct'
    BY DEF Inv, PlacesAreDistinct
  <1>4. CounterIsAhead'
    BY <1>1, <1>2, GrowthStaysAhead DEF CounterIsAhead, RequestStep
  <1>5. FirstIsAlone'
    BY <1>1 DEF Inv, FirstIsAlone
  <1> QED BY <1>3, <1>4, <1>5 DEF Places

--------------------------------------------------------------------------------
\* The steps of a request.

LEMMA BeginKeeps ==
  ASSUME Inv, NEW r \in Requests, Begin(r)
  PROVE  Inv'
  <1>1. PICK p \in Paths : path' = [path EXCEPT ![r] = p] /\ Ask(r, p, 1)
    BY DEF Begin
  <1>2. 1 \in DOMAIN p
    BY ParametersAssumption
  <1>3. CallsMove(r) /\ hit'[r].pos = 1 /\ pc'[r] = "incr"
    BY <1>1, <1>2, AskMoves DEF Inv
  <1>4. /\ path' \in [Requests -> Paths \cup {<<>>}] /\ path'[r] = p
        /\ \A q \in Requests \ {r} : path'[q] = path[q]
    BY <1>1 DEF Inv, TypeOK
  <1>5. CountersGrow
    <2>1. counter' = counter /\ counter \in [Keys -> [Starts -> Counters]]
      BY DEF Begin, Inv, TypeOK
    <2>2. \A k \in Keys, s \in Starts : counter[k][s].count \in Nat
      BY CounterTypes DEF Inv
    <2> QED BY <2>1, <2>2 DEF CountersGrow
  <1>6. RequestStep(r) /\ passed' = passed /\ faults' = faults
    BY <1>2, <1>3, <1>4, <1>5 DEF Begin, RequestStep
  <1>7. TypeOK'
    BY <1>6, RequestTypes DEF Inv, TypeOK
  <1>8. CountersOutliveWindows' /\ HitsBegan'
    BY <1>6, RequestKeeps
  <1>9. Places'
    BY <1>3, <1>6, QuietStep DEF First
  <1> QED BY <1>7, <1>8, <1>9 DEF Inv, Places

\* A step of a call of hit() that was under way.
LEMMA CallStep ==
  ASSUME Inv, NEW r \in Requests, Underway(r),
         counter' \in {counter, Incremented(r), Mortal(r)},
         CallsMove(r), hit'[r].pos \in DOMAIN path[r], UNCHANGED <<now, path>>
  PROVE  RequestStep(r)
  <1>1. CountersGrow
    BY CommandsGrow
  <1>2. path \in [Requests -> Paths \cup {<<>>}]
    BY DEF Inv, TypeOK
  <1> QED BY <1>1, <1>2 DEF RequestStep

\* The comparison: the request is refused, or passes with the count if it was in time.
LEMMA ConcludeMoves ==
  ASSUME Inv, NEW r \in Requests, Underway(r), NEW count \in Nat, NEW ontime \in BOOLEAN,
         Conclude(r, count, ontime)
  PROVE  /\ CallsMove(r)
         /\ hit'[r].pos \in DOMAIN path[r]
         /\ pc'[r] # "expire"
         /\ \/ passed' = passed
            \/ /\ ontime /\ count <= Limit[Key(r)]
               /\ passed' = passed \cup
                    {[req |-> r, key |-> Key(r), start |-> hit[r].start, count |-> count]}
  <1>1. CASE pc' = [pc EXCEPT ![r] = "refused"] /\ UNCHANGED <<hit, asked, passed>>
    <2>1. "refused" \in Stages /\ hit[r].pos \in DOMAIN path[r]
      BY CallType DEF Inv, Stages
    <2>2. CallsMove(r) /\ hit'[r].pos = hit[r].pos /\ pc'[r] = "refused"
      BY <1>1, <2>1, StageMoves
    <2> QED BY <1>1, <2>1, <2>2
  <1>2. CASE count <= Limit[Key(r)] /\ Pass(r, count, ontime)
    <2>1. /\ CallsMove(r) /\ hit'[r].pos \in DOMAIN path[r]
          /\ pc'[r] \in {"incr", "served"}
      BY <1>2, AllowMoves DEF Pass
    <2> QED BY <1>2, <2>1 DEF Pass
  <1> QED BY <1>1, <1>2 DEF Conclude

LEMMA IncrKeeps ==
  ASSUME Inv, NEW r \in Requests, Incr(r)
  PROVE  Inv'
  <1> DEFINE k == Key(r)
             s == hit[r].start
             n == CounterOf(r).count
  <1>1. Underway(r) /\ ~First(r) /\ counter' = Incremented(r)
    BY DEF Incr, Underway, First
  <1>2. k \in Keys /\ s \in Starts /\ hit[r].pos \in DOMAIN path[r]
    BY <1>1, CallType DEF Inv
  <1>3. n \in Nat /\ n = counter[k][s].count /\ counter'[k][s].count = n + 1
    BY <1>1, <1>2, CounterTypes, IncrCounts DEF Inv, CounterOf, CounterKey
  <1>4. now \in Int /\ s \in Int /\ W \in Int /\ Limit[k] \in Nat
    BY <1>2, CounterTypes, ParametersAssumption DEF Inv
  <1>5. faults' = faults /\ UNCHANGED <<now, path>>
    BY DEF Incr
  <1>6. OnTime(r) <=> now <= s + W
    BY DEF OnTime
  <1> HIDE DEF k, s, n
  <1>7. CASE /\ n = 0
             /\ pc' = [pc EXCEPT ![r] = "expire"]
             /\ hit' = [hit EXCEPT ![r].ontime = OnTime(r)]
             /\ UNCHANGED <<asked, passed>>
    <2>1. /\ CallsMove(r) /\ hit'[r].pos = hit[r].pos /\ hit'[r].start = hit[r].start
      BY <1>1, <1>7, StageMoves DEF Stages
    <2>2. RequestStep(r)
      BY <1>1, <1>2, <1>5, <2>1, CallStep
    <2>3. TypeOK'
      BY <1>5, <1>7, <2>2, RequestTypes DEF Inv, TypeOK
    <2>4. CountersOutliveWindows' /\ HitsBegan'
      BY <2>2, RequestKeeps
    <2>5. Key(r)' = k /\ hit'[r].start = s
      BY <1>5, <2>1 DEF Key, k, s
    <2>6. CounterOf(r)' = counter'[k][s]
      BY <2>5 DEF CounterOf, CounterKey
    <2>7. First(r)' => now <= s + W
      <3>1. hit \in [Requests -> Hits \cup {NoHit}] /\ hit[r] \in Hits
        BY <1>1, CallType DEF Inv, TypeOK
      <3>2. hit'[r].ontime = OnTime(r)
        BY <1>7, <3>1 DEF Hits
      <3> QED BY <1>6, <3>2 DEF First
    <2>8. \A q \in Requests \ {r} : First(q)' =>
            /\ First(q) /\ Key(q)' = Key(q) /\ hit'[q] = hit[q]
            /\ CounterOf(q)' = counter'[Key(q)][hit[q].start]
      BY <2>2, OthersStay
    <2>9. PlacesAreDistinct'
      BY <1>7 DEF Inv, PlacesAreDistinct
    <2>10. CounterIsAhead'
      <3>1. CountersGrow
        BY <2>2 DEF RequestStep
      <3> QED BY <1>3, <1>5, <1>7, <2>6, <2>8, <3>1, GrowthStaysAhead DEF CounterIsAhead
    \* While the window lasts, a counter of 0 has let nobody through.
    <2>11. ASSUME now <= s + W
           PROVE  /\ \A p \in passed : ~(p.key = k /\ p.start = s)
                  /\ \A q \in Requests : First(q) => ~(Key(q) = k /\ hit[q].start = s)
      <3>1. counter[k][s].count = 0
        BY <1>3, <1>7
      <3>2. ASSUME NEW p \in passed, p.key = k, p.start = s
            PROVE  FALSE
        <4>1. counter[k][s].count >= p.count
          BY <2>11, <3>2 DEF Inv, CounterIsAhead
        <4>2. p.count \in 1 .. Limit[k]
          BY <3>2 DEF Inv, PlacesAreDistinct
        <4> QED BY <1>4, <3>1, <4>1, <4>2
      <3>3. ASSUME NEW q \in Requests, First(q), Key(q) = k, hit[q].start = s
            PROVE  FALSE
        <4>1. counter[k][s].count >= 1
          BY <2>11, <3>3 DEF Inv, CounterIsAhead, CounterOf, CounterKey
        <4> QED BY <3>1, <4>1
      <3> QED BY <3>2, <3>3
    <2>12. FirstIsAlone'
      BY <1>7, <2>5, <2>7, <2>8, <2>11 DEF Inv, FirstIsAlone
    <2> QED BY <2>3, <2>4, <2>9, <2>10, <2>12 DEF Inv
  <1>8. CASE n > 0 /\ Conclude(r, n + 1, OnTime(r))
    <2> DEFINE x == [req |-> r, key |-> k, start |-> s, count |-> n + 1]
    <2>1. /\ CallsMove(r) /\ hit'[r].pos \in DOMAIN path[r] /\ pc'[r] # "expire"
          /\ \/ passed' = passed
             \/ OnTime(r) /\ n + 1 <= Limit[k] /\ passed' = passed \cup {x}
      <3>1. OnTime(r) \in BOOLEAN /\ n + 1 \in Nat
        BY <1>3 DEF OnTime
      <3> QED BY <1>1, <1>8, <3>1, ConcludeMoves DEF k, s
    <2>2. RequestStep(r) /\ ~First(r)'
      BY <1>1, <1>5, <2>1, CallStep DEF First
    <2>3. x \in Passes
      BY <1>2, <1>3 DEF Passes
    <2>4. TypeOK'
      BY <1>5, <2>1, <2>2, <2>3, RequestTypes DEF Inv, TypeOK, Passes
    <2>5. CountersOutliveWindows' /\ HitsBegan'
      BY <2>2, RequestKeeps
    <2>6. Places'
      <3>1. CASE passed' = passed
        BY <2>2, <3>1, QuietStep
      <3>2. CASE OnTime(r) /\ n + 1 <= Limit[k] /\ passed' = passed \cup {x}
        <4>1. \A p \in passed : p.key = k /\ p.start = s => p.count <= n
          <5>1. now <= s + W
            BY <1>6, <3>2
          <5> QED BY <1>3, <5>1 DEF Inv, CounterIsAhead
        <4>2. \A p \in passed : p.count \in Int
          BY DEF Inv, TypeOK
        <4>3. \A p \in passed : p.key = x.key /\ p.start = x.start => p.count # x.count
          BY <1>3, <4>1, <4>2
        <4>4. x.count \in 1 .. Limit[x.key] /\ x.count # 1
          BY <1>3, <1>4, <1>8, <3>2
        <4>5. counter'[x.key][x.start].count >= x.count
          BY <1>3
        <4> HIDE DEF x
        <4> QED BY <2>2, <2>3, <3>2, <4>3, <4>4, <4>5, PassStep
      <3> QED BY <2>1, <3>1, <3>2
    <2> QED BY <2>4, <2>5, <2>6 DEF Inv, Places
  <1> QED BY <1>7, <1>8 DEF Incr, n

LEMMA ExpireKeeps ==
  ASSUME Inv, NEW r \in Requests, Expire(r)
  PROVE  Inv'
  <1> DEFINE k == Key(r)
             s == hit[r].start
             x == [req |-> r, key |-> k, start |-> s, count |-> 1]
  <1>1. Underway(r) /\ pc[r] = "expire" /\ counter' = Mortal(r)
    BY DEF Expire, Underway
  <1>2. k \in Keys /\ s \in Starts /\ hit[r] \in Hits
    BY <1>1, CallType DEF Inv
  <1>3. faults' = faults /\ UNCHANGED <<now, path>>
    BY DEF Expire
  <1>4. hit[r].ontime \in BOOLEAN
    BY <1>2 DEF Hits
  <1>5. /\ CallsMove(r) /\ hit'[r].pos \in DOMAIN path[r] /\ pc'[r] # "expire"
        /\ \/ passed' = passed
           \/ hit[r].ontime /\ 1 <= Limit[k] /\ passed' = passed \cup {x}
    BY <1>1, <1>4, ConcludeMoves DEF Expire
  <1>6. RequestStep(r) /\ ~First(r)'
    BY <1>1, <1>3, <1>5, CallStep DEF First
  <1>7. x \in Passes
    BY <1>2 DEF Passes
  <1>8. TypeOK'
    BY <1>3, <1>5, <1>6, <1>7, RequestTypes DEF Inv, TypeOK, Passes
  <1>9. CountersOutliveWindows' /\ HitsBegan'
    BY <1>6, RequestKeeps
  <1>10. Places'
    <2>1. CASE passed' = passed
      BY <1>6, <2>1, QuietStep
    <2>2. CASE hit[r].ontime /\ 1 <= Limit[k] /\ passed' = passed \cup {x}
      <3>1. First(r)
        BY <1>1, <2>2 DEF First
      <3>2. /\ \A p \in passed : p.key = k /\ p.start = s => p.count # 1
            /\ \A q \in Requests : First(q) /\ Key(q) = k /\ hit[q].start = s => q = r
        BY <3>1 DEF Inv, FirstIsAlone
      <3>3. now <= s + W => counter'[k][s].count >= 1
        BY <1>6, <3>1, GrowthStaysAhead DEF RequestStep
      <3>4. x.count \in 1 .. Limit[x.key]
        BY <1>2, <2>2, ParametersAssumption
      <3>5. x.key = k /\ x.start = s /\ x.count = 1
        OBVIOUS
      <3> HIDE DEF x
      <3> QED BY <1>6, <1>7, <2>2, <3>2, <3>3, <3>4, <3>5, PassStep
    <2> QED BY <1>5, <2>1, <2>2
  <1> QED BY <1>8, <1>9, <1>10 DEF Inv, Places

LEMMA FaultKeeps ==
  ASSUME Inv, NEW r \in Requests, Fault(r)
  PROVE  Inv'
  <1>1. Underway(r) /\ counter' \in {counter, Incremented(r), Mortal(r)}
    BY DEF Fault, Underway
  <1>2. passed' = passed /\ faults' \in 0 .. MaxFaults /\ UNCHANGED <<now, path>>
    BY ParametersAssumption DEF Fault, Inv, TypeOK
  <1>3. /\ CallsMove(r) /\ hit'[r].pos \in DOMAIN path[r]
        /\ pc'[r] = "expire" => pc[r] = "expire" /\ hit' = hit
    <2>1. CASE UNCHANGED <<pc, hit, asked>>
      <3>1. hit[r] \in Hits /\ hit[r].pos \in DOMAIN path[r]
        BY <1>1, CallType DEF Inv
      <3>2. hit[r].start <= now
        BY <1>1 DEF Inv, HitsBegan
      <3>3. CallsMove(r)
        BY <2>1, <3>1, <3>2 DEF CallsMove, Inv, TypeOK, Stages
      <3> QED BY <2>1, <3>1, <3>3
    <2>2. CASE Allow(r)
      BY <1>1, <2>2, AllowMoves
    <2> QED BY <2>1, <2>2 DEF Fault
  <1>4. RequestStep(r)
    BY <1>1, <1>2, <1>3, CallStep
  <1>5. TypeOK'
    BY <1>2, <1>4, RequestTypes DEF Inv, TypeOK
  <1>6. CountersOutliveWindows' /\ HitsBegan'
    BY <1>4, RequestKeeps
  <1>7. Places'
    BY <1>2, <1>3, <1>4, QuietStep DEF First
  <1> QED BY <1>5, <1>6, <1>7 DEF Inv, Places

LEMMA CrashKeeps ==
  ASSUME Inv, NEW r \in Requests, Crash(r)
  PROVE  Inv'
  <1>1. Underway(r)
    BY DEF Crash, Underway
  <1>2. passed' = passed /\ faults' \in 0 .. MaxFaults /\ UNCHANGED <<now, path, counter>>
    BY ParametersAssumption DEF Crash, Inv, TypeOK
  <1>3. /\ CallsMove(r) /\ hit'[r].pos = hit[r].pos /\ pc'[r] = "lost"
    BY <1>1, StageMoves DEF Crash, Stages
  <1>4. hit[r].pos \in DOMAIN path[r]
    BY <1>1, CallType DEF Inv
  <1>5. RequestStep(r)
    BY <1>1, <1>2, <1>3, <1>4, CallStep
  <1>6. TypeOK'
    BY <1>2, <1>5, RequestTypes DEF Inv, TypeOK
  <1>7. CountersOutliveWindows' /\ HitsBegan'
    BY <1>5, RequestKeeps
  <1>8. Places'
    BY <1>2, <1>3, <1>5, QuietStep DEF First
  <1> QED BY <1>6, <1>7, <1>8 DEF Inv, Places

--------------------------------------------------------------------------------
\* The steps of Redis and of the clock.

\* A step in which counters die, but none whose window lasts, and time may pass.
LEMMA DyingKeeps ==
  ASSUME Inv, UNCHANGED <<pc, path, hit, asked, passed, faults>>,
         now' \in 0 .. MaxTime, now <= now',
         counter' \in [Keys -> [Starts -> Counters]],
         \A k \in Keys, s \in Starts :
           \/ counter'[k][s] = counter[k][s]
           \/ counter'[k][s] = NoCounter /\ now' > s + W
  PROVE  Inv'
  <1>1. TypeOK'
    BY DEF Inv, TypeOK
  <1>2. CountersOutliveWindows'
    BY DEF Inv, CountersOutliveWindows, NoCounter
  <1>3. HitsBegan'
    <2>1. ASSUME NEW r \in Requests, Underway(r)
          PROVE  hit[r].start <= now'
      <3>1. hit[r].start \in Starts /\ hit[r].start <= now
        BY <2>1, CallType DEF Inv, HitsBegan
      <3>2. hit[r].start \in Int /\ now \in Int /\ now' \in Int
        BY <3>1 DEF Starts, Inv, TypeOK
      <3> QED BY <3>1, <3>2
    <2> QED BY <2>1 DEF HitsBegan, Underway
  <1>4. PlacesAreDistinct' /\ FirstIsAlone'
    BY DEF Inv, PlacesAreDistinct, FirstIsAlone, First, Key
  <1>5. CounterIsAhead'
    <2>1. ASSUME NEW p \in passed, now' <= p.start + W
          PROVE  counter'[p.key][p.start].count >= p.count
      <3>1. p.key \in Keys /\ p.start \in Starts
        BY DEF Inv, TypeOK
      <3>2. p.start \in Int /\ now \in Int /\ now' \in Int /\ W \in Int
        BY <3>1, CounterTypes DEF Inv
      <3>3. counter'[p.key][p.start] = counter[p.key][p.start] /\ now <= p.start + W
        BY <2>1, <3>1, <3>2
      <3> QED BY <3>3 DEF Inv, CounterIsAhead
    <2>2. ASSUME NEW r \in Requests, First(r), now' <= hit[r].start + W
          PROVE  counter'[Key(r)][hit[r].start].count >= 1
      <3>1. Key(r) \in Keys /\ hit[r].start \in Starts
        BY <2>2, FirstUnderway, CallType DEF Inv
      <3>2. hit[r].start \in Int /\ now \in Int /\ now' \in Int /\ W \in Int
        BY <3>1, CounterTypes DEF Inv
      <3>3. /\ counter'[Key(r)][hit[r].start] = counter[Key(r)][hit[r].start]
            /\ now <= hit[r].start + W
        BY <2>2, <3>1, <3>2
      <3> QED BY <2>2, <3>3 DEF Inv, CounterIsAhead, CounterOf, CounterKey
    <2> QED BY <2>1, <2>2 DEF CounterIsAhead, CounterOf, CounterKey, First, Key
  <1> QED BY <1>1, <1>2, <1>3, <1>4, <1>5 DEF Inv

LEMMA EvictKeeps ==
  ASSUME Inv, NEW k \in Keys, NEW s \in Starts, Evict(k, s)
  PROVE  Inv'
  <1>1. counter \in [Keys -> [Starts -> Counters]] /\ now \in 0 .. MaxTime
    BY DEF Inv, TypeOK
  <1>2. now > s + W
    BY DEF Evict, Inv, CountersOutliveWindows
  <1>3. counter' = [counter EXCEPT ![k][s] = NoCounter] /\ now' = now
    BY DEF Evict
  <1>4. NoCounter \in Counters
    BY DEF NoCounter, Counters
  <1>5. counter' \in [Keys -> [Starts -> Counters]]
    BY <1>1, <1>3, <1>4
  <1>6. \A l \in Keys, t \in Starts :
          counter'[l][t] = IF l = k /\ t = s THEN NoCounter ELSE counter[l][t]
    BY <1>1, <1>3
  <1> QED BY <1>1, <1>2, <1>3, <1>5, <1>6, DyingKeeps DEF Evict

LEMMA TickKeeps ==
  ASSUME Inv, Tick
  PROVE  Inv'
  <1>1. counter \in [Keys -> [Starts -> Counters]] /\ now \in 0 .. MaxTime
    BY DEF Inv, TypeOK
  <1>2. now' = now + 1 /\ now' \in 0 .. MaxTime /\ now <= now'
    BY <1>1, ParametersAssumption DEF Tick
  <1>3. \A k \in Keys, s \in Starts :
          counter'[k][s] = IF counter[k][s].dies \in 1 .. now THEN NoCounter ELSE counter[k][s]
    BY DEF Tick
  <1>4. NoCounter \in Counters
    BY DEF NoCounter, Counters
  <1>5. counter' \in [Keys -> [Starts -> Counters]]
    BY <1>1, <1>4 DEF Tick
  <1>6. ASSUME NEW k \in Keys, NEW s \in Starts, counter[k][s].dies \in 1 .. now
        PROVE  now' > s + W
    <2>1. counter[k][s].dies > s + W
      BY <1>6 DEF Inv, CountersOutliveWindows
    <2>2. s \in Int /\ W \in Int /\ counter[k][s].dies \in Int
      BY CounterTypes DEF Inv
    <2> QED BY <1>1, <1>2, <1>6, <2>1, <2>2
  <1> QED BY <1>2, <1>3, <1>5, <1>6, DyingKeeps DEF Tick

--------------------------------------------------------------------------------

LEMMA InitInv == Init => Inv
  <1> SUFFICES ASSUME Init PROVE Inv
    OBVIOUS
  <1>1. NoCounter \in Counters /\ NoCounter.dies = 0
    BY DEF NoCounter, Counters
  <1>2. \A r \in Requests : ~Underway(r) /\ ~First(r)
    BY DEF Init, Underway, First
  <1>3. TypeOK
    BY <1>1, ParametersAssumption DEF Init, TypeOK
  <1>4. CountersOutliveWindows
    BY <1>1 DEF Init, CountersOutliveWindows
  <1>5. HitsBegan /\ PlacesAreDistinct /\ CounterIsAhead /\ FirstIsAlone
    BY <1>2 DEF Init, HitsBegan, PlacesAreDistinct, CounterIsAhead, FirstIsAlone
  <1> QED BY <1>3, <1>4, <1>5 DEF Inv

LEMMA NextInv == Inv /\ [Next]_vars => Inv'
  <1> SUFFICES ASSUME Inv, [Next]_vars PROVE Inv'
    OBVIOUS
  <1>1. ASSUME NEW r \in Requests, Begin(r) PROVE Inv'
    BY <1>1, BeginKeeps
  <1>2. ASSUME NEW r \in Requests, Incr(r) PROVE Inv'
    BY <1>2, IncrKeeps
  <1>3. ASSUME NEW r \in Requests, Expire(r) PROVE Inv'
    BY <1>3, ExpireKeeps
  <1>4. ASSUME NEW r \in Requests, Fault(r) PROVE Inv'
    BY <1>4, FaultKeeps
  <1>5. ASSUME NEW r \in Requests, Crash(r) PROVE Inv'
    BY <1>5, CrashKeeps
  <1>6. ASSUME NEW k \in Keys, NEW s \in Starts, Evict(k, s) PROVE Inv'
    BY <1>6, EvictKeeps
  <1>7. CASE Tick
    BY <1>7, TickKeeps
  <1>8. CASE UNCHANGED vars
    BY <1>8 DEF vars, Inv, TypeOK, CountersOutliveWindows, HitsBegan, Underway,
       PlacesAreDistinct, CounterIsAhead, FirstIsAlone, First, Key, CounterOf, CounterKey
  <1> QED BY <1>1, <1>2, <1>3, <1>4, <1>5, <1>6, <1>7, <1>8 DEF Next

\* Distinct places within the limit are at most as many as the limit.
LEMMA PlacesFit ==
  ASSUME Inv
  PROVE  LimitPerWindow
  <1> SUFFICES ASSUME NEW k \in Keys, NEW s \in Starts
               PROVE  Cardinality({p \in passed : p.key = k /\ p.start = s}) <= Limit[k]
    BY DEF LimitPerWindow
  <1> DEFINE ps == {p \in passed : p.key = k /\ p.start = s}
             f == [p \in ps |-> p.count]
  <1>1. Limit[k] \in Nat
    BY ParametersAssumption
  <1>2. IsFiniteSet(1 .. Limit[k]) /\ Cardinality(1 .. Limit[k]) = Limit[k]
    BY <1>1, FS_Interval
  <1>3. f \in [ps -> 1 .. Limit[k]]
    BY DEF Inv, PlacesAreDistinct
  <1>4. \A p, q \in ps : f[p] = f[q] => p = q
    BY DEF Inv, PlacesAreDistinct
  <1>5. f \in Injection(ps, 1 .. Limit[k])
    BY <1>3, <1>4, Zenon DEF Injection, IsInjective
  <1>6. Cardinality(ps) <= Cardinality(1 .. Limit[k])
    BY <1>2, <1>5, FS_Injection
  <1> QED BY <1>2, <1>6

--------------------------------------------------------------------------------
\* Refusals.  A counter is no further than the calls of hit() whose INCR is behind them,
\* and the failures, each of which may have repeated one.

CallOf(r) == [req |-> r, key |-> Key(r), start |-> hit[r].start]

AskedAt(k, s) == {a \in asked : a.key = k /\ a.start = s}

\* The call has yet to see its INCR answered.
Pending(a) == pc[a.req] = "incr" /\ CallOf(a.req) = a

Counted(k, s) == {a \in AskedAt(k, s) : ~Pending(a)}

\* A request asks each key once, by its path.
AskedOnce ==
  /\ IsFiniteSet(asked)
  /\ \A a \in asked :
       /\ Underway(a.req)
       /\ \E i \in DOMAIN path[a.req] : i <= hit[a.req].pos /\ path[a.req][i] = a.key
  /\ \A r \in Requests : Underway(r) => CallOf(r) \in asked

CountsFit ==
  \A k \in Keys, s \in Starts : counter[k][s].count <= Cardinality(Counted(k, s)) + faults

RefusalInv == Inv /\ AskedOnce /\ CountsFit /\ RefusedOnlyWhenFull

\* The sets of calls are finite.
LEMMA CallsFinite ==
  ASSUME IsFiniteSet(asked), NEW k, NEW s
  PROVE  /\ IsFiniteSet(AskedAt(k, s)) /\ IsFiniteSet(Counted(k, s))
         /\ Cardinality(AskedAt(k, s)) \in Nat /\ Cardinality(Counted(k, s)) \in Nat
         /\ Cardinality(Counted(k, s)) <= Cardinality(AskedAt(k, s))
  <1>1. AskedAt(k, s) \subseteq asked /\ Counted(k, s) \subseteq AskedAt(k, s)
    BY DEF AskedAt, Counted
  <1> QED BY <1>1, FS_Subset, FS_CardinalityType

LEMMA Smaller ==
  ASSUME NEW S, NEW T, IsFiniteSet(T), S \subseteq T
  PROVE  /\ Cardinality(S) \in Nat /\ Cardinality(T) \in Nat
         /\ Cardinality(S) <= Cardinality(T)
         /\ \A x \in T : x \notin S => Cardinality(S) + 1 <= Cardinality(T)
  <1>1. IsFiniteSet(S) /\ Cardinality(S) \in Nat /\ Cardinality(T) \in Nat
        /\ Cardinality(S) <= Cardinality(T)
    BY FS_Subset, FS_CardinalityType
  <1>2. ASSUME NEW x \in T, x \notin S PROVE Cardinality(S) + 1 <= Cardinality(T)
    <2>1. Cardinality(S \cup {x}) = Cardinality(S) + 1
      BY <1>1, <1>2, FS_AddElement
    <2>2. S \cup {x} \subseteq T
      BY <1>2
    <2> QED BY <2>1, <2>2, FS_Subset
  <1> QED BY <1>1, <1>2

\* A call of r that is over, or goes on to the next key of the path, is answered.
Moved(r) ==
  /\ path' = path
  /\ hit'[r].start \in Starts
  /\ \/ /\ pc'[r] # "incr" /\ asked' = asked
        /\ hit'[r].pos = hit[r].pos /\ hit'[r].start = hit[r].start
     \/ /\ hit'[r].pos = hit[r].pos + 1 /\ hit'[r].pos \in DOMAIN path[r]
        /\ asked' = asked \cup {CallOf(r)'}

LEMMA AllowIsMove ==
  ASSUME Inv, NEW r \in Requests, Underway(r), Allow(r), path' = path
  PROVE  Moved(r) /\ pc'[r] # "new"
  <1>1. /\ hit'[r] \in Hits /\ hit'[r].start \in Starts /\ hit'[r].pos \in DOMAIN path[r]
        /\ pc'[r] \in {"incr", "served"}
    BY AllowMoves DEF CallsMove, Hits
  <1>2. CASE Ask(r, path[r], hit[r].pos + 1)
    <2>1. /\ hit'[r] = [pos |-> hit[r].pos + 1, start |-> WindowStart(now), ontime |-> FALSE]
          /\ asked' = asked \cup {[req |-> r, key |-> path[r][hit[r].pos + 1], start |-> WindowStart(now)]}
      BY <1>2 DEF Ask, Inv, TypeOK
    <2>2. CallOf(r)' = [req |-> r, key |-> path[r][hit[r].pos + 1], start |-> WindowStart(now)]
      BY <2>1 DEF CallOf, Key
    <2> QED BY <1>1, <2>1, <2>2 DEF Moved
  <1>3. CASE pc' = [pc EXCEPT ![r] = "served"] /\ UNCHANGED <<hit, asked>>
    BY <1>1, <1>3 DEF Moved, Inv, TypeOK
  <1> QED BY <1>1, <1>2, <1>3 DEF Allow

LEMMA MoveCounts ==
  ASSUME Inv, AskedOnce, NEW r \in Requests, Underway(r), CallsMove(r), Moved(r), pc'[r] # "new"
  PROVE  /\ AskedOnce' /\ asked \subseteq asked'
         /\ \A a \in asked : a.req # r => (Pending(a)' <=> Pending(a))
         /\ \A a \in asked : a.req = r => ~Pending(a)'
  <1>1. /\ path[r] \in Paths /\ hit[r].pos \in DOMAIN path[r] /\ hit[r].pos \in Nat
        /\ DOMAIN path[r] = 1 .. Len(path[r]) /\ Len(path[r]) \in Nat
        /\ \A i, j \in DOMAIN path[r] : path[r][i] = path[r][j] => i = j
        /\ path' = path
    BY CallType, ParametersAssumption DEF Inv, Moved
  <1>2. \A q \in Requests \ {r} : /\ pc'[q] = pc[q] /\ CallOf(q)' = CallOf(q)
                                  /\ Underway(q)' = Underway(q) /\ hit'[q] = hit[q]
    BY <1>1 DEF CallsMove, CallOf, Key, Underway
  <1>3. \A a \in asked : a.req \in Requests /\ CallOf(a.req).req = a.req
    BY DEF Inv, TypeOK, CallOf
  <1>4. CASE /\ pc'[r] # "incr" /\ asked' = asked
             /\ hit'[r].pos = hit[r].pos /\ hit'[r].start = hit[r].start
    <2>1. CallOf(r)' = CallOf(r) /\ Underway(r)'
      BY <1>1, <1>4 DEF CallOf, Key, Underway
    <2>2. AskedOnce'
      BY <1>1, <1>2, <1>3, <1>4, <2>1 DEF AskedOnce
    <2> QED BY <1>2, <1>3, <1>4, <2>2 DEF Pending
  <1>5. CASE /\ hit'[r].pos = hit[r].pos + 1 /\ hit'[r].pos \in DOMAIN path[r]
             /\ asked' = asked \cup {CallOf(r)'}
    <2>1. /\ CallOf(r)' = [req |-> r, key |-> path[r][hit[r].pos + 1], start |-> hit'[r].start]
          /\ Underway(r)'
      BY <1>1, <1>5 DEF CallOf, Key, Underway
    \* The keys of a path differ.
    <2>2. CallOf(r)' \notin asked
      <3>1. ASSUME NEW a \in asked, a = CallOf(r)' PROVE FALSE
        <4>1. a.req = r /\ a.key = path[r][hit[r].pos + 1]
          BY <2>1, <3>1
        <4>2. PICK i \in DOMAIN path[r] : i <= hit[r].pos /\ path[r][i] = a.key
          BY <3>1, <4>1 DEF AskedOnce
        <4> QED BY <1>1, <1>5, <4>1, <4>2
      <3> QED BY <3>1
    <2>3. IsFiniteSet(asked')
      BY <1>5, FS_AddElement DEF AskedOnce
    <2>4. ASSUME NEW a \in asked'
          PROVE  /\ Underway(a.req)'
                 /\ \E i \in DOMAIN path'[a.req] : i <= hit'[a.req].pos /\ path'[a.req][i] = a.key
      <3>1. CASE a = CallOf(r)'
        <4>1. a.req = r /\ a.key = path[r][hit[r].pos + 1]
          BY <2>1, <3>1
        <4> QED BY <1>1, <1>5, <2>1, <4>1
      <3>2. CASE a \in asked /\ a.req = r
        <4>1. PICK i \in DOMAIN path[r] : i <= hit[r].pos /\ path[r][i] = a.key
          BY <3>2 DEF AskedOnce
        <4>2. i <= hit'[r].pos
          BY <1>1, <1>5, <4>1
        <4> QED BY <1>1, <2>1, <3>2, <4>1, <4>2
      <3>3. CASE a \in asked /\ a.req # r
        BY <1>1, <1>2, <1>3, <3>3 DEF AskedOnce
      <3> QED BY <1>5, <3>1, <3>2, <3>3
    <2>5. \A q \in Requests : Underway(q)' => CallOf(q)' \in asked'
      BY <1>2, <1>5 DEF AskedOnce
    <2>6. AskedOnce'
      BY <2>3, <2>4, <2>5 DEF AskedOnce
    <2> QED BY <1>2, <1>3, <1>5, <2>2, <2>6 DEF Pending
  <1> QED BY <1>4, <1>5 DEF Moved

\* The counter of the call, and the others.
LEMMA CommandCounts ==
  ASSUME TypeOK, NEW r \in Requests, Underway(r),
         counter' \in {counter, Incremented(r), Mortal(r)}, NEW k \in Keys, NEW s \in Starts
  PROVE  \/ counter'[k][s].count = counter[k][s].count
         \/ /\ counter' = Incremented(r) /\ k = Key(r) /\ s = hit[r].start
            /\ counter'[k][s].count = counter[k][s].count + 1
  <1>1. Key(r) \in Keys /\ hit[r].start \in Starts
    BY CallType
  <1>2. counter \in [Keys -> [Starts -> Counters]] /\ counter[k][s] \in Counters
    BY DEF TypeOK
  <1>3. CASE k = Key(r) /\ s = hit[r].start
    BY <1>1, <1>2, <1>3 DEF Incremented, Mortal, CounterOf, CounterKey, Counters
  <1>4. CASE k # Key(r) \/ s # hit[r].start
    <2>1. counter'[k][s] = counter[k][s]
      BY <1>1, <1>2, <1>4 DEF Incremented, Mortal, CounterKey
    <2> QED BY <2>1
  <1> QED BY <1>3, <1>4

\* k and s are full, the failures aside.
Full(k, s) == Cardinality(AskedAt(k, s)) + faults > Limit[k]

LEMMA CountKeeps ==
  ASSUME RefusalInv, TypeOK', AskedOnce', asked \subseteq asked', faults <= faults',
         \A a \in asked : Pending(a)' => Pending(a),
         \A k \in Keys, s \in Starts :
           \/ counter'[k][s].count <= counter[k][s].count
           \/ /\ counter'[k][s].count = counter[k][s].count + 1
              /\ \/ faults' >= faults + 1
                 \/ \E a \in AskedAt(k, s) : Pending(a) /\ ~Pending(a)',
         \A q \in Requests : pc'[q] = "refused" =>
           \E k \in Keys, s \in Starts : Key(q)' = k /\ hit'[q].start = s /\ Full(k, s)
  PROVE  CountsFit' /\ RefusedOnlyWhenFull'
  <1>1. IsFiniteSet(asked) /\ IsFiniteSet(asked') /\ faults \in Nat /\ faults' \in Nat
    BY DEF RefusalInv, Inv, AskedOnce, TypeOK
  <1>2. ASSUME NEW k \in Keys, NEW s \in Starts
        PROVE  /\ counter'[k][s].count <= Cardinality(Counted(k, s)') + faults'
               /\ Cardinality(AskedAt(k, s)) <= Cardinality(AskedAt(k, s)')
               /\ Cardinality(AskedAt(k, s)) \in Nat /\ Cardinality(AskedAt(k, s)') \in Nat
    <2>1. /\ Counted(k, s) \subseteq Counted(k, s)' /\ AskedAt(k, s) \subseteq AskedAt(k, s)'
          /\ \A a \in AskedAt(k, s) : Pending(a) /\ ~Pending(a)' =>
               a \in Counted(k, s)' /\ a \notin Counted(k, s)
      BY DEF Counted, AskedAt
    <2>2. IsFiniteSet(Counted(k, s)') /\ IsFiniteSet(AskedAt(k, s)')
      <3>1. Counted(k, s)' \subseteq asked' /\ AskedAt(k, s)' \subseteq asked'
        BY DEF Counted, AskedAt
      <3> QED BY <1>1, <3>1, FS_Subset
    <2>3. /\ Cardinality(Counted(k, s)) \in Nat /\ Cardinality(Counted(k, s)') \in Nat
          /\ Cardinality(Counted(k, s)) <= Cardinality(Counted(k, s)')
          /\ (\E a \in AskedAt(k, s) : Pending(a) /\ ~Pending(a)') =>
               Cardinality(Counted(k, s)) + 1 <= Cardinality(Counted(k, s)')
      BY <2>1, <2>2, Smaller
    <2>4. /\ counter[k][s].count <= Cardinality(Counted(k, s)) + faults
          /\ counter[k][s].count \in Nat /\ counter'[k][s].count \in Nat
      BY CounterTypes DEF RefusalInv, Inv, CountsFit, TypeOK, Counters
    <2>5. counter'[k][s].count <= Cardinality(Counted(k, s)') + faults'
      <3>1. CASE counter'[k][s].count <= counter[k][s].count
        BY <1>1, <2>3, <2>4, <3>1
      <3>2. CASE counter'[k][s].count = counter[k][s].count + 1 /\ faults' >= faults + 1
        BY <1>1, <2>3, <2>4, <3>2
      <3>3. CASE /\ counter'[k][s].count = counter[k][s].count + 1
                 /\ \E a \in AskedAt(k, s) : Pending(a) /\ ~Pending(a)'
        BY <1>1, <2>3, <2>4, <3>3
      <3> QED BY <3>1, <3>2, <3>3
    <2>6. /\ Cardinality(AskedAt(k, s)) <= Cardinality(AskedAt(k, s)')
          /\ Cardinality(AskedAt(k, s)) \in Nat /\ Cardinality(AskedAt(k, s)') \in Nat
      BY <2>1, <2>2, Smaller
    <2> QED BY <2>5, <2>6
  <1>3. CountsFit'
    BY <1>2 DEF CountsFit
  <1>4. ASSUME NEW q \in Requests, pc'[q] = "refused"
        PROVE  Cardinality({a \in asked' : a.key = Key(q)' /\ a.start = hit'[q].start}) + faults'
                 > Limit[Key(q)']
    <2>1. PICK k \in Keys, s \in Starts : Key(q)' = k /\ hit'[q].start = s /\ Full(k, s)
      BY <1>4
    <2>2. Cardinality(AskedAt(k, s)') + faults' > Limit[k]
      BY <1>1, <1>2, <2>1, ParametersAssumption DEF Full
    <2> QED BY <2>1, <2>2 DEF AskedAt
  <1>5. RefusedOnlyWhenFull'
    BY <1>4 DEF RefusedOnlyWhenFull
  <1> QED BY <1>3, <1>5

\* Who is refused stays so, with the key and the window he was refused for.
LEMMA RefusedStays ==
  ASSUME RefusalInv, NEW q \in Requests, pc[q] = "refused",
         hit'[q] = hit[q], path'[q] = path[q]
  PROVE  \E k \in Keys, s \in Starts : Key(q)' = k /\ hit'[q].start = s /\ Full(k, s)
  <1>1. Key(q) \in Keys /\ hit[q].start \in Starts
    BY CallType DEF RefusalInv, Inv, Underway
  <1>2. Key(q)' = Key(q) /\ Full(Key(q), hit[q].start)
    BY DEF Key, RefusalInv, RefusedOnlyWhenFull, Full, AskedAt
  <1> QED BY <1>1, <1>2

\* A step of a call that is under way.
LEMMA CallKeeps ==
  ASSUME RefusalInv, TypeOK', NEW r \in Requests, pc[r] \in {"incr", "expire"},
         counter' \in {counter, Incremented(r), Mortal(r)}, counter' = Incremented(r) => pc[r] = "incr",
         CallsMove(r), Moved(r), pc'[r] # "new", faults' >= faults,
         pc'[r] = "refused" => /\ hit'[r].pos = hit[r].pos /\ hit'[r].start = hit[r].start
                               /\ Full(Key(r), hit[r].start)
  PROVE  AskedOnce' /\ CountsFit' /\ RefusedOnlyWhenFull'
  <1>1. Underway(r) /\ Inv /\ AskedOnce /\ faults \in Nat /\ faults' \in Nat /\ path' = path
    BY DEF RefusalInv, Inv, TypeOK, Underway, Moved
  <1>2. /\ AskedOnce' /\ asked \subseteq asked'
        /\ \A a \in asked : a.req # r => (Pending(a)' <=> Pending(a))
        /\ \A a \in asked : a.req = r => ~Pending(a)'
    BY <1>1, MoveCounts
  <1>3. Key(r) \in Keys /\ hit[r].start \in Starts /\ CallOf(r) \in asked
    BY <1>1, CallType DEF Inv, AskedOnce
  <1>4. \E a \in AskedAt(Key(r), hit[r].start) : ~Pending(a)' /\ (pc[r] = "incr" => Pending(a))
    <2>1. PICK a \in asked : a = CallOf(r)
      BY <1>3
    <2>2. a.req = r /\ a.key = Key(r) /\ a.start = hit[r].start
      BY <2>1 DEF CallOf
    <2>3. a \in AskedAt(Key(r), hit[r].start) /\ ~Pending(a)' /\ (pc[r] = "incr" => Pending(a))
      BY <1>2, <2>1, <2>2 DEF AskedAt, Pending
    <2> QED BY <2>3
  <1>5. ASSUME NEW k \in Keys, NEW s \in Starts
        PROVE  \/ counter'[k][s].count <= counter[k][s].count
               \/ /\ counter'[k][s].count = counter[k][s].count + 1
                  /\ \E a \in AskedAt(k, s) : Pending(a) /\ ~Pending(a)'
    <2>1. counter[k][s].count \in Nat
      BY <1>1, CounterTypes DEF Inv
    <2>2. \/ counter'[k][s].count = counter[k][s].count
          \/ /\ counter' = Incremented(r) /\ k = Key(r) /\ s = hit[r].start
             /\ counter'[k][s].count = counter[k][s].count + 1
      BY <1>1, CommandCounts DEF Inv
    <2> QED BY <1>4, <2>1, <2>2
  <1>6. ASSUME NEW q \in Requests, pc'[q] = "refused"
        PROVE  \E k \in Keys, s \in Starts : Key(q)' = k /\ hit'[q].start = s /\ Full(k, s)
    <2>1. CASE q = r
      <3>1. Key(r)' = Key(r)
        BY <1>1, <1>6, <2>1 DEF Key
      <3> QED BY <1>3, <1>6, <2>1, <3>1
    <2>2. CASE q # r
      BY <1>1, <1>6, <2>2, RefusedStays DEF CallsMove
    <2> QED BY <2>1, <2>2
  <1> QED BY <1>1, <1>2, <1>5, <1>6, CountKeeps

LEMMA BeginCounts ==
  ASSUME RefusalInv, TypeOK', NEW r \in Requests, Begin(r)
  PROVE  AskedOnce' /\ CountsFit' /\ RefusedOnlyWhenFull'
  <1>1. Inv /\ AskedOnce /\ ~Underway(r) /\ counter' = counter /\ faults' = faults /\ faults \in Nat
    BY DEF RefusalInv, Inv, TypeOK, Begin, Underway
  <1>2. PICK p \in Paths : path' = [path EXCEPT ![r] = p] /\ Ask(r, p, 1)
    BY DEF Begin
  <1>3. 1 \in DOMAIN p /\ path'[r] = p /\ \A q \in Requests \ {r} : path'[q] = path[q]
    BY <1>1, <1>2, ParametersAssumption DEF Inv, TypeOK
  <1>4. CallsMove(r) /\ hit'[r].pos = 1 /\ pc'[r] = "incr"
    BY <1>1, <1>2, <1>3, AskMoves DEF Inv
  <1>5. CallOf(r)' = [req |-> r, key |-> p[1], start |-> WindowStart(now)] /\ asked' = asked \cup {CallOf(r)'}
    <2>1. hit'[r] = [pos |-> 1, start |-> WindowStart(now), ontime |-> FALSE]
      BY <1>1, <1>2 DEF Ask, Inv, TypeOK
    <2>2. CallOf(r)' = [req |-> r, key |-> p[1], start |-> WindowStart(now)]
      BY <1>3, <2>1 DEF CallOf, Key
    <2> QED BY <1>2, <2>2 DEF Ask
  <1>6. \A a \in asked : a.req \in Requests /\ a.req # r
    BY <1>1 DEF AskedOnce, Inv, TypeOK
  <1>7. \A q \in Requests \ {r} : /\ pc'[q] = pc[q] /\ CallOf(q)' = CallOf(q)
                                  /\ Underway(q)' = Underway(q) /\ hit'[q] = hit[q]
    BY <1>3, <1>4 DEF CallsMove, CallOf, Key, Underway
  <1>8. AskedOnce'
    <2>1. IsFiniteSet(asked')
      BY <1>1, <1>5, FS_AddElement DEF AskedOnce
    <2>2. ASSUME NEW a \in asked'
          PROVE  /\ Underway(a.req)'
                 /\ \E i \in DOMAIN path'[a.req] : i <= hit'[a.req].pos /\ path'[a.req][i] = a.key
      <3>1. CASE a = CallOf(r)'
        <4>1. a.req = r /\ a.key = p[1]
          BY <1>5, <3>1
        <4> QED BY <1>3, <1>4, <4>1 DEF Underway
      <3>2. CASE a \in asked
        BY <1>1, <1>3, <1>6, <1>7, <3>2 DEF AskedOnce
      <3> QED BY <1>5, <3>1, <3>2
    <2>3. \A q \in Requests : Underway(q)' => CallOf(q)' \in asked'
      BY <1>1, <1>5, <1>7 DEF AskedOnce
    <2> QED BY <2>1, <2>2, <2>3 DEF AskedOnce
  <1>9. \A a \in asked : Pending(a)' => Pending(a)
    BY <1>6, <1>7 DEF Pending
  <1>10. \A k \in Keys, s \in Starts : counter'[k][s].count <= counter[k][s].count
    <2>1. \A k \in Keys, s \in Starts : counter[k][s].count \in Nat
      BY <1>1, CounterTypes DEF Inv
    <2> QED BY <1>1, <2>1
  <1>11. ASSUME NEW q \in Requests, pc'[q] = "refused"
         PROVE  \E k \in Keys, s \in Starts : Key(q)' = k /\ hit'[q].start = s /\ Full(k, s)
    BY <1>3, <1>4, <1>7, <1>11, RefusedStays
  <1> QED BY <1>1, <1>5, <1>8, <1>9, <1>10, <1>11, CountKeeps

LEMMA ConcludeIsMove ==
  ASSUME Inv, NEW r \in Requests, Underway(r), NEW count \in Nat, NEW ontime \in BOOLEAN,
         Conclude(r, count, ontime), path' = path
  PROVE  /\ CallsMove(r) /\ Moved(r) /\ pc'[r] # "new"
         /\ pc'[r] = "refused" => /\ hit'[r].pos = hit[r].pos /\ hit'[r].start = hit[r].start
                                  /\ count > Limit[Key(r)]
  <1>1. CallsMove(r)
    BY ConcludeMoves
  <1>2. CASE /\ count > Limit[Key(r)]
             /\ pc' = [pc EXCEPT ![r] = "refused"] /\ UNCHANGED <<hit, asked>>
    <2>1. pc'[r] = "refused" /\ hit[r].start \in Starts
      BY <1>2, CallType DEF Inv, TypeOK
    <2> QED BY <1>1, <1>2, <2>1 DEF Moved
  <1>3. CASE Allow(r)
    <2>1. Moved(r) /\ pc'[r] \in {"incr", "served"}
      BY <1>3, AllowIsMove, AllowMoves
    <2> QED BY <1>1, <2>1
  <1> QED BY <1>2, <1>3 DEF Conclude, Pass

\* The pending INCR is one more than those that were counted.
LEMMA PendingIsOneMore ==
  ASSUME RefusalInv, NEW r \in Requests, pc[r] = "incr", CounterOf(r).count + 1 > Limit[Key(r)]
  PROVE  Full(Key(r), hit[r].start)
  <1> DEFINE k == Key(r)
             s == hit[r].start
  <1>1. Underway(r) /\ Inv /\ AskedOnce /\ faults \in Nat
    BY DEF RefusalInv, Inv, TypeOK, Underway
  <1>2. k \in Keys /\ s \in Starts /\ CallOf(r) \in asked /\ counter[k][s].count \in Nat /\ Limit[k] \in Nat
    BY <1>1, CallType, CounterTypes, ParametersAssumption DEF Inv, AskedOnce
  <1>3. /\ CallOf(r) \in AskedAt(k, s) /\ CallOf(r) \notin Counted(k, s)
        /\ Counted(k, s) \subseteq AskedAt(k, s) /\ IsFiniteSet(AskedAt(k, s))
    BY <1>1, <1>2, CallsFinite DEF CallOf, AskedAt, Counted, Pending, AskedOnce
  <1>4. /\ Cardinality(Counted(k, s)) + 1 <= Cardinality(AskedAt(k, s))
        /\ Cardinality(Counted(k, s)) \in Nat /\ Cardinality(AskedAt(k, s)) \in Nat
    BY <1>3, Smaller
  <1>5. counter[k][s].count <= Cardinality(Counted(k, s)) + faults
    BY <1>2 DEF RefusalInv, CountsFit
  <1>6. counter[k][s].count + 1 > Limit[k]
    BY DEF CounterOf, CounterKey
  <1> HIDE DEF k, s
  <1>7. Cardinality(AskedAt(k, s)) + faults > Limit[k]
    BY <1>1, <1>2, <1>4, <1>5, <1>6
  <1> QED BY <1>7 DEF Full, k, s

LEMMA AskedIsOne ==
  ASSUME RefusalInv, NEW r \in Requests, Underway(r), 1 > Limit[Key(r)]
  PROVE  Full(Key(r), hit[r].start)
  <1> DEFINE k == Key(r)
             s == hit[r].start
  <1>1. k \in Keys /\ Limit[k] \in Nat /\ faults \in Nat /\ CallOf(r) \in AskedAt(k, s)
        /\ IsFiniteSet(AskedAt(k, s))
    <2>1. TypeOK /\ AskedOnce
      BY DEF RefusalInv, Inv
    <2>2. k \in Keys /\ Limit[k] \in Nat /\ faults \in Nat
      BY <2>1, CallType, ParametersAssumption DEF TypeOK
    <2>3. CallOf(r) \in AskedAt(k, s)
      BY <2>1 DEF AskedOnce, CallOf, AskedAt
    <2>4. IsFiniteSet(AskedAt(k, s))
      BY <2>1, CallsFinite DEF AskedOnce
    <2> QED BY <2>2, <2>3, <2>4
  <1>2. Cardinality(AskedAt(k, s)) \in Nat /\ Cardinality({}) + 1 <= Cardinality(AskedAt(k, s))
    BY <1>1, Smaller
  <1> HIDE DEF k, s
  <1>3. Cardinality(AskedAt(k, s)) + faults > Limit[k]
    BY <1>1, <1>2, FS_EmptySet DEF k
  <1> QED BY <1>3 DEF Full, k, s

LEMMA IncrCounted ==
  ASSUME RefusalInv, TypeOK', NEW r \in Requests, Incr(r)
  PROVE  AskedOnce' /\ CountsFit' /\ RefusedOnlyWhenFull'
  <1>1. /\ Underway(r) /\ pc[r] = "incr" /\ Inv /\ counter' = Incremented(r)
        /\ path' = path /\ faults' = faults /\ faults \in Nat
    BY DEF RefusalInv, Inv, TypeOK, Incr, Underway
  <1>2. /\ CallsMove(r) /\ Moved(r) /\ pc'[r] # "new"
        /\ pc'[r] = "refused" => /\ hit'[r].pos = hit[r].pos /\ hit'[r].start = hit[r].start
                                 /\ CounterOf(r).count + 1 > Limit[Key(r)]
    <2>1. CASE /\ pc' = [pc EXCEPT ![r] = "expire"]
               /\ hit' = [hit EXCEPT ![r].ontime = OnTime(r)]
               /\ UNCHANGED <<asked, passed>>
      <3>1. /\ CallsMove(r) /\ hit'[r].pos = hit[r].pos /\ hit'[r].start = hit[r].start
            /\ pc'[r] = "expire" /\ hit[r].start \in Starts
        BY <1>1, <2>1, StageMoves, CallType DEF Stages, Inv
      <3> QED BY <1>1, <2>1, <3>1 DEF Moved
    <2>2. CASE Conclude(r, CounterOf(r).count + 1, OnTime(r))
      <3>1. CounterOf(r).count + 1 \in Nat /\ OnTime(r) \in BOOLEAN
        BY <1>1, CallType, CounterTypes DEF Inv, CounterOf, CounterKey, OnTime
      <3> QED BY <1>1, <2>2, <3>1, ConcludeIsMove
    <2> QED BY <2>1, <2>2 DEF Incr
  <1>3. faults' >= faults /\ (pc'[r] = "refused" => Full(Key(r), hit[r].start))
    BY <1>1, <1>2, PendingIsOneMore
  <1> QED BY <1>1, <1>2, <1>3, CallKeeps

LEMMA ExpireCounted ==
  ASSUME RefusalInv, TypeOK', NEW r \in Requests, Expire(r)
  PROVE  AskedOnce' /\ CountsFit' /\ RefusedOnlyWhenFull'
  <1>1. /\ Underway(r) /\ pc[r] = "expire" /\ Inv /\ counter' = Mortal(r)
        /\ path' = path /\ faults' = faults /\ faults \in Nat /\ hit[r].ontime \in BOOLEAN
    BY CallType DEF RefusalInv, Inv, TypeOK, Expire, Underway, Hits
  <1>2. /\ CallsMove(r) /\ Moved(r) /\ pc'[r] # "new"
        /\ pc'[r] = "refused" => /\ hit'[r].pos = hit[r].pos /\ hit'[r].start = hit[r].start
                                 /\ 1 > Limit[Key(r)]
    BY <1>1, ConcludeIsMove DEF Expire
  <1>3. faults' >= faults /\ (pc'[r] = "refused" => Full(Key(r), hit[r].start))
    BY <1>1, <1>2, AskedIsOne
  <1>4. /\ Key(r) \in Keys /\ hit[r].start \in Starts
        /\ counter[Key(r)][hit[r].start].count \in Nat
    BY <1>1, CallType, CounterTypes DEF Inv
  <1>5. counter' # Incremented(r)
    <2>1. counter'[Key(r)][hit[r].start].count = counter[Key(r)][hit[r].start].count
      BY <1>1, <1>4 DEF Mortal, CounterKey, Inv, TypeOK, Counters
    <2>2. ASSUME counter' = Incremented(r) PROVE FALSE
      BY <1>1, <1>4, <2>1, <2>2, IncrCounts DEF Inv, CounterOf, CounterKey
    <2> QED BY <2>2
  <1> QED BY <1>1, <1>2, <1>3, <1>5, CallKeeps

LEMMA FailureCounted ==
  ASSUME RefusalInv, TypeOK', NEW r \in Requests, Fault(r) \/ Crash(r)
  PROVE  AskedOnce' /\ CountsFit' /\ RefusedOnlyWhenFull'
  <1>1. /\ Underway(r) /\ pc[r] \in {"incr", "expire"} /\ Inv /\ AskedOnce /\ path' = path
        /\ counter' \in {counter, Incremented(r), Mortal(r)}
        /\ faults \in Nat /\ faults' = faults + 1
    BY DEF RefusalInv, Inv, TypeOK, Fault, Crash, Underway
  <1>2. CASE Fault(r) /\ UNCHANGED <<pc, hit, asked>>
    <2>1. AskedOnce' /\ \A a \in asked : Pending(a)' => Pending(a)
      BY <1>1, <1>2 DEF AskedOnce, CallOf, Key, Underway, Pending
    <2>2. ASSUME NEW k \in Keys, NEW s \in Starts
          PROVE  \/ counter'[k][s].count <= counter[k][s].count
                 \/ counter'[k][s].count = counter[k][s].count + 1 /\ faults' >= faults + 1
      BY <1>1, CommandCounts, CounterTypes DEF Inv
    <2>3. ASSUME NEW q \in Requests, pc'[q] = "refused"
          PROVE  \E k \in Keys, s \in Starts : Key(q)' = k /\ hit'[q].start = s /\ Full(k, s)
      BY <1>1, <1>2, <2>3, RefusedStays
    <2> QED BY <1>1, <1>2, <2>1, <2>2, <2>3, CountKeeps
  <1>3. ASSUME CallsMove(r), Moved(r), pc'[r] \notin {"new", "refused"},
               counter' = Incremented(r) => pc[r] = "incr"
        PROVE  AskedOnce' /\ CountsFit' /\ RefusedOnlyWhenFull'
    BY <1>1, <1>3, CallKeeps
  <1>4. counter' = Incremented(r) => pc[r] = "incr"
    <2>1. /\ Key(r) \in Keys /\ hit[r].start \in Starts
          /\ counter[Key(r)][hit[r].start].count \in Nat
      BY <1>1, CallType, CounterTypes DEF Inv
    <2>2. ASSUME counter' = Incremented(r), pc[r] = "expire" PROVE FALSE
      <3>1. counter' \in {counter, Mortal(r)}
        BY <2>2 DEF Fault, Crash
      <3>2. counter'[Key(r)][hit[r].start].count = counter[Key(r)][hit[r].start].count
        <4>1. CASE counter' = Mortal(r)
          BY <1>1, <2>1, <4>1 DEF Mortal, CounterKey, Inv, TypeOK, Counters
        <4> QED BY <3>1, <4>1
      <3> QED BY <1>1, <2>1, <2>2, <3>2, IncrCounts DEF Inv, CounterOf, CounterKey
    <2> QED BY <1>1, <2>2
  <1>5. CASE Fault(r) /\ Allow(r)
    <2>1. CallsMove(r) /\ Moved(r) /\ pc'[r] \notin {"new", "refused"}
      BY <1>1, <1>5, AllowIsMove, AllowMoves
    <2> QED BY <1>3, <1>4, <2>1
  <1>6. CASE Crash(r)
    <2>1. /\ CallsMove(r) /\ hit'[r].pos = hit[r].pos /\ hit'[r].start = hit[r].start
          /\ pc'[r] = "lost" /\ hit[r].start \in Starts /\ asked' = asked
      BY <1>1, <1>6, StageMoves, CallType DEF Crash, Stages, Inv
    <2> QED BY <1>1, <1>3, <1>4, <2>1 DEF Moved
  <1> QED BY <1>2, <1>5, <1>6 DEF Fault

LEMMA DyingCounted ==
  ASSUME RefusalInv, TypeOK', UNCHANGED <<pc, path, hit, asked, faults>>,
         \A k \in Keys, s \in Starts : counter'[k][s] \in {counter[k][s], NoCounter}
  PROVE  AskedOnce' /\ CountsFit' /\ RefusedOnlyWhenFull'
  <1>1. Inv /\ AskedOnce /\ faults \in Nat
    BY DEF RefusalInv, Inv, TypeOK
  <1>2. AskedOnce' /\ \A a \in asked : Pending(a)' => Pending(a)
    BY <1>1 DEF AskedOnce, CallOf, Key, Underway, Pending
  <1>3. ASSUME NEW k \in Keys, NEW s \in Starts
        PROVE  counter'[k][s].count <= counter[k][s].count
    BY <1>1, CounterTypes DEF Inv, NoCounter
  <1>4. ASSUME NEW q \in Requests, pc'[q] = "refused"
        PROVE  \E k \in Keys, s \in Starts : Key(q)' = k /\ hit'[q].start = s /\ Full(k, s)
    BY <1>4, RefusedStays
  <1> QED BY <1>1, <1>2, <1>3, <1>4, CountKeeps

LEMMA InitRefusal == Init => RefusalInv
  <1> SUFFICES ASSUME Init PROVE RefusalInv
    OBVIOUS
  <1>1. Inv
    BY InitInv
  <1>2. AskedOnce
    BY FS_EmptySet DEF Init, AskedOnce, Underway
  <1>3. CountsFit
    <2>1. ASSUME NEW k \in Keys, NEW s \in Starts
          PROVE  counter[k][s].count <= Cardinality(Counted(k, s)) + faults
      <3>1. Counted(k, s) = {} /\ counter[k][s].count = 0 /\ faults = 0
        BY DEF Init, Counted, AskedAt, NoCounter
      <3>2. Cardinality(Counted(k, s)) = 0
        BY <3>1, FS_EmptySet
      <3> QED BY <3>1, <3>2
    <2> QED BY <2>1 DEF CountsFit
  <1>4. RefusedOnlyWhenFull
    BY DEF Init, RefusedOnlyWhenFull
  <1> QED BY <1>1, <1>2, <1>3, <1>4 DEF RefusalInv

LEMMA NextRefusal == RefusalInv /\ [Next]_vars => RefusalInv'
  <1> SUFFICES ASSUME RefusalInv, [Next]_vars PROVE RefusalInv'
    OBVIOUS
  <1>1. Inv' /\ TypeOK'
    BY NextInv DEF RefusalInv, Inv
  <1> DEFINE Kept == AskedOnce' /\ CountsFit' /\ RefusedOnlyWhenFull'
  <1>2. ASSUME NEW r \in Requests, Begin(r) \/ Incr(r) \/ Expire(r) \/ Fault(r) \/ Crash(r)
        PROVE  Kept
    BY <1>1, <1>2, BeginCounts, IncrCounted, ExpireCounted, FailureCounted
  <1>3. ASSUME NEW k \in Keys, NEW s \in Starts, Evict(k, s)
        PROVE  Kept
    <2>1. counter' = [counter EXCEPT ![k][s] = NoCounter] /\ counter \in [Keys -> [Starts -> Counters]]
      BY <1>3 DEF Evict, RefusalInv, Inv, TypeOK
    <2>2. \A l \in Keys, t \in Starts : counter'[l][t] \in {counter[l][t], NoCounter}
      BY <2>1
    <2> QED BY <1>1, <1>3, <2>2, DyingCounted DEF Evict
  <1>4. ASSUME Tick \/ UNCHANGED vars
        PROVE  Kept
    BY <1>1, <1>4, DyingCounted DEF Tick, vars
  <1>5. Kept
    BY <1>2, <1>3, <1>4 DEF Next
  <1> QED BY <1>1, <1>5 DEF RefusalInv

--------------------------------------------------------------------------------

\* The clock, the counters, the calls of hit() and their records keep their types.
THEOREM TypeCorrect == Spec => []TypeOK
  <1>1. Inv => TypeOK
    BY DEF Inv
  <1> QED BY <1>1, InitInv, NextInv, PTL DEF Spec

\* hit() lets no more than the limit of a key pass by the counter of a window, whatever
\* fails, dies or is counted twice.
THEOREM LimitHolds == Spec => []LimitPerWindow
  BY InitInv, NextInv, PlacesFit, PTL DEF Spec

\* hit() refuses nobody before the key and the window have been asked for more often
\* than the limit, failures aside, each of which may have counted a call twice.
THEOREM RefusalsAreDeserved == Spec => []RefusedOnlyWhenFull
  <1>1. RefusalInv => RefusedOnlyWhenFull
    BY DEF RefusalInv
  <1> QED BY <1>1, InitRefusal, NextRefusal, PTL DEF Spec
================================================================================
