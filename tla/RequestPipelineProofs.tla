--------------------------- MODULE RequestPipelineProofs ---------------------------
(***************************************************************************)
(* Proofs about RequestPipeline, for any requests and client ids, with and  *)
(* without CORS: what the layers make of an answer on its way out, and what *)
(* the metrics have counted of it.                                          *)
(***************************************************************************)
EXTENDS RequestPipeline, FiniteSetTheorems, SequenceTheorems, TLAPS

--------------------------------------------------------------------------------
\* The layers by their places: CORS moves those inside of it by one.

Shift == IF CorsOn THEN 1 ELSE 0

Names == {"errors", "cors", "request_id", "security", "metrics", "exceptions"}

LEMMA Joined ==
  ASSUME NEW a \in Seq(Names), NEW b \in Seq(Names)
  PROVE  /\ a \o b \in Seq(Names) /\ Len(a \o b) = Len(a) + Len(b)
         /\ \A i \in 1 .. Len(a) : (a \o b)[i] = a[i]
         /\ \A i \in 1 .. Len(b) : (a \o b)[Len(a) + i] = b[i]
  <1>1. Len(a) \in Nat /\ Len(b) \in Nat
    OBVIOUS
  <1>2. /\ a \o b \in Seq(Names) /\ Len(a \o b) = Len(a) + Len(b)
        /\ \A i \in 1 .. Len(a) + Len(b) :
              (a \o b)[i] = IF i <= Len(a) THEN a[i] ELSE b[i - Len(a)]
    BY ConcatProperties
  <1>3. ASSUME NEW i \in 1 .. Len(b) PROVE (a \o b)[Len(a) + i] = b[i]
    <2>1. Len(a) + i \in 1 .. Len(a) + Len(b) /\ ~(Len(a) + i <= Len(a)) /\ (Len(a) + i) - Len(a) = i
      BY <1>1
    <2> QED BY <1>2, <2>1
  <1> QED BY <1>1, <1>2, <1>3

LEMMA Places ==
  /\ Shift \in {0, 1} /\ (CorsOn <=> Shift = 1)
  /\ Depth = 5 + Shift
  /\ Layers[1] = "errors"
  /\ CorsOn => Layers[2] = "cors"
  /\ Layers[2 + Shift] = "request_id"
  /\ Layers[3 + Shift] = "security"
  /\ Layers[4 + Shift] = "metrics"
  /\ Layers[5 + Shift] = "exceptions"
  <1> DEFINE outer == <<"errors">>
             cors == IF CorsOn THEN <<"cors">> ELSE <<>>
             inner == <<"request_id", "security", "metrics", "exceptions">>
  <1>0. CorsOn \in BOOLEAN
    BY ParametersAssumption
  <1>1. /\ outer \in Seq(Names) /\ Len(outer) = 1 /\ outer[1] = "errors"
        /\ inner \in Seq(Names) /\ Len(inner) = 4
        /\ inner[1] = "request_id" /\ inner[2] = "security"
        /\ inner[3] = "metrics" /\ inner[4] = "exceptions"
    <2>1. outer \in Seq(Names)
      BY DEF Names
    <2>2. Len(outer) = 1 /\ outer[1] = "errors"
      OBVIOUS
    <2>3. inner \in Seq(Names)
      BY DEF Names
    <2>4. Len(inner) = 4
      OBVIOUS
    <2>5. /\ inner[1] = "request_id" /\ inner[2] = "security"
          /\ inner[3] = "metrics" /\ inner[4] = "exceptions"
      OBVIOUS
    <2> QED BY <2>1, <2>2, <2>3, <2>4, <2>5
  <1>2. cors \in Seq(Names) /\ Len(cors) = Shift /\ (CorsOn => cors[1] = "cors")
    <2>1. CASE CorsOn
      <3>1. cors = <<"cors">>
        BY <2>1
      <3>2. <<"cors">> \in Seq(Names) /\ Len(<<"cors">>) = 1 /\ <<"cors">>[1] = "cors"
        BY DEF Names
      <3> QED BY <2>1, <3>1, <3>2 DEF Shift
    <2>2. CASE ~CorsOn
      <3>1. cors = <<>>
        BY <2>2
      <3>2. <<>> \in Seq(Names) /\ Len(<<>>) = 0
        OBVIOUS
      <3> QED BY <2>2, <3>1, <3>2 DEF Shift
    <2> QED BY <1>0, <2>1, <2>2
  <1>3. Shift \in {0, 1} /\ (CorsOn <=> Shift = 1)
    BY <1>0 DEF Shift
  <1>4. Layers = (outer \o cors) \o inner
    BY DEF Layers
  <1> HIDE DEF outer, cors, inner
  <1>5. /\ outer \o cors \in Seq(Names) /\ Len(outer \o cors) = 1 + Shift
        /\ (outer \o cors)[1] = "errors" /\ (CorsOn => (outer \o cors)[2] = "cors")
    <2>1. /\ outer \o cors \in Seq(Names) /\ Len(outer \o cors) = Len(outer) + Len(cors)
          /\ \A i \in 1 .. Len(outer) : (outer \o cors)[i] = outer[i]
          /\ \A i \in 1 .. Len(cors) : (outer \o cors)[Len(outer) + i] = cors[i]
      BY <1>1, <1>2, Joined
    <2>2. (outer \o cors)[1] = "errors"
      BY <1>1, <2>1
    <2>3. CorsOn => (outer \o cors)[1 + 1] = "cors"
      BY <1>1, <1>2, <1>3, <2>1
    <2>4. 1 + 1 = 2
      OBVIOUS
    <2> QED BY <1>1, <1>2, <2>1, <2>2, <2>3, <2>4
  <1>6. /\ Len(Layers) = (1 + Shift) + 4
        /\ \A i \in 1 .. 1 + Shift : Layers[i] = (outer \o cors)[i]
        /\ \A i \in 1 .. 4 : Layers[(1 + Shift) + i] = inner[i]
    <2> DEFINE first == outer \o cors
    <2>1. first \in Seq(Names) /\ Len(first) = 1 + Shift /\ Layers = first \o inner
      BY <1>4, <1>5
    <2> HIDE DEF first
    <2>2. /\ Len(first \o inner) = Len(first) + Len(inner)
          /\ \A i \in 1 .. Len(first) : (first \o inner)[i] = first[i]
          /\ \A i \in 1 .. Len(inner) : (first \o inner)[Len(first) + i] = inner[i]
      BY <1>1, <2>1, Joined
    <2>3. /\ Len(Layers) = (1 + Shift) + 4
          /\ \A i \in 1 .. 1 + Shift : Layers[i] = first[i]
          /\ \A i \in 1 .. 4 : Layers[(1 + Shift) + i] = inner[i]
      BY <1>1, <2>1, <2>2
    <2> QED BY <2>3 DEF first
  <1>7. /\ Layers[(1 + Shift) + 1] = inner[1] /\ Layers[(1 + Shift) + 2] = inner[2]
        /\ Layers[(1 + Shift) + 3] = inner[3] /\ Layers[(1 + Shift) + 4] = inner[4]
    BY <1>6
  <1>8. /\ (1 + Shift) + 1 = 2 + Shift /\ (1 + Shift) + 2 = 3 + Shift
        /\ (1 + Shift) + 3 = 4 + Shift /\ (1 + Shift) + 4 = 5 + Shift
    BY <1>3
  <1>9. Layers[1] = "errors" /\ (CorsOn => Layers[2] = "cors")
    BY <1>3, <1>5, <1>6
  <1> QED BY <1>1, <1>3, <1>6, <1>7, <1>8, <1>9 DEF Depth

--------------------------------------------------------------------------------
\* The inductive invariant.

AllKinds == Kinds \cup {"ok"}

Results == [type    : {"none", "response"} \cup AllKinds,
            status  : Statuses \cup {0},
            header  : Ids,
            body    : Ids,
            secured : BOOLEAN]

Types ==
  /\ kind \in [Requests -> AllKinds]
  /\ sent \in [Requests -> ClientIds \cup {None}]
  /\ at \in [Requests -> 0 .. Depth + 1]
  /\ way \in [Requests -> {"in", "out", "done"}]
  /\ state_id \in [Requests -> Ids]
  /\ result \in [Requests -> Results]
  /\ counter \in [Labels -> [Statuses -> Nat]]

\* A request past the middleware of its id has it, and a preflight never gets there.
GoingIn(r) ==
  /\ at[r] > 2 + Shift => state_id[r] = RequestId(r)
  /\ kind[r] = "preflight" => at[r] <= 2

\* The exceptions that have a handler of their own.
Handlers == {"http_error", "invalid", "no_route", "wrong_method"}

\* A result by the layer it has reached: what the exception handlers made of it, and
\* what the middlewares it has passed have added.
GoingOut(r) ==
  /\ at[r] <= Depth
  /\ result[r].header \in {None, RequestId(r)} /\ result[r].body \in {None, RequestId(r)}
  /\ result[r].type = "response" => result[r].status \in Statuses
  /\ kind[r] = "preflight" => at[r] <= 1 /\ result[r].type = "response"
  /\ kind[r] # "preflight" => state_id[r] = RequestId(r)
  /\ kind[r] = "crash" =>
       IF at[r] = 0 THEN /\ result[r].type = "response" /\ result[r].status = 500
                         /\ result[r].body = RequestId(r)
       ELSE result[r].type = "crash"
  /\ kind[r] \notin {"preflight", "crash"} =>
       /\ \/ result[r].type = "response"
          \/ at[r] = Depth /\ result[r].type = kind[r] /\ kind[r] \in Handlers
       /\ at[r] < 3 + Shift => result[r].secured
       /\ at[r] < 2 + Shift => result[r].header = RequestId(r)

OnCourse(r) ==
  /\ way[r] = "in" => GoingIn(r)
  /\ way[r] # "in" => GoingOut(r)
  /\ way[r] = "done" => at[r] = 0

\* The status an answer has, or will have, once it is past the metrics.
FinalStatus(r) == IF result[r].type = "response" THEN result[r].status ELSE 500

Counted(l, s) ==
  {r \in Requests : /\ way[r] # "in" /\ at[r] < 4 + Shift /\ kind[r] # "preflight"
                    /\ Label(r) = l /\ FinalStatus(r) = s}

CountersCount == \A l \in Labels, s \in Statuses : counter[l][s] = Cardinality(Counted(l, s))

Inv == Types /\ (\A r \in Requests : OnCourse(r)) /\ CountersCount

\* What stays the same of the requests a step is not about.
Others(r) ==
  \A q \in Requests \ {r} :
    /\ kind'[q] = kind[q] /\ sent'[q] = sent[q] /\ at'[q] = at[q] /\ way'[q] = way[q]
    /\ state_id'[q] = state_id[q] /\ result'[q] = result[q]

\* r is behind the metrics with this label and status.
Behind(r, l, s) ==
  /\ way[r] # "in" /\ at[r] < 4 + Shift /\ kind[r] # "preflight"
  /\ Label(r) = l /\ FinalStatus(r) = s

\* The request r keeps its course, and what the metrics have counted of it is as before.
Uncounted(r) ==
  /\ OnCourse(r)' /\ Others(r) /\ counter' = counter
  /\ \A l \in Labels, s \in Statuses : Behind(r, l, s)' <=> Behind(r, l, s)

LEMMA IdsHold == \A r \in Requests : Types => RequestId(r) \in Requests \cup ClientIds
  BY DEF Types, RequestId

LEMMA InvInit == Init => Inv
  <1> SUFFICES ASSUME Init PROVE Inv
    OBVIOUS
  <1>1. Depth \in Nat /\ Depth = 5 + Shift /\ Shift \in {0, 1}
    BY Places
  <1>2. NoResult \in Results
    BY DEF NoResult, Results, Statuses, Ids
  <1>3. Types
    BY <1>1, <1>2 DEF Init, Types, AllKinds, Ids
  <1>4. ASSUME NEW r \in Requests PROVE OnCourse(r)
    BY <1>1 DEF Init, OnCourse, GoingIn
  <1>5. ASSUME NEW l \in Labels, NEW s \in Statuses PROVE counter[l][s] = Cardinality(Counted(l, s))
    <2>1. Counted(l, s) = {}
      BY DEF Init, Counted
    <2> QED BY <2>1, FS_EmptySet DEF Init
  <1> QED BY <1>3, <1>4, <1>5 DEF Inv, CountersCount

LEMMA OthersKeepCourse ==
  ASSUME NEW r \in Requests, NEW q \in Requests \ {r}, Others(r)
  PROVE  /\ OnCourse(q) => OnCourse(q)'
         /\ \A l \in Labels, s \in Statuses : Behind(q, l, s)' <=> Behind(q, l, s)
  <1>1. /\ kind'[q] = kind[q] /\ sent'[q] = sent[q] /\ at'[q] = at[q] /\ way'[q] = way[q]
        /\ state_id'[q] = state_id[q] /\ result'[q] = result[q]
    BY DEF Others
  <1> QED BY <1>1 DEF OnCourse, GoingIn, GoingOut, RequestId, Behind, Label, FinalStatus

LEMMA CountedIsBehind ==
  \A l \in Labels, s \in Statuses : /\ Counted(l, s) = {q \in Requests : Behind(q, l, s)}
                                    /\ IsFiniteSet(Counted(l, s))
  <1>1. IsFiniteSet(Requests)
    BY ParametersAssumption
  <1>2. ASSUME NEW l \in Labels, NEW s \in Statuses
        PROVE  Counted(l, s) = {q \in Requests : Behind(q, l, s)} /\ Counted(l, s) \subseteq Requests
    BY DEF Counted, Behind
  <1> QED BY <1>1, <1>2, FS_Subset

LEMMA UncountedKeeps ==
  ASSUME Inv, Types', NEW r \in Requests, Uncounted(r)
  PROVE  Inv'
  <1>1. ASSUME NEW q \in Requests PROVE OnCourse(q)'
    BY OthersKeepCourse DEF Inv, Uncounted
  <1>2. ASSUME NEW l \in Labels, NEW s \in Statuses
        PROVE  counter'[l][s] = Cardinality(Counted(l, s)')
    <2>1. ASSUME NEW q \in Requests PROVE Behind(q, l, s)' <=> Behind(q, l, s)
      BY OthersKeepCourse DEF Uncounted
    <2>2. Counted(l, s)' = {q \in Requests : Behind(q, l, s)'}
      BY CountedIsBehind DEF Counted, Behind
    <2>3. Counted(l, s)' = Counted(l, s)
      BY <2>1, <2>2, CountedIsBehind
    <2> QED BY <2>3 DEF Uncounted, Inv, CountersCount
  <1> QED BY <1>1, <1>2 DEF Inv, CountersCount

--------------------------------------------------------------------------------
\* The way in.

LEMMA ReceiveKeeps ==
  ASSUME Inv, NEW r \in Requests, Receive(r)
  PROVE  Types' /\ Uncounted(r)
  <1>1. Types /\ at[r] = 0 /\ way[r] = "in"
    BY DEF Inv, Receive
  <1>2. Depth = 5 + Shift /\ Shift \in {0, 1}
    BY Places
  <1>3. Types'
    BY <1>1, <1>2 DEF Types, Receive, Inwards, AllKinds
  <1>4. at'[r] = 1 /\ way'[r] = "in" /\ counter' = counter
    BY <1>1 DEF Receive, Inwards, Types
  <1>5. OnCourse(r)'
    BY <1>2, <1>4 DEF OnCourse, GoingIn
  <1>6. Others(r)
    BY <1>1 DEF Others, Receive, Inwards, Types
  <1>7. \A l \in Labels, s \in Statuses : Behind(r, l, s)' <=> Behind(r, l, s)
    BY <1>1, <1>4 DEF Behind
  <1> QED BY <1>3, <1>4, <1>5, <1>6, <1>7 DEF Uncounted

LEMMA EnterKeeps ==
  ASSUME Inv, NEW r \in Requests, Enter(r)
  PROVE  Types' /\ Uncounted(r)
  <1>1. /\ Types /\ at[r] \in 1 .. Depth /\ way[r] = "in" /\ GoingIn(r)
        /\ kind' = kind /\ sent' = sent /\ counter' = counter
    BY DEF Inv, Enter, OnCourse
  <1>2. Depth = 5 + Shift /\ Shift \in {0, 1} /\ Layer(r) = Layers[at[r]]
    BY <1>1, Places DEF Layer
  <1>3. CASE /\ Layer(r) = "cors" /\ kind[r] = "preflight"
             /\ way' = [way EXCEPT ![r] = "out"]
             /\ result' = [result EXCEPT ![r] = Response(200, None)]
             /\ Outwards(r)
             /\ state_id' = state_id
    <2>1. at[r] <= 2 /\ at[r] # 1
      BY <1>1, <1>2, <1>3, Places DEF GoingIn
    <2>2. at'[r] = 1 /\ way'[r] = "out" /\ result'[r] = Response(200, None)
      <3>1. at[r] = 2
        BY <1>1, <1>2, <2>1
      <3>2. r \in DOMAIN at /\ r \in DOMAIN way /\ r \in DOMAIN result
        BY <1>1 DEF Types
      <3> QED BY <1>3, <3>1, <3>2 DEF Outwards
    <2>3. Response(200, None) \in Results
      BY DEF Response, Results, Statuses, Ids
    <2>4. Types'
      BY <1>1, <1>2, <1>3, <2>1, <2>3 DEF Types, Outwards
    <2>5. OnCourse(r)'
      BY <1>1, <1>2, <1>3, <2>2 DEF OnCourse, GoingOut, Response, Statuses
    <2>6. Others(r)
      BY <1>1, <1>3 DEF Others, Outwards, Types
    <2>7. \A l \in Labels, s \in Statuses : Behind(r, l, s)' <=> Behind(r, l, s)
      BY <1>1, <1>3 DEF Behind
    <2> QED BY <1>1, <2>4, <2>5, <2>6, <2>7 DEF Uncounted
  <1>4. CASE /\ ~(Layer(r) = "cors" /\ kind[r] = "preflight")
             /\ state_id' = IF Layer(r) = "request_id"
                            THEN [state_id EXCEPT ![r] = RequestId(r)] ELSE state_id
             /\ Inwards(r)
             /\ way' = way /\ result' = result
    <2>1. at'[r] = at[r] + 1 /\ way'[r] = "in" /\ at[r] \in Nat /\ at[r] <= Depth
      BY <1>1, <1>2, <1>4 DEF Inwards, Types
    <2>2. RequestId(r) \in Ids
      BY <1>1, IdsHold DEF Ids
    <2>3. Types'
      BY <1>1, <1>2, <1>4, <2>1, <2>2 DEF Types, Inwards
    <2>4. ASSUME at'[r] > 2 + Shift PROVE state_id'[r] = RequestId(r)
      <3>1. CASE at[r] = 2 + Shift
        BY <1>1, <1>2, <1>4, <3>1, Places DEF Types
      <3>2. CASE at[r] > 2 + Shift
        BY <1>1, <1>2, <1>4, <3>2 DEF Types, GoingIn
      <3> QED BY <1>2, <2>1, <2>4, <3>1, <3>2
    <2>5. ASSUME kind[r] = "preflight" PROVE at'[r] <= 2
      <3>1. CorsOn
        BY <1>1, <2>5, ParametersAssumption DEF Types, AllKinds
      <3>2. at[r] # 2
        BY <1>2, <1>4, <2>5, <3>1, Places
      <3> QED BY <1>1, <2>1, <2>5, <3>2 DEF GoingIn
    <2>6. OnCourse(r)'
      BY <1>1, <2>1, <2>4, <2>5 DEF OnCourse, GoingIn, RequestId
    <2>7. Others(r)
      BY <1>1, <1>4 DEF Others, Inwards, Types
    <2>8. \A l \in Labels, s \in Statuses : Behind(r, l, s)' <=> Behind(r, l, s)
      BY <1>1, <2>1 DEF Behind
    <2> QED BY <1>1, <2>3, <2>6, <2>7, <2>8 DEF Uncounted
  <1> QED BY <1>3, <1>4 DEF Enter

LEMMA RouteKeeps ==
  ASSUME Inv, NEW r \in Requests, Route(r)
  PROVE  Types' /\ Uncounted(r)
  <1> DEFINE answer == CASE kind[r] \in {"ok", "scrape"} -> Response(200, None)
                         [] kind[r] = "unready"          -> Response(503, None)
                         [] OTHER                        -> Raised(kind[r])
  <1>1. /\ Types /\ at[r] = Depth + 1 /\ way[r] = "in" /\ GoingIn(r)
        /\ kind' = kind /\ sent' = sent /\ state_id' = state_id /\ counter' = counter
        /\ way' = [way EXCEPT ![r] = "out"] /\ result' = [result EXCEPT ![r] = answer]
        /\ at' = [at EXCEPT ![r] = @ - 1]
    BY DEF Inv, Route, OnCourse, Outwards
  <1>2. Depth = 5 + Shift /\ Shift \in {0, 1}
    BY Places
  <1>3. kind[r] \in AllKinds
    BY <1>1 DEF Types
  <1>4. \/ answer = Response(200, None) /\ kind[r] \in {"ok", "scrape"}
        \/ answer = Response(503, None) /\ kind[r] = "unready"
        \/ answer = Raised(kind[r]) /\ kind[r] \notin {"ok", "scrape", "unready"}
    OBVIOUS
  <1>5. /\ answer \in Results /\ answer.header = None /\ answer.body = None
        /\ answer.type = "response" => answer.status \in Statuses
        /\ kind[r] = "crash" => answer.type = "crash"
        /\ \/ answer.type = "response"
           \/ answer.type = kind[r] /\ kind[r] \in Handlers \cup {"crash", "preflight"}
    <2>1. kind[r] # "response"
      BY <1>3, ParametersAssumption DEF AllKinds
    <2>2. CASE answer = Response(200, None) /\ kind[r] \in {"ok", "scrape"}
      BY <2>2 DEF Response, Results, Statuses, Ids
    <2>3. CASE answer = Response(503, None) /\ kind[r] = "unready"
      BY <2>3 DEF Response, Results, Statuses, Ids
    <2>4. CASE answer = Raised(kind[r]) /\ kind[r] \notin {"ok", "scrape", "unready"}
      <3>0. kind[r] \in Handlers \cup {"crash", "preflight"}
        BY <1>3, <2>4, ParametersAssumption DEF AllKinds, Handlers
      <3>1. answer = [type |-> kind[r], status |-> 0, header |-> None, body |-> None,
                      secured |-> FALSE]
        BY <2>4 DEF Raised, NoResult
      <3> HIDE DEF answer
      <3> QED BY <1>3, <2>1, <3>0, <3>1 DEF Results, Ids
    <2> QED BY <1>4, <2>2, <2>3, <2>4
  <1> HIDE DEF answer
  <1>6. at'[r] = Depth /\ way'[r] = "out" /\ result'[r] = answer
    BY <1>1, <1>2 DEF Types
  <1>7. Types'
    BY <1>1, <1>2, <1>5 DEF Types
  <1>8. kind[r] # "preflight" /\ state_id[r] = RequestId(r)
    BY <1>1, <1>2 DEF GoingIn
  <1>9. OnCourse(r)'
    BY <1>1, <1>2, <1>5, <1>6, <1>8 DEF OnCourse, GoingOut, RequestId
  <1>10. Others(r)
    BY <1>1 DEF Others, Types
  <1>11. \A l \in Labels, s \in Statuses : Behind(r, l, s)' <=> Behind(r, l, s)
    BY <1>1, <1>2, <1>6 DEF Behind
  <1> QED BY <1>1, <1>7, <1>9, <1>10, <1>11 DEF Uncounted

--------------------------------------------------------------------------------
\* The way out, layer by layer.

\* What leaving a layer with this result is.
LeavesWith(r, new) ==
  /\ way[r] = "out" /\ at[r] \in 1 .. Depth
  /\ result' = [result EXCEPT ![r] = new]
  /\ at' = [at EXCEPT ![r] = @ - 1]
  /\ kind' = kind /\ sent' = sent /\ way' = way /\ state_id' = state_id

LEMMA LeaveByPlace ==
  ASSUME Inv, NEW r \in Requests, Leave(r)
  PROVE  /\ at[r] = 5 + Shift => LeavesWith(r, Handled(r)) /\ counter' = counter
         /\ at[r] = 4 + Shift =>
              /\ LeavesWith(r, result[r])
              /\ counter' = [counter EXCEPT ![Label(r)][MetricStatus(r)] = @ + 1]
         /\ at[r] = 3 + Shift => LeavesWith(r, Secured(r)) /\ counter' = counter
         /\ at[r] = 2 + Shift => LeavesWith(r, Tagged(r)) /\ counter' = counter
         /\ at[r] = 1 + Shift /\ CorsOn => LeavesWith(r, result[r]) /\ counter' = counter
         /\ at[r] = 1 =>
              /\ LeavesWith(r, IF result[r].type # "response" THEN InternalError(r) ELSE result[r])
              /\ counter' = counter
  <1>1. way[r] = "out" /\ at[r] \in 1 .. Depth /\ Layer(r) = Layers[at[r]]
    BY DEF Leave, Layer
  <1>2. Depth = 5 + Shift /\ Shift \in {0, 1} /\ (CorsOn => Shift = 1)
    BY Places
  <1>3. CASE at[r] = 5 + Shift
    <2>1. Layer(r) = "exceptions"
      BY <1>1, <1>3, Places
    <2>2. LeavesWith(r, Handled(r)) /\ counter' = counter
      BY <2>1 DEF Leave, LeavesWith, Outwards
    <2> QED BY <1>2, <1>3, <2>2
  <1>4. CASE at[r] = 4 + Shift
    <2>1. Layer(r) = "metrics"
      BY <1>1, <1>4, Places
    <2>2. /\ LeavesWith(r, result[r])
          /\ counter' = [counter EXCEPT ![Label(r)][MetricStatus(r)] = @ + 1]
      BY <2>1 DEF Leave, LeavesWith, Outwards
    <2> QED BY <1>2, <1>4, <2>2
  <1>5. CASE at[r] = 3 + Shift
    <2>1. Layer(r) = "security"
      BY <1>1, <1>5, Places
    <2>2. LeavesWith(r, Secured(r)) /\ counter' = counter
      BY <2>1 DEF Leave, LeavesWith, Outwards
    <2> QED BY <1>2, <1>5, <2>2
  <1>6. CASE at[r] = 2 + Shift
    <2>1. Layer(r) = "request_id"
      BY <1>1, <1>6, Places
    <2>2. LeavesWith(r, Tagged(r)) /\ counter' = counter
      BY <2>1 DEF Leave, LeavesWith, Outwards
    <2> QED BY <1>2, <1>6, <2>2
  <1>7. CASE at[r] = 1 + Shift /\ CorsOn
    <2>1. Layer(r) = "cors"
      <3>1. 1 + Shift = 2
        BY <1>2, <1>7
      <3> QED BY <1>1, <1>7, <3>1, Places
    <2>2. LeavesWith(r, result[r]) /\ counter' = counter
      BY <2>1 DEF Leave, LeavesWith, Outwards
    <2> QED BY <1>2, <1>7, <2>2
  <1>8. CASE at[r] = 1
    <2>1. Layer(r) = "errors"
      BY <1>1, <1>8, Places
    <2>2. /\ LeavesWith(r, IF result[r].type # "response" THEN InternalError(r) ELSE result[r])
          /\ counter' = counter
      BY <2>1 DEF Leave, LeavesWith, Outwards
    <2> QED BY <1>2, <1>8, <2>2
  <1> QED BY <1>1, <1>2, <1>3, <1>4, <1>5, <1>6, <1>7, <1>8

LEMMA LeavesWithEffect ==
  ASSUME Inv, NEW r \in Requests, NEW new \in Results, LeavesWith(r, new)
  PROVE  /\ at'[r] = at[r] - 1 /\ at'[r] \in Nat /\ at'[r] <= Depth /\ way'[r] = "out"
         /\ result'[r] = new
         /\ Others(r) /\ (counter' = counter => Types')
  <1>1. Types /\ Depth \in Nat
    BY Places DEF Inv
  <1>2. at'[r] = at[r] - 1 /\ at'[r] \in 0 .. Depth /\ way'[r] = "out" /\ result'[r] = new
    BY <1>1 DEF LeavesWith, Types
  <1>3. Others(r)
    BY <1>1 DEF Others, LeavesWith, Types
  <1>4. at' \in [Requests -> 0 .. Depth + 1]
    BY <1>1 DEF LeavesWith, Types
  <1>5. counter' = counter => Types'
    BY <1>1, <1>4 DEF LeavesWith, Types
  <1> QED BY <1>1, <1>2, <1>3, <1>5

\* What there is to know of a result on its way out, of any kind.
LEMMA OnTheWayOut ==
  ASSUME Inv, NEW r \in Requests, way[r] = "out"
  PROVE  /\ GoingOut(r) /\ result[r] \in Results /\ RequestId(r) \in Ids
         /\ state_id[r] \in Ids /\ kind[r] \in AllKinds /\ "response" \notin AllKinds
         /\ at[r] \in Nat /\ Label(r) \in Labels
  <1>1. Types /\ OnCourse(r)
    BY DEF Inv
  <1>2. "response" \notin AllKinds
    BY ParametersAssumption DEF AllKinds
  <1> QED BY <1>1, <1>2, IdsHold, Places DEF OnCourse, Types, Ids, Label, Labels

\* The exception handlers: what they have no answer to goes on as it is.
LEMMA ExceptionsKeep ==
  ASSUME Inv, NEW r \in Requests, at[r] = 5 + Shift, LeavesWith(r, Handled(r)), counter' = counter
  PROVE  Types' /\ Uncounted(r)
  <1>1. /\ GoingOut(r) /\ result[r] \in Results /\ RequestId(r) \in Ids
        /\ kind[r] \in AllKinds /\ "response" \notin AllKinds /\ Shift \in {0, 1}
        /\ kind[r] # "preflight" /\ state_id[r] = RequestId(r)
    BY OnTheWayOut, Places DEF LeavesWith, GoingOut
  <1> DEFINE new == Handled(r)
  <1>2. /\ new \in Results /\ new.header \in {None, RequestId(r)} /\ new.body \in {None, RequestId(r)}
        /\ new.type = "response" => new.status \in Statuses
        /\ kind[r] = "crash" => new.type = "crash"
        /\ kind[r] # "crash" => new.type = "response"
    <2>1. CASE result[r].type \in Handlers
      <3>1. \/ new = Response(409, state_id[r]) \/ new = Response(422, state_id[r])
            \/ new = Response(404, None) \/ new = Response(405, None)
        BY <2>1 DEF Handled, Handlers
      <3>2. kind[r] # "crash"
        BY <1>1, <2>1, Places DEF GoingOut, Handlers
      <3> HIDE DEF new
      <3>3. PICK status \in {409, 422, 404, 405}, body \in {None, RequestId(r)} :
              new = Response(status, body)
        BY <1>1, <3>1
      <3>4. new = [type |-> "response", status |-> status, header |-> None, body |-> body,
                   secured |-> FALSE]
        BY <3>3 DEF Response
      <3>5. status \in Statuses /\ body \in Ids /\ None \in Ids
        BY <1>1 DEF Statuses, Ids
      <3> QED BY <3>2, <3>4, <3>5 DEF Results
    <2>2. CASE result[r].type \notin Handlers
      <3>1. new = result[r]
        BY <2>2 DEF Handled, Handlers
      <3> HIDE DEF new
      <3> QED BY <1>1, <2>2, <3>1, Places DEF GoingOut
    <2> QED BY <2>1, <2>2
  <1> HIDE DEF new
  <1>3. /\ at'[r] = 4 + Shift /\ way'[r] = "out" /\ result'[r] = new
        /\ Others(r) /\ Types' /\ kind' = kind /\ sent' = sent /\ state_id' = state_id
    <2>1. at'[r] = at[r] - 1 /\ way'[r] = "out" /\ result'[r] = new /\ Others(r) /\ Types'
      BY <1>2, LeavesWithEffect DEF new
    <2> QED BY <1>1, <2>1 DEF LeavesWith
  <1>4. OnCourse(r)'
    BY <1>1, <1>2, <1>3, Places DEF OnCourse, GoingOut, RequestId
  <1>5. \A l \in Labels, s \in Statuses : Behind(r, l, s)' <=> Behind(r, l, s)
    BY <1>1, <1>3 DEF Behind
  <1> QED BY <1>3, <1>4, <1>5 DEF Uncounted

\* The other layers leave the type of a result and its status.
LEMMA SecurityKeeps ==
  ASSUME Inv, NEW r \in Requests, at[r] = 3 + Shift, LeavesWith(r, Secured(r)), counter' = counter
  PROVE  Types' /\ Uncounted(r)
  <1>1. /\ GoingOut(r) /\ result[r] \in Results /\ RequestId(r) \in Ids
        /\ kind[r] # "preflight" /\ Shift \in {0, 1}
    BY OnTheWayOut, Places DEF LeavesWith, GoingOut
  <1> DEFINE new == Secured(r)
  <1>2. /\ new \in Results /\ new.header = result[r].header /\ new.body = result[r].body
        /\ new.type = result[r].type /\ new.status = result[r].status
        /\ result[r].type = "response" => new.secured
    BY <1>1 DEF Secured, Results
  <1> HIDE DEF new
  <1>3. /\ at'[r] = 2 + Shift /\ way'[r] = "out" /\ result'[r] = new
        /\ Others(r) /\ Types' /\ kind' = kind /\ sent' = sent /\ state_id' = state_id
    <2>1. at'[r] = at[r] - 1 /\ way'[r] = "out" /\ result'[r] = new /\ Others(r) /\ Types'
      BY <1>2, LeavesWithEffect DEF new
    <2> QED BY <1>1, <2>1 DEF LeavesWith
  <1>4. OnCourse(r)'
    BY <1>1, <1>2, <1>3, Places DEF OnCourse, GoingOut, RequestId
  <1>5. \A l \in Labels, s \in Statuses : Behind(r, l, s)' <=> Behind(r, l, s)
    BY <1>1, <1>2, <1>3 DEF Behind, FinalStatus, Label, LeavesWith
  <1> QED BY <1>3, <1>4, <1>5 DEF Uncounted

LEMMA RequestIdKeeps ==
  ASSUME Inv, NEW r \in Requests, at[r] = 2 + Shift, LeavesWith(r, Tagged(r)), counter' = counter
  PROVE  Types' /\ Uncounted(r)
  <1>1. /\ GoingOut(r) /\ result[r] \in Results /\ RequestId(r) \in Ids
        /\ kind[r] # "preflight" /\ state_id[r] = RequestId(r) /\ Shift \in {0, 1}
    BY OnTheWayOut, Places DEF LeavesWith, GoingOut
  <1> DEFINE new == Tagged(r)
  <1>2. /\ new \in Results /\ new.body = result[r].body /\ new.secured = result[r].secured
        /\ new.type = result[r].type /\ new.status = result[r].status
        /\ result[r].type = "response" => new.header = RequestId(r)
        /\ result[r].type # "response" => new.header = result[r].header
    BY <1>1 DEF Tagged, Results
  <1> HIDE DEF new
  <1>3. /\ at'[r] = 1 + Shift /\ way'[r] = "out" /\ result'[r] = new
        /\ Others(r) /\ Types' /\ kind' = kind /\ sent' = sent /\ state_id' = state_id
    <2>1. at'[r] = at[r] - 1 /\ way'[r] = "out" /\ result'[r] = new /\ Others(r) /\ Types'
      BY <1>2, LeavesWithEffect DEF new
    <2> QED BY <1>1, <2>1 DEF LeavesWith
  <1>4. OnCourse(r)'
    BY <1>1, <1>2, <1>3, Places DEF OnCourse, GoingOut, RequestId
  <1>5. \A l \in Labels, s \in Statuses : Behind(r, l, s)' <=> Behind(r, l, s)
    BY <1>1, <1>2, <1>3 DEF Behind, FinalStatus, Label, LeavesWith
  <1> QED BY <1>3, <1>4, <1>5 DEF Uncounted

LEMMA CorsKeeps ==
  ASSUME Inv, NEW r \in Requests, at[r] = 2, CorsOn, LeavesWith(r, result[r]), counter' = counter
  PROVE  Types' /\ Uncounted(r)
  <1>1. /\ GoingOut(r) /\ result[r] \in Results /\ RequestId(r) \in Ids
        /\ kind[r] # "preflight" /\ Shift = 1
    BY OnTheWayOut, Places DEF LeavesWith, GoingOut
  <1>2. /\ at'[r] = 1 /\ way'[r] = "out" /\ result'[r] = result[r]
        /\ Others(r) /\ Types' /\ kind' = kind /\ sent' = sent /\ state_id' = state_id
    <2>1. /\ at'[r] = at[r] - 1 /\ way'[r] = "out" /\ result'[r] = result[r]
          /\ Others(r) /\ Types'
      BY <1>1, LeavesWithEffect
    <2> QED BY <2>1 DEF LeavesWith
  <1>3. OnCourse(r)'
    BY <1>1, <1>2, Places DEF OnCourse, GoingOut, RequestId
  <1>4. \A l \in Labels, s \in Statuses : Behind(r, l, s)' <=> Behind(r, l, s)
    BY <1>1, <1>2 DEF Behind, FinalStatus, Label, LeavesWith
  <1> QED BY <1>2, <1>3, <1>4 DEF Uncounted

\* The outermost layer makes the 500 of what has passed all others.
LEMMA ErrorsKeep ==
  ASSUME Inv, NEW r \in Requests, at[r] = 1, counter' = counter,
         LeavesWith(r, IF result[r].type # "response" THEN InternalError(r) ELSE result[r])
  PROVE  Types' /\ Uncounted(r)
  <1>1. /\ GoingOut(r) /\ result[r] \in Results /\ RequestId(r) \in Ids
        /\ Shift \in {0, 1} /\ Depth = 5 + Shift
    BY OnTheWayOut, Places DEF LeavesWith, GoingOut
  <1> DEFINE new == IF result[r].type # "response" THEN InternalError(r) ELSE result[r]
  <1>2. /\ new.type = "response"
        /\ kind[r] = "crash" => new = Response(500, RequestId(r))
        /\ kind[r] # "crash" => new = result[r]
    <2>1. CASE kind[r] = "crash"
      <3>1. result[r].type = "crash" /\ state_id[r] = RequestId(r)
        BY <1>1, <2>1 DEF GoingOut
      <3>2. new = Response(500, RequestId(r))
        BY <3>1 DEF InternalError
      <3> HIDE DEF new
      <3> QED BY <2>1, <3>2 DEF Response
    <2>2. CASE kind[r] # "crash"
      <3>1. result[r].type = "response"
        BY <1>1, <2>2 DEF GoingOut
      <3>2. new = result[r]
        BY <3>1
      <3> HIDE DEF new
      <3> QED BY <2>2, <3>1, <3>2
    <2> QED BY <2>1, <2>2
  <1>3. Response(500, RequestId(r)) \in Results
    BY <1>1 DEF Response, Results, Statuses, Ids
  <1>4. new \in Results /\ new.status = FinalStatus(r)
    BY <1>1, <1>2, <1>3 DEF GoingOut, FinalStatus, Response
  <1>5. kind[r] = "crash" => new.status = 500 /\ new.body = RequestId(r) /\ new.header = None
    BY <1>2 DEF Response
  <1> HIDE DEF new
  <1>6. /\ at'[r] = 0 /\ way'[r] = "out" /\ result'[r] = new
        /\ Others(r) /\ Types' /\ kind' = kind /\ sent' = sent /\ state_id' = state_id
    <2>1. at'[r] = at[r] - 1 /\ way'[r] = "out" /\ result'[r] = new /\ Others(r) /\ Types'
      BY <1>4, LeavesWithEffect DEF new
    <2> QED BY <2>1 DEF LeavesWith
  <1>7. OnCourse(r)'
    <2>1. CASE kind[r] = "crash"
      BY <1>1, <1>2, <1>5, <1>6, <2>1 DEF OnCourse, GoingOut, RequestId, Statuses
    <2>2. CASE kind[r] # "crash"
      BY <1>1, <1>2, <1>6, <2>2 DEF OnCourse, GoingOut, RequestId
    <2> QED BY <2>1, <2>2
  <1>8. \A l \in Labels, s \in Statuses : Behind(r, l, s)' <=> Behind(r, l, s)
    <2>1. FinalStatus(r)' = FinalStatus(r)
      BY <1>2, <1>4, <1>6 DEF FinalStatus
    <2> QED BY <1>1, <1>6, <2>1 DEF Behind, Label, LeavesWith
  <1> QED BY <1>6, <1>7, <1>8 DEF Uncounted

\* The metrics count what passes them, once, with the status it will be answered with.
LEMMA MetricsCount ==
  ASSUME Inv, NEW r \in Requests, at[r] = 4 + Shift, LeavesWith(r, result[r]),
         counter' = [counter EXCEPT ![Label(r)][MetricStatus(r)] = @ + 1]
  PROVE  Inv'
  <1>1. /\ GoingOut(r) /\ result[r] \in Results /\ RequestId(r) \in Ids /\ Label(r) \in Labels
        /\ kind[r] # "preflight" /\ Shift \in {0, 1} /\ Types /\ Depth = 5 + Shift /\ way[r] = "out"
    BY OnTheWayOut, Places DEF LeavesWith, GoingOut, Inv
  <1>2. MetricStatus(r) = FinalStatus(r) /\ MetricStatus(r) \in Statuses
    BY <1>1 DEF MetricStatus, FinalStatus, GoingOut, Statuses
  <1>3. /\ at'[r] = 3 + Shift /\ way'[r] = "out" /\ result'[r] = result[r]
        /\ Others(r) /\ kind' = kind /\ sent' = sent /\ state_id' = state_id
    <2>1. at'[r] = at[r] - 1 /\ way'[r] = "out" /\ result'[r] = result[r] /\ Others(r)
      BY <1>1, LeavesWithEffect
    <2> QED BY <1>1, <2>1 DEF LeavesWith
  <1>4. Types'
    <2>1. at' \in [Requests -> 0 .. Depth + 1]
      BY <1>1 DEF LeavesWith, Types
    <2>2. counter' \in [Labels -> [Statuses -> Nat]]
      BY <1>1, <1>2 DEF Types
    <2>3. way' \in [Requests -> {"in", "out", "done"}] /\ result' \in [Requests -> Results]
      BY <1>1 DEF LeavesWith, Types
    <2> QED BY <1>1, <1>3, <2>1, <2>2, <2>3 DEF Types
  <1>5. ASSUME NEW q \in Requests PROVE OnCourse(q)'
    <2>1. OnCourse(r)'
      BY <1>1, <1>3, Places DEF OnCourse, GoingOut, RequestId
    <2> QED BY <1>3, <2>1, OthersKeepCourse DEF Inv
  <1>6. ASSUME NEW l \in Labels, NEW s \in Statuses
        PROVE  counter'[l][s] = Cardinality(Counted(l, s)')
    <2>1. Counted(l, s)' = {q \in Requests : Behind(q, l, s)'}
      BY DEF Counted, Behind
    <2>2. Behind(r, l, s)' <=> l = Label(r) /\ s = MetricStatus(r)
      BY <1>1, <1>2, <1>3 DEF Behind, FinalStatus, Label
    <2>3. ~Behind(r, l, s)
      BY <1>1 DEF Behind
    <2>4. \A q \in Requests \ {r} : Behind(q, l, s)' <=> Behind(q, l, s)
      BY <1>3, OthersKeepCourse
    <2>5. /\ counter[l][s] = Cardinality(Counted(l, s)) /\ IsFiniteSet(Counted(l, s))
          /\ Counted(l, s) = {q \in Requests : Behind(q, l, s)}
      BY CountedIsBehind DEF Inv, CountersCount
    <2>6. CASE l = Label(r) /\ s = MetricStatus(r)
      <3>1. Counted(l, s)' = Counted(l, s) \cup {r} /\ r \notin Counted(l, s)
        BY <2>1, <2>2, <2>3, <2>4, <2>5, <2>6
      <3>2. Cardinality(Counted(l, s)') = Cardinality(Counted(l, s)) + 1
        BY <2>5, <3>1, FS_AddElement
      <3>3. counter'[l][s] = counter[l][s] + 1
        BY <1>1, <1>2, <2>6 DEF Types
      <3> QED BY <2>5, <3>2, <3>3
    <2>7. CASE ~(l = Label(r) /\ s = MetricStatus(r))
      <3>1. Counted(l, s)' = Counted(l, s)
        BY <2>1, <2>2, <2>3, <2>4, <2>5, <2>7
      <3>2. counter'[l][s] = counter[l][s]
        BY <1>1, <1>2, <2>7 DEF Types
      <3> QED BY <2>5, <3>1, <3>2
    <2> QED BY <2>6, <2>7
  <1> QED BY <1>4, <1>5, <1>6 DEF Inv, CountersCount

LEMMA DeliverKeeps ==
  ASSUME Inv, NEW r \in Requests, Deliver(r)
  PROVE  Types' /\ Uncounted(r)
  <1>1. /\ GoingOut(r) /\ Types /\ way[r] = "out" /\ at[r] = 0
    BY OnTheWayOut DEF Deliver, Inv
  <1>2. /\ Types' /\ Others(r) /\ counter' = counter /\ way'[r] = "done"
        /\ kind' = kind /\ sent' = sent /\ at' = at /\ state_id' = state_id /\ result' = result
    BY <1>1 DEF Deliver, Types, Others
  <1>3. OnCourse(r)'
    BY <1>1, <1>2 DEF OnCourse, GoingOut, RequestId
  <1>4. \A l \in Labels, s \in Statuses : Behind(r, l, s)' <=> Behind(r, l, s)
    BY <1>1, <1>2 DEF Behind, FinalStatus, Label
  <1> QED BY <1>2, <1>3, <1>4 DEF Uncounted

--------------------------------------------------------------------------------

LEMMA InvNext == Inv /\ [Next]_vars => Inv'
  <1> SUFFICES ASSUME Inv, [Next]_vars PROVE Inv'
    OBVIOUS
  <1>1. CASE UNCHANGED vars
    <2>1. Types' /\ \A r \in Requests : OnCourse(r)'
      BY <1>1 DEF Inv, Types, vars, OnCourse, GoingIn, GoingOut, RequestId
    <2>2. \A l \in Labels, s \in Statuses : Counted(l, s)' = Counted(l, s)
      BY <1>1 DEF Counted, vars, Label, FinalStatus
    <2> QED BY <1>1, <2>1, <2>2 DEF Inv, CountersCount, vars
  <1>2. CASE Next
    <2> PICK r \in Requests : Receive(r) \/ Enter(r) \/ Route(r) \/ Leave(r) \/ Deliver(r)
      BY <1>2 DEF Next
    <2>1. CASE Receive(r)
      BY <2>1, ReceiveKeeps, UncountedKeeps
    <2>2. CASE Enter(r)
      BY <2>2, EnterKeeps, UncountedKeeps
    <2>3. CASE Route(r)
      BY <2>3, RouteKeeps, UncountedKeeps
    <2>4. CASE Leave(r)
      <3>1. /\ at[r] \in 1 .. 5 + Shift /\ Shift \in {0, 1} /\ (CorsOn <=> Shift = 1)
        BY <2>4, Places DEF Leave
      <3>2. \/ at[r] = 5 + Shift \/ at[r] = 4 + Shift \/ at[r] = 3 + Shift \/ at[r] = 2 + Shift
            \/ (at[r] = 2 /\ at[r] = 1 + Shift /\ CorsOn)
            \/ at[r] = 1
        BY <3>1
      <3>3. CASE at[r] = 5 + Shift
        BY <2>4, <3>3, LeaveByPlace, ExceptionsKeep, UncountedKeeps
      <3>4. CASE at[r] = 4 + Shift
        BY <2>4, <3>4, LeaveByPlace, MetricsCount
      <3>5. CASE at[r] = 3 + Shift
        BY <2>4, <3>5, LeaveByPlace, SecurityKeeps, UncountedKeeps
      <3>6. CASE at[r] = 2 + Shift
        BY <2>4, <3>6, LeaveByPlace, RequestIdKeeps, UncountedKeeps
      <3>7. CASE at[r] = 2 /\ at[r] = 1 + Shift /\ CorsOn
        BY <2>4, <3>7, LeaveByPlace, CorsKeeps, UncountedKeeps
      <3>8. CASE at[r] = 1
        BY <2>4, <3>8, LeaveByPlace, ErrorsKeep, UncountedKeeps
      <3> QED BY <3>2, <3>3, <3>4, <3>5, <3>6, <3>7, <3>8
    <2>5. CASE Deliver(r)
      BY <2>5, DeliverKeeps, UncountedKeeps
    <2> QED BY <2>1, <2>2, <2>3, <2>4, <2>5
  <1> QED BY <1>1, <1>2

LEMMA Invariance == Spec => []Inv
  BY InvInit, InvNext, PTL DEF Spec

\* Whatever the layers meet on their ways, and however the requests interleave in them:
\* an answer carries the id of its own request and the security headers, or is the 500
\* of an exception nobody expected with the id in its body.
THEOREM AnswersTraceable == Spec => []AnswersAreTraceable
  <1>1. Inv => AnswersAreTraceable
    <2> SUFFICES ASSUME Inv, NEW r \in Requests, way[r] = "done"
                 PROVE  /\ {result[r].header, result[r].body} \subseteq {None, RequestId(r)}
                        /\ kind[r] # "preflight" =>
                             \/ result[r].header # None /\ result[r].secured
                             \/ /\ kind[r] = "crash" /\ result[r].status = 500
                                /\ result[r].body # None
      BY DEF AnswersAreTraceable, RequestId
    <2>1. GoingOut(r) /\ at[r] = 0 /\ Shift \in {0, 1}
      BY Places DEF Inv, OnCourse
    <2>2. RequestId(r) # None
      BY IdsHold, ParametersAssumption DEF Inv
    <2> QED BY <2>1, <2>2 DEF GoingOut
  <1> QED BY <1>1, Invariance, PTL

\* The metrics have counted each answer that was given, with the label and the status it
\* was given with, before it was given; what they count beyond that is under way.
THEOREM AnswersAreCounted == Spec => []CountedBeforeAnswered
  <1>1. Inv => CountedBeforeAnswered
    <2> SUFFICES ASSUME Inv, NEW l \in Labels, NEW s \in Statuses
                 PROVE  /\ counter[l][s] >= Cardinality(Done(l, s))
                        /\ counter[l][s] <= Cardinality(Done(l, s)) + Cardinality(InFlight)
      BY DEF CountedBeforeAnswered
    <2>1. counter[l][s] = Cardinality(Counted(l, s)) /\ IsFiniteSet(Counted(l, s))
      BY CountedIsBehind DEF Inv, CountersCount
    <2>2. ASSUME NEW r \in Requests, way[r] = "done", kind[r] # "preflight"
          PROVE  at[r] = 0 /\ FinalStatus(r) = result[r].status
      <3>1. GoingOut(r) /\ at[r] = 0 /\ Depth # 0
        BY <2>2, Places DEF Inv, OnCourse
      <3> QED BY <2>2, <3>1 DEF GoingOut, FinalStatus
    <2>3. Done(l, s) \subseteq Counted(l, s)
      BY <2>2, Places DEF Done, Counted
    <2>4. Counted(l, s) \subseteq Done(l, s) \cup InFlight
      BY <2>2 DEF Done, Counted, InFlight, Inv, Types
    <2>5. IsFiniteSet(Done(l, s)) /\ IsFiniteSet(InFlight)
      BY ParametersAssumption, FS_Subset DEF Done, InFlight
    <2>6. Cardinality(Done(l, s)) <= Cardinality(Counted(l, s))
      BY <2>1, <2>3, FS_Subset
    <2>7. /\ IsFiniteSet(Done(l, s) \cup InFlight)
          /\ Cardinality(Done(l, s) \cup InFlight) <= Cardinality(Done(l, s)) + Cardinality(InFlight)
      <3>1. /\ IsFiniteSet(Done(l, s) \cup InFlight)
            /\ Cardinality(Done(l, s) \cup InFlight) =
                 Cardinality(Done(l, s)) + Cardinality(InFlight)
                   - Cardinality(Done(l, s) \cap InFlight)
        BY <2>5, FS_Union
      <3>2. IsFiniteSet(Done(l, s) \cap InFlight)
        BY <2>5, FS_Intersection
      <3>3. /\ Cardinality(Done(l, s)) \in Nat /\ Cardinality(InFlight) \in Nat
            /\ Cardinality(Done(l, s) \cap InFlight) \in Nat
        BY <2>5, <3>2, FS_CardinalityType
      <3> QED BY <3>1, <3>3
    <2>8. Cardinality(Counted(l, s)) <= Cardinality(Done(l, s) \cup InFlight)
      BY <2>4, <2>7, FS_Subset
    <2>9. /\ Cardinality(Counted(l, s)) \in Nat /\ Cardinality(Done(l, s)) \in Nat
          /\ Cardinality(InFlight) \in Nat /\ Cardinality(Done(l, s) \cup InFlight) \in Nat
      BY <2>1, <2>5, <2>7, FS_CardinalityType
    <2> QED BY <2>1, <2>6, <2>7, <2>8, <2>9
  <1> QED BY <1>1, Invariance, PTL
================================================================================
