---------------------------- MODULE RequestPipeline ----------------------------
(***************************************************************************)
(* What surrounds the endpoints (main.py, middlewares/request_id.py,        *)
(* api/errors.py).  A request goes inwards through the layers               *)
(*                                                                         *)
(*   errors, cors, request_id, security, metrics, exceptions                *)
(*                                                                         *)
(* to the router, and a response or an exception comes back through them.   *)
(* The innermost turns the exceptions it has handlers for into responses;   *)
(* the handler of Exception itself is called by the outermost, Starlette's  *)
(* ServerErrorMiddleware, which sends its response directly.                *)
(*                                                                         *)
(* Requests are tasks of one event loop and interleave between layers.      *)
(***************************************************************************)
EXTENDS Naturals, Sequences, FiniteSets

CONSTANTS
  Requests,   \* the requests of a behaviour
  ClientIds,  \* values clients send as X-Request-Id
  Kinds,      \* what may come of a request
  CorsOn,     \* whether CORS_ORIGINS is set
  None

ASSUME ParametersAssumption ==
  /\ Kinds \subseteq {"ok", "unready", "http_error", "invalid", "no_route", "wrong_method",
                      "crash", "scrape", "preflight"}
  /\ CorsOn \in BOOLEAN
  /\ "preflight" \in Kinds => CorsOn
  /\ None \notin Requests \cup ClientIds /\ Requests \cap ClientIds = {}
  /\ IsFiniteSet(Requests)

VARIABLES
  kind,     \* what each request is about to meet
  sent,     \* the X-Request-Id of the client, or None
  at,       \* the layer it is at: 0 before the first, Depth + 1 at the router
  way,      \* "in", "out" or "done"
  state_id, \* request.state.request_id
  result,   \* on the way out: the response, or an exception
  counter   \* http_requests_total by path label and status

vars == <<kind, sent, at, way, state_id, result, counter>>

\* Mutant: the metrics were added last but for CORS, and the security headers first.
LayersReversed ==
  <<"errors">> \o (IF CorsOn THEN <<"cors">> ELSE <<>>)
    \o <<"metrics", "request_id", "exceptions", "security">>

\* add_middleware puts the last added outside.
Layers ==
  <<"errors">> \o (IF CorsOn THEN <<"cors">> ELSE <<>>)
    \o <<"request_id", "security", "metrics", "exceptions">>

Depth == Len(Layers)
Layer(r) == IF at[r] \in 1 .. Depth THEN Layers[at[r]] ELSE "none"

Statuses == {200, 404, 405, 409, 422, 500, 503}
Labels == {"template", "raw"}

\* The path label of a request: the template of its route, which a request with the
\* wrong method has found as well, or the raw path when no route matched; a mounted
\* application is no route.
Label(r) == IF kind[r] \in {"no_route", "scrape"} THEN "raw" ELSE "template"

NoResult == [type |-> "none", status |-> 0, header |-> None, body |-> None, secured |-> FALSE]
Response(status, body) ==
  [type |-> "response", status |-> status, header |-> None, body |-> body, secured |-> FALSE]
Raised(type) == [NoResult EXCEPT !.type = type]

Ids == Requests \cup ClientIds \cup {None}

--------------------------------------------------------------------------------

Init ==
  /\ kind = [r \in Requests |-> "ok"]
  /\ sent = [r \in Requests |-> None]
  /\ at = [r \in Requests |-> 0]
  /\ way = [r \in Requests |-> "in"]
  /\ state_id = [r \in Requests |-> None]
  /\ result = [r \in Requests |-> NoResult]
  /\ counter = [l \in Labels |-> [s \in Statuses |-> 0]]

Inwards(r) == at' = [at EXCEPT ![r] = @ + 1]
Outwards(r) == at' = [at EXCEPT ![r] = @ - 1]

\* The server hands the request over.
Receive(r) ==
  /\ at[r] = 0 /\ way[r] = "in"
  /\ \E k \in Kinds, id \in ClientIds \cup {None} :
       /\ kind' = [kind EXCEPT ![r] = k]
       /\ sent' = [sent EXCEPT ![r] = id]
  /\ Inwards(r)
  /\ UNCHANGED <<way, state_id, result, counter>>

\* The client's header, or uuid4(), which stands for itself.
RequestId(r) == IF sent[r] = None THEN r ELSE sent[r]

Enter(r) ==
  /\ way[r] = "in" /\ at[r] \in 1 .. Depth
  /\ \/ /\ Layer(r) = "cors" /\ kind[r] = "preflight"
        /\ way' = [way EXCEPT ![r] = "out"]
        /\ result' = [result EXCEPT ![r] = Response(200, None)]
        /\ Outwards(r)
        /\ UNCHANGED state_id
     \/ /\ ~(Layer(r) = "cors" /\ kind[r] = "preflight")
        /\ state_id' = IF Layer(r) = "request_id"
                       THEN [state_id EXCEPT ![r] = RequestId(r)] ELSE state_id
        /\ Inwards(r)
        /\ UNCHANGED <<way, result>>
  /\ UNCHANGED <<kind, sent, counter>>

\* The router: an answer of an endpoint (readyz makes its 503 itself) or of the metrics
\* application, or an exception.
Route(r) ==
  /\ way[r] = "in" /\ at[r] = Depth + 1
  /\ way' = [way EXCEPT ![r] = "out"]
  /\ result' = [result EXCEPT ![r] =
       CASE kind[r] \in {"ok", "scrape"} -> Response(200, None)
         [] kind[r] = "unready"          -> Response(503, None)
         [] OTHER                        -> Raised(kind[r])]
  /\ Outwards(r)
  /\ UNCHANGED <<kind, sent, state_id, counter>>

\* ExceptionMiddleware: HTTPException and RequestValidationError have handlers here; the
\* 404 and 405 of the router itself are Starlette's class, whose handler is FastAPI's.
Handled(r) ==
  CASE result[r].type = "http_error"   -> Response(409, state_id[r])
    [] result[r].type = "invalid"      -> Response(422, state_id[r])
    [] result[r].type = "no_route"     -> Response(404, None)
    [] result[r].type = "wrong_method" -> Response(405, None)
    [] OTHER                           -> result[r]

\* Mutant: an exception that passes is counted as the service being unavailable.
MetricStatusUnavailable(r) == IF result[r].type = "response" THEN result[r].status ELSE 503

\* MetricsMiddleware: 500 unless call_next has returned.
MetricStatus(r) == IF result[r].type = "response" THEN result[r].status ELSE 500

\* Mutant: the handler takes the id from the client's header only.
InternalErrorFromHeader(r) == Response(500, sent[r])

\* unhandled_exception_handler.
InternalError(r) == Response(500, state_id[r])

Tagged(r) == IF result[r].type = "response" THEN [result[r] EXCEPT !.header = state_id[r]]
             ELSE result[r]
Secured(r) == IF result[r].type = "response" THEN [result[r] EXCEPT !.secured = TRUE]
              ELSE result[r]

Leave(r) ==
  /\ way[r] = "out" /\ at[r] \in 1 .. Depth
  /\ result' = [result EXCEPT ![r] =
       CASE Layer(r) = "exceptions"                         -> Handled(r)
         [] Layer(r) = "security"                           -> Secured(r)
         [] Layer(r) = "request_id"                         -> Tagged(r)
         [] Layer(r) = "errors" /\ @.type # "response"      -> InternalError(r)
         [] OTHER                                           -> @]
  /\ counter' = IF Layer(r) = "metrics"
                THEN [counter EXCEPT ![Label(r)][MetricStatus(r)] = @ + 1] ELSE counter
  /\ Outwards(r)
  /\ UNCHANGED <<kind, sent, way, state_id>>

\* The client has the answer.
Deliver(r) ==
  /\ way[r] = "out" /\ at[r] = 0
  /\ way' = [way EXCEPT ![r] = "done"]
  /\ UNCHANGED <<kind, sent, at, state_id, result, counter>>

Next == \E r \in Requests : Receive(r) \/ Enter(r) \/ Route(r) \/ Leave(r) \/ Deliver(r)

Spec == Init /\ [][Next]_vars

--------------------------------------------------------------------------------

TypeOK ==
  /\ kind \in [Requests -> Kinds \cup {"ok"}]
  /\ sent \in [Requests -> ClientIds \cup {None}]
  /\ at \in [Requests -> 0 .. Depth + 1]
  /\ way \in [Requests -> {"in", "out", "done"}]
  /\ state_id \in [Requests -> Ids]
  /\ result \in [Requests -> [type    : {"none", "response"} \cup Kinds,
                              status  : Statuses \cup {0},
                              header  : Ids,
                              body    : Ids,
                              secured : BOOLEAN]]
  /\ \A r \in Requests : way[r] = "done" => result[r].type = "response"
  /\ counter \in [Labels -> [Statuses -> 0 .. Cardinality(Requests)]]

--------------------------------------------------------------------------------

Done(l, s) ==
  {r \in Requests : way[r] = "done" /\ kind[r] # "preflight" /\ Label(r) = l /\ result[r].status = s}
InFlight == {r \in Requests : at[r] > 0 \/ way[r] = "out"}

\* The metrics have counted every answer a client has, once and with the status it has,
\* the 500 that is made outside of them included: a scrape is never behind.  What they
\* have counted beyond that is on its way.
CountedBeforeAnswered ==
  \A l \in Labels, s \in Statuses :
    /\ counter[l][s] >= Cardinality(Done(l, s))
    /\ counter[l][s] <= Cardinality(Done(l, s)) + Cardinality(InFlight)

\* Which answers can be traced.  src/README.md 1.3 says that all of them have the id in
\* their header; the code has two exceptions: a preflight, which CORSMiddleware answers
\* itself and has no id at all, and the 500 of an exception nobody expected, which has it
\* in its body only.  All others have it, and the security headers; and the id is one,
\* in the header as in the body: the client's, or else one that is its own.
AnswersAreTraceable ==
  \A r \in Requests : way[r] = "done" =>
    /\ {result[r].header, result[r].body} \subseteq {None, IF sent[r] = None THEN r ELSE sent[r]}
    /\ kind[r] # "preflight" =>
         \/ result[r].header # None /\ result[r].secured
         \/ kind[r] = "crash" /\ result[r].status = 500 /\ result[r].body # None
================================================================================
