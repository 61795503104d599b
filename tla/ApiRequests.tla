---------------------------- MODULE ApiRequests ----------------------------
(***************************************************************************)
(* A request on its way through the stack, by one of two doors: "http", to *)
(* the API server, or "library", to the in-process client that the worker  *)
(* uses.  The server checks the client's version, opens a trace, routes,   *)
(* validates, calls the function of the endpoint and answers with a value, *)
(* a status or a stream of server-sent events; the client, once it is      *)
(* initialized, does the same without version, with a laxer conversion of  *)
(* the body in place of FastAPI's, and without translation of exceptions.  *)
(*                                                                         *)
(* The function of an endpoint is an async generator function (as          *)
(* create_agent_turn is) or a coroutine function.                          *)
(***************************************************************************)
EXTENDS EndpointTable, FiniteSets

CONSTANTS
  Api,          \* the APIs that have endpoints
  Built,        \* those whose implementation construct_stack builds
  Listed,       \* them in the order in which get_all_api_endpoints has them
  RoutesOf,     \* the routes of each, in the order they are listed
  RoutingTableOf,  \* the API of the routing table of each router
  Inspect,      \* the API that is always served
  Generators,   \* the routes whose function is an async generator function
  Path,         \* the paths of requests
  MaxItems,     \* bound on the items of a stream
  None

Routes == UNION {{RoutesOf[api][i] : i \in DOMAIN RoutesOf[api]} : api \in Api}

Serves(api, p) == \E i \in DOMAIN RoutesOf[api] : Matches(RoutesOf[api][i], p)

(* construct_stack builds the routing table of a router it builds.         *)
(* The library client tells its endpoints apart by the converted route: no *)
(* two routes of llama_stack differ in a :path alone.                      *)
ASSUME RequestAssumption ==
  /\ IsFiniteSet(Api)
  /\ Built \subseteq Api /\ Inspect \in Built
  /\ Listed \in SetToSeqs(Built)
  /\ \A router \in DOMAIN RoutingTableOf \cap Built : RoutingTableOf[router] \in Built
  /\ RoutesOf \in [Api -> Seq(Seq(Segment))]
  /\ Path \subseteq Seq(STRING)
  /\ \A r, s \in Routes : ConvertPathToRegex(r) = ConvertPathToRegex(s) => r = s
  /\ Generators \subseteq Routes
  /\ MaxItems \in Nat

Failure == {"ValidationError", "ValueError", "PermissionError", "TimeoutError",
            "NotImplementedError", "TypeError"}

(* A body is as the function declares it, or it is "invalid", or only an   *)
(* item of a list or a value of a plain type is ("odd"), or a parameter    *)
(* without a default is missing.                                           *)
BodyKind == {"valid", "odd", "invalid", "missing"}

VARIABLES
  served,         \* the APIs the server serves
  serverRoutes,   \* the routes it has added, in order
  endpointImpls,  \* the library client's table, empty while there is none
  pc,             \* how far the request is
  request,        \* [door, version, path, body, stream]
  endpoint,       \* the endpoint found: its function and the path parameters
  ran,            \* TRUE when the body of the function has begun to run
  trace,          \* "none", "open" or "closed"
  failure,        \* what the function has raised
  sent,           \* the items of the stream the caller got
  answer          \* status, "value" or exception the caller got

tables == <<served, serverRoutes, endpointImpls>>
vars == <<tables, pc, request, endpoint, ran, trace, failure, sent, answer>>

(* The library client looks at no version.                                 *)
Request ==
  {r \in [door : {"http", "library"}, version : {"none", "same", "other", "garbled"},
          path : Path, body : BodyKind, stream : BOOLEAN] :
     r.door = "library" => r.version = "none"}

Http == request.door = "http"
Generator == endpoint.func \in Generators

(* The APIs of the configuration, if it names any; with each router its    *)
(* routing table.                                                          *)
ApisToServe(apis) ==
  LET named == IF apis = {} THEN Built ELSE apis
  IN  named \cup {RoutingTableOf[router] : router \in named \cap DOMAIN RoutingTableOf}
            \cup {Inspect}

Listing(order) == FlattenSeq([i \in DOMAIN order |-> RoutesOf[order[i]]])

(* The server adds the routes of the APIs it serves, in the order of a set *)
(* (that it stops for an API that is not built is in ServerProcess).       *)
Init ==
  /\ \E apis \in SUBSET Built : served = ApisToServe(apis)
  /\ \E order \in SetToSeqs(served) : serverRoutes = Listing(order)
  /\ endpointImpls = <<>>
  /\ pc = "idle" /\ request = None /\ endpoint = NotFound /\ ran = FALSE
  /\ trace = "none" /\ failure = "none" /\ sent = <<>> /\ answer = "none"

(* The status of an exception, translate_exception(exc).status_code.  For  *)
(* pydantic's ValidationError the translation itself raises: it has no     *)
(* raw_errors.  What is not translated gets 500 from the last handler.     *)
Translated(f) == f # "ValidationError"

Status(f) ==
  CASE f = "ValueError"          -> "400"
    [] f = "PermissionError"     -> "403"
    [] f = "TimeoutError"        -> "504"
    [] f = "NotImplementedError" -> "501"
    [] OTHER                     -> "500"

(* What the caller gets instead of a value when f is raised.               *)
Told(f) == IF Http THEN Status(f) ELSE f

Goto(next) == pc' = next /\ UNCHANGED <<tables, request>>

Answer(a, next) ==
  /\ answer' = a
  /\ Goto(next)
  /\ UNCHANGED <<endpoint, ran, failure, sent>>

-----------------------------------------------------------------------------
(* The library client is initialized, possibly again.                      *)

SetTable(table) ==
  /\ pc = "idle"
  /\ endpointImpls' = table
  /\ UNCHANGED <<served, serverRoutes, pc, request, endpoint, ran, trace, failure, sent, answer>>

(* The client takes every API that is built, those the configuration does  *)
(* not name among them.                                                    *)
InitializeClient == SetTable(EndpointImpls(Listing(Listed)))

(* construct_stack raises, or an implementation lacks a method: the table  *)
(* is assigned when it is complete.                                        *)
InitializeFails == SetTable(<<>>)

Arrive(r) ==
  /\ pc = "idle"
  /\ request' = r
  /\ pc' = IF r.door = "http" THEN "version" ELSE "find"
  /\ endpoint' = NotFound /\ ran' = FALSE /\ trace' = "none"
  /\ failure' = "none" /\ sent' = <<>> /\ answer' = "none"
  /\ UNCHANGED tables

(* Mutant: the middlewares are added in the other order.                   *)
CheckVersionTraced ==
  /\ pc = "version"
  /\ trace' = "open"
  /\ IF request.version = "other" THEN Answer("426", "untrace")
     ELSE Goto("trace") /\ UNCHANGED <<endpoint, ran, failure, sent, answer>>

(* ClientVersionMiddleware, the outermost: a version that cannot be parsed *)
(* is let through.                                                         *)
CheckVersion ==
  /\ pc = "version"
  /\ IF request.version = "other" THEN Answer("426", "idle")
     ELSE Goto("trace") /\ UNCHANGED <<endpoint, ran, failure, sent, answer>>
  /\ UNCHANGED trace

(* TracingMiddleware; the client opens the trace when it has found the     *)
(* endpoint and converted the body, for a stream at its first item.        *)
StartTrace ==
  /\ pc = "trace"
  /\ trace' = "open"
  /\ Goto(IF Http THEN "find" ELSE "call")
  /\ UNCHANGED <<endpoint, ran, failure, sent, answer>>

(* What is refused before the function is called.  _convert_body leaves a  *)
(* list it cannot convert and values of plain types as they are, and does  *)
(* not look for parameters that are missing.                               *)
Refused(body) == body # "valid" /\ (Http \/ body = "invalid")

(* Without a table the client raises before it looks for the endpoint.     *)
FindEndpoint ==
  /\ pc = "find"
  /\ LET e == IF Http THEN ServerRoute(serverRoutes, request.path)
              ELSE FindMatchingEndpoint(endpointImpls, request.path)
     IN  IF ~ e.found THEN Answer(IF Http THEN "404" ELSE "ValueError", "untrace")
         ELSE IF Refused(request.body) THEN Answer(IF Http THEN "400" ELSE "ValueError", "untrace")
         ELSE /\ endpoint' = e
              /\ Goto(IF Http THEN "call" ELSE "trace")
              /\ UNCHANGED <<ran, failure, sent, answer>>
  /\ UNCHANGED trace

(* An async generator function must be iterated and a coroutine function   *)
(* awaited.  The other way round fails before the function has run: on the *)
(* server when the response is serialised, or iterated; in the client with *)
(* a TypeError, as does a call without one of its parameters.              *)
CallFails ==
  /\ pc = "call"
  /\ Generator # request.stream \/ request.body = "missing"
  /\ failure' = IF Http /\ Generator THEN "ValueError" ELSE "TypeError"
  /\ pc' = "raised"
  /\ UNCHANGED <<tables, request, endpoint, ran, trace, sent, answer>>

Call ==
  /\ pc = "call"
  /\ Generator = request.stream /\ request.body # "missing"
  /\ ran' = TRUE
  /\ Goto(IF request.stream THEN "streaming" ELSE "awaiting")
  /\ UNCHANGED <<endpoint, trace, failure, sent, answer>>

(* The body of the function raises f.                                      *)
FunctionRaises(f) ==
  /\ pc \in {"streaming", "awaiting"}
  /\ failure' = f
  /\ pc' = "raised"
  /\ UNCHANGED <<tables, request, endpoint, ran, trace, sent, answer>>

Return ==
  /\ pc = "awaiting"
  /\ Answer(IF Http THEN "200" ELSE "value", "untrace")
  /\ UNCHANGED trace

StreamItem ==
  /\ pc = "streaming" /\ Len(sent) < MaxItems
  /\ sent' = Append(sent, "item")
  /\ UNCHANGED <<tables, pc, request, endpoint, ran, trace, failure, answer>>

StreamEnds ==
  /\ pc = "streaming"
  /\ Answer(IF Http THEN "200" ELSE "value", "untrace")
  /\ UNCHANGED trace

(* Mutant: an exception ends the stream without a word.                    *)
StreamRaisesSilently ==
  /\ pc = "raised" /\ request.stream
  /\ answer' = IF Http THEN "200" ELSE failure
  /\ Goto("untrace")
  /\ UNCHANGED <<endpoint, ran, trace, failure, sent>>

(* sse_generator has answered 200 already; it ends the stream with an      *)
(* error event, or breaks it off when the translation raises in turn.      *)
StreamRaises ==
  /\ pc = "raised" /\ request.stream
  /\ answer' = IF Http THEN "200" ELSE failure
  /\ sent' = IF Http /\ Translated(failure) THEN Append(sent, "error") ELSE sent
  /\ Goto("untrace")
  /\ UNCHANGED <<endpoint, ran, trace, failure>>

(* endpoint() translates what the function raises; global_exception_handler *)
(* what is raised later.                                                   *)
CallRaises ==
  /\ pc = "raised" /\ ~ request.stream
  /\ Answer(Told(failure), "untrace")
  /\ UNCHANGED trace

(* The caller goes away.  The server cancels the request and closes the    *)
(* generator; the client's loop is closed with the generator suspended, so *)
(* that its trace is never ended.                                          *)
CallerLeaves ==
  /\ pc = "streaming"
  /\ Answer("abandoned", IF Http THEN "untrace" ELSE "idle")
  /\ UNCHANGED trace

(* Mutant: the trace of a call that raises is left open.                   *)
EndTraceUnlessRaised ==
  /\ pc = "untrace"
  /\ trace' = IF trace = "open" /\ failure = "none" THEN "closed" ELSE trace
  /\ Goto("idle")
  /\ UNCHANGED <<endpoint, ran, failure, sent, answer>>

EndTrace ==
  /\ pc = "untrace"
  /\ trace' = IF trace = "open" THEN "closed" ELSE trace
  /\ Goto("idle")
  /\ UNCHANGED <<endpoint, ran, failure, sent, answer>>

Next ==
  \/ InitializeClient \/ InitializeFails
  \/ \E r \in Request : Arrive(r)
  \/ CheckVersion \/ StartTrace \/ FindEndpoint
  \/ CallFails    \/ Call       \/ Return \/ CallRaises
  \/ \E f \in Failure : FunctionRaises(f)
  \/ StreamItem   \/ StreamEnds \/ StreamRaises \/ CallerLeaves
  \/ EndTrace

Spec == Init /\ [][Next]_vars

-----------------------------------------------------------------------------
(* Properties.                                                             *)

Answered == pc = "idle" /\ request # None

(* Every trace that was opened is closed, however the request ends; only a *)
(* stream of the library client whose caller goes away keeps its trace.    *)
TracesAreClosed ==
  Answered /\ trace = "open" => request.door = "library" /\ answer = "abandoned"

(* A request that is refused does nothing: one of a client of another      *)
(* version has no trace, no endpoint and no call, and one with a body the  *)
(* server or the library client refuses has no call.                       *)
RefusedUntouched ==
  Answered =>
    /\ Http /\ request.version = "other" =>
         answer = "426" /\ trace = "none" /\ ~ endpoint.found /\ ~ ran
    /\ Refused(request.body) => ~ ran

(* What a function raises reaches the caller: as a status, an exception,   *)
(* or the last event of its stream.  A server stream that meets a          *)
(* ValidationError is the exception, it just breaks off.                   *)
FailuresAreTold ==
  Answered /\ failure # "none" =>
    IF Http /\ request.stream
      THEN Translated(failure) => sent # <<>> /\ Last(sent) = "error"
      ELSE answer = Told(failure)

(* The parameters of the path have no slashes.                             *)
Slashless(p) ==
  \A r \in Routes : Matches(r, p) => Len(r) = Len(p)

(* The library client and the server keep the endpoints in orders of their *)
(* own, of APIs of their own, and the client converts the routes.  It      *)
(* never calls a function with a part of a path's parameter, nor with a    *)
(* path that is not the function's.  For a path whose parameters have no   *)
(* slashes it finds an endpoint if an API that is built has one, and the   *)
(* server if one that it serves has; if only one API has, and is served,   *)
(* both find the same function, with the same values.                      *)
DoorsAgree ==
  pc \in {"trace", "call", "untrace"} /\ ~ Http /\ ~ Refused(request.body)
    /\ endpointImpls # <<>> =>
    LET path   == request.path
        there  == ServerRoute(serverRoutes, path)
        owners == {api \in Built : Serves(api, path)}
    IN  /\ endpoint.found => /\ Matches(endpoint.func, path)
                             /\ endpoint.params = Params(endpoint.func, path)
        /\ there.found <=> owners \cap served # {}
        /\ Slashless(path) =>
             /\ endpoint.found <=> owners # {}
             /\ owners \subseteq served /\ (\A a, b \in owners : a = b) => endpoint = there
=============================================================================
