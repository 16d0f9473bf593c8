-------------------------------- MODULE Exchange --------------------------------
(***************************************************************************)
(* Pool::process_request: from a complete request to the response in the   *)
(* client's buffer, on several pools' threads that share one Router with   *)
(* the application that may still be registering routes.                   *)
(*                                                                         *)
(* A request is what its start line says (whether the URL parses is module *)
(* URL's subject), and it may carry x-param headers of its own.            *)
(* Middleware and handlers belong to the application: they return or       *)
(* throw, and a handler's response may have a status code the library has  *)
(* no text for.  A route may be registered without a handler (a null       *)
(* shared_ptr).                                                            *)
(*                                                                         *)
(* Not modelled: the two 400 branches, which need a request without an     *)
(* empty line and is_request_ready lets none through; middleware that      *)
(* takes the request away and handlers that return a null response.        *)
(***************************************************************************)
EXTENDS Router, Http

CONSTANTS
  Threads,   \* the pools' threads
  Requests,  \* records [method, version, urlParses, path, headers]
  Statuses,  \* the status codes handlers choose, enumerators or not
  NoHandler  \* the handler of a route that has none

ASSUME ExchangeAssumption ==
  \A request \in Requests : request.path \in Seq(STRING)

VARIABLE
  exchange   \* what each thread's process_request is doing

vars == <<routerVars, exchange>>

\* Request::parseStartLine does not throw.
WellFormed(request) ==
  /\ request.method \in KnownMethods
  /\ request.urlParses
  /\ request.version \in KnownVersions

\* The methods that have a route of their own; every other one is routed as GET.
RoutingMethod(method) ==
  IF method \in {"GET", "POST", "PUT", "DELETE"} THEN method ELSE "GET"

Idle == [pc |-> "idle"]

Init ==
  /\ RouterInit
  /\ exchange = [t \in Threads |-> Idle]

Goes(t, to) == exchange' = [exchange EXCEPT ![t] = to]

\* An exception leaves the try block: the catch block prepares a 500.
Caught(x) == [x EXCEPT !.pc = "done", !.status = "500", !.prepared = @ + 1]

-----------------------------------------------------------------------------
\* A request is complete; its constructor parses it.
Parse(t) ==
  /\ exchange[t].pc = "idle"
  /\ \E request \in Requests :
       LET x == [pc |-> "route", request |-> request, headers |-> request.headers,
                 at |-> 0, end |-> 0, storage |-> 0, result |-> NotFound,
                 ran |-> <<>>, status |-> "", prepared |-> 0]
       IN  Goes(t, IF WellFormed(request) THEN x ELSE Caught(x))
  /\ UNCHANGED routerVars

\* findRoute: the range-for takes begin() and end() of the vector as it is now.
FindRoute(t) ==
  /\ exchange[t].pc = "route"
  /\ Goes(t, [exchange[t] EXCEPT !.pc = "loop", !.at = 1, !.end = Len(routes),
                                 !.storage = storage])
  /\ UNCHANGED routerVars

\* The element the iterator is to look at has been moved and its storage freed.
Stale(t) ==
  /\ exchange[t].pc = "loop"
  /\ exchange[t].at <= exchange[t].end
  /\ exchange[t].storage # storage

TryNext(t) ==
  Try(routes[exchange[t].at], exchange[t].request.path,
      RoutingMethod(exchange[t].request.method))

\* Mutant of Examine: the last match wins.
ExamineAll(t) ==
  /\ exchange[t].pc = "loop"
  /\ ~ Stale(t)
  /\ IF exchange[t].at > exchange[t].end
     THEN Goes(t, [exchange[t] EXCEPT !.pc = "found"])
     ELSE Goes(t, [exchange[t] EXCEPT !.at = @ + 1,
                     !.result = IF TryNext(t) = NotFound THEN @ ELSE TryNext(t)])
  /\ UNCHANGED routerVars

\* One turn of the loop, or its end.
Examine(t) ==
  /\ exchange[t].pc = "loop"
  /\ ~ Stale(t)
  /\ Goes(t, IF exchange[t].at > exchange[t].end
             THEN [exchange[t] EXCEPT !.pc = "found"]
             ELSE IF TryNext(t) = NotFound
             THEN [exchange[t] EXCEPT !.at = @ + 1]
             ELSE [exchange[t] EXCEPT !.pc = "found", !.result = TryNext(t)])
  /\ UNCHANGED routerVars

\* Undefined behaviour: what the loop finds in freed storage, if anything.
ExamineFreed(t) ==
  /\ Stale(t)
  /\ Goes(t, [exchange[t] EXCEPT !.pc = "done", !.result = Undefined])
  /\ UNCHANGED routerVars

\* getHeaders().set for every parameter: it replaces a header of that name.
WithParams(headers, params) ==
  [key \in DOMAIN headers \cup DOMAIN params |->
    IF key \in DOMAIN params THEN params[key] ELSE headers[key]]

\* findRoute returned a null pointer: no route matched, or one without a handler.
Unhandled(result) ==
  \/ result.reply = "none"
  \/ result.reply = "found" /\ result.route.handler = NoHandler

\* Mutant of FoundRoute: a parameter does not replace a header of that name.
FoundKeepsHeaders(t) ==
  /\ exchange[t].pc = "found"
  /\ LET x == exchange[t]
     IN  Goes(t, CASE Unhandled(x.result) ->
                        [x EXCEPT !.pc = "done", !.status = "404", !.prepared = @ + 1]
                   [] x.result.reply = "throws" -> Caught(x)
                   [] OTHER ->
                        [x EXCEPT !.pc = "run", !.headers = WithParams(x.result.params, @)])
  /\ UNCHANGED routerVars

\* findRoute has returned: no handler means 404; the parameters become headers.
FoundRoute(t) ==
  /\ exchange[t].pc = "found"
  /\ LET x == exchange[t]
     IN  Goes(t, CASE Unhandled(x.result) ->
                        [x EXCEPT !.pc = "done", !.status = "404", !.prepared = @ + 1]
                   [] x.result.reply = "throws" -> Caught(x)
                   [] OTHER ->
                        [x EXCEPT !.pc = "run", !.headers = WithParams(@, x.result.params)])
  /\ UNCHANGED routerVars

\* What is to run before the response: the middleware in order, then the handler.
Chain(route) == Append(route.middleware, route.handler)

Ran(t) ==
  [exchange[t] EXCEPT !.ran = Append(@, Chain(exchange[t].result.route)[Len(@) + 1])]

\* Mutant of RunMiddleware: an exception of a middleware is ignored.
RunMiddlewareAnyway(t) ==
  /\ exchange[t].pc = "run"
  /\ Len(exchange[t].ran) < Len(exchange[t].result.route.middleware)
  /\ \E throws \in BOOLEAN :
       Goes(t, [Ran(t) EXCEPT !.status = IF throws THEN "500" ELSE @])
  /\ UNCHANGED routerVars

\* A middleware returns, or throws.
RunMiddleware(t) ==
  /\ exchange[t].pc = "run"
  /\ Len(exchange[t].ran) < Len(exchange[t].result.route.middleware)
  /\ \E throws \in BOOLEAN : Goes(t, IF throws THEN Caught(Ran(t)) ELSE Ran(t))
  /\ UNCHANGED routerVars

\* Mutant of Handle: a handler that throws leaves the response empty.
HandleUncaught(t) ==
  /\ exchange[t].pc = "run"
  /\ Len(exchange[t].ran) = Len(exchange[t].result.route.middleware)
  /\ \E throws \in BOOLEAN :
       Goes(t, IF throws THEN [Ran(t) EXCEPT !.pc = "done"]
               ELSE [Ran(t) EXCEPT !.pc = "prepare"])
  /\ UNCHANGED routerVars

\* The handler returns a response, or throws.
Handle(t) ==
  /\ exchange[t].pc = "run"
  /\ Len(exchange[t].ran) = Len(exchange[t].result.route.middleware)
  /\ \E throws \in BOOLEAN :
       Goes(t, IF throws THEN Caught(Ran(t)) ELSE [Ran(t) EXCEPT !.pc = "prepare"])
  /\ UNCHANGED routerVars

\* Client::prepare_response makes the text, which throws on a status code without
\* one, before it touches the buffer.
Prepare(t) ==
  /\ exchange[t].pc = "prepare"
  /\ \E code \in Statuses :
       Goes(t, IF HasText(code)
               THEN [exchange[t] EXCEPT !.pc = "done", !.status = "handler",
                                        !.prepared = @ + 1]
               ELSE Caught(exchange[t]))
  /\ UNCHANGED routerVars

\* The response is written, the connection closed; the thread goes on.
Written(t) ==
  /\ exchange[t].pc = "done"
  /\ Goes(t, Idle)
  /\ UNCHANGED routerVars

ProcessRequest(t) ==
  \/ Parse(t)
  \/ FindRoute(t)
  \/ Examine(t)
  \/ ExamineFreed(t)
  \/ FoundRoute(t)
  \/ RunMiddleware(t)
  \/ Handle(t)
  \/ Prepare(t)
  \/ Written(t)

Next ==
  \/ Registration /\ UNCHANGED exchange
  \/ \E t \in Threads : ProcessRequest(t)

Spec == Init /\ [][Next]_vars

-----------------------------------------------------------------------------
(***************************************************************************)
(* Properties.                                                             *)
(***************************************************************************)
\* The route a request gets, however the search is interleaved with other
\* threads and with registrations that did not move the table under it, is the
\* first of the table as it was when the search began.
SearchFindsFirst ==
  \A t \in Threads :
    exchange[t].pc = "found" =>
      exchange[t].result =
        Answer(SubSeq(routes, 1, exchange[t].end), exchange[t].request.path,
               RoutingMethod(exchange[t].request.method))

\* Whatever throws on the way, process_request leaves exactly one response in
\* the client's buffer (writeResponse of an empty one would send nothing): the
\* handler's if everything ran, 404 if there was no handler and so nothing ran, or
\* 500.
OneResponse ==
  \A t \in Threads :
    LET x == exchange[t]
    IN  x.pc = "done" /\ x.result # Undefined =>
          /\ x.prepared = 1
          /\ x.status = "handler" => x.ran = Chain(x.result.route)
          /\ x.status = "404" <=> WellFormed(x.request) /\ Unhandled(x.result)
          /\ x.status = "404" => x.ran = <<>>
          /\ x.status \in {"handler", "404", "500"}

\* A handler runs after all middleware of its route, each once and in order,
\* and not at all if one of them throws.
MiddlewareFirst ==
  \A t \in Threads :
    exchange[t].pc \in {"run", "prepare"} =>
      /\ IsPrefix(exchange[t].ran, Chain(exchange[t].result.route))
      /\ exchange[t].status = ""

\* Middleware and handler find the parts of the path under the keys of the
\* pattern, whatever x-param headers the request came with.
HandlerSeesParams ==
  \A t \in Threads :
    LET x == exchange[t]
    IN  x.pc = "run" /\ ~ x.result.route.isRegex =>
          Rebuilds(x.result.route.pathPattern, x.headers, x.request.path)

\* No thread looks at elements of the vector that were moved away: the table is
\* protected by the _mutex ARCHITECTURE.md:189 shows in Router.
NoStaleIteration == \A t \in Threads : ~ Stale(t)
================================================================================
