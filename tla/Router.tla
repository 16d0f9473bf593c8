--------------------------------- MODULE Router ---------------------------------
(***************************************************************************)
(* The route table and what registration does to it.                       *)
(*                                                                         *)
(* Router::routes is a std::vector without a mutex, to which the           *)
(* application appends (addRoute, addGroup, addResource).  findRoute walks *)
(* it from the first element and returns the first route that matches; the *)
(* walk is one operator per turn here (Try), the threads that perform it   *)
(* are in module Exchange.                                                 *)
(*                                                                         *)
(* A path is the sequence of its characters, of which "/" and ":" have a   *)
(* meaning.  What std::regex_match answers is given by the constant Regex. *)
(***************************************************************************)
EXTENDS Naturals, Sequences, SequencesExt, FiniteSets, FiniteSetsExt

CONSTANTS
  Paths,     \* the paths requests ask for
  Methods,   \* the methods process_request passes to findRoute
  Calls,     \* the registrations the application may make
  MaxCalls,  \* bound on the number of registrations
  Regex      \* external: what std::regex does, [pattern -> [path -> reply]]

\* The fields of Route that have a type of their own; a handler is a name.
IsRoute(route) ==
  /\ DOMAIN route = {"pathPattern", "method", "handler", "middleware", "isRegex", "paramKeys"}
  /\ route.pathPattern \in Seq(STRING)
  /\ route.middleware \in Seq(STRING)
  /\ route.isRegex \in BOOLEAN

\* The path of a URL begins with a slash.  (The provers have to be told that
\* literals are strings.)
ASSUME RouterAssumption ==
  /\ {"/", ":", "i", "d"} \subseteq STRING
  /\ MaxCalls \in Nat
  /\ \A path \in Paths : path \in Seq(STRING) /\ path # <<>> /\ path[1] = "/"
  /\ \A call \in Calls :
       /\ call.op \in {"addRoute", "addGroup", "addResource"}
       /\ call.op = "addRoute" => IsRoute(call.route)
       /\ call.op = "addGroup" =>
            /\ call.prefix \in Seq(STRING)
            /\ call.middleware \in Seq(STRING)
            /\ call.routes \in Seq(Range(call.routes))
            /\ \A i \in DOMAIN call.routes : IsRoute(call.routes[i])
       /\ call.op = "addResource" =>
            call.resource \in Seq(STRING) /\ call.middleware \in Seq(STRING)

VARIABLES
  routes,    \* Router::routes
  capacity,  \* of the vector
  storage,   \* which allocation the vector's elements are in
  calls,     \* the registrations made so far
  pending    \* the routes the current registration has still to append

tableVars == <<routes, capacity, storage>>
routerVars == <<tableVars, calls, pending>>

-----------------------------------------------------------------------------
(***************************************************************************)
(* Matching.                                                               *)
(***************************************************************************)
PushSegment(acc) ==
  IF acc.current = <<>> THEN acc.segments ELSE Append(acc.segments, acc.current)

\* splitPath: cut at every "/", drop what is empty.
SplitPath(path) ==
  LET step(acc, ch) ==
        IF ch = "/"
        THEN [segments |-> PushSegment(acc), current |-> <<>>]
        ELSE [acc EXCEPT !.current = Append(@, ch)]
  IN  PushSegment(FoldLeft(step, [segments |-> <<>>, current |-> <<>>], path))

IsParameter(segment) == segment[1] = ":"

\* matchPattern, its result.
MatchPattern(pattern, path) ==
  LET pat == SplitPath(pattern)
      segs == SplitPath(path)
  IN  /\ Len(pat) = Len(segs)
      /\ \A i \in DOMAIN pat : IsParameter(pat[i]) \/ pat[i] = segs[i]

\* matchPattern, the parameters it extracts: the last segment of a key counts.
PatternParams(pattern, path) ==
  LET pat == SplitPath(pattern)
      segs == SplitPath(path)
      at(key) == {i \in DOMAIN pat : IsParameter(pat[i]) /\ Tail(pat[i]) = key}
      keys == {Tail(pat[i]) : i \in {j \in DOMAIN pat : IsParameter(pat[j])}}
  IN  [key \in keys |-> segs[Max(at(key))]]

\* The groups of a regular expression go to the route's keys, in order.
RegexParams(route, groups) ==
  LET count == Min({Len(groups), Len(route.paramKeys)})
      at(key) == {i \in 1 .. count : route.paramKeys[i] = key}
  IN  [key \in {route.paramKeys[i] : i \in 1 .. count} |-> groups[Max(at(key))]]

NotFound == [reply |-> "none"]
Throws   == [reply |-> "throws"]
Undefined == [reply |-> "undefined"]
Found(route, params) == [reply |-> "found", route |-> route, params |-> params]

\* One turn of findRoute's loop.  An invalid regular expression throws.
Try(route, path, method) ==
  IF route.method # method THEN NotFound
  ELSE IF route.isRegex
       THEN LET answer == Regex[route.pathPattern][path]
            IN  CASE answer.kind = "invalid" -> Throws
                  [] answer.kind = "no"      -> NotFound
                  [] OTHER -> Found(route, RegexParams(route, answer.groups))
       ELSE IF MatchPattern(route.pathPattern, path)
            THEN Found(route, PatternParams(route.pathPattern, path))
            ELSE NotFound

-----------------------------------------------------------------------------
(***************************************************************************)
(* Registration.  A call lists the routes it appends, one push_back each.  *)
(***************************************************************************)
Route(pattern, method, handler, middleware) ==
  [pathPattern |-> pattern, method |-> method, handler |-> handler,
   middleware |-> middleware, isRegex |-> FALSE, paramKeys |-> <<>>]

\* Mutant of GroupRoutes: the group's middleware is forgotten.
GroupRoutesBare(prefix, groupRoutes, groupMiddleware) ==
  [i \in DOMAIN groupRoutes |->
    [groupRoutes[i] EXCEPT !.pathPattern = prefix \o @]]

\* addGroup: the prefix is put before the pattern, the middleware after.
GroupRoutes(prefix, groupRoutes, groupMiddleware) ==
  [i \in DOMAIN groupRoutes |->
    [groupRoutes[i] EXCEPT !.pathPattern = prefix \o @,
                           !.middleware = @ \o groupMiddleware]]

\* Mutant of ResourceRoutes: the collection itself is deleted.
ResourceRoutesNoId(resource, handler, middleware) ==
  LET all == <<"/">> \o resource
      one == all \o <<"/", ":", "i", "d">>
  IN  << Route(all, "GET", handler, middleware),
         Route(all, "POST", handler, middleware),
         Route(one, "GET", handler, middleware),
         Route(one, "PUT", handler, middleware),
         Route(all, "DELETE", handler, middleware) >>

\* addResource: the five REST routes.
ResourceRoutes(resource, handler, middleware) ==
  LET all == <<"/">> \o resource
      one == all \o <<"/", ":", "i", "d">>
  IN  << Route(all, "GET", handler, middleware),
         Route(all, "POST", handler, middleware),
         Route(one, "GET", handler, middleware),
         Route(one, "PUT", handler, middleware),
         Route(one, "DELETE", handler, middleware) >>

RoutesOf(call) ==
  CASE call.op = "addRoute"    -> << call.route >>
    [] call.op = "addGroup"    -> GroupRoutes(call.prefix, call.routes, call.middleware)
    [] call.op = "addResource" -> ResourceRoutes(call.resource, call.handler, call.middleware)

RouterInit ==
  /\ routes = <<>>
  /\ capacity = 0
  /\ storage = 0
  /\ calls = <<>>
  /\ pending = <<>>

\* The application calls addRoute, addGroup or addResource.
Register(call) ==
  /\ pending = <<>>
  /\ Len(calls) < MaxCalls
  /\ calls' = Append(calls, call)
  /\ pending' = RoutesOf(call)
  /\ UNCHANGED tableVars

\* push_back moves the elements when they fill the vector's capacity (libstdc++
\* doubles it).
Grow ==
  IF Len(routes) = capacity
  THEN /\ capacity' = IF capacity = 0 THEN 1 ELSE 2 * capacity
       /\ storage' = storage + 1
  ELSE UNCHANGED <<capacity, storage>>

\* Mutant of PushBack: a new route takes precedence.
PushFront ==
  /\ pending # <<>>
  /\ routes' = <<Head(pending)>> \o routes
  /\ pending' = Tail(pending)
  /\ Grow
  /\ UNCHANGED calls

\* Router::addRoute.
PushBack ==
  /\ pending # <<>>
  /\ routes' = Append(routes, Head(pending))
  /\ pending' = Tail(pending)
  /\ Grow
  /\ UNCHANGED calls

Registration == PushBack \/ \E call \in Calls : Register(call)

-----------------------------------------------------------------------------
(***************************************************************************)
(* Properties.                                                             *)
(***************************************************************************)

\* What a request is answered with, stated without the loop: the reply of the
\* route with the least index among those that match or throw.
Answer(table, path, method) ==
  LET decisive == {i \in DOMAIN table : Try(table[i], path, method) # NotFound}
  IN  IF decisive = {} THEN NotFound
      ELSE Try(table[Min(decisive)], path, method)

\* Registering a route never changes the answer of a request that already has
\* one: neither its handler nor, for a route whose expression is invalid, its
\* failure, which no later route repairs.
AnswersAreFinal ==
  [][\A path \in Paths, method \in Methods :
       Answer(routes, path, method) # NotFound =>
         Answer(routes', path, method) = Answer(routes, path, method)]_routerVars

\* The segments of a path, stated by what they are: the maximal runs of
\* characters between slashes, from left to right.
IsSplitOf(segments, path) ==
  LET starts == {i \in DOMAIN path : path[i] # "/" /\ (i = 1 \/ path[i - 1] = "/")}
      stop(i) == Min({j \in i .. Len(path) + 1 : j = Len(path) + 1 \/ path[j] = "/"})
  IN  /\ Len(segments) = Cardinality(starts)
      /\ \A i \in starts :
           segments[Cardinality({j \in starts : j <= i})] = SubSeq(path, i, stop(i) - 1)

\* Putting the parameters of a match back into the pattern gives the segments
\* of the path again (a key that occurs twice holds its last segment).
Rebuilds(pattern, params, path) ==
  LET pat == SplitPath(pattern)
      segs == SplitPath(path)
      overridden(k) == \E j \in DOMAIN pat : j > k /\ pat[j] = pat[k]
  IN  /\ IsSplitOf(segs, path)
      /\ Len(pat) = Len(segs)
      /\ \A k \in DOMAIN pat :
           IF IsParameter(pat[k])
           THEN overridden(k) \/ params[Tail(pat[k])] = segs[k]
           ELSE pat[k] = segs[k]

Registered(call) ==
  \E i \in DOMAIN calls : calls[i] = call /\ (i < Len(calls) \/ pending = <<>>)

\* A text that a slash separates from what is put before it.
Rooted(text) == text \in Seq(STRING) /\ (text # <<>> => text[1] = "/")

\* How applications register (addGroup puts nothing between prefix and pattern).
GroupsAreRooted ==
  \A call \in Calls : call.op = "addGroup" =>
    \A i \in DOMAIN call.routes : Rooted(call.routes[i].pathPattern)

\* A handler is registered by one call.
HandlersAreOwn ==
  \A call, other \in Calls :
    \A route \in Range(RoutesOf(call)), another \in Range(RoutesOf(other)) :
      route.handler = another.handler => call = other

\* A group is its routes moved below the prefix: where a route of the group
\* matches a path by itself, the prefixed path is answered, and by a route that
\* runs the group's middleware unless an earlier registration claims it.
GroupsAreNested ==
  \A call \in Calls : call.op = "addGroup" /\ Registered(call) =>
    \A i \in DOMAIN call.routes, path \in Paths :
      LET route == call.routes[i]
          answer == Answer(routes, call.prefix \o path, route.method)
      IN  ~ route.isRegex /\ MatchPattern(route.pathPattern, path) =>
            \/ answer.reply = "throws"
            \/ /\ answer.reply = "found"
               /\ \/ answer.route.handler # route.handler
                  \/ IsSuffix(call.middleware, answer.route.middleware)

\* A resource answers the REST requests of its collection and of each of its
\* members, however the slashes of the path are doubled or left over, and the
\* resource's handler learns which member is meant.  (An earlier registration may
\* claim the request, or make it fail with an invalid expression.)
ResourcesAnswer ==
  \A call \in Calls, path \in Paths : call.op = "addResource" /\ Registered(call) =>
    LET collection == SplitPath(call.resource)
        segs == SplitPath(path)
    IN  /\ segs = collection =>
             \A method \in {"GET", "POST"} : Answer(routes, path, method) # NotFound
        /\ segs # <<>> /\ Front(segs) = collection =>
             \A method \in {"GET", "PUT", "DELETE"} :
               LET answer == Answer(routes, path, method)
               IN  /\ answer # NotFound
                   /\ answer.reply = "found" /\ answer.route \in Range(RoutesOf(call)) =>
                        answer.params[<<"i", "d">>] = Last(segs)

\* A pattern that ends in "*" matches what lies below it (README.md:45).
WildcardsMatch ==
  \A i \in DOMAIN routes, path \in Paths :
    LET pat == SplitPath(routes[i].pathPattern)
        segs == SplitPath(path)
    IN  /\ ~ routes[i].isRegex
        /\ pat # <<>> /\ Last(pat) = <<"*">>
        /\ Len(segs) >= Len(pat)
        /\ IsPrefix(Front(pat), segs)
        => Answer(routes, path, routes[i].method) # NotFound
================================================================================
