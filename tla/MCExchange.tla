------------------------------- MODULE MCExchange -------------------------------
(* Small route tables and requests for TLC. *)
EXTENDS Exchange

Plain(pattern, method, handler) ==
  [op |-> "addRoute", route |-> Route(pattern, method, handler, <<>>)]

RegexCall(pattern, keys, handler) ==
  [op |-> "addRoute",
   route |-> [Route(pattern, "GET", handler, <<"log">>)
                EXCEPT !.isRegex = TRUE, !.paramKeys = keys]]

U == <<"/", "u">>
UX == <<"/", "u", "/", "x">>
UId == <<"/", "u", "/", ":", "i">>
TwoIds == <<"/", ":", "i", "/", ":", "i">>
\* An expression with one group, and one std::regex rejects.
UAny == <<"/", "u", "/", "(", ".", "*", ")">>
Broken == <<"/", "(">>
Star == <<"/", "u", "/", "*">>

Group ==
  [op |-> "addGroup", prefix |-> <<"/", "a">>, middleware |-> <<"auth">>,
   routes |-> << Route(U, "GET", "groupU", <<"log">>),
                 Route(<<"/", ":", "i">>, "GET", "groupI", <<>>) >>]

Resource ==
  [op |-> "addResource", resource |-> <<"u">>, handler |-> "items", middleware |-> <<>>]

\* A resource below another one's member.
Nested ==
  [op |-> "addResource", resource |-> <<"u", "/", "x">>, handler |-> "parts",
   middleware |-> <<"log">>]

MCPaths == { <<"/">>, <<"/", "u", "/">>, <<"/", "/", "u", "/", "x">>,
             <<"/", "u", "/", "/", ":", "/">>, <<"/", "u", "/", "x", "/", "y">> }

MCCalls == { Plain(U, "GET", "home"), Plain(UId, "GET", "user"),
             Plain(TwoIds, "GET", "pair"),
             RegexCall(UAny, << <<"q">> >>, "search"),
             RegexCall(Broken, <<>>, "never"), Plain(<<"/">>, "GET", NoHandler),
             Group, Resource, Nested }

\* What std::regex says of the two expressions.
MCRegex ==
  [pattern \in {UAny, Broken} |->
    [path \in MCPaths \cup {<<"/", "a">> \o p : p \in MCPaths \cup {U}} \cup {U, UX} |->
      CASE pattern = Broken -> [kind |-> "invalid"]
        [] pattern = UAny /\ Len(path) >= 3 /\ SubSeq(path, 1, 3) = <<"/", "u", "/">> ->
             [kind |-> "yes", groups |-> << SubSeq(path, 4, Len(path)) >>]
        [] OTHER -> [kind |-> "no"]]]

Ask(method, path) ==
  [method |-> method, version |-> "HTTP/1.1", urlParses |-> TRUE, path |-> path,
   headers |-> <<>>]

\* One request brings a parameter of its own, one is rejected by the parser.
MCRequests ==
  { [Ask("HEAD", <<"/", "/", "u", "/", "x">>) EXCEPT
       !.headers = [key \in {<<"i">>} |-> <<"forged">>]],
    Ask("GET", <<"/", "a", "/", "u">>),
    Ask("DELETE", <<"/", "u", "/">>),
    Ask("GET", <<"/">>),
    [Ask("GET", <<"/">>) EXCEPT !.version = "HTTP/1"] }

ASSUME GroupsAreRooted /\ HandlersAreOwn

\* Single routes, so that the table grows one by one.
FewCalls == { Plain(U, "GET", "home"), Plain(Star, "GET", "files") }
================================================================================
