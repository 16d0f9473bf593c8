--------------------------------- MODULE MCURL ---------------------------------
(* URLs put together from the components below. *)
EXTENDS URL

MCSchemes == { <<>>, <<"h", "t", "t", "p">>, <<"h", "t", "t", "p", "S">>, <<"w">> }
MCUsers == { <<>>, <<"m", ":", "1", "@">> }
MCHosts == { <<>>, <<"m">>, <<"[", ":", "1", "]">>, <<"[", "1">> }
MCPorts == { <<>>, <<":">>, <<":", "8", "1">>, <<":", "8", "0">>, <<":", "m">>,
             <<":", "6", "5", "5", "3", "5">>, <<":", "6", "5", "5", "3", "6">> }
MCPaths == { <<>>, <<"/">>, <<"/", "a", ":", "@">> }
MCQueries == { <<>>, << << <<"k">>, <<"v", "=", "?">> >> >>,
               << << <<"k">>, <<"v">> >>, << <<"j">>, <<>> >>, << <<"k">>, <<"/">> >> >>,
               << << <<"k">>, <<"w", ":", "/", "/", "m">> >> >> }
MCAnchors == { <<>>, <<"#", "?", "a">> }

\* User information only stands before a host.
MCInputs ==
  {in \in [scheme : MCSchemes, user : MCUsers, host : MCHosts, port : MCPorts,
           path : MCPaths, query : MCQueries, anchor : MCAnchors] :
     in.user # <<>> => in.host # <<>>}

ASSUME \A in \in MCInputs : IsPlain(in)

\* What an HTTP client sends in its start line: a path and perhaps a query.
TargetInputs ==
  {in \in MCInputs : /\ in.scheme = <<>> /\ in.user = <<>> /\ in.host = <<>>
                     /\ in.port = <<>> /\ in.path # <<>>}

\* Port 0, which the parser accepts.
PortZeroInputs ==
  { [scheme |-> <<"h", "t", "t", "p">>, user |-> <<>>, host |-> <<"m">>,
     port |-> <<":", "0">>, path |-> <<"/">>, query |-> <<>>, anchor |-> <<>>] }

MCLower ==
  [ch \in {"h", "t", "p", "s", "S", "w", "m", "1", "[", "]", ":", "/", "@", "a", "k", "v",
           "=", "?", "j", "&", "#", "8", "6", "5", "3", "0"} |-> IF ch = "S" THEN "s" ELSE ch]
================================================================================
