---------------------------- MODULE MCRequestStream ----------------------------
(* Requests and responses for TLC. *)
EXTENDS RequestStream

MCNumerals == [word \in {"1", "2", "12"} |->
                 CASE word = "1" -> 1 [] word = "2" -> 2 [] word = "12" -> 12]

Post == <<"POST", "/", "HTTP/1.1">>

Ask(fields, body, surplus) ==
  [words |-> Post, fields |-> fields, body |-> body, surplus |-> surplus]

\* Field names and values.
A == <<"a">>
Length(word, separator) == << <<"Content-Length">>, separator, <<word>> >>

\* A piece of text that would be a header if it were looked at as one.
Line == <<"b", ":", " ", "x", "CR", "LF">>

\* Every request of Fitting is as long as one recv at most: no header lines, with
\* and without something behind the request; a header that comes three times, the
\* last time without a space; a value with a separator in it, an empty one; lengths
\* with and without a space; bodies that look like a head.
Fitting ==
  { Ask(<<>>, <<>>, <<>>),
    Ask(<<>>, <<>>, Line),
    Ask(<< <<A, Colon, <<"x">> >>, <<A, Colon, <<"y", ":", " ">> >>,
           <<A, BareColon, <<"z">> >> >>, <<>>, <<>>),
    Ask(<< <<A, Colon, <<>> >>, Length("2", Colon) >>, <<"CR", "LF">>, <<>>),
    Ask(<< Length("1", BareColon) >>, <<"CR">>, <<"LF">>) }

\* One that needs two reads, for the Poller that can do them.
Long == { Ask(<< <<A, Colon, <<>> >>, Length("12", Colon) >>, Line \o Line, <<>>) }

ASSUME \A r \in Fitting \cup Long : WellFormed(r) /\ IsPlainRequest(r)

BothPollers ==
  [p \in {"epoll", "kqueue"} |-> IF p = "epoll" THEN Fitting ELSE Fitting \cup Long]

OnlyEpoll(requests) == [p \in {"epoll"} |-> requests]

LongOnEpoll == OnlyEpoll(Long)
FittingOnEpoll == OnlyEpoll(Fitting)
FittingOnKqueue == [p \in {"kqueue"} |-> Fitting]

\* is_request_ready does not find a header that is spelled "content-length", and
\* takes the body to be empty.
LowerCase ==
  OnlyEpoll({ Ask(<< << <<"content-length">>, Colon, <<"1">> >> >>, <<"x">>, <<>>) })

MCResponses ==
  { [status |-> "200", body |-> <<"CR", "LF", "x">>,
     headers |-> (<<"Connection">> :> <<"keep-alive">>) @@ (A :> <<"y">>)] }

ASSUME \A r \in MCResponses : IsPlainResponse(Closing(r))

\* 4 words and CR LF are less than any response, 99 is more.
Whole == {99}
Partial == {0, 6, 99}
================================================================================
