----------------------------- MODULE RequestStream -----------------------------
(***************************************************************************)
(* One connection, byte by byte: a peer sends a request in pieces, the     *)
(* kernel buffers it and reports events, and Pool::handle_client_event     *)
(* does one recv per event, decides with Client::is_request_ready whether  *)
(* the request is complete, answers with one send and closes.              *)
(*                                                                         *)
(* The bytes are those of module Message.  A request is given by what the  *)
(* peer means, from which its text is put together; surplus is what the    *)
(* peer sends behind it without waiting for the answer.                    *)
(*                                                                         *)
(* The Poller is built for epoll or for kqueue.                            *)
(***************************************************************************)
EXTENDS Message

CONSTANTS
  Requests,   \* for each Poller the requests of a peer: records
              \* [words, fields, body, surplus]
  Responses,  \* what handlers return: records [status, headers, body]
  ReadSize,   \* the size of the array of Client::readRequest, 4096 in the code
  SendSpaces, \* what the socket may accept at once: its free buffer space
  None        \* no response

AllRequests == UNION Range(Requests)

\* What stands behind the name of a header; HTTP leaves the space to the peer.
BareColon == <<":">>

ASSUME RequestStreamAssumption ==
  /\ DOMAIN Requests \subseteq {"epoll", "kqueue"}
  /\ {"CR", "LF", ":", " ", "HTTP/1.1", "reason"} \subseteq STRING
  /\ \A r \in AllRequests :
       /\ r.words \in STRING \X STRING \X STRING
       /\ r.fields \in Seq(Seq(STRING) \X {Colon, BareColon} \X Seq(STRING))
       /\ r.body \in Seq(STRING)
       /\ r.surplus \in Seq(STRING)
  /\ ReadSize \in Nat \ {0}
  /\ SendSpaces \subseteq Nat

VARIABLES
  poller,     \* the Poller this program was built with
  request,    \* what the peer sends
  sent,       \* bytes the peer has sent
  received,   \* bytes in Client::_requestBuffer
  fin,        \* the peer has shut its side down
  rst,        \* the peer has reset the connection
  edge,       \* the kernel holds an edge epoll_wait has not reported yet
  registered, \* Pool::addClient has registered the descriptor
  pc,         \* the pool's thread
  response,   \* what process_request has prepared
  reply,      \* what the kernel has accepted of its text
  lateFin     \* the peer shut down when no edge was outstanding

peerVars == <<poller, request, sent, fin, rst, lateFin>>
vars == <<peerVars, received, edge, registered, pc, response, reply>>

\* The text of a request: a start line, header lines, an empty line, the body.  A
\* header is a name, a separator and a value.
HeaderLine(field) == field[1] \o field[2] \o field[3] \o CRLF
RequestText(r) ==
  <<r.words[1], " ", r.words[2], " ", r.words[3]>> \o CRLF
    \o FlattenSeq([k \in DOMAIN r.fields |-> HeaderLine(r.fields[k])]) \o CRLF \o r.body
StreamOf(r) == RequestText(r) \o r.surplus
Stream == StreamOf(request)

Buffered == sent - received

\* How many bytes of each request's stream make it a complete one.
ReadyAt ==
  [r \in AllRequests |->
     {n \in 0 .. Len(StreamOf(r)) : IsRequestReady(SubSeq(StreamOf(r), 1, n))}]
Ready(n) == n \in ReadyAt[request]

Init ==
  /\ poller \in DOMAIN Requests
  /\ request \in Requests[poller]
  /\ sent = 0
  /\ received = 0
  /\ fin = FALSE /\ rst = FALSE /\ lateFin = FALSE
  /\ edge = FALSE
  /\ registered = FALSE
  /\ pc = "poll"
  /\ response = None
  /\ reply = <<>>

-----------------------------------------------------------------------------
(***************************************************************************)
(* The peer.  Everything that arrives makes an edge.                       *)
(***************************************************************************)
PeerSends ==
  /\ ~ fin /\ ~ rst
  /\ \E n \in 1 .. (Len(Stream) - sent) : sent' = sent + n
  /\ edge' = TRUE
  /\ UNCHANGED <<poller, request, fin, rst, lateFin, received, registered, pc, response, reply>>

PeerShutsDown ==
  /\ ~ fin /\ ~ rst
  /\ fin' = TRUE
  /\ lateFin' = ~ edge
  /\ edge' = TRUE
  /\ UNCHANGED <<poller, request, sent, rst, received, registered, pc, response, reply>>

PeerResets ==
  /\ ~ rst
  /\ rst' = TRUE
  /\ edge' = TRUE
  /\ UNCHANGED <<poller, request, sent, fin, lateFin, received, registered, pc, response, reply>>

-----------------------------------------------------------------------------
(***************************************************************************)
(* The server.                                                             *)
(***************************************************************************)

\* Mutant of Register: what arrived before is not reported any more.
RegisterLate ==
  /\ ~ registered
  /\ registered' = TRUE
  /\ edge' = FALSE
  /\ UNCHANGED <<peerVars, received, pc, response, reply>>

\* Pool::addClient.  Data that is there already is reported, too.
Register ==
  /\ ~ registered
  /\ registered' = TRUE
  /\ UNCHANGED <<peerVars, received, edge, pc, response, reply>>

\* epoll: registered with EPOLLET, a readable descriptor is reported once for
\* every edge.  A peer that shut its side down makes it readable.
EpollReports == edge
EpollHangup == rst

\* kqueue: addFD takes READ and WRITE from the mask and not EDGE_TRIGGERED, so a
\* readable descriptor is reported again and again.
KqueueReports == TRUE

\* EV_EOF, which poll makes a HANGUP, comes when the peer has shut its side down,
\* whether there is data left to read or not.
KqueueHangup == rst \/ fin

Reports == IF poller = "epoll" THEN EpollReports ELSE KqueueReports
Hangup  == IF poller = "epoll" THEN EpollHangup ELSE KqueueHangup

\* Poller::poll, and the branch of handle_client_event: ERROR or HANGUP goes
\* straight to the removal.
Poll ==
  /\ pc = "poll"
  /\ registered /\ Reports
  /\ Buffered > 0 \/ fin \/ rst
  /\ edge' = FALSE
  /\ pc' = IF Hangup THEN "close" ELSE "read"
  /\ UNCHANGED <<peerVars, received, registered, response, reply>>

\* n bytes are appended to the buffer; is the request complete now?
Receive(n) ==
  /\ received' = received + n
  /\ pc' = IF Ready(received') THEN "respond" ELSE "poll"

\* Mutant of Read: one byte at a time.
ReadOneByte ==
  /\ pc = "read"
  /\ \/ (Buffered = 0 \/ rst) /\ pc' = "close" /\ UNCHANGED received
     \/ Buffered > 0 /\ Receive(1)
  /\ UNCHANGED <<peerVars, edge, registered, response, reply>>

\* Mutant of Read: read until recv fails, and take EAGAIN for an error.
ReadUntilError ==
  /\ pc = "read"
  /\ \/ (Buffered = 0 \/ rst) /\ pc' = "close" /\ UNCHANGED received
     \/ /\ Buffered > 0
        /\ received' = received + Min({Buffered, ReadSize})
        /\ pc' = IF Ready(received') THEN "respond" ELSE "read"
  /\ UNCHANGED <<peerVars, edge, registered, response, reply>>

\* Mutant of Read: recv returning 0 is not the end of the connection.
ReadIgnoresEnd ==
  /\ pc = "read"
  /\ \/ rst /\ pc' = "close" /\ UNCHANGED received
     \/ (Buffered > 0 \/ ~ rst) /\ Receive(Min({Buffered, ReadSize}))
  /\ UNCHANGED <<peerVars, edge, registered, response, reply>>

\* Client::readRequest: a single recv.  0 (the peer has shut down), EAGAIN and
\* other errors close the connection; an incomplete request waits for an event.
\* After a reset the kernel may hand out what it has or fail.
Read ==
  /\ pc = "read"
  /\ \/ (Buffered = 0 \/ rst) /\ pc' = "close" /\ UNCHANGED received
     \/ Buffered > 0 /\ Receive(Min({Buffered, ReadSize}))
  /\ UNCHANGED <<peerVars, edge, registered, response, reply>>

\* process_request says that the connection will be closed.
Closing(r) ==
  [r EXCEPT !.headers =
     [name \in DOMAIN r.headers \cup {<<"Connection">>} |->
        IF name = <<"Connection">> THEN <<"close">> ELSE r.headers[name]]]

ASSUME ResponsesAssumption ==
  \A r \in Responses : DOMAIN r = {"status", "headers", "body"} /\ Closing(r) # None

\* process_request and writeResponse: a single send, which takes what fits into
\* the socket's buffer, and fails if the peer has reset the connection.  After a
\* shutdown the reset leaves EPIPE behind, and send raises SIGPIPE.
Respond ==
  /\ pc = "respond"
  /\ \E r \in Responses :
       /\ response' = Closing(r)
       /\ \E space \in SendSpaces :
            reply' = IF rst THEN <<>> ELSE Substr(ToRawResponse(response'), 1, space)
  /\ pc' = IF rst /\ fin THEN "killed" ELSE "close"
  /\ UNCHANGED <<peerVars, received, edge, registered>>

\* removeFD and removeClient.
Close ==
  /\ pc = "close"
  /\ pc' = "closed"
  /\ edge' = FALSE
  /\ UNCHANGED <<peerVars, received, registered, response, reply>>

\* Nothing happens to the connection any more; SIGPIPE ends the process unless
\* the application ignores it.
Over == pc \in {"closed", "killed"}

Peer == ~ Over /\ (PeerSends \/ PeerShutsDown \/ PeerResets)

Server == Register \/ Poll \/ Read \/ Respond \/ Close

Next == Peer \/ Server

Spec == Init /\ [][Next]_vars

\* The accept thread registers what it took and the pool's thread goes on.  A
\* peer owes nothing.
FairSpec == Spec /\ WF_vars(Server)

-----------------------------------------------------------------------------
(***************************************************************************)
(* Properties.                                                             *)
(***************************************************************************)

\* A request whose end is_request_ready can find, however it is cut into pieces:
\* the first empty line is the one behind the head, and what stands first as a
\* Content-Length, behind any number of spaces, is the length of the body.  The
\* latter does not matter where there is no body.
WellFormed(r) ==
  LET text == StreamOf(r)
      head == Len(RequestText(r)) - Len(r.body)
      name == Find(text, <<"Content-Length", ":">>, 1)
      value == SkipSpaces(text, name + 2)
  IN  /\ Find(text, CRLF \o CRLF, 1) = head - 3
      /\ r.body # <<>> =>
           /\ name # Npos /\ value + 2 <= head
           /\ \E word \in DOMAIN Numerals :
                /\ SubSeq(text, value, value + 2) = <<word, "CR", "LF">>
                /\ Numerals[word] = Len(r.body)
                /\ Numerals[word] < SizeMod

\* Requests and responses that mean what they say: no word of the start line is
\* empty or space to operator>>, no name of a header hides where it ends, no value
\* goes on in the next line, a header without the space has a name and no ": " in
\* its value, and the text is as long as a std::string can be.
IsPlainWord(word) == word \notin {"", " ", "CR", "LF"}
IsPlainField(name, value) ==
  Range(name) \cap {":", "LF"} = {} /\ Range(value) \cap {"CR", "LF"} = {}

IsPlainRequest(r) ==
  /\ \A k \in 1 .. 3 : IsPlainWord(r.words[k])
  /\ \A k \in DOMAIN r.fields :
       /\ IsPlainField(r.fields[k][1], r.fields[k][3])
       /\ r.fields[k][2] = BareColon =>
            r.fields[k][1] # <<>> /\ Find(HeaderLine(r.fields[k]), Colon, 1) = Npos
  /\ Len(StreamOf(r)) < SizeMod

IsPlainResponse(r) ==
  /\ r.status \in STRING /\ IsPlainWord(r.status)
  /\ r.body \in Seq(STRING)
  /\ IsFiniteSet(DOMAIN r.headers)
  /\ \A name \in DOMAIN r.headers :
       /\ name \in Seq(STRING) /\ r.headers[name] \in Seq(STRING)
       /\ IsPlainField(name, r.headers[name])
  /\ Len(ToRawResponse(r)) < SizeMod

\* process_request gets "a client with a complete request" (Pool.hpp:34): the
\* server does not answer before the last byte of the body, however the
\* request was cut into pieces.
AnswersWholeRequest == pc = "respond" => received >= Len(RequestText(request))

\* What the handler is given is what the peer sent: the words of the start line,
\* the headers with the value each had last, and the body first.  A header written
\* as "name:value" is left out without a word, because parseFromRaw looks for ": "
\* (Headers.cpp:66): it is no header, it hides none of the same name, and it takes
\* nothing from the next line.  Neither the body nor what comes behind it ever
\* becomes a header, although the length of the head's text wraps around when
\* there are no header lines.
HandlerGetsWhatWasSent ==
  pc = "respond" /\ received >= Len(RequestText(request)) =>
    LET parsed == ParseRequest(SubSeq(Stream, 1, received))
        fields == request.fields
        keys == {field[1] : field \in {f \in Range(fields) : f[2] = Colon}}
        lastOf(key) ==
          SelectLastInSeq(fields, LAMBDA field : field[2] = Colon /\ field[1] = key)
    IN  /\ parsed.words = request.words
        /\ parsed.headers = [key \in keys |-> fields[lastOf(key)][3]]
        /\ IsPrefix(request.body, parsed.body)

\* Between two events no byte is left in the kernel without an event that will
\* report it: with edge-triggered events nobody would ever read it.
NothingUnreported ==
  pc = "poll" /\ registered /\ Buffered > 0 => Reports

\* The server closes a connection without an answer only if the peer has reset
\* it, or has shut its side down before the request was complete; never because
\* recv fails with EAGAIN.
OnlyUnfinishedIsDropped ==
  pc = "close" /\ response = None /\ ~ rst =>
    fin /\ (poller = "epoll" => ~ Ready(sent))

\* The same for both builds: Poller "provides a cross-platform abstraction over
\* epoll (Linux) and kqueue (macOS/BSD)" (Poller.hpp:46).
HalfCloseIsServed ==
  pc = "close" /\ response = None /\ ~ rst =>
    ~ Ready(sent)

\* A request that was sent completely is dealt with, even if the peer then
\* only waits.
CompleteIsAnswered == sent >= Len(RequestText(request)) ~> Over

\* A peer that gives up is noticed and its connection closed, unless the
\* shutdown arrives together with data that is still to be reported.
ShutdownCloses == lateFin ~> Over

\* A peer that gets the whole answer can read the handler's response from it:
\* status, headers, body, and that the connection will be closed.
ReplyIsTheResponse ==
  response # None /\ reply = ToRawResponse(response) =>
    LET parsed == ParseRequest(reply)
    IN  /\ parsed.words = <<"HTTP/1.1", response.status, "reason">>
        /\ parsed.headers = response.headers
        /\ parsed.body = response.body
        /\ parsed.headers[<<"Connection">>] = <<"close">>

\* writeResponse "assume[s] all data is sent at once" (Client.cpp:67): what is
\* answered is answered in full.
ResponseSentWhole ==
  pc = "closed" /\ reply # <<>> => reply = ToRawResponse(response)

\* A failing send closes the connection ("write error; closing", Pool.cpp:88)
\* and nothing else.
SendErrorOnlyCloses == pc # "killed"
================================================================================
