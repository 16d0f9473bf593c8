--------------------------------- MODULE Message ---------------------------------
(***************************************************************************)
(* The text of requests and responses: where Client::is_request_ready and  *)
(* Pool::process_request cut a request, how Request and Headers read the   *)
(* pieces, and how Response and Headers write an answer.                   *)
(*                                                                         *)
(* A text is a sequence of words and of the characters the code looks for: *)
(* CR, LF, ":", " " and "-".  A word is never looked into, except that     *)
(* std::stoull reads those in Numerals as numbers.                         *)
(***************************************************************************)
EXTENDS Text, Integers, SequencesExt

CONSTANTS
  SizeMod,   \* size_t counts modulo 2^64
  Numerals   \* a function from words to the numbers they are

ASSUME MessageAssumption ==
  /\ SizeMod \in Nat \ {0}
  /\ \A word \in DOMAIN Numerals : Numerals[word] \in Nat
  /\ DOMAIN Numerals \cap {"CR", "LF", ":", " ", "-"} = {}

CRLF == <<"CR", "LF">>
Colon == <<":", " ">>

-----------------------------------------------------------------------------
(***************************************************************************)
(* Reading.                                                                *)
(***************************************************************************)

\* std::stoull, or Unreadable where it throws.  What follows the number does
\* not matter to it, and a minus sign negates modulo 2^64.
Unreadable == -1
Stoull(s) ==
  LET value(word) == IF word \in DOMAIN Numerals /\ Numerals[word] < SizeMod
                     THEN Numerals[word] ELSE Unreadable
  IN  CASE s = <<>> -> Unreadable
        [] s # <<>> /\ s[1] # "-" -> value(s[1])
        [] s # <<>> /\ s[1] = "-" ->
             IF Len(s) = 1 \/ value(s[2]) = Unreadable THEN Unreadable
             ELSE (- value(s[2])) % SizeMod

\* The first place from there on that holds no space, or the one behind the end.
SkipSpaces(str, from) == Min({i \in from .. Len(str) : str[i] # " "} \cup {Len(str) + 1})

\* Mutant of IsRequestReady: the head is enough.
HeadReceived(str) == Find(str, CRLF \o CRLF, 1) # Npos

\* Client::is_request_ready: the empty line, and as many characters after it as
\* the first "Content-Length:" declares, wherever in the text that stands.
IsRequestReady(str) ==
  LET headersEnd == Find(str, CRLF \o CRLF, 1)
      name == Find(str, <<"Content-Length", ":">>, 1)
      value == SkipSpaces(str, name + 2)
      end == Find(str, CRLF, value)
      length == Stoull(Substr(str, value, end - value))
  IN  /\ headersEnd # Npos
      /\ \/ name = Npos
         \/ end # Npos /\ (length = Unreadable \/ Len(str) - headersEnd - 3 >= length)

\* The pieces process_request cuts the text into.  A request without header
\* lines has its first CR LF at headers_end: the count wraps around, and the
\* headers are everything from the empty line on.
StartLine(data) == Before(data, Find(data, CRLF, 1))
RawHeaders(data) ==
  LET firstCrlf == Find(data, CRLF, 1)
      headersEnd == Find(data, CRLF \o CRLF, 1)
  IN  Substr(data, firstCrlf + 2, (headersEnd - firstCrlf - 2) % SizeMod)
Body(data) == From(data, Find(data, CRLF \o CRLF, 1) + 4)

\* The lines std::getline returns, as pairs of a first and a last position.  An
\* empty one says nothing and is left out.
Lines(raw) ==
  {line \in (DOMAIN raw) \X (DOMAIN raw) :
     /\ line[1] <= line[2]
     /\ \A i \in line[1] .. line[2] : raw[i] # "LF"
     /\ line[1] = 1 \/ raw[line[1] - 1] = "LF"
     /\ line[2] = Len(raw) \/ raw[line[2] + 1] = "LF"}

\* One turn of parseFromRaw: the first ": " separates, and a CR at the end of the
\* value is dropped.
KeyOf(line) == Before(line, Find(line, Colon, 1))
ValueOf(line) ==
  LET rest == From(line, Find(line, Colon, 1) + 2)
  IN  IF rest # <<>> /\ Last(rest) = "CR" THEN Front(rest) ELSE rest

\* The map that results: a header that comes again replaces the one before.
HeaderMap(raw, lines) ==
  LET text(line) == SubSeq(raw, line[1], line[2])
      fields == {line \in lines : Find(text(line), Colon, 1) # Npos}
      lastOf(key) == Max({line[1] : line \in {f \in fields : KeyOf(text(f)) = key}})
  IN  [key \in {KeyOf(text(line)) : line \in fields} |->
         ValueOf(text(CHOOSE line \in fields : line[1] = lastOf(key)))]

\* Mutant of ParseFromRaw: the empty line is a line like any other.
ParsePastEmptyLine(raw) == HeaderMap(raw, Lines(raw))

\* Headers::parseFromRaw reads up to the first line that is a CR alone.
ParseFromRaw(raw) ==
  LET empty == {line \in Lines(raw) : SubSeq(raw, line[1], line[2]) = <<"CR">>}
  IN  HeaderMap(raw, {line \in Lines(raw) : \A e \in empty : line[1] < e[1]})

\* parseStartLine: three times operator>>, which yields nothing at the end.
Words(line) ==
  LET first == SkipSpaces(line, 1)
      second == SkipSpaces(line, first + 1)
      third == SkipSpaces(line, second + 1)
      word(i) == IF i > Len(line) THEN "" ELSE line[i]
  IN  <<word(first), word(second), word(third)>>

\* What the constructor of Request makes of the pieces; module Exchange says which
\* start lines are accepted.
ParseRequest(data) ==
  [words   |-> Words(StartLine(data)),
   headers |-> ParseFromRaw(RawHeaders(data)),
   body    |-> Body(data)]

-----------------------------------------------------------------------------
(***************************************************************************)
(* Writing.                                                                *)
(***************************************************************************)

\* Headers::toRawString; the order of a std::map is left open.
ToRawString(headers) ==
  LET keys == SetToSeq(DOMAIN headers)
  IN  FlattenSeq([k \in DOMAIN keys |-> keys[k] \o Colon \o headers[keys[k]] \o CRLF])

\* Mutant of ToRawResponse: the empty line is missing.
RawWithoutEmptyLine(response) ==
  <<"HTTP/1.1", " ", response.status, " ", "reason">> \o CRLF
    \o ToRawString(response.headers) \o response.body

\* Response::toRawResponse.
ToRawResponse(response) ==
  <<"HTTP/1.1", " ", response.status, " ", "reason">> \o CRLF
    \o ToRawString(response.headers) \o CRLF \o response.body
================================================================================
