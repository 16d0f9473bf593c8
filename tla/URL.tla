---------------------------------- MODULE URL ----------------------------------
(***************************************************************************)
(* The parser of request targets (http/URL.cpp), whose path decides which  *)
(* route answers a request.  The constructor runs four helpers in turn;    *)
(* each reads what the one before left in the working string and in the    *)
(* object's members, and the order matters.                                *)
(*                                                                         *)
(* The input is put together from components, so that what the parser      *)
(* should find is known without parsing.  A string is the sequence of its  *)
(* characters.  What toString makes of the object is parsed once more.     *)
(***************************************************************************)
EXTENDS Text, SequencesExt

CONSTANTS
  Inputs,   \* the URLs, as records of the components they are made of
  Lower     \* ::tolower, from characters to characters

Separator == <<":", "/", "/">>
Digits == <<"0", "1", "2", "3", "4", "5", "6", "7", "8", "9">>

\* A query is a sequence of <<key, value>> fields; an empty value is left out.
FieldText(field) ==
  IF field[2] = <<>> THEN field[1] ELSE field[1] \o <<"=">> \o field[2]

QueryText(query) ==
  FlattenSeq([k \in DOMAIN query |-> <<IF k = 1 THEN "?" ELSE "&">> \o FieldText(query[k])])

\* What comes behind the scheme, and the whole raw string.
Rest(in) ==
  in.user \o in.host \o in.port \o in.path \o QueryText(in.query) \o in.anchor

Raw(in) ==
  IF in.scheme = <<>> THEN Rest(in) ELSE in.scheme \o Separator \o Rest(in)

\* Lower changes letters only: twice is once, and a colon stays the only colon.
ASSUME URLAssumption ==
  /\ Range(Digits) \cup {":", "/", "#", "?", "&", "=", "@", "[", "]", "h", "t", "p", "s"} \subseteq STRING
  /\ \A in \in Inputs :
       /\ \A part \in {in.scheme, in.user, in.host, in.port, in.path, in.anchor} :
            part \in Seq(STRING)
       /\ in.query \in Seq(Seq(STRING) \X Seq(STRING))
       /\ Range(in.scheme) \subseteq DOMAIN Lower
  /\ {"h", "t", "p"} \subseteq DOMAIN Lower
  /\ \A ch \in DOMAIN Lower :
       /\ Lower[ch] \in DOMAIN Lower \cap STRING
       /\ Lower[Lower[ch]] = Lower[ch]
       /\ Lower[ch] = ":" => ch = ":"
  /\ \A ch \in {"h", "t", "p"} : Lower[ch] = ch

VARIABLES
  input,  \* the components the URL is made of
  pc,     \* the helper the constructor is about to call, "done" or "throws"
  url,    \* the working copy of the raw string
  pos,    \* where the scheme ended
  u,      \* the members of the object
  again   \* it is the text toString returned that is parsed

vars == <<input, pc, url, pos, u, again>>

-----------------------------------------------------------------------------
Digit(ch) == CHOOSE d \in 0 .. 9 : Digits[d + 1] = ch

Number(digits) ==
  LET value[i \in 0 .. Len(digits)] ==
        IF i = 0 THEN 0 ELSE 10 * value[i - 1] + Digit(digits[i])
  IN  value[Len(digits)]

\* Mutant of ValidPort: 65536 is let through.
ValidPortOffByOne(s) ==
  /\ s # <<>>
  /\ \A i \in DOMAIN s : s[i] \in Range(Digits)
  /\ Number(s) <= 65536

\* parsePortNumber: what it accepts; it throws on anything else.
ValidPort(s) ==
  /\ s # <<>>
  /\ \A i \in DOMAIN s : s[i] \in Range(Digits)
  /\ Number(s) <= 65535

\* defaultPortForScheme, and the fallback of parseAuthorityAndPath.
Http == <<"h", "t", "t", "p">>
Https == <<"h", "t", "t", "p", "s">>
DefaultPort(scheme) == IF scheme = Https THEN 443 ELSE 80

-----------------------------------------------------------------------------
Empty == [scheme |-> <<>>, domainName |-> <<>>, port |-> 0,
          pathToResource |-> <<"/">>, anchor |-> <<>>, queryParameters |-> <<>>]

Init ==
  /\ input \in {in \in Inputs : Raw(in) # <<>>}
  /\ pc = "scheme"
  /\ url = Raw(input)
  /\ pos = 1
  /\ u = Empty
  /\ again = FALSE

\* parseScheme: everything before the first "://", wherever that is.
ParseScheme ==
  /\ pc = "scheme"
  /\ pc' = "fragment"
  /\ LET schemeEnd == Find(url, Separator, 1)
         given == [i \in 1 .. schemeEnd - 1 |-> Lower[url[i]]]
     IN  IF schemeEnd # 0
         THEN /\ u' = [u EXCEPT !.scheme = given]
              /\ pos' = schemeEnd + 3
         ELSE /\ u' = [u EXCEPT !.scheme = IF url[1] = "/" THEN <<>> ELSE Http]
              /\ pos' = 1
  /\ UNCHANGED <<input, url, again>>

\* parseFragment: cut at the first "#" after the scheme.
ParseFragment ==
  /\ pc = "fragment"
  /\ pc' = "query"
  /\ LET at == Find(url, <<"#">>, pos)
     IN  IF at = 0
         THEN UNCHANGED <<url, u>>
         ELSE /\ u' = [u EXCEPT !.anchor = From(url, at + 1)]
              /\ url' = Before(url, at)
  /\ UNCHANGED <<input, pos, again>>

\* The fields between "&"s, as pairs of a first and a last position.
Fields(s) ==
  {f \in (DOMAIN s) \X (DOMAIN s) :
     /\ f[1] <= f[2]
     /\ \A i \in f[1] .. f[2] : s[i] # "&"
     /\ f[1] = 1 \/ s[f[1] - 1] = "&"
     /\ f[2] = Len(s) \/ s[f[2] + 1] = "&"}

\* Key and value of a field; the first "=" separates them.
KeyValue(field) ==
  LET at == Find(field, <<"=">>, 1)
  IN  IF at = 0 THEN <<field, <<>> >> ELSE <<Before(field, at), From(field, at + 1)>>

\* The map parseQuery fills: of two fields with one key the later counts.
QueryMap(s) ==
  LET fields == Fields(s)
      pair(f) == KeyValue(SubSeq(s, f[1], f[2]))
      keys == {pair(f)[1] : f \in fields}
      lastOf(key) == Max({f[1] : f \in {g \in fields : pair(g)[1] = key}})
  IN  [key \in keys |-> pair(CHOOSE f \in fields : f[1] = lastOf(key))[2]]

\* Mutant of ParseQuery: the query is not cut off the working string.
ParseQueryKeeps ==
  /\ pc = "query"
  /\ pc' = "authority"
  /\ LET at == Find(url, <<"?">>, pos)
     IN  u' = IF at = 0 THEN u
              ELSE [u EXCEPT !.queryParameters = QueryMap(From(url, at + 1))]
  /\ UNCHANGED <<input, url, pos, again>>

\* parseQuery: cut at the first "?" of what the fragment left.
ParseQuery ==
  /\ pc = "query"
  /\ pc' = "authority"
  /\ LET at == Find(url, <<"?">>, pos)
     IN  IF at = 0
         THEN UNCHANGED <<url, u>>
         ELSE /\ u' = [u EXCEPT !.queryParameters = QueryMap(From(url, at + 1))]
              /\ url' = Before(url, at)
  /\ UNCHANGED <<input, pos, again>>

\* The host and the port of an authority without user information, or Bad.
Bad == [bad |-> TRUE]
HostAndPort(hostPort, scheme) ==
  LET close == Find(hostPort, <<"]">>, 1)
      colon == IF hostPort[1] = "["
               THEN IF Len(hostPort) > close /\ hostPort[close + 1] = ":"
                    THEN close + 1 ELSE 0
               ELSE FindLast(hostPort, ":")
      host == IF hostPort[1] = "[" THEN SubSeq(hostPort, 1, close)
              ELSE IF colon = 0 THEN hostPort ELSE Before(hostPort, colon)
  IN  IF hostPort[1] = "[" /\ close = 0 THEN Bad
      ELSE IF colon = 0 THEN [host |-> host, port |-> DefaultPort(scheme)]
      ELSE IF ~ ValidPort(From(hostPort, colon + 1)) THEN Bad
      ELSE [host |-> host, port |-> Number(From(hostPort, colon + 1))]

\* parseAuthorityAndPath: user information is dropped.
ParseAuthorityAndPath ==
  /\ pc = "authority"
  /\ LET slash == Find(url, <<"/">>, pos)
         authority == IF slash = 0 THEN From(url, pos) ELSE SubSeq(url, pos, slash - 1)
         hostPort == From(authority, Find(authority, <<"@">>, 1) + 1)
         path == IF slash = 0 THEN <<"/">> ELSE From(url, slash)
         parsed == HostAndPort(hostPort, u.scheme)
     IN  IF slash = pos \/ hostPort = <<>>
         THEN /\ u' = [u EXCEPT !.pathToResource = path]
              /\ pc' = "done"
         ELSE IF parsed = Bad
         THEN /\ pc' = "throws"
              /\ u' = [u EXCEPT !.pathToResource = path]
         ELSE /\ pc' = "done"
              /\ u' = [u EXCEPT !.pathToResource = path,
                                !.domainName = parsed.host, !.port = parsed.port]
  /\ UNCHANGED <<input, url, pos, again>>

\* The decimal digits of a port.
Powers == <<1, 10, 100, 1000, 10000>>
Decimal(n) ==
  LET count == Max({k \in 1 .. 5 : k = 1 \/ n >= Powers[k]})
  IN  [i \in 1 .. count |-> Digits[((n \div Powers[count - i + 1]) % 10) + 1]]

\* The port, unless it is 0 or the standard one of http or https.
PortText(v) ==
  IF v.port = 0 \/ (v.scheme \in {Http, Https} /\ v.port = DefaultPort(v.scheme))
  THEN <<>> ELSE <<":">> \o Decimal(v.port)

\* toString; the order of a std::map is left open.
ObjectText(v) ==
  LET keys == SetToSeq(DOMAIN v.queryParameters)
      query == [k \in DOMAIN keys |-> <<keys[k], v.queryParameters[keys[k]]>>]
  IN  (IF v.scheme = <<>> THEN <<>> ELSE v.scheme \o Separator)
      \o (IF v.domainName = <<>> THEN <<>> ELSE v.domainName \o PortText(v))
      \o v.pathToResource \o QueryText(query)
      \o (IF v.anchor = <<>> THEN <<>> ELSE <<"#">> \o v.anchor)

\* A second object is made of the first one's text.
ParseAgain ==
  /\ pc = "done" /\ ~ again
  /\ pc' = "scheme"
  /\ url' = ObjectText(u)
  /\ pos' = 1
  /\ u' = Empty
  /\ again' = TRUE
  /\ UNCHANGED input

Next == ParseScheme \/ ParseFragment \/ ParseQuery \/ ParseAuthorityAndPath \/ ParseAgain

Spec == Init /\ [][Next]_vars

-----------------------------------------------------------------------------
(***************************************************************************)
(* Properties.                                                             *)
(***************************************************************************)
\* The first "://" is the one behind the scheme, or there is none.
Unambiguous(in) == in.scheme # <<>> \/ Find(Rest(in), Separator, 1) = 0

\* Components as the grammar of a URL has them: what separates one from the next is
\* in none before it, a colon is in a host only between brackets, and every field of
\* the query has a key.  Port 0 is left out: toString has no text for it.
IsPlain(in) ==
  LET delimiters == {"/", "?", "#", "@"}
  IN  /\ ":" \notin Range(in.scheme)
      /\ in.user # <<>> => Last(in.user) = "@" /\ Range(Front(in.user)) \cap delimiters = {}
      /\ Range(in.host) \cap delimiters = {}
      /\ IF in.host # <<>> /\ Head(in.host) = "["
         THEN "]" \notin Range(Front(in.host))
         ELSE ":" \notin Range(in.host)
      /\ in.port # <<>> =>
           /\ Head(in.port) = ":"
           /\ Range(Tail(in.port)) \cap (delimiters \cup {":", "]"}) = {}
           /\ ValidPort(Tail(in.port)) => Number(Tail(in.port)) # 0
      /\ in.path # <<>> => Head(in.path) = "/" /\ Range(in.path) \cap {"?", "#"} = {}
      /\ \A k \in DOMAIN in.query :
           LET field == in.query[k]
           IN  /\ field[1] # <<>> /\ Range(field[1]) \cap {"=", "&", "#"} = {}
               /\ Range(field[2]) \cap {"&", "#"} = {}
      /\ in.anchor # <<>> => Head(in.anchor) = "#"

\* What a member should be, read off the components.
ExpectedScheme(in) ==
  IF in.scheme # <<>> THEN [i \in DOMAIN in.scheme |-> Lower[in.scheme[i]]]
  ELSE IF Raw(in)[1] = "/" THEN <<>> ELSE Http

ExpectedPort(in) ==
  IF in.port # <<>> THEN Number(Tail(in.port))
  ELSE IF in.host # <<>> THEN DefaultPort(ExpectedScheme(in)) ELSE 0

ExpectedQuery(in) ==
  LET keys == {field[1] : field \in Range(in.query)}
      lastOf(key) == Max({i \in DOMAIN in.query : in.query[i][1] = key})
  IN  [key \in keys |-> in.query[lastOf(key)][2]]

\* A URL whose only "://" is the one behind its scheme gives, taken apart, the
\* components it was made of: host, path, query and fragment end up in their own
\* members whatever other characters they contain, user information is dropped, and
\* port, path and scheme have their defaults.  So does the text toString gives,
\* "the full URL" (URL.hpp:98), if it is parsed: only a port without a host is not
\* in it.
ComponentsAreFound ==
  pc = "done" /\ Unambiguous(input) =>
    /\ u.scheme = ExpectedScheme(input)
    /\ u.domainName = input.host
    /\ u.port = IF again /\ input.host = <<>> THEN 0 ELSE ExpectedPort(input)
    /\ u.pathToResource = IF input.path = <<>> THEN <<"/">> ELSE input.path
    /\ u.queryParameters = ExpectedQuery(input)
    /\ u.anchor = IF input.anchor = <<>> THEN <<>> ELSE Tail(input.anchor)

MalformedPort(in) ==
  /\ in.port # <<>>
  /\ \/ Len(in.port) = 1
     \/ ~ Range(Tail(in.port)) \subseteq Range(Digits)
     \/ Number(Tail(in.port)) >= 65536

Malformed(in) ==
  \/ MalformedPort(in)
  \/ in.host # <<>> /\ Head(in.host) = "[" /\ Last(in.host) # "]"

\* The constructor throws (the request is then answered 500) exactly on an
\* authority whose port is no 16-bit number or whose bracket is not closed.
ThrowsOnMalformed ==
  pc \in {"done", "throws"} /\ Unambiguous(input) =>
    (pc = "throws" <=> Malformed(input))

\* A target that begins with "/" is a path-only URL (URL.cpp:51), whatever its
\* query and fragment contain.
PathOnlyHasPath ==
  pc = "done" /\ input.scheme = <<>> /\ Raw(input)[1] = "/" =>
    u.pathToResource = input.path
================================================================================
