-------------------------- MODULE RequestStreamProofs --------------------------
(***************************************************************************)
(* No byte is stranded and no peer dropped, for every set of requests and  *)
(* every way to cut and reorder what peers do, on both Pollers; no request *)
(* is answered before its last byte is there, if its head says how long it *)
(* is; and what the handler is given, and what the peer is answered, reads *)
(* as it was meant, if it means what it says.  The first parts are about   *)
(* sequences, about the text of a request and about what is_request_ready  *)
(* finds in it; then come the texts of messages in general, from a line up *)
(* to a whole one; the last part is about the connection.                  *)
(***************************************************************************)
EXTENDS RequestStream, TextProofs

-----------------------------------------------------------------------------
(***************************************************************************)
(* Sequences.                                                              *)
(***************************************************************************)
LEMMA FlattenIsSeq ==
  ASSUME NEW T, NEW seqs \in Seq(Seq(T))
  PROVE  FlattenSeq(seqs) \in Seq(T)
<1>1. PICK n \in Nat : n = Len(seqs) /\ seqs \in [1 .. n -> Seq(T)]
  OBVIOUS
<1>2. CASE n = 0
  <2>1. seqs = <<>>
    BY <1>1, <1>2
  <2> QED BY <2>1 DEF FlattenSeq
<1>3. CASE n # 0
  <2>1. n \in Nat \ {0} /\ n \in 1 .. n
    BY <1>3
  <2>2. PICK f \in [1 .. n -> Seq(T)] : JoinedBy(f, seqs, n)
    BY <1>1, <2>1, FlattenJoins
  <2> QED BY <2>1, <2>2 DEF JoinedBy
<1> QED BY <1>2, <1>3

\* s is u, of m elements, and v, of n elements.
IsGlued(s, u, m, v, n) ==
  /\ Len(s) = m + n
  /\ \A i \in 1 .. m : s[i] = u[i]
  /\ \A i \in 1 .. n : s[m + i] = v[i]

LEMMA Glue ==
  ASSUME NEW T, NEW u \in Seq(T), NEW v \in Seq(T), NEW m \in Nat, NEW n \in Nat,
         m = Len(u), n = Len(v), NEW s, s = u \o v
  PROVE  s \in Seq(T) /\ IsGlued(s, u, m, v, n)
BY ConcatParts DEF IsGlued

LEMMA StartReads ==
  ASSUME NEW T, NEW s \in Seq(T), NEW l \in Nat, Len(s) = l, NEW n \in 0 .. l
  PROVE  /\ SubSeq(s, 1, n) \in Seq(T) /\ Len(SubSeq(s, 1, n)) = n
         /\ \A i \in 1 .. n : SubSeq(s, 1, n)[i] = s[i]
<1>1. 1 \in 1 .. Len(s) + 1 /\ n \in 1 - 1 .. Len(s) /\ n - 1 + 1 = n
  OBVIOUS
<1> PICK part : part = SubSeq(s, 1, n)
  OBVIOUS
<1>2. part \in Seq(T) /\ Len(part) = n /\ \A i \in 1 .. n : part[i] = s[1 + i - 1]
  BY <1>1, SubSeqProperties
<1>3. \A i \in 1 .. n : 1 + i - 1 = i
  OBVIOUS
<1> QED BY <1>2, <1>3

-----------------------------------------------------------------------------
(***************************************************************************)
(* The text of a request, and the first place where a text stands in it.   *)
(***************************************************************************)
LEMMA ShortTexts ==
  ASSUME NEW S, NEW a \in S, NEW b \in S, NEW c \in S
  PROVE  /\ <<a>> \in Seq(S) /\ <<a, b>> \in Seq(S)
         /\ <<a, b, c>> \in Seq(S)
OBVIOUS

LEMMA FiveWords ==
  ASSUME NEW S, NEW a \in S, NEW b \in S, NEW c \in S, NEW d \in S, NEW e \in S
  PROVE  <<a, b, c, d, e>> \in Seq(S)
OBVIOUS

LEMMA ConcatIsSeq ==
  ASSUME NEW S, NEW s \in Seq(S), NEW t \in Seq(S)
  PROVE  /\ s \o t \in Seq(S) /\ Len(s \o t) \in Nat
         /\ Len(s) <= Len(s \o t) /\ Len(t) <= Len(s \o t)
OBVIOUS

LEMMA HeadersAreText ==
  ASSUME NEW fields \in Seq(Seq(STRING) \X {Colon, BareColon} \X Seq(STRING)),
         CRLF \in Seq(STRING), Colon \in Seq(STRING), BareColon \in Seq(STRING)
  PROVE  FlattenSeq([k \in DOMAIN fields |-> HeaderLine(fields[k])]) \in Seq(STRING)
<1>1. ASSUME NEW k \in DOMAIN fields PROVE HeaderLine(fields[k]) \in Seq(STRING)
  <2>1. /\ fields[k][1] \in Seq(STRING) /\ fields[k][3] \in Seq(STRING)
        /\ fields[k][2] \in {Colon, BareColon}
    OBVIOUS
  <2>2. fields[k][1] \o fields[k][2] \in Seq(STRING)
    <3>1. fields[k][2] \in Seq(STRING)
      BY <2>1, Zenon
    <3> QED BY <2>1, <3>1, ConcatIsSeq
  <2>3. fields[k][1] \o fields[k][2] \o fields[k][3] \in Seq(STRING)
    BY <2>1, <2>2, ConcatIsSeq
  <2>4. fields[k][1] \o fields[k][2] \o fields[k][3] \o CRLF \in Seq(STRING)
    BY <2>3, ConcatIsSeq
  <2> QED BY <2>4 DEF HeaderLine
<1>2. [k \in DOMAIN fields |-> HeaderLine(fields[k])] \in Seq(Seq(STRING))
  <2>1. DOMAIN fields = 1 .. Len(fields) /\ Len(fields) \in Nat
    OBVIOUS
  <2> QED BY <1>1, <2>1
<1> QED BY <1>2, FlattenIsSeq

\* The text in front of the body.
HeadOf(r) ==
  <<r.words[1], " ", r.words[2], " ", r.words[3]>> \o CRLF
    \o FlattenSeq([k \in DOMAIN r.fields |-> HeaderLine(r.fields[k])]) \o CRLF

LEMMA HeadIsText ==
  ASSUME NEW r \in AllRequests
  PROVE  /\ HeadOf(r) \in Seq(STRING) /\ RequestText(r) = HeadOf(r) \o r.body
         /\ r.body \in Seq(STRING) /\ r.surplus \in Seq(STRING)
<1>0. /\ r.body \in Seq(STRING) /\ r.surplus \in Seq(STRING)
      /\ r.fields \in Seq(Seq(STRING) \X {Colon, BareColon} \X Seq(STRING))
      /\ r.words[1] \in STRING /\ r.words[2] \in STRING /\ r.words[3] \in STRING
      /\ "CR" \in STRING /\ "LF" \in STRING /\ ":" \in STRING /\ " " \in STRING
  BY RequestStreamAssumption
<1>1. CRLF \in Seq(STRING) /\ Colon \in Seq(STRING) /\ BareColon \in Seq(STRING)
  BY <1>0, ShortTexts DEF CRLF, Colon, BareColon
<1> DEFINE start == <<r.words[1], " ", r.words[2], " ", r.words[3]>>
           headers == FlattenSeq([k \in DOMAIN r.fields |-> HeaderLine(r.fields[k])])
<1>2. start \in Seq(STRING)
  BY <1>0, FiveWords
<1>3. headers \in Seq(STRING)
  BY <1>0, <1>1, HeadersAreText
<1>4. HeadOf(r) = start \o CRLF \o headers \o CRLF
  BY Zenon DEF HeadOf
<1>5. RequestText(r) = HeadOf(r) \o r.body
  BY Zenon DEF HeadOf, RequestText
<1> HIDE DEF start, headers
<1>6. start \o CRLF \in Seq(STRING)
  BY <1>1, <1>2, ConcatIsSeq
<1>7. start \o CRLF \o headers \in Seq(STRING)
  BY <1>3, <1>6, ConcatIsSeq
<1>8. start \o CRLF \o headers \o CRLF \in Seq(STRING)
  BY <1>1, <1>7, ConcatIsSeq
<1> QED BY <1>0, <1>4, <1>5, <1>8, Zenon

LEMMA StreamsAreText ==
  ASSUME NEW r \in AllRequests
  PROVE  /\ RequestText(r) \in Seq(STRING) /\ StreamOf(r) \in Seq(STRING)
         /\ Len(StreamOf(r)) \in Nat /\ Len(RequestText(r)) <= Len(StreamOf(r))
         /\ r.body \in Seq(STRING) /\ Len(r.body) <= Len(RequestText(r))
<1>1. /\ HeadOf(r) \in Seq(STRING) /\ RequestText(r) = HeadOf(r) \o r.body
      /\ r.body \in Seq(STRING) /\ r.surplus \in Seq(STRING)
  BY HeadIsText
<1>2. RequestText(r) \in Seq(STRING) /\ Len(r.body) <= Len(RequestText(r))
  BY <1>1, ConcatIsSeq
<1>3. /\ StreamOf(r) \in Seq(STRING) /\ Len(StreamOf(r)) \in Nat
      /\ Len(RequestText(r)) <= Len(StreamOf(r))
  BY <1>1, <1>2, ConcatIsSeq DEF StreamOf
<1> QED BY <1>1, <1>2, <1>3, Zenon

LEMMA PrefixOf ==
  ASSUME NEW S, NEW s \in Seq(S), NEW n \in 0 .. Len(s)
  PROVE  /\ SubSeq(s, 1, n) \in Seq(S) /\ Len(SubSeq(s, 1, n)) = n
         /\ \A i \in 1 .. n : SubSeq(s, 1, n)[i] = s[i]
         /\ \A i, j \in 1 .. n : i <= j => SubSeq(SubSeq(s, 1, n), i, j) = SubSeq(s, i, j)
<1>1. /\ SubSeq(s, 1, n) \in Seq(S) /\ Len(SubSeq(s, 1, n)) = n
      /\ \A i \in 1 .. n : SubSeq(s, 1, n)[i] = s[i]
  OBVIOUS
<1>2. ASSUME NEW i \in 1 .. n, NEW j \in 1 .. n, i <= j
      PROVE  SubSeq(SubSeq(s, 1, n), i, j) = SubSeq(s, i, j)
  <2>1. SubSeq(SubSeq(s, 1, n), i, j) = SubSeq(s, 1 + i - 1, 1 + j - 1)
    BY <1>2, SubSeqOfSubSeq
  <2> QED BY <2>1
<1> QED BY <1>1, <1>2

\* In a prefix of a text the needle stands first where it stands first in the text,
\* unless the prefix ends before.
LEMMA FindInPrefix ==
  ASSUME NEW S, NEW s \in Seq(S), NEW n \in 0 .. Len(s),
         NEW needle, NEW k \in Nat \ {0}, Len(needle) = k
  PROVE  LET whole == Find(s, needle, 1)
             part  == Find(SubSeq(s, 1, n), needle, 1)
         IN  /\ part # Npos => part = whole /\ whole \in Nat \ {0} /\ whole + k - 1 <= n
             /\ whole # Npos /\ whole + k - 1 <= n => part = whole
<1> PICK t \in Seq(S) :
      /\ t = SubSeq(s, 1, n) /\ Len(t) = n
      /\ \A i, j \in 1 .. n : i <= j => SubSeq(t, i, j) = SubSeq(s, i, j)
  <2>1. /\ SubSeq(s, 1, n) \in Seq(S) /\ Len(SubSeq(s, 1, n)) = n
        /\ \A i, j \in 1 .. n : i <= j => SubSeq(SubSeq(s, 1, n), i, j) = SubSeq(s, i, j)
    BY PrefixOf
  <2> QED BY <2>1, Zenon
<1> PICK len \in Nat : len = Len(s) /\ n <= len
  OBVIOUS
<1> DEFINE whole == Find(s, needle, 1)
           part  == Find(t, needle, 1)
<1>0. 1 \in Nat \ {0} /\ k \in Nat /\ n \in Nat
  OBVIOUS
<1>1. FirstAt(s, needle, 1, len, k, whole)
  BY <1>0, FindFinds
<1>2. FirstAt(t, needle, 1, n, k, part)
  BY <1>0, FindFinds
<1>3. \A i \in 1 .. n + 1 - k : /\ i \in 1 .. len + 1 - k
                                /\ SubSeq(t, i, i + k - 1) = SubSeq(s, i, i + k - 1)
  <2> TAKE i \in 1 .. n + 1 - k
  <2>1. i \in 1 .. n /\ i + k - 1 \in 1 .. n /\ i <= i + k - 1 /\ i \in 1 .. len + 1 - k
    OBVIOUS
  <2> QED BY <2>1
<1> HIDE DEF whole, part
<1>4. part # Npos => whole # Npos /\ whole <= part /\ part \in 1 .. n + 1 - k
  BY <1>1, <1>2, <1>3 DEF FirstAt
<1>5. whole # Npos /\ whole + k - 1 <= n => part # Npos /\ part <= whole
  <2> SUFFICES ASSUME whole # Npos, whole + k - 1 <= n PROVE part # Npos /\ part <= whole
    OBVIOUS
  <2>1. whole \in 1 .. n + 1 - k
    BY <1>1 DEF FirstAt
  <2> QED BY <1>1, <1>2, <1>3, <2>1 DEF FirstAt
<1>6. part # Npos => part = whole /\ whole \in Nat \ {0} /\ whole + k - 1 <= n
  BY <1>1, <1>4, <1>5 DEF FirstAt
<1>7. whole # Npos /\ whole + k - 1 <= n => part = whole
  BY <1>5, <1>6
<1> QED BY <1>6, <1>7 DEF whole, part

-----------------------------------------------------------------------------
(***************************************************************************)
(* What is_request_ready finds.                                            *)
(***************************************************************************)
LEMMA MinOfTwo ==
  ASSUME NEW a \in Nat, NEW b \in Nat
  PROVE  Min({a, b}) = IF a <= b THEN a ELSE b
<1>1. ASSUME NEW m \in {a, b}, \A x \in {a, b} : m <= x
      PROVE  m = IF a <= b THEN a ELSE b
  BY <1>1
<1>2. \E m \in {a, b} : \A x \in {a, b} : m <= x
  <2>1. CASE a <= b
    BY <2>1
  <2>2. CASE b <= a
    BY <2>2
  <2> QED BY <2>1, <2>2
<1> QED BY <1>1, <1>2 DEF Min

\* The first place from u on that holds no space.
ValueAt(str, space, u, n) == Min({i \in u .. n : str[i] # space} \cup {n + 1})

\* What is_request_ready looks at, for a text of n characters.
LEMMA ReadyMeans ==
  ASSUME NEW str, IsRequestReady(str), NEW n, n = Len(str),
         NEW name, name = Find(str, <<"Content-Length", ":">>, 1), name # Npos,
         NEW value, value = ValueAt(str, " ", name + 2, n),
         NEW end, end = Find(str, CRLF, value),
         NEW length, length = Stoull(Substr(str, value, end - value)), length # Unreadable
  PROVE  n - Find(str, CRLF \o CRLF, 1) - 3 >= length
BY DEF IsRequestReady, SkipSpaces, ValueAt

LEMMA FourPlaces ==
  ASSUME NEW S, NEW text \in Seq(S), NEW m \in Nat \ {0}, m + 3 <= Len(text)
  PROVE  /\ SubSeq(text, m, m + 3)[1] = text[m] /\ SubSeq(text, m, m + 3)[2] = text[m + 1]
         /\ SubSeq(text, m, m + 3)[3] = text[m + 2] /\ SubSeq(text, m, m + 3)[4] = text[m + 3]
         /\ SubSeq(text, m + 2, m + 3) = <<text[m + 2], text[m + 3]>>
<1>0. Len(text) \in Nat
  OBVIOUS
<1>1. \A i \in 1 .. 4 : SubSeq(text, m, m + 3)[i] = text[m + i - 1]
  <2>1. /\ m \in 1 .. Len(text) + 1 /\ m + 3 \in m - 1 .. Len(text)
        /\ m + 3 - m + 1 = 4
    BY <1>0
  <2>2. \A i \in 1 .. m + 3 - m + 1 : SubSeq(text, m, m + 3)[i] = text[m + i - 1]
    BY <2>1, SubSeqProperties
  <2> QED BY <2>1, <2>2
<1>2. m + 1 - 1 = m /\ m + 2 - 1 = m + 1 /\ m + 3 - 1 = m + 2 /\ m + 4 - 1 = m + 3
  OBVIOUS
<1>3. /\ SubSeq(text, m, m + 3)[1] = text[m] /\ SubSeq(text, m, m + 3)[2] = text[m + 1]
      /\ SubSeq(text, m, m + 3)[3] = text[m + 2] /\ SubSeq(text, m, m + 3)[4] = text[m + 3]
  <2>1. 1 \in 1 .. 4 /\ 2 \in 1 .. 4 /\ 3 \in 1 .. 4 /\ 4 \in 1 .. 4
    OBVIOUS
  <2> QED BY <1>1, <1>2, <2>1, Zenon
<1>4. /\ SubSeq(text, m + 2, m + 3) \in Seq(S) /\ Len(SubSeq(text, m + 2, m + 3)) = 2
      /\ SubSeq(text, m + 2, m + 3)[1] = text[m + 2]
      /\ SubSeq(text, m + 2, m + 3)[2] = text[m + 3]
  <2>1. /\ m + 2 \in 1 .. Len(text) + 1 /\ m + 3 \in (m + 2) - 1 .. Len(text)
        /\ (m + 3) - (m + 2) + 1 = 2
    BY <1>0
  <2>2. /\ SubSeq(text, m + 2, m + 3) \in Seq(S)
        /\ Len(SubSeq(text, m + 2, m + 3)) = (m + 3) - (m + 2) + 1
        /\ \A i \in 1 .. (m + 3) - (m + 2) + 1 :
             SubSeq(text, m + 2, m + 3)[i] = text[(m + 2) + i - 1]
    BY <2>1, SubSeqProperties
  <2>3. (m + 2) + 1 - 1 = m + 2 /\ (m + 2) + 2 - 1 = m + 3 /\ 1 \in 1 .. 2 /\ 2 \in 1 .. 2
    OBVIOUS
  <2> QED BY <2>1, <2>2, <2>3
<1>5. text[m + 2] \in S /\ text[m + 3] \in S
  <2>1. m + 2 \in 1 .. Len(text) /\ m + 3 \in 1 .. Len(text)
    BY <1>0
  <2> QED BY <2>1
<1>6. <<text[m + 2], text[m + 3]>> \in Seq(S) /\ Len(<<text[m + 2], text[m + 3]>>) = 2
  BY <1>5, ShortTexts
<1>7. \A i \in 1 .. 2 : SubSeq(text, m + 2, m + 3)[i] = <<text[m + 2], text[m + 3]>>[i]
  BY <1>4
<1>8. SubSeq(text, m + 2, m + 3) = <<text[m + 2], text[m + 3]>>
  BY <1>4, <1>6, <1>7, SeqEqual
<1> QED BY <1>3, <1>8, Zenon

LEMMA TwoPlaces ==
  ASSUME NEW S, NEW s \in Seq(S), NEW i \in Nat \ {0}, i + 1 <= Len(s)
  PROVE  SubSeq(s, i, i + 2 - 1) = <<s[i], s[i + 1]>>
<1>1. i \in 1 .. Len(s) /\ i + 1 \in 1 .. Len(s) /\ i + 2 - 1 = i + 1
  OBVIOUS
<1>2. s[i] \in S /\ s[i + 1] \in S
  BY <1>1
<1>3. SubSeq(s, i, i + 1) \in Seq(S) /\ Len(SubSeq(s, i, i + 1)) = 2
      /\ SubSeq(s, i, i + 1)[1] = s[i] /\ SubSeq(s, i, i + 1)[2] = s[i + 1]
  BY <1>1
<1>4. \A k \in 1 .. 2 : SubSeq(s, i, i + 1)[k] = <<s[i], s[i + 1]>>[k]
  BY <1>3
<1>5. <<s[i], s[i + 1]>> \in Seq(S) /\ Len(<<s[i], s[i + 1]>>) = 2
  BY <1>2, ShortTexts
<1>6. SubSeq(s, i, i + 1) = <<s[i], s[i + 1]>>
  BY <1>3, <1>4, <1>5, SeqEqual
<1> QED BY <1>1, <1>6

Holds(T, text, m, a, b, c) ==
  /\ text \in Seq(T) /\ m \in Nat \ {0} /\ m + 2 <= Len(text)
  /\ SubSeq(text, m, m + 2) = <<a, b, c>>

LEMMA FieldEnds ==
  ASSUME NEW T, NEW text, NEW m, NEW a, NEW b, NEW c, Holds(T, text, m, a, b, c)
  PROVE  text[m] = a /\ SubSeq(text, m + 1, m + 2) = <<b, c>>
<1>0. /\ text \in Seq(T) /\ m \in Nat \ {0} /\ m + 2 <= Len(text)
      /\ SubSeq(text, m, m + 2) = <<a, b, c>>
  BY Zenon DEF Holds
<1> USE <1>0
<1>1. /\ SubSeq(text, m, m + 2)[1] = text[m] /\ SubSeq(text, m, m + 2)[2] = text[m + 1]
      /\ SubSeq(text, m, m + 2)[3] = text[m + 2]
  OBVIOUS
<1>2. <<a, b, c>>[1] = a /\ <<a, b, c>>[2] = b /\ <<a, b, c>>[3] = c
  OBVIOUS
<1>3. SubSeq(text, m + 1, (m + 1) + 2 - 1) = <<text[m + 1], text[(m + 1) + 1]>>
  <2>1. m + 1 \in Nat \ {0} /\ (m + 1) + 1 <= Len(text)
    OBVIOUS
  <2> QED BY <2>1, TwoPlaces, Zenon
<1>4. (m + 1) + 2 - 1 = m + 2 /\ (m + 1) + 1 = m + 2
  OBVIOUS
<1> QED BY <1>1, <1>2, <1>3, <1>4, Zenon

LEMMA Separators ==
  /\ Len(CRLF) = 2 /\ Len(CRLF \o CRLF) = 4 /\ Len(<<"Content-Length", ":">>) = 2
  /\ CRLF[1] = "CR"
<1>1. CRLF \in Seq({"CR", "LF"})
  BY ShortTexts DEF CRLF
<1>2. Len(CRLF) = 2 /\ CRLF[1] = "CR"
  BY DEF CRLF
<1>3. Len(CRLF \o CRLF) = 4
  <2>1. \A s \in Seq({"CR", "LF"}) : Len(s \o s) = Len(s) + Len(s)
    OBVIOUS
  <2>2. Len(CRLF \o CRLF) = Len(CRLF) + Len(CRLF)
    BY <1>1, <2>1
  <2>3. Len(CRLF) = 2
    BY <1>2
  <2> QED BY <2>2, <2>3
<1>4. Len(<<"Content-Length", ":">>) = 2
  OBVIOUS
<1> QED BY <1>2, <1>3, <1>4

\* The number that stands between the spaces behind the colon and the next CR LF:
\* v is its place, in a text and in a prefix of it that holds the place.
ValueInPrefix(T, text, len, str, n, space, u, v, head) ==
  /\ text \in Seq(T) /\ len \in Nat /\ len = Len(text)
  /\ n \in 0 .. len /\ str = SubSeq(text, 1, n)
  /\ u \in Nat \ {0} /\ v = ValueAt(text, space, u, len)
  /\ head \in Nat /\ v + 2 <= head /\ head <= n

LEMMA SpacesEnd ==
  ASSUME NEW T, NEW text, NEW len, NEW str, NEW n, NEW space, NEW u, NEW v, NEW head,
         ValueInPrefix(T, text, len, str, n, space, u, v, head)
  PROVE  /\ v \in Nat \ {0} /\ u <= v /\ ValueAt(str, space, u, n) = v
         /\ v + 2 <= n /\ v \in 1 .. n /\ v + 2 \in 1 .. n /\ v <= v + 2
<1>0. /\ text \in Seq(T) /\ len \in Nat /\ len = Len(text)
      /\ n \in 0 .. len /\ str = SubSeq(text, 1, n)
      /\ u \in Nat \ {0} /\ v = ValueAt(text, space, u, len)
      /\ head \in Nat /\ v + 2 <= head /\ head <= n
  BY Zenon DEF ValueInPrefix
<1> USE <1>0
<1>9. \A i \in 1 .. n : str[i] = text[i]
  BY StartReads, Zenon
<1> DEFINE Whole == {i \in u .. len : text[i] # space} \cup {len + 1}
           Short == {i \in u .. n : str[i] # space} \cup {n + 1}
<1>1. Whole \in SUBSET Nat /\ Whole # {} /\ Short \in SUBSET Nat /\ Short # {}
  OBVIOUS
<1>2. v \in Whole /\ \A i \in Whole : v <= i
  <2>1. Min(Whole) = v
    BY Zenon DEF ValueAt
  <2>2. Min(Whole) \in Whole /\ \A i \in Whole : Min(Whole) <= i
    <3> HIDE DEF Whole
    <3> QED BY <1>1, LeastIndex, Zenon
  <2> HIDE DEF Whole
  <2> QED BY <2>1, <2>2, Zenon
<1>3. v \in u .. len /\ text[v] # space /\ v + 2 <= n
  <2>1. v \in u .. len \/ v = len + 1
    BY <1>2
  <2>2. v \in u .. len /\ v + 2 <= n
    BY <2>1
  <2>3. v # len + 1
    BY <2>2
  <2> QED BY <1>2, <2>2, <2>3
<1>4. v \in Short
  BY <1>3, <1>9
<1>5. ASSUME NEW i \in Short PROVE v <= i
  <2>1. i \in Whole \/ i = n + 1
    BY <1>9
  <2> QED BY <1>2, <1>3, <2>1
<1>6. Min(Short) \in Short /\ \A i \in Short : Min(Short) <= i
  <2> HIDE DEF Short
  <2> QED BY <1>1, LeastIndex, Zenon
<1>7. Min(Short) = v
  <2> PICK m : m = Min(Short)
    OBVIOUS
  <2>1. m \in Nat /\ v \in Nat
    BY <1>1, <1>3, <1>6
  <2>2. m <= v /\ v <= m
    <3> HIDE DEF Short
    <3> QED BY <1>4, <1>5, <1>6, Zenon
  <2>3. \A i, j \in Nat : i <= j /\ j <= i => i = j
    OBVIOUS
  <2>4. m = v
    BY <2>1, <2>2, <2>3, Zenon
  <2> QED BY <2>4, Zenon
<1>8. ValueAt(str, space, u, n) = v
  BY <1>7, Zenon DEF ValueAt
<1> QED BY <1>3, <1>8

LEMMA NextCrlf ==
  ASSUME NEW S, NEW str \in Seq(S), NEW n \in Nat, Len(str) = n,
         NEW v \in Nat \ {0}, v + 2 <= n, str[v] # "CR", SubSeq(str, v + 1, v + 2) = CRLF
  PROVE  Find(str, CRLF, v) = v + 1
<1> DEFINE end == Find(str, CRLF, v)
<1>1. FirstAt(str, CRLF, v, n, 2, end)
  BY Separators, FindFinds
<1> HIDE DEF end
<1>2. v + 1 \in v .. n + 1 - 2 /\ (v + 1) + 2 - 1 = v + 2
  OBVIOUS
<1>3. end # Npos /\ end <= v + 1
  BY <1>1, <1>2 DEF FirstAt
<1>4. end \in v .. n + 1 - 2 /\ SubSeq(str, end, end + 2 - 1) = CRLF
  BY <1>1, <1>3 DEF FirstAt
<1>5. end # v
  <2> SUFFICES ASSUME end = v PROVE FALSE
    OBVIOUS
  <2>1. end + 2 - 1 = v + 1
    OBVIOUS
  <2>2. SubSeq(str, v, v + 1) = CRLF
    BY <1>4, <2>1
  <2>3. SubSeq(str, v, v + 1)[1] = str[v]
    OBVIOUS
  <2> QED BY <2>2, <2>3, Separators
<1>6. end = v + 1
  BY <1>3, <1>4, <1>5
<1> QED BY <1>6 DEF end

LEMMA OneWord ==
  ASSUME NEW S, NEW str \in Seq(S), NEW n \in Nat, Len(str) = n,
         NEW v \in Nat \ {0}, v + 2 <= n
  PROVE  Substr(str, v, (v + 1) - v) = <<str[v]>>
<1>1. Min({n, v}) = v
  BY MinOfTwo
<1>2. Substr(str, v, (v + 1) - v) = SubSeq(str, v, v)
  <2>1. v + ((v + 1) - v) - 1 = v
    OBVIOUS
  <2> QED BY <1>1, <2>1 DEF Substr
<1>3. SubSeq(str, v, v) = <<str[v]>>
  <2>1. str[v] \in S /\ v \in 1 .. n
    OBVIOUS
  <2>2. /\ SubSeq(str, v, v) \in Seq(S) /\ Len(SubSeq(str, v, v)) = 1
        /\ SubSeq(str, v, v)[1] = str[v]
    BY <2>1
  <2>3. <<str[v]>> \in Seq(S) /\ Len(<<str[v]>>) = 1 /\ <<str[v]>>[1] = str[v]
    BY <2>1, ShortTexts
  <2>4. \A i \in 1 .. 1 : SubSeq(str, v, v)[i] = <<str[v]>>[i]
    BY <2>2, <2>3
  <2> QED BY <2>2, <2>3, <2>4, SeqEqual
<1> QED BY <1>2, <1>3

LEMMA LengthIsRead ==
  ASSUME NEW word \in DOMAIN Numerals, Numerals[word] < SizeMod
  PROVE  Stoull(<<word>>) = Numerals[word]
<1>1. <<word>> # <<>> /\ <<word>>[1] = word /\ word # "-"
  BY MessageAssumption
<1> QED BY <1>1 DEF Stoull

LEMMA NumbersAreNumbers ==
  /\ \A m \in Nat \ {0} : m # Npos
  /\ \A m \in Nat : m # Unreadable
BY DEF Npos, Unreadable

\* Behind a name of two characters and some spaces stand a word and a line end: v is
\* the place of the word.
WordAt(str, space, n, name, word, crlf, v) ==
  /\ v \in Nat \ {0} /\ v + 2 <= n
  /\ ValueAt(str, space, name + 2, n) = v
  /\ str[v] = word /\ SubSeq(str, v + 1, v + 2) = crlf

\* Where a name is followed by some spaces, one word and CR LF, the word is the
\* declared length.
LEMMA LengthIsDeclared ==
  ASSUME NEW S, NEW str \in Seq(S), NEW n \in Nat, Len(str) = n, IsRequestReady(str),
         NEW name \in Nat \ {0},
         Find(str, <<"Content-Length", ":">>, 1) = name,
         NEW word \in DOMAIN Numerals, Numerals[word] < SizeMod,
         NEW v, WordAt(str, " ", n, name, word, CRLF, v)
  PROVE  n - Find(str, CRLF \o CRLF, 1) - 3 >= Numerals[word]
<1>1. word # "CR"
  BY MessageAssumption
<1>2. ValueAt(str, " ", name + 2, n) = v
  BY Zenon DEF WordAt
<1>3. Find(str, CRLF, v) = v + 1
  <2>1. v \in Nat \ {0} /\ v + 2 <= n /\ str[v] # "CR" /\ SubSeq(str, v + 1, v + 2) = CRLF
    BY <1>1, Zenon DEF WordAt
  <2> QED BY <2>1, NextCrlf
<1>4. Stoull(Substr(str, v, (v + 1) - v)) = Numerals[word]
  <2>1. Substr(str, v, (v + 1) - v) = <<str[v]>>
    <3>1. v \in Nat \ {0} /\ v + 2 <= n
      BY Zenon DEF WordAt
    <3> QED BY <3>1, OneWord
  <2>2. str[v] = word
    BY Zenon DEF WordAt
  <2>3. Stoull(<<word>>) = Numerals[word]
    BY LengthIsRead
  <2> QED BY <2>1, <2>2, <2>3, Zenon
<1>5. name # Npos /\ Numerals[word] # Unreadable
  <2>1. Numerals[word] \in Nat
    BY MessageAssumption, Zenon
  <2> QED BY <2>1, NumbersAreNumbers, Zenon
<1> QED BY <1>2, <1>3, <1>4, <1>5, ReadyMeans, Zenon

LEMMA FoundInPrefix ==
  ASSUME NEW S, NEW s \in Seq(S), NEW n \in 0 .. Len(s),
         NEW needle, NEW k \in Nat \ {0}, Len(needle) = k,
         NEW at, at = Find(s, needle, 1), at # Npos, at + k - 1 <= n
  PROVE  Find(SubSeq(s, 1, n), needle, 1) = at
BY FindInPrefix, Zenon

\* str is what is there of a text that declares its length in its head.
DeclaresLength(text, len, head, name, v, word, n, str) ==
  /\ text \in Seq(STRING) /\ len \in Nat /\ len = Len(text)
  /\ name = Find(text, <<"Content-Length", ":">>, 1) /\ name # Npos
  /\ v = SkipSpaces(text, name + 2) /\ SubSeq(text, v, v + 2) = <<word, "CR", "LF">>
  /\ head \in Nat /\ v + 2 <= head
  /\ n \in 0 .. len /\ head <= n /\ str = SubSeq(text, 1, n)

\* The name and the number are found in it.
FindsLength(str, n, name, v, word) ==
  /\ name \in Nat \ {0} /\ Find(str, <<"Content-Length", ":">>, 1) = name
  /\ WordAt(str, " ", n, name, word, CRLF, v)

LEMMA LengthInPrefix ==
  ASSUME NEW text, NEW len, NEW head, NEW name, NEW v, NEW word, NEW n, NEW str,
         DeclaresLength(text, len, head, name, v, word, n, str)
  PROVE  FindsLength(str, n, name, v, word)
<1>1. /\ text \in Seq(STRING) /\ len \in Nat /\ len = Len(text)
      /\ name = Find(text, <<"Content-Length", ":">>, 1) /\ name # Npos
      /\ head \in Nat /\ v + 2 <= head /\ head <= n
      /\ n \in 0 .. len /\ n \in 0 .. Len(text) /\ str = SubSeq(text, 1, n)
  BY Zenon DEF DeclaresLength
<1>2. Len(<<"Content-Length", ":">>) = 2 /\ 2 \in Nat \ {0} /\ 2 \in Nat /\ 1 \in Nat \ {0}
  BY Separators
<1>3. name \in Nat \ {0} /\ name \in Nat /\ name + 2 \in Nat \ {0}
  <2>1. FirstAt(text, <<"Content-Length", ":">>, 1, len, 2, name)
    BY <1>1, <1>2, FindFinds
  <2>2. name \in 1 .. len + 1 - 2
    BY <1>1, <2>1, Zenon DEF FirstAt
  <2> QED BY <2>2
<1>4. PICK space, u, cr, lf : space = " " /\ u = name + 2 /\ cr = "CR" /\ lf = "LF"
  OBVIOUS
<1>5. /\ v \in Nat \ {0} /\ u <= v /\ ValueAt(str, space, u, n) = v
      /\ v + 2 <= n /\ v \in 1 .. n /\ v + 2 \in 1 .. n /\ v <= v + 2
  <2>1. v = ValueAt(text, space, u, len)
    BY <1>1, <1>4, Zenon DEF DeclaresLength, SkipSpaces, ValueAt
  <2>2. ValueInPrefix(STRING, text, len, str, n, space, u, v, head)
    BY <1>1, <1>3, <1>4, <2>1, Zenon DEF ValueInPrefix
  <2> QED BY <2>2, SpacesEnd, Zenon
<1>10. name + 2 - 1 <= n
  <2>1. u \in Nat \ {0} /\ v \in Nat \ {0} /\ u <= v /\ v + 2 <= n
    BY <1>3, <1>4, <1>5, Zenon
  <2>2. n \in Nat
    BY <1>1
  <2>3. \A a \in Nat : a + 2 <= v => a + 2 - 1 <= n
    BY <2>1, <2>2
  <2>4. name \in Nat /\ name + 2 <= v
    BY <1>3, <1>4, <1>5, Zenon
  <2> QED BY <2>3, <2>4
<1>6. Find(str, <<"Content-Length", ":">>, 1) = name
  <2> PICK needle : needle = <<"Content-Length", ":">>
    OBVIOUS
  <2>2. Len(needle) = 2 /\ name = Find(text, needle, 1) /\ name # Npos
    BY <1>1, <1>2, Zenon
  <2>3. Find(SubSeq(text, 1, n), needle, 1) = name
    BY <1>1, <1>2, <1>10, <2>2, FoundInPrefix, ZenonT(40)
  <2> QED BY <1>1, <2>3, Zenon
<1>7. str[v] = word /\ SubSeq(str, v + 1, v + 2) = <<cr, lf>>
  <2>1. /\ str \in Seq(STRING) /\ Len(str) = n
        /\ \A i, j \in 1 .. n : i <= j => SubSeq(str, i, j) = SubSeq(text, i, j)
    BY <1>1, PrefixOf, Zenon
  <2>2. SubSeq(str, v, v + 2) = SubSeq(text, v, v + 2)
    BY <1>5, <2>1, Zenon
  <2>3. SubSeq(str, v, v + 2) = <<word, cr, lf>>
    BY <1>4, <2>2, Zenon DEF DeclaresLength
  <2>4. Holds(STRING, str, v, word, cr, lf)
    BY <1>5, <2>1, <2>3, Zenon DEF Holds
  <2> QED BY <2>4, FieldEnds
<1>8. SubSeq(str, v + 1, v + 2) = CRLF
  BY <1>4, <1>7, Zenon DEF CRLF
<1>9. ValueAt(str, " ", name + 2, n) = v
  BY <1>4, <1>5, Zenon
<1> QED BY <1>3, <1>5, <1>6, <1>7, <1>8, <1>9, Zenon DEF WordAt, FindsLength

LEMMA BehindTheHead ==
  ASSUME NEW n \in Nat, NEW head \in Nat, NEW body \in Nat, n - (head - 3) - 3 >= body
  PROVE  n >= head + body
OBVIOUS

\* Whatever is_request_ready takes for a request holds a whole one.
LEMMA ReadyIsWhole ==
  ASSUME NEW r \in AllRequests, WellFormed(r), NEW n \in ReadyAt[r]
  PROVE  n >= Len(RequestText(r))
<1> PICK text \in Seq(STRING), whole \in Nat, body \in Nat, head \in Nat, len \in Nat :
      /\ text = StreamOf(r) /\ whole = Len(RequestText(r)) /\ body = Len(r.body)
      /\ whole = head + body /\ head = Len(RequestText(r)) - Len(r.body)
      /\ len = Len(text)
  <2>1. /\ StreamOf(r) \in Seq(STRING) /\ Len(RequestText(r)) \in Nat /\ Len(r.body) \in Nat
        /\ Len(r.body) <= Len(RequestText(r)) /\ Len(StreamOf(r)) \in Nat
    BY StreamsAreText
  <2>2. Len(RequestText(r)) - Len(r.body) \in Nat
    BY <2>1
  <2>3. Len(RequestText(r)) = (Len(RequestText(r)) - Len(r.body)) + Len(r.body)
    BY <2>1
  <2> QED BY <2>1, <2>2, <2>3
<1>1. n \in 0 .. Len(text) /\ n \in 0 .. len /\ IsRequestReady(SubSeq(text, 1, n))
  BY DEF ReadyAt
<1> PICK str \in Seq(STRING) :
      /\ str = SubSeq(text, 1, n) /\ Len(str) = n
      /\ \A i, j \in 1 .. n : i <= j => SubSeq(str, i, j) = SubSeq(text, i, j)
  <2>1. /\ SubSeq(text, 1, n) \in Seq(STRING) /\ Len(SubSeq(text, 1, n)) = n
        /\ \A i, j \in 1 .. n : i <= j => SubSeq(SubSeq(text, 1, n), i, j) = SubSeq(text, i, j)
    BY <1>1, PrefixOf
  <2> QED BY <2>1, Zenon
<1> PICK headersEnd : headersEnd = Find(str, CRLF \o CRLF, 1)
  OBVIOUS
\* The empty line that was found is the one behind the head.
<1>2. headersEnd = head - 3 /\ head <= n /\ n \in Nat
  <2>1. Find(text, CRLF \o CRLF, 1) = head - 3
    BY Zenon DEF WellFormed
  <2>2. headersEnd # Npos
    BY <1>1 DEF IsRequestReady
  <2>3. Len(CRLF \o CRLF) = 4 /\ 4 \in Nat \ {0}
    BY Separators
  <2>4. headersEnd = Find(text, CRLF \o CRLF, 1) /\ Find(text, CRLF \o CRLF, 1) + 4 - 1 <= n
    BY <1>1, <2>2, <2>3, FindInPrefix
  <2>5. head - 3 + 4 - 1 <= n
    BY <2>1, <2>4
  <2> QED BY <1>1, <2>1, <2>4, <2>5
<1>3. CASE r.body = <<>>
  <2>1. body = 0
    BY <1>3
  <2> QED BY <1>2, <2>1
<1>4. CASE r.body # <<>>
  <2>0. PICK name, v : name = Find(text, <<"Content-Length", ":">>, 1)
                       /\ v = SkipSpaces(text, name + 2)
    OBVIOUS
  <2>1. PICK word \in DOMAIN Numerals :
          /\ name # Npos /\ v + 2 <= head
          /\ SubSeq(text, v, v + 2) = <<word, "CR", "LF">>
          /\ Numerals[word] = body
          /\ Numerals[word] < SizeMod
    BY <1>4, <2>0, Zenon DEF WellFormed
  \* The name is found in the prefix, too, and so is its value.
  <2>2. DeclaresLength(text, len, head, name, v, word, n, str)
    BY <1>1, <1>2, <2>0, <2>1, Zenon DEF DeclaresLength
  <2>3. FindsLength(str, n, name, v, word)
    BY <2>2, LengthInPrefix, Zenon
  <2>8. n - headersEnd - 3 >= Numerals[word]
    <3>1. IsRequestReady(str) /\ Numerals[word] < SizeMod
      BY <1>1, <2>1, Zenon
    <3> QED BY <1>2, <2>3, <3>1, LengthIsDeclared, Zenon DEF FindsLength
  <2>9. n - (head - 3) - 3 >= body
    <3>1. Numerals[word] = body
      BY <2>1
    <3> QED BY <1>2, <2>8, <3>1, Zenon
  <2>10. n >= head + body
    BY <1>2, <2>9, BehindTheHead, Zenon
  <2> QED BY <2>10, Zenon
<1> QED BY <1>3, <1>4, Zenon

-----------------------------------------------------------------------------
(***************************************************************************)
(* The lines std::getline returns.                                         *)
(***************************************************************************)
\* raw consists of m lines that end at at[1], at[2] and so on, the last one without
\* its CR LF.
Ruled(raw, len, m, at) ==
  /\ len = at[m] - 2
  /\ at \in [0 .. m -> Nat] /\ at[0] = 0
  /\ \A j, k \in 0 .. m : j <= k => at[j] <= at[k]
  /\ \A k \in 1 .. m : at[k - 1] + 4 <= at[k]
  /\ \A k \in 1 .. m : \A p \in 1 .. len :
       at[k - 1] < p /\ p <= at[k] => (raw[p] = "LF" <=> p = at[k])

\* Where the k-th line ends, without its LF or its CR LF.
LineEnd(m, at, k) == IF k = m THEN at[k] - 2 ELSE at[k] - 1

\* What getline returns: a longest part without LF.
IsLine(raw, len, a, b) ==
  /\ a <= b
  /\ \A i \in a .. b : raw[i] # "LF"
  /\ a = 1 \/ raw[a - 1] = "LF"
  /\ b = len \/ raw[b + 1] = "LF"

LEMMA LineIsRuled ==
  ASSUME NEW raw, NEW len \in Nat, NEW m \in Nat \ {0}, NEW at, Ruled(raw, len, m, at),
         NEW a \in 1 .. len, NEW b \in 1 .. len, IsLine(raw, len, a, b)
  PROVE  \E k \in 1 .. m : a = at[k - 1] + 1 /\ b = LineEnd(m, at, k)
<1>0. /\ at \in [0 .. m -> Nat] /\ at[0] = 0 /\ at[m] = len + 2 /\ m \in Nat
  BY DEF Ruled
<1>1. PICK k \in 1 .. m : at[k - 1] < a /\ a <= at[k]
  <2>1. a \in 1 .. at[m]
    BY <1>0
  <2> QED BY <1>0, <2>1, PieceOf
<1>2. at[k - 1] \in Nat /\ at[k] \in Nat /\ at[k] <= len + 2 /\ at[k - 1] + 4 <= at[k]
  <2>1. k - 1 \in 0 .. m /\ k \in 0 .. m /\ m \in 0 .. m /\ k <= m
    OBVIOUS
  <2> QED BY <1>0, <2>1 DEF Ruled
<1>3. \A p \in 1 .. len : at[k - 1] < p /\ p <= at[k] => (raw[p] = "LF" <=> p = at[k])
  BY Zenon DEF Ruled
<1>4. a = at[k - 1] + 1
  <2> SUFFICES ASSUME a # at[k - 1] + 1 PROVE FALSE
    OBVIOUS
  <2>1. a - 1 \in 1 .. len /\ at[k - 1] < a - 1 /\ a - 1 <= at[k] /\ a - 1 # at[k] /\ a # 1
    BY <1>1, <1>2
  <2> QED BY <1>3, <2>1 DEF IsLine
<1>5. b < at[k]
  <2> SUFFICES ASSUME at[k] <= b PROVE FALSE
    BY <1>2
  <2>1. at[k] \in 1 .. len /\ at[k] \in a .. b
    BY <1>1, <1>2
  <2> QED BY <1>2, <1>3, <2>1 DEF IsLine
<1>6. b # at[k] - 1 => b = len
  <2> SUFFICES ASSUME b # at[k] - 1, b # len PROVE FALSE
    OBVIOUS
  <2>1. b + 1 \in 1 .. len /\ at[k - 1] < b + 1 /\ b + 1 <= at[k] /\ b + 1 # at[k]
    BY <1>1, <1>2, <1>5 DEF IsLine
  <2> QED BY <1>3, <2>1 DEF IsLine
<1>7. k # m => at[k] <= len - 2
  <2> SUFFICES ASSUME k # m PROVE at[k] <= len - 2
    OBVIOUS
  <2>1. k + 1 \in 1 .. m /\ k + 1 \in 0 .. m /\ m \in 0 .. m /\ k + 1 <= m /\ (k + 1) - 1 = k
    OBVIOUS
  <2>2. at[k] + 4 <= at[k + 1] /\ at[k + 1] <= at[m] /\ at[k + 1] \in Nat
    BY <1>0, <2>1 DEF Ruled
  <2> QED BY <1>0, <1>2, <2>2
<1>8. b = LineEnd(m, at, k)
  <2>1. CASE k = m
    BY <1>0, <1>5, <1>6, <2>1 DEF LineEnd
  <2>2. CASE k # m
    BY <1>2, <1>5, <1>6, <1>7, <2>2 DEF LineEnd
  <2> QED BY <2>1, <2>2
<1> QED BY <1>4, <1>8

LEMMA RuledIsLine ==
  ASSUME NEW raw, NEW len \in Nat, NEW m \in Nat \ {0}, NEW at, Ruled(raw, len, m, at),
         NEW k \in 1 .. m
  PROVE  /\ at[k - 1] + 1 \in 1 .. len /\ LineEnd(m, at, k) \in 1 .. len
         /\ IsLine(raw, len, at[k - 1] + 1, LineEnd(m, at, k))
<1>0. at \in [0 .. m -> Nat] /\ at[0] = 0 /\ at[m] = len + 2 /\ m \in Nat
  BY DEF Ruled
<1>2. at[k - 1] \in Nat /\ at[k] \in Nat /\ at[k] <= len + 2 /\ at[k - 1] + 4 <= at[k]
  <2>1. k - 1 \in 0 .. m /\ k \in 0 .. m /\ m \in 0 .. m /\ k <= m
    OBVIOUS
  <2> QED BY <1>0, <2>1 DEF Ruled
<1>3. \A p \in 1 .. len : at[k - 1] < p /\ p <= at[k] => (raw[p] = "LF" <=> p = at[k])
  BY Zenon DEF Ruled
<1>4. k # m => at[k] <= len - 2
  <2> SUFFICES ASSUME k # m PROVE at[k] <= len - 2
    OBVIOUS
  <2>1. k + 1 \in 1 .. m /\ k + 1 \in 0 .. m /\ m \in 0 .. m /\ k + 1 <= m /\ (k + 1) - 1 = k
    OBVIOUS
  <2>2. at[k] + 4 <= at[k + 1] /\ at[k + 1] <= at[m] /\ at[k + 1] \in Nat
    BY <1>0, <2>1 DEF Ruled
  <2> QED BY <1>0, <1>2, <2>2
<1>5. PICK a \in Nat, b \in Nat :
        /\ a = at[k - 1] + 1 /\ b = LineEnd(m, at, k)
        /\ a \in 1 .. len /\ b \in 1 .. len /\ a <= b /\ b < at[k]
        /\ k = m => b = len
        /\ k # m => b + 1 = at[k] /\ b + 1 \in 1 .. len
  <2>1. CASE k = m
    BY <1>0, <1>2, <2>1 DEF LineEnd
  <2>2. CASE k # m
    BY <1>2, <1>4, <2>2 DEF LineEnd
  <2> QED BY <2>1, <2>2
<1>6. \A i \in a .. b : raw[i] # "LF"
  <2> TAKE i \in a .. b
  <2>1. i \in 1 .. len /\ at[k - 1] < i /\ i <= at[k] /\ i # at[k]
    BY <1>2, <1>5
  <2> QED BY <1>3, <2>1
<1>7. a = 1 \/ raw[a - 1] = "LF"
  <2> SUFFICES ASSUME a # 1 PROVE raw[a - 1] = "LF"
    OBVIOUS
  <2>1. a - 1 = at[k - 1] /\ k # 1 /\ a - 1 \in 1 .. len
    BY <1>0, <1>2, <1>5
  <2>2. k - 1 \in 1 .. m /\ (k - 1) - 1 \in 0 .. m /\ at[(k - 1) - 1] + 4 <= at[k - 1]
    <3>1. k - 1 \in 1 .. m /\ (k - 1) - 1 \in 0 .. m
      BY <2>1
    <3> QED BY <3>1 DEF Ruled
  <2>3. at[(k - 1) - 1] < a - 1 /\ a - 1 <= at[k - 1]
    BY <1>0, <2>1, <2>2
  <2>4. raw[a - 1] = "LF" <=> a - 1 = at[k - 1]
    BY <2>1, <2>2, <2>3, Zenon DEF Ruled
  <2> QED BY <2>1, <2>4
<1>8. b = len \/ raw[b + 1] = "LF"
  <2> SUFFICES ASSUME b # len PROVE raw[b + 1] = "LF"
    OBVIOUS
  <2>1. b + 1 = at[k] /\ b + 1 \in 1 .. len
    BY <1>5
  <2>2. at[k - 1] < b + 1 /\ b + 1 <= at[k]
    BY <1>2, <2>1
  <2> QED BY <1>3, <2>1, <2>2
<1> QED BY <1>5, <1>6, <1>7, <1>8 DEF IsLine

\* The lines of a text of whole lines are those lines.
LEMMA LinesAreRuled ==
  ASSUME NEW T, NEW raw \in Seq(T), NEW len \in Nat, Len(raw) = len,
         NEW m \in Nat \ {0}, NEW at, Ruled(raw, len, m, at)
  PROVE  Lines(raw) = {<<at[k - 1] + 1, LineEnd(m, at, k)>> : k \in 1 .. m}
<1>0. DOMAIN raw = 1 .. len
  OBVIOUS
<1>1. Lines(raw) = {line \in (1 .. len) \X (1 .. len) : IsLine(raw, len, line[1], line[2])}
  BY <1>0 DEF Lines, IsLine
<1>2. ASSUME NEW line \in Lines(raw)
      PROVE  \E k \in 1 .. m : line = <<at[k - 1] + 1, LineEnd(m, at, k)>>
  <2>1. line \in (1 .. len) \X (1 .. len) /\ IsLine(raw, len, line[1], line[2])
    BY <1>1
  <2>2. PICK a \in 1 .. len, b \in 1 .. len : line = <<a, b>> /\ IsLine(raw, len, a, b)
    BY <2>1
  <2>3. PICK k \in 1 .. m : a = at[k - 1] + 1 /\ b = LineEnd(m, at, k)
    BY <2>2, LineIsRuled
  <2> QED BY <2>2, <2>3
<1>3. ASSUME NEW k \in 1 .. m
      PROVE  <<at[k - 1] + 1, LineEnd(m, at, k)>> \in Lines(raw)
  <2>1. PICK a \in 1 .. len, b \in 1 .. len :
          a = at[k - 1] + 1 /\ b = LineEnd(m, at, k) /\ IsLine(raw, len, a, b)
    BY RuledIsLine
  <2>2. <<a, b>> \in Lines(raw)
    BY <1>1, <2>1
  <2> QED BY <2>1, <2>2
<1> QED BY <1>2, <1>3

-----------------------------------------------------------------------------
(***************************************************************************)
(* A header line, and what parseFromRaw reads from it.                     *)
(***************************************************************************)
\* A line of a header: name, separator (the character sp stands for the space),
\* value, CR LF.
HeaderPiece(line, sp, name, n, value, v) ==
  /\ Len(line) = n + v + 4
  /\ \A i \in 1 .. n : line[i] = name[i]
  /\ line[n + 1] = ":" /\ line[n + 2] = sp
  /\ \A i \in 1 .. v : line[n + 2 + i] = value[i]
  /\ line[n + v + 3] = "CR" /\ line[n + v + 4] = "LF"

\* A line of a name, a separator, a value and CR LF.
LinePiece(line, name, n, colon, c, value, v) ==
  /\ Len(line) = n + c + v + 2
  /\ \A i \in 1 .. n : line[i] = name[i]
  /\ \A i \in 1 .. c : line[n + i] = colon[i]
  /\ \A i \in 1 .. v : line[n + c + i] = value[i]
  /\ line[n + c + v + 1] = "CR" /\ line[n + c + v + 2] = "LF"

LEMMA LineReads ==
  ASSUME NEW colon \in Seq(STRING), NEW c \in Nat, c = Len(colon),
         NEW name \in Seq(STRING), NEW value \in Seq(STRING),
         NEW n \in Nat, NEW v \in Nat, n = Len(name), v = Len(value),
         NEW line, line = name \o colon \o value \o CRLF
  PROVE  line \in Seq(STRING) /\ LinePiece(line, name, n, colon, c, value, v)
<1>1. CRLF \in Seq(STRING) /\ Len(CRLF) = 2 /\ CRLF[1] = "CR" /\ CRLF[2] = "LF"
  <2>1. "CR" \in STRING /\ "LF" \in STRING
    BY RequestStreamAssumption, Zenon
  <2>2. CRLF \in Seq(STRING)
    BY <2>1, ShortTexts DEF CRLF
  <2>3. Len(CRLF) = 2 /\ CRLF[1] = "CR" /\ CRLF[2] = "LF"
    BY DEF CRLF
  <2> QED BY <2>2, <2>3
<1> PICK s, t, u : s = name \o colon /\ t = s \o value /\ u = t \o CRLF
  OBVIOUS
<1>2. s \in Seq(STRING) /\ IsGlued(s, name, n, colon, c)
  BY Glue, Zenon
<1>3. t \in Seq(STRING) /\ IsGlued(t, s, n + c, value, v)
  <2>1. Len(s) = n + c /\ n + c \in Nat
    BY <1>2 DEF IsGlued
  <2> QED BY <1>2, <2>1, Glue
<1>4. u \in Seq(STRING) /\ IsGlued(u, t, n + c + v, CRLF, 2)
  <2>1. Len(t) = n + c + v /\ n + c + v \in Nat
    BY <1>3 DEF IsGlued
  <2>2. 2 = Len(CRLF) /\ 2 \in Nat
    BY <1>1
  <2> QED BY <1>1, <1>3, <2>1, <2>2, Glue, Zenon
<1>5. line = u
  BY Zenon
<1>6. Len(u) = n + c + v + 2 /\ u[n + c + v + 1] = "CR" /\ u[n + c + v + 2] = "LF"
  <2>1. 1 \in 1 .. 2 /\ 2 \in 1 .. 2
    OBVIOUS
  <2> QED BY <1>1, <1>4, <2>1 DEF IsGlued
<1>7. \A i \in 1 .. n + c : u[i] = s[i]
  <2>1. \A i \in 1 .. n + c : i \in 1 .. n + c + v
    OBVIOUS
  <2> QED BY <1>3, <1>4, <2>1, Zenon DEF IsGlued
<1>8. /\ \A i \in 1 .. n : u[i] = name[i]
      /\ \A i \in 1 .. c : u[n + i] = colon[i]
  <2>1. /\ \A i \in 1 .. n : i \in 1 .. n + c
        /\ \A i \in 1 .. c : n + i \in 1 .. n + c
    OBVIOUS
  <2> QED BY <1>2, <1>7, <2>1, ZenonT(40) DEF IsGlued
<1>9. \A i \in 1 .. v : u[n + c + i] = value[i]
  <2>1. \A i \in 1 .. v : n + c + i \in 1 .. n + c + v
    OBVIOUS
  <2> QED BY <1>3, <1>4, <2>1, ZenonT(40) DEF IsGlued
<1> QED BY <1>4, <1>5, <1>6, <1>8, <1>9, ZenonT(40) DEF LinePiece

LEMMA HeaderLineReads ==
  ASSUME NEW sp \in STRING, NEW colon, colon = <<":", sp>>,
         NEW name \in Seq(STRING), NEW value \in Seq(STRING),
         NEW n \in Nat, NEW v \in Nat, n = Len(name), v = Len(value),
         NEW line, line = name \o colon \o value \o CRLF
  PROVE  line \in Seq(STRING) /\ HeaderPiece(line, sp, name, n, value, v)
<1>1. colon \in Seq(STRING) /\ Len(colon) = 2 /\ colon[1] = ":" /\ colon[2] = sp
  <2>1. ":" \in STRING
    BY RequestStreamAssumption, Zenon
  <2>2. colon \in Seq(STRING)
    BY <2>1, ShortTexts
  <2> QED BY <2>2
<1>2. line \in Seq(STRING) /\ LinePiece(line, name, n, colon, 2, value, v)
  <2>1. 2 \in Nat /\ 2 = Len(colon)
    BY <1>1
  <2> QED BY <1>1, <2>1, LineReads, Zenon
<1>3. /\ n + 2 + v + 2 = n + v + 4 /\ n + 2 + v + 1 = n + v + 3
      /\ 1 \in 1 .. 2 /\ 2 \in 1 .. 2
  OBVIOUS
<1>4. line[n + 1] = ":" /\ line[n + 2] = sp
  BY <1>1, <1>2, <1>3, Zenon DEF LinePiece
<1> QED BY <1>2, <1>3, <1>4, Zenon DEF LinePiece, HeaderPiece

\* What a name and a value are made of.
NameIsPlain(name) == \A i \in DOMAIN name : name[i] \notin {":", "LF"}
ValueIsPlain(value) == \A i \in DOMAIN value : value[i] \notin {"CR", "LF"}

\* A line of a header, without its LF or its CR LF.
HeaderText(line, len, sp, name, n, value, v) ==
  /\ len = n + v + 2 \/ (len = n + v + 3 /\ line[n + v + 3] = "CR")
  /\ \A i \in 1 .. n : line[i] = name[i]
  /\ line[n + 1] = ":" /\ line[n + 2] = sp
  /\ \A i \in 1 .. v : line[n + 2 + i] = value[i]

\* sp is the space of ": ".
IsSeparator(colon, sp) == colon = <<":", sp>>

LEMMA SeparatorAt ==
  ASSUME NEW sp \in STRING, NEW colon, IsSeparator(colon, sp),
         NEW line \in Seq(STRING), NEW len \in Nat, Len(line) = len
  PROVE  \A i \in 1 .. len + 1 - 2 :
           SubSeq(line, i, i + 2 - 1) = colon <=> line[i] = ":" /\ line[i + 1] = sp
<1> TAKE i \in 1 .. len + 1 - 2
<1>1. SubSeq(line, i, i + 2 - 1) = <<line[i], line[i + 1]>>
  <2>1. i \in Nat \ {0} /\ i + 1 <= Len(line)
    OBVIOUS
  <2> QED BY <2>1, TwoPlaces, Zenon
<1> QED BY <1>1 DEF IsSeparator

\* A line of len words without ": ".
HasNoSeparator(line, len, sp) ==
  \A i \in 1 .. len + 1 - 2 : ~ (line[i] = ":" /\ line[i + 1] = sp)

LEMMA NothingSeparates ==
  ASSUME NEW sp \in STRING, NEW colon, IsSeparator(colon, sp),
         NEW line \in Seq(STRING), NEW len \in Nat, Len(line) = len
  PROVE  Find(line, colon, 1) = Npos <=> HasNoSeparator(line, len, sp)
<1> PICK at : at = Find(line, colon, 1)
  OBVIOUS
<1>1. FirstAt(line, colon, 1, len, 2, at)
  <2>1. Len(colon) = 2 /\ 2 \in Nat /\ 1 \in Nat \ {0}
    BY DEF IsSeparator
  <2> QED BY <2>1, FindFinds
<1>2. \A i \in 1 .. len + 1 - 2 :
        SubSeq(line, i, i + 2 - 1) = colon <=> line[i] = ":" /\ line[i + 1] = sp
  BY SeparatorAt
<1>3. at = Npos => HasNoSeparator(line, len, sp)
  BY <1>1, <1>2 DEF FirstAt, HasNoSeparator
<1>4. HasNoSeparator(line, len, sp) => at = Npos
  BY <1>1, <1>2 DEF FirstAt, HasNoSeparator
<1> QED BY <1>3, <1>4, Zenon

LEMMA HeaderIsCut ==
  ASSUME NEW sp \in STRING, NEW colon, IsSeparator(colon, sp),
         NEW line \in Seq(STRING), NEW len \in Nat, Len(line) = len,
         NEW name \in Seq(STRING), NEW n \in Nat, n = Len(name), NameIsPlain(name),
         NEW value, NEW v \in Nat,
         HeaderText(line, len, sp, name, n, value, v)
  PROVE  Find(line, colon, 1) = n + 1
<1> DEFINE at == Find(line, colon, 1)
<1>0. n + v + 2 <= len
  BY DEF HeaderText
<1>1. \A i \in 1 .. len + 1 - 2 :
        SubSeq(line, i, i + 2 - 1) = colon <=> line[i] = ":" /\ line[i + 1] = sp
  <2> HIDE DEF at
  <2> QED BY SeparatorAt
<1> USE DEF IsSeparator
<1>2. FirstAt(line, colon, 1, len, 2, at)
  <2>1. Len(colon) = 2 /\ 2 \in Nat /\ 1 \in Nat \ {0}
    OBVIOUS
  <2> QED BY <2>1, FindFinds
<1> HIDE DEF at
<1>3. n + 1 \in 1 .. len + 1 - 2 /\ line[n + 1] = ":" /\ line[(n + 1) + 1] = sp
  <2>1. (n + 1) + 1 = n + 2
    OBVIOUS
  <2> QED BY <1>0, <2>1 DEF HeaderText
<1>4. at # Npos /\ at <= n + 1
  BY <1>1, <1>2, <1>3 DEF FirstAt
<1>5. at \in 1 .. len + 1 - 2 /\ line[at] = ":"
  BY <1>1, <1>2, <1>4 DEF FirstAt
<1>6. \A i \in 1 .. n : line[i] # ":"
  <2>1. \A i \in 1 .. n : i \in DOMAIN name /\ line[i] = name[i]
    BY DEF HeaderText
  <2> QED BY <2>1 DEF NameIsPlain
<1>7. at = n + 1
  <2>1. at \notin 1 .. n
    BY <1>5, <1>6
  <2> QED BY <1>4, <1>5, <2>1
<1> QED BY <1>7 DEF at

LEMMA HeaderIsRead ==
  ASSUME NEW sp, NEW line \in Seq(STRING), NEW len \in Nat, Len(line) = len,
         NEW name \in Seq(STRING), NEW n \in Nat, n = Len(name),
         NEW value \in Seq(STRING), NEW v \in Nat, v = Len(value), ValueIsPlain(value),
         HeaderText(line, len, sp, name, n, value, v), Find(line, Colon, 1) = n + 1
  PROVE  KeyOf(line) = name /\ ValueOf(line) = value /\ line # <<"CR">>
<1>0. n + v + 2 <= len
  BY DEF HeaderText
<1>8. KeyOf(line) = name
  <2>1. KeyOf(line) = SubSeq(line, 1, n)
    <3>1. (n + 1) - 1 = n
      OBVIOUS
    <3> QED BY <3>1 DEF KeyOf, Before
  <2>2. SubSeq(line, 1, n) \in Seq(STRING) /\ Len(SubSeq(line, 1, n)) = n
        /\ \A i \in 1 .. n : SubSeq(line, 1, n)[i] = line[i]
    BY <1>0
  <2>3. \A i \in 1 .. n : SubSeq(line, 1, n)[i] = name[i]
    BY <2>2 DEF HeaderText
  <2>4. SubSeq(line, 1, n) = name
    BY <2>2, <2>3, SeqEqual
  <2> QED BY <2>1, <2>4
<1>9. ValueOf(line) = value
  <2> DEFINE rest == SubSeq(line, n + 3, len)
             w == len - n - 2
  <2>1. w \in Nat /\ w \in {v, v + 1} /\ rest \in Seq(STRING) /\ Len(rest) = w
        /\ \A i \in 1 .. w : rest[i] = line[n + 2 + i]
    <3>1. n + 3 \in 1 .. Len(line) + 1 /\ len \in (n + 3) - 1 .. Len(line)
          /\ len - (n + 3) + 1 = w
      BY <1>0
    <3>2. rest \in Seq(STRING) /\ Len(rest) = w
          /\ \A i \in 1 .. w : rest[i] = line[(n + 3) + i - 1]
      BY <3>1, SubSeqProperties
    <3>3. \A i \in 1 .. w : (n + 3) + i - 1 = n + 2 + i
      OBVIOUS
    <3>4. w \in Nat /\ w \in {v, v + 1}
      BY DEF HeaderText
    <3> QED BY <3>2, <3>3, <3>4
  <2>2. ValueOf(line) = IF rest # <<>> /\ Last(rest) = "CR" THEN Front(rest) ELSE rest
    <3>1. Find(line, Colon, 1) + 2 = n + 3
      OBVIOUS
    <3>2. From(line, Find(line, Colon, 1) + 2) = rest
      BY <3>1 DEF From
    <3> HIDE DEF rest
    <3> QED BY <3>2, Zenon DEF ValueOf
  <2> HIDE DEF rest, w
  <2>3. \A i \in 1 .. v : rest[i] = value[i]
    <3>1. \A i \in 1 .. v : i \in 1 .. w /\ line[n + 2 + i] = value[i]
      BY <2>1 DEF HeaderText
    <3> QED BY <2>1, <3>1
  <2>4. CASE w = v
    <3>1. rest = value
      BY <2>1, <2>3, <2>4, SeqEqual
    <3>2. rest # <<>> => Last(rest) # "CR"
      <4> SUFFICES ASSUME rest # <<>> PROVE Last(value) # "CR"
        BY <3>1
      <4>1. v \in DOMAIN value
        BY <3>1
      <4> QED BY <4>1 DEF ValueIsPlain, Last
    <3> QED BY <2>2, <3>1, <3>2
  <2>5. CASE w = v + 1
    <3>1. rest # <<>>
      BY <2>1, <2>5
    <3>2. Last(rest) = "CR"
      <4>1. len = n + v + 3 /\ line[n + v + 3] = "CR"
        BY <2>5 DEF w, HeaderText
      <4>2. v + 1 \in 1 .. w /\ n + 2 + (v + 1) = n + v + 3
        BY <2>5
      <4>3. rest[v + 1] = "CR"
        BY <2>1, <4>1, <4>2
      <4> QED BY <2>1, <2>5, <4>3 DEF Last
    <3>3. Front(rest) = value
      <4>1. Front(rest) = SubSeq(rest, 1, v)
        <5>1. (v + 1) - 1 = v
          OBVIOUS
        <5> QED BY <2>1, <2>5, <5>1 DEF Front
      <4>2. SubSeq(rest, 1, v) \in Seq(STRING) /\ Len(SubSeq(rest, 1, v)) = v
            /\ \A i \in 1 .. v : SubSeq(rest, 1, v)[i] = rest[i]
        BY <2>1, <2>5
      <4>3. SubSeq(rest, 1, v) = value
        BY <2>3, <4>2, SeqEqual
      <4> QED BY <4>1, <4>3
    <3> QED BY <2>2, <3>1, <3>2, <3>3, Zenon
  <2> QED BY <2>1, <2>4, <2>5
<1>10. line # <<"CR">>
  <2>1. Len(<<"CR">>) = 1
    OBVIOUS
  <2>2. len # 1
    BY <1>0
  <2> QED BY <2>1, <2>2
<1> QED BY <1>8, <1>9, <1>10, Zenon

\* The last of the places that count where a name stands.
LastPlace(names, kept, key) == Max({i \in kept : names[i] = key})

\* The map from names to values in which a later value replaces an earlier one.
LastValues(names, values, kept) ==
  [key \in {names[k] : k \in kept} |-> values[LastPlace(names, kept, key)]]

LEMMA LastPlaceIs ==
  ASSUME NEW m \in Nat, NEW kept \in SUBSET (1 .. m), NEW names, NEW k \in kept
  PROVE  /\ LastPlace(names, kept, names[k]) \in kept
         /\ names[LastPlace(names, kept, names[k])] = names[k]
         /\ \A i \in kept : names[i] = names[k] => i <= LastPlace(names, kept, names[k])
<1> DEFINE S == {i \in kept : names[i] = names[k]}
<1>1. S \in SUBSET (1 .. m) /\ S # {}
  OBVIOUS
<1>2. Max(S) \in S /\ \A i \in S : i <= Max(S)
  <2> HIDE DEF S
  <2> QED BY <1>1, GreatestIndex
<1> QED BY <1>2 DEF LastPlace

\* m lines, of which some have a name and a value and the others no ": ".
IsTable(raw, m, kept, from, to, names, values) ==
  /\ kept \in SUBSET (1 .. m)
  /\ \A k \in 1 .. m : from[k] \in Nat
  /\ \A j, k \in 1 .. m : j < k => from[j] < from[k]
  /\ \A k \in kept :
       /\ Find(SubSeq(raw, from[k], to[k]), Colon, 1) # Npos
       /\ KeyOf(SubSeq(raw, from[k], to[k])) = names[k]
       /\ ValueOf(SubSeq(raw, from[k], to[k])) = values[k]
  /\ \A k \in 1 .. m : k \notin kept => Find(SubSeq(raw, from[k], to[k]), Colon, 1) = Npos

\* The last value of every name is its value.
AreLines(lines, from, to, m) == lines = {<<from[k], to[k]>> : k \in 1 .. m}

LEMMA LastValueCounts ==
  ASSUME NEW raw, NEW m \in Nat, NEW kept, NEW from, NEW to, NEW names, NEW values,
         IsTable(raw, m, kept, from, to, names, values),
         NEW lines, AreLines(lines, from, to, m)
  PROVE  HeaderMap(raw, lines) = LastValues(names, values, kept)
<1> DEFINE text(line) == SubSeq(raw, line[1], line[2])
           fields == {line \in lines : Find(text(line), Colon, 1) # Npos}
           lastOf(key) == Max({line[1] : line \in {f \in fields : KeyOf(text(f)) = key}})
           value(key) == ValueOf(text(CHOOSE line \in fields : line[1] = lastOf(key)))
<1>0. lines = {<<from[k], to[k]>> : k \in 1 .. m}
  BY Zenon DEF AreLines
<1>10. kept \in SUBSET (1 .. m) /\ \A k \in kept : k \in 1 .. m
  <2>1. kept \in SUBSET (1 .. m)
    BY Zenon DEF IsTable
  <2> QED BY <2>1
<1>1. HeaderMap(raw, lines) = [key \in {KeyOf(text(line)) : line \in fields} |-> value(key)]
  BY DEF HeaderMap
<1>2. ASSUME NEW k \in kept
      PROVE  /\ <<from[k], to[k]>> \in lines
             /\ text(<<from[k], to[k]>>) = SubSeq(raw, from[k], to[k])
             /\ <<from[k], to[k]>> \in fields /\ from[k] \in Nat
             /\ KeyOf(text(<<from[k], to[k]>>)) = names[k]
             /\ ValueOf(text(<<from[k], to[k]>>)) = values[k]
  <2>1. <<from[k], to[k]>> \in lines /\ from[k] \in Nat
    BY <1>0, <1>10 DEF IsTable
  <2>2. text(<<from[k], to[k]>>) = SubSeq(raw, from[k], to[k])
    OBVIOUS
  <2>3. <<from[k], to[k]>> \in fields
    <3> HIDE DEF text
    <3> QED BY <2>1, <2>2 DEF IsTable
  <2> HIDE DEF text, fields
  <2> QED BY <2>1, <2>2, <2>3 DEF IsTable
<1>3. \A line \in fields : \E k \in kept : line = <<from[k], to[k]>>
  <2> TAKE line \in fields
  <2>1. PICK k \in 1 .. m : line = <<from[k], to[k]>>
    BY <1>0
  <2>2. Find(SubSeq(raw, from[k], to[k]), Colon, 1) # Npos
    <3>1. line[1] = from[k] /\ line[2] = to[k]
      BY <2>1
    <3> QED BY <3>1
  <2>3. k \in kept
    BY <2>2, Zenon DEF IsTable
  <2> QED BY <2>1, <2>3
<1> HIDE DEF text, fields
<1>4. {KeyOf(text(line)) : line \in fields} = {names[k] : k \in kept}
  <2>1. \A line \in fields : KeyOf(text(line)) \in {names[k] : k \in kept}
    BY <1>2, <1>3
  <2>2. \A k \in kept : names[k] \in {KeyOf(text(line)) : line \in fields}
    <3> TAKE k \in kept
    <3>1. <<from[k], to[k]>> \in fields /\ KeyOf(text(<<from[k], to[k]>>)) = names[k]
      BY <1>2
    <3> QED BY <3>1, Zenon
  <2> QED BY <2>1, <2>2
<1>5. ASSUME NEW k \in kept
      PROVE  value(names[k]) = values[LastPlace(names, kept, names[k])]
  <2> DEFINE starts == {line[1] : line \in {f \in fields : KeyOf(text(f)) = names[k]}}
  <2>1. PICK last \in kept :
          /\ last = LastPlace(names, kept, names[k]) /\ names[last] = names[k]
          /\ \A i \in kept : names[i] = names[k] => i <= last
    BY <1>10, LastPlaceIs
  <2>2. from[last] \in starts
    <3>1. <<from[last], to[last]>> \in fields
          /\ KeyOf(text(<<from[last], to[last]>>)) = names[k]
      BY <1>2, <2>1
    <3>2. <<from[last], to[last]>>[1] = from[last]
      OBVIOUS
    <3> QED BY <3>1, <3>2, Zenon
  <2>3. ASSUME NEW i \in starts PROVE i \in Nat /\ i <= from[last]
    <3>1. PICK line \in fields : KeyOf(text(line)) = names[k] /\ i = line[1]
      OBVIOUS
    <3>2. PICK j \in kept : line = <<from[j], to[j]>>
      BY <1>3
    <3>3. names[j] = names[k] /\ i = from[j]
      BY <1>2, <3>1, <3>2
    <3>4. j <= last
      BY <2>1, <3>3
    <3>5. j = last \/ from[j] < from[last]
      <4>1. j \in 1 .. m /\ last \in 1 .. m
        BY <1>10
      <4> QED BY <3>4, <4>1 DEF IsTable
    <3>6. from[j] \in Nat /\ from[last] \in Nat
      BY <1>2
    <3> QED BY <3>3, <3>5, <3>6
  <2>4. lastOf(names[k]) = from[last]
    <3>1. starts \in SUBSET Nat
      BY <2>3
    <3>2. Max(starts) = from[last]
      <4> HIDE DEF starts
      <4> QED BY <2>2, <2>3, <3>1, GreatestIs
    <3> QED BY <3>2
  <2> HIDE DEF starts
  <2>5. \A line \in fields : line[1] = from[last] => line = <<from[last], to[last]>>
    <3> TAKE line \in fields
    <3> HAVE line[1] = from[last]
    <3>1. PICK j \in kept : line = <<from[j], to[j]>>
      BY <1>3
    <3>2. from[j] = from[last]
      BY <3>1
    <3>0. j \in 1 .. m /\ last \in 1 .. m
      BY <1>10
    <3>3. ~ (j < last) /\ ~ (last < j)
      BY <1>2, <3>0, <3>2 DEF IsTable
    <3>4. j = last
      BY <3>0, <3>3
    <3> QED BY <3>1, <3>4
  <2>6. (CHOOSE line \in fields : line[1] = lastOf(names[k])) = <<from[last], to[last]>>
    <3>1. <<from[last], to[last]>> \in fields /\ <<from[last], to[last]>>[1] = from[last]
      BY <1>2
    <3> HIDE DEF lastOf
    <3> QED BY <2>4, <2>5, <3>1
  <2>7. value(names[k]) = ValueOf(text(<<from[last], to[last]>>))
    <3> HIDE DEF lastOf
    <3> QED BY <2>6
  <2> QED BY <1>2, <2>1, <2>7, Zenon
<1> HIDE DEF value
<1> QED BY <1>1, <1>4, <1>5, SMTT(40) DEF LastValues

-----------------------------------------------------------------------------
(***************************************************************************)
(* A message: its first CR LF, its first empty line, the words of its first*)
(* line.                                                                   *)
(***************************************************************************)
\* A piece is a line if a CR and its only LF are at its end.
PieceIsLine(piece) ==
  /\ Len(piece) \in Nat /\ 4 <= Len(piece)
  /\ piece[Len(piece) - 1] = "CR"
  /\ \A i \in 1 .. Len(piece) : piece[i] = "LF" <=> i = Len(piece)

\* The l words of flat are m lines that end at at[1], at[2] and so on.
Lined(flat, l, m, at) ==
  /\ at \in [0 .. m -> Nat] /\ at[0] = 0 /\ at[m] = l
  /\ \A j, k \in 0 .. m : j <= k => at[j] <= at[k]
  /\ \A k \in 1 .. m : /\ at[k - 1] \in Nat /\ at[k] \in Nat /\ at[k] <= l
                       /\ at[k - 1] + 4 <= at[k]
                       /\ flat[at[k] - 1] = "CR"
  /\ \A k \in 1 .. m : \A p \in 1 .. l :
       at[k - 1] < p /\ p <= at[k] => (flat[p] = "LF" <=> p = at[k])

LEMMA LinesEndPieces ==
  ASSUME NEW flat, NEW pieces, NEW m \in Nat, NEW at, Layout(flat, pieces, m, at),
         NEW l, Len(flat) = l,
         \A k \in 1 .. m : PieceIsLine(pieces[k])
  PROVE  Lined(flat, l, m, at)
<1>1. /\ at \in [0 .. m -> Nat] /\ at[0] = 0 /\ at[m] = l
      /\ \A j, k \in 0 .. m : j <= k => at[j] <= at[k]
  BY Zenon DEF Layout
<1>2. ASSUME NEW k \in 1 .. m
      PROVE  /\ at[k - 1] \in Nat /\ at[k] \in Nat /\ at[k] <= l
             /\ at[k] = at[k - 1] + Len(pieces[k]) /\ Len(pieces[k]) \in Nat
             /\ at[k - 1] + 4 <= at[k] /\ flat[at[k] - 1] = "CR"
  <2>1. k - 1 \in 0 .. m /\ k \in 0 .. m /\ m \in 0 .. m /\ k <= m
    OBVIOUS
  <2>2. at[k - 1] \in Nat /\ at[k] \in Nat /\ at[k] <= l
    BY <1>1, <2>1
  <2>3. at[k] = at[k - 1] + Len(pieces[k])
    BY Zenon DEF Layout
  <2>4. Len(pieces[k]) \in Nat /\ 4 <= Len(pieces[k])
    BY DEF PieceIsLine
  <2>5. flat[at[k] - 1] = "CR"
    <3>1. Len(pieces[k]) - 1 \in 1 .. Len(pieces[k])
      BY <2>4
    <3>2. flat[at[k - 1] + (Len(pieces[k]) - 1)] = pieces[k][Len(pieces[k]) - 1]
      BY <3>1, Zenon DEF Layout
    <3>3. at[k] - 1 = at[k - 1] + (Len(pieces[k]) - 1)
      BY <2>2, <2>3, <2>4
    <3>4. pieces[k][Len(pieces[k]) - 1] = "CR"
      BY Zenon DEF PieceIsLine
    <3> QED BY <3>2, <3>3, <3>4
  <2> QED BY <2>2, <2>3, <2>4, <2>5
<1>3. ASSUME NEW k \in 1 .. m, NEW p \in 1 .. l, at[k - 1] < p, p <= at[k]
      PROVE  flat[p] = "LF" <=> p = at[k]
  <2>0. /\ at[k - 1] \in Nat /\ p \in Nat /\ p - at[k - 1] \in Nat
        /\ at[k] = at[k - 1] + Len(pieces[k]) /\ Len(pieces[k]) \in Nat /\ at[k] \in Nat
    <3>1. /\ at[k - 1] \in Nat /\ at[k] \in Nat
          /\ at[k] = at[k - 1] + Len(pieces[k]) /\ Len(pieces[k]) \in Nat
      BY <1>2, Zenon
    <3> QED BY <1>3, <3>1
  <2> PICK i \in Nat : i = p - at[k - 1]
    BY <2>0
  <2>1. i \in 1 .. Len(pieces[k]) /\ p = at[k - 1] + i
        /\ (p = at[k] <=> i = Len(pieces[k]))
    BY <1>3, <2>0
  <2>2. flat[at[k - 1] + i] = pieces[k][i]
    BY <2>1 DEF Layout
  <2>3. pieces[k][i] = "LF" <=> i = Len(pieces[k])
    BY <2>1, Zenon DEF PieceIsLine
  <2> QED BY <2>1, <2>2, <2>3
<1> QED BY <1>1, <1>2, <1>3, Zenon DEF Lined

\* The text of a message: a start line of three words, header lines (flat), an empty
\* line, and what comes behind (tail).
MessageText(text, sp, w1, w2, w3, flat, l, tail, t) ==
  /\ Len(text) = l + 9 + t
  /\ text[1] = w1 /\ text[2] = sp /\ text[3] = w2 /\ text[4] = sp /\ text[5] = w3
  /\ text[6] = "CR" /\ text[7] = "LF"
  /\ \A i \in 1 .. l : text[7 + i] = flat[i]
  /\ text[l + 8] = "CR" /\ text[l + 9] = "LF"
  /\ \A i \in 1 .. t : text[l + 9 + i] = tail[i]

LEMMA CrlfIsText ==
  /\ CRLF \in Seq(STRING) /\ Len(CRLF) = 2 /\ CRLF[1] = "CR" /\ CRLF[2] = "LF"
<1>1. "CR" \in STRING /\ "LF" \in STRING
  BY RequestStreamAssumption, Zenon
<1>2. CRLF \in Seq(STRING)
  BY <1>1, ShortTexts DEF CRLF
<1>3. Len(CRLF) = 2 /\ CRLF[1] = "CR" /\ CRLF[2] = "LF"
  BY DEF CRLF
<1> QED BY <1>2, <1>3

\* How such a text is put together.
IsGluedText(text, sp, w1, w2, w3, flat, l, tail, t) ==
  /\ sp \in STRING /\ w1 \in STRING /\ w2 \in STRING /\ w3 \in STRING
  /\ flat \in Seq(STRING) /\ l \in Nat /\ l = Len(flat)
  /\ tail \in Seq(STRING) /\ t \in Nat /\ t = Len(tail)
  /\ text = <<w1, sp, w2, sp, w3>> \o CRLF \o flat \o CRLF \o tail

LEMMA MessageReads ==
  ASSUME NEW text, NEW sp, NEW w1, NEW w2, NEW w3, NEW flat, NEW l, NEW tail, NEW t,
         IsGluedText(text, sp, w1, w2, w3, flat, l, tail, t)
  PROVE  text \in Seq(STRING) /\ MessageText(text, sp, w1, w2, w3, flat, l, tail, t)
<1>10. /\ sp \in STRING /\ w1 \in STRING /\ w2 \in STRING /\ w3 \in STRING
       /\ flat \in Seq(STRING) /\ l \in Nat /\ l = Len(flat)
       /\ tail \in Seq(STRING) /\ t \in Nat /\ t = Len(tail)
  BY Zenon DEF IsGluedText
<1>11. text = <<w1, sp, w2, sp, w3>> \o CRLF \o flat \o CRLF \o tail
  BY Zenon DEF IsGluedText
<1> USE <1>10
<1> PICK s, a, b, c : /\ s = <<w1, sp, w2, sp, w3>> /\ a = s \o CRLF
                      /\ b = a \o flat /\ c = b \o CRLF /\ text = c \o tail
  BY <1>11
<1>0. s \in Seq(STRING) /\ Len(s) = 5
      /\ s[1] = w1 /\ s[2] = sp /\ s[3] = w2 /\ s[4] = sp /\ s[5] = w3
  <2>1. s \in Seq(STRING)
    BY FiveWords
  <2> QED BY <2>1
<1>1. a \in Seq(STRING) /\ IsGlued(a, s, 5, CRLF, 2)
  <2>1. 5 \in Nat /\ 2 \in Nat /\ 5 = Len(s) /\ 2 = Len(CRLF) /\ a = s \o CRLF
    BY <1>0, CrlfIsText
  <2> QED BY <1>0, <2>1, CrlfIsText, Glue, Zenon
<1>2. b \in Seq(STRING) /\ IsGlued(b, a, 7, flat, l)
  <2>1. 7 \in Nat /\ 7 = Len(a) /\ b = a \o flat
    BY <1>1 DEF IsGlued
  <2> QED BY <1>1, <2>1, Glue, Zenon
<1>3. c \in Seq(STRING) /\ IsGlued(c, b, 7 + l, CRLF, 2)
  <2>1. 7 + l \in Nat /\ 2 \in Nat /\ 7 + l = Len(b) /\ 2 = Len(CRLF) /\ c = b \o CRLF
    BY <1>2, CrlfIsText DEF IsGlued
  <2> QED BY <1>2, <2>1, CrlfIsText, Glue, Zenon
<1>4. text \in Seq(STRING) /\ IsGlued(text, c, l + 9, tail, t)
  <2>1. l + 9 \in Nat /\ l + 9 = Len(c) /\ text = c \o tail
    BY <1>3 DEF IsGlued
  <2> QED BY <1>3, <2>1, Glue, Zenon
<1>5. \A i \in 1 .. 7 + l : text[i] = b[i]
  <2>1. \A i \in 1 .. 7 + l : i \in 1 .. l + 9
    OBVIOUS
  <2> QED BY <1>3, <1>4, <2>1, ZenonT(40) DEF IsGlued
<1>6. \A i \in 1 .. 7 : text[i] = a[i]
  <2>1. \A i \in 1 .. 7 : i \in 1 .. 7 + l
    OBVIOUS
  <2> QED BY <1>2, <1>5, <2>1, Zenon DEF IsGlued
<1>7. /\ text[1] = w1 /\ text[2] = sp /\ text[3] = w2 /\ text[4] = sp /\ text[5] = w3
      /\ text[6] = "CR" /\ text[7] = "LF"
  <2>1. \A i \in 1 .. 5 : text[i] = s[i]
    <3>1. \A i \in 1 .. 5 : i \in 1 .. 7
      OBVIOUS
    <3> QED BY <1>1, <1>6, <3>1, Zenon DEF IsGlued
  <2>2. text[6] = CRLF[1] /\ text[7] = CRLF[2]
    <3>1. /\ 6 \in 1 .. 7 /\ 7 \in 1 .. 7 /\ 1 \in 1 .. 2 /\ 2 \in 1 .. 2
          /\ 5 + 1 = 6 /\ 5 + 2 = 7
      OBVIOUS
    <3>2. a[5 + 1] = CRLF[1] /\ a[5 + 2] = CRLF[2]
      BY <1>1, <3>1, Zenon DEF IsGlued
    <3> QED BY <1>6, <3>1, <3>2
  <2>3. 1 \in 1 .. 5 /\ 2 \in 1 .. 5 /\ 3 \in 1 .. 5 /\ 4 \in 1 .. 5 /\ 5 \in 1 .. 5
    OBVIOUS
  <2>4. text[1] = w1 /\ text[2] = sp /\ text[3] = w2 /\ text[4] = sp /\ text[5] = w3
    BY <1>0, <2>1, <2>3, Zenon
  <2> QED BY <2>2, <2>4, CrlfIsText
<1>8. \A i \in 1 .. l : text[7 + i] = flat[i]
  <2>1. \A i \in 1 .. l : 7 + i \in 1 .. 7 + l
    OBVIOUS
  <2> QED BY <1>2, <1>5, <2>1, Zenon DEF IsGlued
<1>9. text[l + 8] = "CR" /\ text[l + 9] = "LF"
  <2>1. /\ l + 8 \in 1 .. l + 9 /\ l + 9 \in 1 .. l + 9 /\ 1 \in 1 .. 2 /\ 2 \in 1 .. 2
        /\ (7 + l) + 1 = l + 8 /\ (7 + l) + 2 = l + 9
    OBVIOUS
  <2>2. c[(7 + l) + 1] = CRLF[1] /\ c[(7 + l) + 2] = CRLF[2]
    BY <1>3, <2>1, Zenon DEF IsGlued
  <2>3. text[l + 8] = c[l + 8] /\ text[l + 9] = c[l + 9]
    BY <1>4, <2>1, Zenon DEF IsGlued
  <2> QED BY <2>1, <2>2, <2>3, CrlfIsText, ZenonT(40)
<1> QED BY <1>4, <1>7, <1>8, <1>9, Zenon DEF MessageText, IsGlued

LEMMA LineFeeds ==
  ASSUME NEW S, NEW s \in Seq(S), NEW len \in Nat, Len(s) = len,
         NEW i \in 1 .. len + 1 - 2, SubSeq(s, i, i + 2 - 1) = CRLF
  PROVE  s[i] = "CR" /\ s[i + 1] = "LF"
<1>1. SubSeq(s, i, i + 2 - 1) = <<s[i], s[i + 1]>>
  <2>1. i \in Nat \ {0} /\ i + 1 <= Len(s)
    OBVIOUS
  <2> QED BY <2>1, TwoPlaces, Zenon
<1> QED BY <1>1 DEF CRLF

LEMMA IsCrlf ==
  ASSUME NEW S, NEW s \in Seq(S), NEW i \in Nat \ {0}, i + 1 <= Len(s),
         s[i] = "CR", s[i + 1] = "LF"
  PROVE  SubSeq(s, i, i + 2 - 1) = CRLF
<1>1. SubSeq(s, i, i + 2 - 1) = <<s[i], s[i + 1]>>
  BY TwoPlaces, Zenon
<1> QED BY <1>1 DEF CRLF

\* The empty line that is looked for.
IsBlank(four) ==
  /\ four \in Seq(STRING) /\ Len(four) = 4
  /\ four[1] = "CR" /\ four[2] = "LF" /\ four[3] = "CR" /\ four[4] = "LF"

LEMMA BlankIs == IsBlank(CRLF \o CRLF)
<1> PICK four : four = CRLF \o CRLF
  OBVIOUS
<1>1. four \in Seq(STRING) /\ IsGlued(four, CRLF, 2, CRLF, 2)
  <2>1. 2 \in Nat /\ 2 = Len(CRLF)
    BY CrlfIsText
  <2> QED BY <2>1, CrlfIsText, Glue, Zenon
<1>2. 1 \in 1 .. 2 /\ 2 \in 1 .. 2 /\ 2 + 1 = 3 /\ 2 + 2 = 4
  OBVIOUS
<1>3. Len(four) = 4
  BY <1>1, <1>2, Zenon DEF IsGlued
<1>4. four[1] = "CR" /\ four[2] = "LF"
  BY <1>1, <1>2, CrlfIsText, Zenon DEF IsGlued
<1>5. four[2 + 1] = "CR" /\ four[2 + 2] = "LF"
  BY <1>1, <1>2, CrlfIsText, Zenon DEF IsGlued
<1>6. IsBlank(four)
  BY <1>1, <1>2, <1>3, <1>4, <1>5 DEF IsBlank
<1> QED BY <1>6, Zenon

LEMMA TwoCrlfs ==
  ASSUME NEW s \in Seq(STRING), NEW i \in Nat \ {0}, i + 3 <= Len(s),
         NEW four, IsBlank(four)
  PROVE  SubSeq(s, i, i + 4 - 1) = four
           <=> s[i] = "CR" /\ s[i + 1] = "LF" /\ s[i + 2] = "CR" /\ s[i + 3] = "LF"
<1>0. i + 4 - 1 = i + 3 /\ Len(s) \in Nat
  OBVIOUS
<1>1. /\ SubSeq(s, i, i + 3)[1] = s[i] /\ SubSeq(s, i, i + 3)[2] = s[i + 1]
      /\ SubSeq(s, i, i + 3)[3] = s[i + 2] /\ SubSeq(s, i, i + 3)[4] = s[i + 3]
  BY FourPlaces, Zenon
<1>2. SubSeq(s, i, i + 3) \in Seq(STRING) /\ Len(SubSeq(s, i, i + 3)) = 4
  <2>1. i \in 1 .. Len(s) + 1 /\ i + 3 \in i - 1 .. Len(s) /\ (i + 3) - i + 1 = 4
    BY <1>0
  <2> QED BY <2>1, SubSeqProperties
<1> PICK part : part = SubSeq(s, i, i + 3)
  OBVIOUS
<1>3. part[1] = four[1] /\ part[2] = four[2] /\ part[3] = four[3] /\ part[4] = four[4]
        => part = four
  <2> SUFFICES ASSUME part[1] = four[1], part[2] = four[2], part[3] = four[3], part[4] = four[4]
               PROVE  part = four
    OBVIOUS
  <2>1. \A k \in 1 .. 4 : part[k] = four[k]
    OBVIOUS
  <2> QED BY <1>2, <2>1, SeqEqual DEF IsBlank
<1> QED BY <1>0, <1>1, <1>3 DEF IsBlank

\* Which LFs stand in the head of a message.
HeadFeeds(text, flat, l) ==
  \A p \in 1 .. l + 8 :
    text[p] = "LF" => p = 7 \/ \E q \in 1 .. l : p = 7 + q /\ flat[q] = "LF"

LEMMA FeedsOfHead ==
  ASSUME NEW text, NEW sp, NEW w1, NEW w2, NEW w3, NEW flat, NEW l \in Nat, NEW tail, NEW t,
         MessageText(text, sp, w1, w2, w3, flat, l, tail, t),
         sp # "LF", w1 # "LF", w2 # "LF", w3 # "LF"
  PROVE  HeadFeeds(text, flat, l)
<1> SUFFICES ASSUME NEW p \in 1 .. l + 8, text[p] = "LF", p # 7
             PROVE  \E q \in 1 .. l : p = 7 + q /\ flat[q] = "LF"
  BY DEF HeadFeeds
<1>1. p \notin {1, 2, 3, 4, 5, 6, l + 8}
  BY DEF MessageText
<1>2. p - 7 \in 1 .. l /\ p = 7 + (p - 7)
  BY <1>1
<1>3. flat[p - 7] = "LF"
  <2>1. text[7 + (p - 7)] = flat[p - 7]
    BY <1>2, Zenon DEF MessageText
  <2> QED BY <1>2, <2>1
<1> QED BY <1>2, <1>3

LEMMA StartLineEnds ==
  ASSUME NEW text \in Seq(STRING), NEW sp, NEW w1, NEW w2, NEW w3, NEW flat, NEW l \in Nat,
         NEW tail, NEW t \in Nat, MessageText(text, sp, w1, w2, w3, flat, l, tail, t),
         sp # "LF", w1 # "LF", w2 # "LF", w3 # "LF"
  PROVE  Find(text, CRLF, 1) = 6
<1> PICK len, at : /\ len \in Nat /\ len = l + 9 + t /\ Len(text) = len
                   /\ at = Find(text, CRLF, 1)
  BY DEF MessageText
<1>1. FirstAt(text, CRLF, 1, len, 2, at)
  <2>1. 2 \in Nat /\ 1 \in Nat \ {0}
    OBVIOUS
  <2> QED BY <2>1, CrlfIsText, FindFinds
<1>2. SubSeq(text, 6, 6 + 2 - 1) = CRLF
  <2>1. text[6] = "CR" /\ text[6 + 1] = "LF" /\ 6 \in Nat \ {0} /\ 6 + 1 <= Len(text)
    BY DEF MessageText
  <2> QED BY <2>1, IsCrlf, Zenon
<1>3. at # Npos /\ at <= 6
  <2>1. 6 \in 1 .. len + 1 - 2
    OBVIOUS
  <2> QED BY <1>1, <1>2, <2>1 DEF FirstAt
<1>4. at \in 1 .. len + 1 - 2 /\ text[at + 1] = "LF"
  <2>1. at \in 1 .. len + 1 - 2 /\ SubSeq(text, at, at + 2 - 1) = CRLF
    BY <1>1, <1>3 DEF FirstAt
  <2> QED BY <2>1, LineFeeds
<1>5. at + 1 \notin {2, 3, 4, 5, 6}
  BY <1>4, CrlfIsText DEF MessageText
<1>6. at = 6
  BY <1>3, <1>4, <1>5
<1> QED BY <1>6

\* The first empty line is the one behind the header lines.
LEMMA HeadEnds ==
  ASSUME NEW text \in Seq(STRING), NEW sp, NEW w1, NEW w2, NEW w3, NEW flat,
         NEW tail, NEW t \in Nat,
         NEW m \in Nat, NEW at, NEW l \in Nat, Lined(flat, l, m, at),
         MessageText(text, sp, w1, w2, w3, flat, l, tail, t),
         sp # "LF", w1 # "LF", w2 # "LF", w3 # "LF",
         NEW four, IsBlank(four)
  PROVE  Find(text, four, 1) = l + 6
<1> PICK len \in Nat : len = l + 9 + t /\ Len(text) = len
  BY DEF MessageText
<1> PICK end : end = Find(text, four, 1)
  OBVIOUS
<1>1. FirstAt(text, four, 1, len, 4, end)
  <2>1. 4 \in Nat /\ 1 \in Nat \ {0} /\ Len(four) = 4
    BY DEF IsBlank
  <2> QED BY <2>1, FindFinds
<1>2. HeadFeeds(text, flat, l)
  BY FeedsOfHead
<1>3. ASSUME NEW q \in 1 .. l, flat[q] = "LF"
      PROVE  4 <= q /\ (q - 2 \in 1 .. l => flat[q - 2] # "LF")
  <2>1. PICK k \in 1 .. m : at[k - 1] < q /\ q <= at[k]
    <3>1. at \in [0 .. m -> Nat] /\ at[0] = 0 /\ at[m] = l
      BY Zenon DEF Lined
    <3>2. q \in 1 .. at[m]
      BY <3>1
    <3> QED BY <3>1, <3>2, PieceOf
  <2>2. at[k - 1] \in Nat /\ at[k] \in Nat /\ at[k - 1] + 4 <= at[k]
    BY Zenon DEF Lined
  <2>3. \A p \in 1 .. l : at[k - 1] < p /\ p <= at[k] => (flat[p] = "LF" <=> p = at[k])
    BY Zenon DEF Lined
  <2>4. q = at[k]
    BY <1>3, <2>1, <2>3
  <2> PICK b \in Nat : b = at[k - 1]
    BY <2>2
  <2>5. b + 4 <= q
    BY <2>2, <2>4, Zenon
  <2>6. \A p \in 1 .. l : b < p /\ p <= q => (flat[p] = "LF" <=> p = q)
    BY <2>3, <2>4, Zenon
  <2> QED BY <2>5, <2>6
\* CR LF ends the last line, or the start line if there is no other.
<1>4. text[l + 6] = "CR" /\ text[l + 7] = "LF"
  <2>0. /\ text[6] = "CR" /\ text[7] = "LF"
        /\ \A i \in 1 .. l : text[7 + i] = flat[i]
    BY Zenon DEF MessageText
  <2>1. CASE m = 0
    <3>1. l = 0
      BY <2>1 DEF Lined
    <3> QED BY <2>0, <3>1
  <2>2. CASE m # 0
    <3>1. /\ m \in 1 .. m /\ at[m - 1] \in Nat /\ at[m - 1] + 4 <= l
          /\ flat[l - 1] = "CR"
      <4>1. m \in 1 .. m
        BY <2>2
      <4>2. /\ at[m] = l /\ at[m - 1] \in Nat /\ at[m - 1] + 4 <= at[m]
            /\ flat[at[m] - 1] = "CR"
        BY <4>1, Zenon DEF Lined
      <4> QED BY <4>1, <4>2, Zenon
    <3>2. flat[l] = "LF"
      <4>1. l \in 1 .. l /\ at[m - 1] < l /\ l <= l
        BY <3>1
      <4>2. l = at[m]
        BY Zenon DEF Lined
      <4> QED BY <4>2, <3>1, <4>1, Zenon DEF Lined
    <3>3. l - 1 \in 1 .. l /\ l \in 1 .. l /\ 7 + (l - 1) = l + 6 /\ 7 + l = l + 7
      BY <3>1
    <3>4. text[7 + (l - 1)] = flat[l - 1] /\ text[7 + l] = flat[l]
      BY <2>0, <3>3, Zenon
    <3> QED BY <3>1, <3>2, <3>3, <3>4
  <2> QED BY <2>1, <2>2
<1>5. \A i \in 1 .. len + 1 - 4 :
        SubSeq(text, i, i + 4 - 1) = four
          => text[i + 1] = "LF" /\ text[i + 3] = "LF"
  <2> TAKE i \in 1 .. len + 1 - 4
  <2>1. i \in Nat \ {0} /\ i + 3 <= Len(text)
    OBVIOUS
  <2> QED BY <2>1, TwoCrlfs, ZenonT(40)
<1>6. end # Npos /\ end <= l + 6
  <2>1. l + 6 \in 1 .. len + 1 - 4 /\ l + 6 \in Nat \ {0} /\ (l + 6) + 3 <= Len(text)
        /\ (l + 6) + 1 = l + 7 /\ (l + 6) + 2 = l + 8 /\ (l + 6) + 3 = l + 9
    OBVIOUS
  <2>2. text[l + 8] = "CR" /\ text[l + 9] = "LF"
    BY Zenon DEF MessageText
  <2>3. SubSeq(text, l + 6, (l + 6) + 4 - 1) = four
    BY <1>4, <2>1, <2>2, TwoCrlfs, SMTT(40)
  <2> QED BY <1>1, <2>1, <2>3 DEF FirstAt
<1>7. end \in 1 .. len + 1 - 4 /\ text[end + 1] = "LF" /\ text[end + 3] = "LF"
  BY <1>1, <1>5, <1>6 DEF FirstAt
\* Two LFs at that distance do not stand in the lines.
<1>8. ~ (end < l + 6)
  <2> SUFFICES ASSUME end < l + 6 PROVE FALSE
    OBVIOUS
  <2>1. end + 1 \in 1 .. l + 8 /\ end + 3 \in 1 .. l + 8
    BY <1>7
  <2>2. end + 1 = 7 \/ \E q \in 1 .. l : end + 1 = 7 + q /\ flat[q] = "LF"
    BY <1>2, <1>7, <2>1 DEF HeadFeeds
  <2>3. end + 3 = 7 \/ \E q \in 1 .. l : end + 3 = 7 + q /\ flat[q] = "LF"
    BY <1>2, <1>7, <2>1 DEF HeadFeeds
  <2>4. PICK q \in 1 .. l : end + 3 = 7 + q /\ flat[q] = "LF"
    BY <1>7, <2>2, <2>3
  <2>5. 4 <= q /\ (q - 2 \in 1 .. l => flat[q - 2] # "LF")
    BY <1>3, <2>4
  <2>6. end + 1 = 7 + (q - 2) /\ q - 2 \in 1 .. l
    BY <1>7, <2>4, <2>5
  <2> QED BY <2>2, <2>5, <2>6
<1> QED BY <1>6, <1>7, <1>8

LEMMA UpToFive ==
  /\ 1 \in 1 .. 5 /\ 2 \in 1 .. 5 /\ 3 \in 1 .. 5 /\ 4 \in 1 .. 5 /\ 5 \in 1 .. 5
  /\ ~ (1 > 5) /\ ~ (3 > 5) /\ ~ (5 > 5) /\ 6 - 1 = 5
  /\ \A l, t \in Nat : 5 <= l + 9 + t
OBVIOUS

LEMMA WordFound ==
  ASSUME NEW line, NEW space, NEW n \in Nat, NEW i \in Nat \ {0},
         (i <= n /\ line[i] # space)
           \/ (i < n /\ line[i] = space /\ line[i + 1] # space)
  PROVE  ValueAt(line, space, i, n) = IF line[i] # space THEN i ELSE i + 1
<1> DEFINE at == {j \in i .. n : line[j] # space} \cup {n + 1}
<1>1. at \in SUBSET Nat /\ at # {}
  OBVIOUS
<1>2. Min(at) \in at /\ \A j \in at : Min(at) <= j
  <2> HIDE DEF at
  <2> QED BY <1>1, LeastIndex
<1>3. CASE line[i] # space
  <2>1. i \in at /\ \A j \in at : i <= j
    BY <1>3
  <2>2. Min(at) = i
    <3> HIDE DEF at
    <3>1. Min(at) \in Nat /\ Min(at) <= i /\ i <= Min(at)
      BY <1>1, <1>2, <2>1
    <3> QED BY <3>1
  <2> QED BY <1>3, <2>2 DEF ValueAt
<1>4. CASE line[i] = space
  <2>1. i + 1 \in at /\ \A j \in at : i + 1 <= j
    BY <1>4
  <2>2. Min(at) = i + 1
    <3> HIDE DEF at
    <3>1. Min(at) \in Nat /\ Min(at) <= i + 1 /\ i + 1 <= Min(at)
      BY <1>1, <1>2, <2>1
    <3> QED BY <3>1
  <2> QED BY <1>4, <2>2 DEF ValueAt
<1> QED BY <1>3, <1>4

\* Three words between single spaces.
ThreeWords(line, space) ==
  /\ Len(line) = 5
  /\ line[1] # space /\ line[2] = space /\ line[3] # space
  /\ line[4] = space /\ line[5] # space

LEMMA WordPlaces ==
  ASSUME NEW line, NEW space, ThreeWords(line, space)
  PROVE  /\ ValueAt(line, space, 1, 5) = 1 /\ ValueAt(line, space, 1 + 1, 5) = 3
         /\ ValueAt(line, space, 3 + 1, 5) = 5
<1>1. 5 \in Nat /\ 1 \in Nat \ {0} /\ 2 \in Nat \ {0} /\ 4 \in Nat \ {0}
      /\ 1 <= 5 /\ 2 < 5 /\ 4 < 5 /\ 2 + 1 = 3 /\ 4 + 1 = 5 /\ 1 + 1 = 2 /\ 3 + 1 = 4
  OBVIOUS
<1>2. ValueAt(line, space, 1, 5) = IF line[1] # space THEN 1 ELSE 1 + 1
  BY <1>1, WordFound DEF ThreeWords
<1>3. ValueAt(line, space, 2, 5) = IF line[2] # space THEN 2 ELSE 2 + 1
  BY <1>1, WordFound DEF ThreeWords
<1>4. ValueAt(line, space, 4, 5) = IF line[4] # space THEN 4 ELSE 4 + 1
  BY <1>1, WordFound DEF ThreeWords
<1> QED BY <1>1, <1>2, <1>3, <1>4, Zenon DEF ThreeWords

LEMMA WordsAre ==
  ASSUME NEW line, ThreeWords(line, " ")
  PROVE  Words(line) = <<line[1], line[3], line[5]>>
<1>1. \A from : SkipSpaces(line, from) = ValueAt(line, " ", from, 5)
  BY Zenon DEF SkipSpaces, ValueAt, ThreeWords
<1>2. /\ SkipSpaces(line, 1) = 1 /\ SkipSpaces(line, 1 + 1) = 3
      /\ SkipSpaces(line, 3 + 1) = 5
  BY <1>1, WordPlaces, Zenon
<1>4. Len(line) = 5
  BY Zenon DEF ThreeWords
<1> QED BY <1>2, <1>4, UpToFive, Zenon DEF Words

LEMMA StartLineIs ==
  ASSUME NEW text \in Seq(STRING), 5 <= Len(text), Find(text, CRLF, 1) = 6
  PROVE  /\ StartLine(text) \in Seq(STRING) /\ Len(StartLine(text)) = 5
         /\ \A i \in 1 .. 5 : StartLine(text)[i] = text[i]
<1>1. StartLine(text) = SubSeq(text, 1, 5)
  BY UpToFive, Zenon DEF StartLine, Before
<1>2. 5 \in 0 .. Len(text)
  OBVIOUS
<1> PICK line : line = SubSeq(text, 1, 5)
  OBVIOUS
<1>3. line \in Seq(STRING) /\ Len(line) = 5 /\ \A i \in 1 .. 5 : line[i] = text[i]
  BY <1>2, PrefixOf
<1> QED BY <1>1, <1>3, Zenon

-----------------------------------------------------------------------------
(***************************************************************************)
(* The header lines of a message.                                          *)
(***************************************************************************)
LEMMA HeaderPieceIsLine ==
  ASSUME NEW piece, NEW sp, sp # "LF",
         NEW name \in Seq(STRING), NEW n \in Nat, n = Len(name), NameIsPlain(name),
         NEW value \in Seq(STRING), NEW v \in Nat, v = Len(value), ValueIsPlain(value),
         HeaderPiece(piece, sp, name, n, value, v)
  PROVE  PieceIsLine(piece)
<1>1. /\ Len(piece) = n + v + 4
      /\ \A i \in 1 .. n : piece[i] = name[i]
      /\ piece[n + 1] = ":" /\ piece[n + 2] = sp
      /\ \A i \in 1 .. v : piece[n + 2 + i] = value[i]
      /\ piece[n + v + 3] = "CR" /\ piece[n + v + 4] = "LF"
  BY Zenon DEF HeaderPiece
<1>2. ASSUME NEW i \in 1 .. n + v + 4 PROVE piece[i] = "LF" <=> i = n + v + 4
  <2>1. CASE i <= n
    <3>1. i \in 1 .. n /\ i \in DOMAIN name /\ i # n + v + 4
      BY <2>1
    <3>2. piece[i] # "LF"
      BY <1>1, <3>1, Zenon DEF NameIsPlain
    <3> QED BY <3>1, <3>2
  <2>2. CASE i \in {n + 1, n + 2, n + v + 3, n + v + 4}
    BY <1>1, <2>2
  <2>3. CASE i \in n + 3 .. n + v + 2
    <3> PICK j \in 1 .. v : i = n + 2 + j
      <4>1. i - n - 2 \in 1 .. v /\ i = n + 2 + (i - n - 2)
        BY <2>3
      <4> QED BY <4>1
    <3>1. j \in DOMAIN value /\ i # n + v + 4
      OBVIOUS
    <3>2. value[j] # "LF"
      BY <3>1, Zenon DEF ValueIsPlain
    <3>3. piece[n + 2 + j] = value[j]
      BY <1>1, Zenon
    <3> QED BY <3>1, <3>2, <3>3
  <2> QED BY <2>1, <2>2, <2>3
<1>3. /\ n + v + 4 \in Nat /\ 4 <= n + v + 4 /\ (n + v + 4) - 1 = n + v + 3
  OBVIOUS
<1> QED BY <1>1, <1>2, <1>3, Zenon DEF PieceIsLine

LEMMA PartOf ==
  ASSUME NEW S, NEW s \in Seq(S), NEW a \in Nat, NEW w \in Nat, w # 0, a + w <= Len(s)
  PROVE  /\ SubSeq(s, a + 1, a + w) \in Seq(S) /\ Len(SubSeq(s, a + 1, a + w)) = w
         /\ \A i \in 1 .. w : SubSeq(s, a + 1, a + w)[i] = s[a + i]
<1>1. a + 1 \in 1 .. Len(s) + 1 /\ a + w \in (a + 1) - 1 .. Len(s) /\ (a + w) - (a + 1) + 1 = w
  OBVIOUS
<1>2. \A i \in 1 .. w : (a + 1) + i - 1 = a + i
  OBVIOUS
<1> QED BY <1>1, <1>2, SubSeqProperties

\* A piece of n + v + 4 words that lost the last one or two.
IsCut(raw, len, a, w, n, v, piece, line) ==
  /\ Len(raw) = len /\ a + w <= len /\ w \in {n + v + 2, n + v + 3}
  /\ \A i \in 1 .. n + v + 4 : a + i <= len => raw[a + i] = piece[i]
  /\ line = SubSeq(raw, a + 1, a + w)

\* The line such a piece is.
IsCutOf(line, w, n, v, piece) ==
  /\ line \in Seq(STRING) /\ Len(line) = w /\ w \in {n + v + 2, n + v + 3}
  /\ \A i \in 1 .. w : line[i] = piece[i]

LEMMA CutReads ==
  ASSUME NEW raw \in Seq(STRING), NEW len \in Nat, NEW n \in Nat, NEW v \in Nat, NEW piece,
         NEW a \in Nat, NEW w \in Nat, NEW line, IsCut(raw, len, a, w, n, v, piece, line)
  PROVE  IsCutOf(line, w, n, v, piece)
<1>0. /\ Len(raw) = len /\ a + w <= len /\ w \in {n + v + 2, n + v + 3}
      /\ \A i \in 1 .. n + v + 4 : a + i <= len => raw[a + i] = piece[i]
      /\ line = SubSeq(raw, a + 1, a + w)
  BY Zenon DEF IsCut
<1> USE <1>0
<1>1. /\ line \in Seq(STRING) /\ Len(line) = w
      /\ \A i \in 1 .. w : line[i] = raw[a + i]
  <2>1. w # 0
    OBVIOUS
  <2>2. a + w <= Len(raw)
    BY Zenon
  <2>3. /\ SubSeq(raw, a + 1, a + w) \in Seq(STRING) /\ Len(SubSeq(raw, a + 1, a + w)) = w
        /\ \A i \in 1 .. w : SubSeq(raw, a + 1, a + w)[i] = raw[a + i]
    BY <2>1, <2>2, PartOf
  <2> QED BY <2>3, Zenon
<1>2. \A i \in 1 .. w : line[i] = piece[i]
  <2> TAKE i \in 1 .. w
  <2>1. a + i <= len /\ i \in 1 .. n + v + 4
    OBVIOUS
  <2> QED BY <1>1, <2>1, Zenon
<1> QED BY <1>1, <1>2, Zenon DEF IsCutOf

LEMMA CutIsHeader ==
  ASSUME NEW raw \in Seq(STRING), NEW len \in Nat,
         NEW sp, NEW name, NEW n \in Nat, NEW value, NEW v \in Nat,
         NEW piece, HeaderPiece(piece, sp, name, n, value, v),
         NEW a \in Nat, NEW w \in Nat, NEW line, IsCut(raw, len, a, w, n, v, piece, line)
  PROVE  line \in Seq(STRING) /\ Len(line) = w /\ HeaderText(line, w, sp, name, n, value, v)
<1>0. IsCutOf(line, w, n, v, piece)
  BY CutReads, Zenon
<1>1. line \in Seq(STRING) /\ Len(line) = w /\ w \in {n + v + 2, n + v + 3}
  BY <1>0 DEF IsCutOf
<1> USE <1>1
<1>4. \A i \in 1 .. w : line[i] = piece[i]
  BY <1>0, Zenon DEF IsCutOf
<1>5. \A i \in 1 .. n : line[i] = name[i]
  <2> TAKE i \in 1 .. n
  <2>1. i \in 1 .. w
    OBVIOUS
  <2> QED BY <1>4, <2>1, Zenon DEF HeaderPiece
<1>6. line[n + 1] = ":" /\ line[n + 2] = sp
  <2>1. n + 1 \in 1 .. w /\ n + 2 \in 1 .. w
    OBVIOUS
  <2> QED BY <1>4, <2>1, Zenon DEF HeaderPiece
<1>7. \A i \in 1 .. v : line[n + 2 + i] = value[i]
  <2> TAKE i \in 1 .. v
  <2>1. n + 2 + i \in 1 .. w
    OBVIOUS
  <2> QED BY <1>4, <2>1, Zenon DEF HeaderPiece
<1>8. w = n + v + 3 => line[n + v + 3] = "CR"
  <2> SUFFICES ASSUME w = n + v + 3 PROVE line[n + v + 3] = "CR"
    OBVIOUS
  <2>1. n + v + 3 \in 1 .. w
    OBVIOUS
  <2> QED BY <1>4, <2>1, Zenon DEF HeaderPiece
<1>9. w = n + v + 2 \/ (w = n + v + 3 /\ line[n + v + 3] = "CR")
  BY <1>8
<1> QED BY <1>1, <1>5, <1>6, <1>7, <1>9, Zenon DEF HeaderText

\* What the k-th line of raw is.
LEMMA LineIsCut ==
  ASSUME NEW raw \in Seq(STRING), NEW len \in Nat, Len(raw) = len,
         NEW m \in Nat \ {0}, NEW at, Ruled(raw, len, m, at), NEW k \in 1 .. m,
         NEW n \in Nat, NEW v \in Nat, NEW piece, Len(piece) = n + v + 4,
         at[k] = at[k - 1] + Len(piece),
         \A i \in 1 .. Len(piece) : at[k - 1] + i <= len => raw[at[k - 1] + i] = piece[i],
         NEW line, line = SubSeq(raw, at[k - 1] + 1, LineEnd(m, at, k))
  PROVE  \E a \in Nat, w \in Nat : IsCut(raw, len, a, w, n, v, piece, line)
<1>1. PICK a \in Nat, w \in Nat :
        /\ a = at[k - 1] /\ LineEnd(m, at, k) = a + w
        /\ a + w <= len /\ w \in {n + v + 2, n + v + 3}
  <2>1. /\ at[k - 1] + 1 \in 1 .. len /\ LineEnd(m, at, k) \in 1 .. len
        /\ IsLine(raw, len, at[k - 1] + 1, LineEnd(m, at, k))
    BY RuledIsLine
  <2>2. k - 1 \in 0 .. m /\ k \in 0 .. m
    OBVIOUS
  <2>3. at[k - 1] \in Nat /\ at[k] \in Nat
    BY <2>2 DEF Ruled
  <2>4. at[k] = at[k - 1] + (n + v + 4)
    BY Zenon
  <2>5. \/ LineEnd(m, at, k) = at[k - 1] + (n + v + 2)
        \/ LineEnd(m, at, k) = at[k - 1] + (n + v + 3)
    BY <2>3, <2>4, SMTT(40) DEF LineEnd
  <2>6. n + v + 2 \in Nat /\ n + v + 3 \in Nat /\ LineEnd(m, at, k) <= len
    BY <2>1
  <2> QED BY <2>3, <2>5, <2>6
<1>2. \A i \in 1 .. n + v + 4 : a + i <= len => raw[a + i] = piece[i]
  BY <1>1, Zenon
<1>3. line = SubSeq(raw, a + 1, a + w)
  BY <1>1, Zenon
<1>4. IsCut(raw, len, a, w, n, v, piece, line)
  BY <1>1, <1>2, <1>3, Zenon DEF IsCut
<1> QED BY <1>4, Zenon

\* A line gives the name and the value.
IsRead(line, name, value) ==
  /\ Find(line, Colon, 1) # Npos
  /\ KeyOf(line) = name /\ ValueOf(line) = value /\ line # <<"CR">>

LEMMA LineIsRead ==
  ASSUME NEW sp \in STRING, IsSeparator(Colon, sp),
         NEW line \in Seq(STRING), NEW w \in Nat, Len(line) = w,
         NEW name \in Seq(STRING), NameIsPlain(name),
         NEW value \in Seq(STRING), ValueIsPlain(value),
         HeaderText(line, w, sp, name, Len(name), value, Len(value))
  PROVE  IsRead(line, name, value)
<1>0. Len(name) \in Nat /\ Len(value) \in Nat
  OBVIOUS
<1>1. Find(line, Colon, 1) = Len(name) + 1
  BY <1>0, HeaderIsCut, ZenonT(40)
<1>2. Len(name) + 1 # Npos
  BY <1>0 DEF Npos
<1>3. KeyOf(line) = name /\ ValueOf(line) = value /\ line # <<"CR">>
  BY <1>0, <1>1, HeaderIsRead, Zenon
<1> QED BY <1>1, <1>2, <1>3, Zenon DEF IsRead

\* A line without ": " is passed over.
IsPassedOver(line) == Find(line, Colon, 1) = Npos /\ line # <<"CR">>

LEMMA CutIsPassedOver ==
  ASSUME NEW raw \in Seq(STRING), NEW len \in Nat, NEW n \in Nat, NEW v \in Nat, NEW piece,
         NEW sp \in STRING, IsSeparator(Colon, sp), HasNoSeparator(piece, n + v + 4, sp),
         NEW a \in Nat, NEW w \in Nat, NEW line, IsCut(raw, len, a, w, n, v, piece, line)
  PROVE  IsPassedOver(line)
<1>0. IsCutOf(line, w, n, v, piece)
  BY CutReads, Zenon
<1>1. line \in Seq(STRING) /\ Len(line) = w /\ w \in {n + v + 2, n + v + 3}
  BY <1>0 DEF IsCutOf
<1>2. \A i \in 1 .. w : line[i] = piece[i]
  BY <1>0, Zenon DEF IsCutOf
<1>3. HasNoSeparator(line, w, sp)
  <2> SUFFICES ASSUME NEW i \in 1 .. w + 1 - 2 PROVE ~ (line[i] = ":" /\ line[i + 1] = sp)
    BY Zenon DEF HasNoSeparator
  <2>1. i \in 1 .. w /\ i + 1 \in 1 .. w /\ i \in 1 .. (n + v + 4) + 1 - 2
    BY <1>1
  <2> QED BY <1>2, <2>1, Zenon DEF HasNoSeparator
<1>4. Find(line, Colon, 1) = Npos
  BY <1>1, <1>3, NothingSeparates, Zenon
<1>5. line # <<"CR">>
  <2>1. Len(<<"CR">>) = 1 /\ w # 1
    BY <1>1
  <2> QED BY <1>1, <2>1
<1> QED BY <1>4, <1>5, Zenon DEF IsPassedOver

\* Names and values that do not hide where they end.
PlainFields(kept, names, values) ==
  \A k \in kept : /\ names[k] \in Seq(STRING) /\ NameIsPlain(names[k])
                  /\ values[k] \in Seq(STRING) /\ ValueIsPlain(values[k])

\* The lines that are passed over.
ArePassedOver(pieces, m, kept, sp) ==
  \A k \in 1 .. m :
    k \notin kept => PieceIsLine(pieces[k]) /\ HasNoSeparator(pieces[k], Len(pieces[k]), sp)

\* m lines, of which those in kept are headers and the others have no ": ".
HeaderPieces(pieces, m, kept, sp, names, values) ==
  /\ kept \in SUBSET (1 .. m)
  /\ \A k \in kept :
       HeaderPiece(pieces[k], sp, names[k], Len(names[k]), values[k], Len(values[k]))
  /\ ArePassedOver(pieces, m, kept, sp)

\* The pieces stand in raw one behind the other, as far as it goes.
HoldsPieces(raw, len, pieces, m, at) ==
  \A k \in 1 .. m :
    /\ at[k] = at[k - 1] + Len(pieces[k])
    /\ \A i \in 1 .. Len(pieces[k]) : at[k - 1] + i <= len => raw[at[k - 1] + i] = pieces[k][i]

LEMMA KthLineIsRead ==
  ASSUME NEW sp \in STRING, IsSeparator(Colon, sp),
         NEW raw \in Seq(STRING), NEW len \in Nat, Len(raw) = len,
         NEW m \in Nat \ {0}, NEW at, Ruled(raw, len, m, at),
         NEW pieces, HoldsPieces(raw, len, pieces, m, at),
         NEW kept, NEW names, NEW values, PlainFields(kept, names, values),
         HeaderPieces(pieces, m, kept, sp, names, values),
         NEW k \in kept
  PROVE  IsRead(SubSeq(raw, at[k - 1] + 1, LineEnd(m, at, k)), names[k], values[k])
<1>9. k \in 1 .. m
  <2>1. kept \in SUBSET (1 .. m)
    BY Zenon DEF HeaderPieces
  <2> QED BY <2>1
<1>0. /\ names[k] \in Seq(STRING) /\ NameIsPlain(names[k])
      /\ values[k] \in Seq(STRING) /\ ValueIsPlain(values[k])
  BY Zenon DEF PlainFields
<1>1. HeaderPiece(pieces[k], sp, names[k], Len(names[k]), values[k], Len(values[k]))
  BY Zenon DEF HeaderPieces
<1>2. /\ at[k] = at[k - 1] + Len(pieces[k])
      /\ \A i \in 1 .. Len(pieces[k]) :
           at[k - 1] + i <= len => raw[at[k - 1] + i] = pieces[k][i]
  BY <1>9, Zenon DEF HoldsPieces
<1>3. Len(names[k]) \in Nat /\ Len(values[k]) \in Nat
  BY <1>0
<1>4. \E line : line = SubSeq(raw, at[k - 1] + 1, LineEnd(m, at, k))
  OBVIOUS
<1>5. PICK line : line = SubSeq(raw, at[k - 1] + 1, LineEnd(m, at, k))
  BY <1>4
<1>6. PICK a \in Nat, w \in Nat :
        IsCut(raw, len, a, w, Len(names[k]), Len(values[k]), pieces[k], line)
  <2>1. Len(pieces[k]) = Len(names[k]) + Len(values[k]) + 4
    BY <1>1, Zenon DEF HeaderPiece
  <2> QED BY <1>2, <1>3, <1>5, <1>9, <2>1, LineIsCut, Zenon
<1>7. /\ line \in Seq(STRING) /\ Len(line) = w
      /\ HeaderText(line, w, sp, names[k], Len(names[k]), values[k], Len(values[k]))
  BY <1>1, <1>3, <1>6, CutIsHeader, Zenon
<1>8. IsRead(line, names[k], values[k])
  BY <1>0, <1>6, <1>7, LineIsRead, Zenon
<1> QED BY <1>5, <1>8, Zenon

LEMMA KthLineIsPassedOver ==
  ASSUME NEW sp \in STRING, IsSeparator(Colon, sp),
         NEW raw \in Seq(STRING), NEW len \in Nat, Len(raw) = len,
         NEW m \in Nat \ {0}, NEW at, Ruled(raw, len, m, at),
         NEW pieces, HoldsPieces(raw, len, pieces, m, at),
         NEW kept, ArePassedOver(pieces, m, kept, sp),
         NEW k \in 1 .. m, k \notin kept
  PROVE  IsPassedOver(SubSeq(raw, at[k - 1] + 1, LineEnd(m, at, k)))
<1>1. PieceIsLine(pieces[k]) /\ HasNoSeparator(pieces[k], Len(pieces[k]), sp)
  BY Zenon DEF ArePassedOver
<1>2. /\ at[k] = at[k - 1] + Len(pieces[k])
      /\ \A i \in 1 .. Len(pieces[k]) :
           at[k - 1] + i <= len => raw[at[k - 1] + i] = pieces[k][i]
  BY Zenon DEF HoldsPieces
<1>3. PICK n \in Nat, v \in Nat : Len(pieces[k]) = n + v + 4
  <2>1. Len(pieces[k]) \in Nat /\ 4 <= Len(pieces[k])
    BY <1>1, Zenon DEF PieceIsLine
  <2>2. /\ Len(pieces[k]) - 4 \in Nat /\ 0 \in Nat
        /\ Len(pieces[k]) = (Len(pieces[k]) - 4) + 0 + 4
    BY <2>1
  <2> QED BY <2>2, Zenon
<1>4. PICK line : line = SubSeq(raw, at[k - 1] + 1, LineEnd(m, at, k))
  OBVIOUS
<1>5. PICK a \in Nat, w \in Nat : IsCut(raw, len, a, w, n, v, pieces[k], line)
  BY <1>2, <1>3, <1>4, LineIsCut, Zenon
<1>6. HasNoSeparator(pieces[k], n + v + 4, sp)
  BY <1>1, <1>3, Zenon
<1>7. IsPassedOver(line)
  BY <1>5, <1>6, CutIsPassedOver, Zenon
<1> QED BY <1>4, <1>7, Zenon

\* The head of a message without the last CR LF.
IsRaw(raw, len, sp, pieces, m, at, kept, names, values) ==
  /\ raw \in Seq(STRING) /\ len \in Nat /\ Len(raw) = len
  /\ sp \in STRING /\ IsSeparator(Colon, sp)
  /\ m \in Nat \ {0} /\ Ruled(raw, len, m, at) /\ HoldsPieces(raw, len, pieces, m, at)
  /\ PlainFields(kept, names, values) /\ HeaderPieces(pieces, m, kept, sp, names, values)

LEMMA RawIsRead ==
  ASSUME NEW raw, NEW len, NEW sp, NEW pieces, NEW m, NEW at, NEW kept, NEW names,
         NEW values,
         IsRaw(raw, len, sp, pieces, m, at, kept, names, values)
  PROVE  ParseFromRaw(raw) = LastValues(names, values, kept)
<1>9. /\ raw \in Seq(STRING) /\ len \in Nat /\ Len(raw) = len
      /\ sp \in STRING /\ IsSeparator(Colon, sp)
      /\ m \in Nat \ {0} /\ Ruled(raw, len, m, at) /\ HoldsPieces(raw, len, pieces, m, at)
      /\ PlainFields(kept, names, values) /\ HeaderPieces(pieces, m, kept, sp, names, values)
  BY Zenon DEF IsRaw
<1> USE <1>9
<1>0. PICK from, to : /\ from = [k \in 1 .. m |-> at[k - 1] + 1]
                      /\ to = [k \in 1 .. m |-> LineEnd(m, at, k)]
  OBVIOUS
<1>1. Lines(raw) = {<<from[k], to[k]>> : k \in 1 .. m}
  <2>1. Lines(raw) = {<<at[k - 1] + 1, LineEnd(m, at, k)>> : k \in 1 .. m}
    BY LinesAreRuled
  <2> QED BY <1>0, <2>1
<1>10. kept \in SUBSET (1 .. m) /\ ArePassedOver(pieces, m, kept, sp)
  BY Zenon DEF HeaderPieces
<1>2. \A k \in kept : IsRead(SubSeq(raw, from[k], to[k]), names[k], values[k])
  <2> TAKE k \in kept
  <2>1. k \in 1 .. m
    BY <1>10
  <2>2. from[k] = at[k - 1] + 1 /\ to[k] = LineEnd(m, at, k)
    BY <1>0, <2>1, Zenon
  <2>3. IsRead(SubSeq(raw, at[k - 1] + 1, LineEnd(m, at, k)), names[k], values[k])
    BY KthLineIsRead, Zenon
  <2> QED BY <2>2, <2>3, Zenon
<1>11. \A k \in 1 .. m : k \notin kept => IsPassedOver(SubSeq(raw, from[k], to[k]))
  <2> TAKE k \in 1 .. m
  <2>1. from[k] = at[k - 1] + 1 /\ to[k] = LineEnd(m, at, k)
    BY <1>0, Zenon
  <2>2. k \notin kept =>
          IsPassedOver(SubSeq(raw, at[k - 1] + 1, LineEnd(m, at, k)))
    BY <1>10, KthLineIsPassedOver, Zenon
  <2> QED BY <2>1, <2>2, Zenon
<1>3. \A j, k \in 1 .. m : from[k] \in Nat /\ (j < k => from[j] < from[k])
  <2> TAKE j, k \in 1 .. m
  <2>1. from[j] = at[j - 1] + 1 /\ from[k] = at[k - 1] + 1
    BY <1>0, Zenon
  <2>2. at \in [0 .. m -> Nat] /\ j - 1 \in 0 .. m /\ j \in 0 .. m /\ k - 1 \in 0 .. m
    BY DEF Ruled
  <2>3. at[j - 1] + 4 <= at[j]
    BY Zenon DEF Ruled
  <2>4. j < k => at[j] <= at[k - 1]
    <3> SUFFICES ASSUME j < k PROVE at[j] <= at[k - 1]
      OBVIOUS
    <3>1. j <= k - 1
      OBVIOUS
    <3>2. \A x, y \in 0 .. m : x <= y => at[x] <= at[y]
      BY Zenon DEF Ruled
    <3> QED BY <2>2, <3>1, <3>2, Zenon
  <2>5. at[j - 1] \in Nat /\ at[j] \in Nat /\ at[k - 1] \in Nat
    BY <2>2
  <2>6. /\ at[k - 1] + 1 \in Nat
        /\ j < k => at[j - 1] + 1 < at[k - 1] + 1
    <3>1. \A x, y, z \in Nat : x + 4 <= y /\ y <= z => x + 1 < z + 1
      OBVIOUS
    <3>2. \A z \in Nat : z + 1 \in Nat
      OBVIOUS
    <3> QED BY <2>3, <2>4, <2>5, <3>1, <3>2, Zenon
  <2> QED BY <2>1, <2>6, Zenon
<1>4. IsTable(raw, m, kept, from, to, names, values)
  BY <1>2, <1>3, <1>10, <1>11, Zenon DEF IsTable, IsRead, IsPassedOver
<1>5. HeaderMap(raw, Lines(raw)) = LastValues(names, values, kept)
  <2>1. AreLines(Lines(raw), from, to, m) /\ m \in Nat
    BY <1>1 DEF AreLines
  <2> QED BY <1>4, <2>1, LastValueCounts
\* No line is empty.
<1>6. {line \in Lines(raw) : SubSeq(raw, line[1], line[2]) = <<"CR">>} = {}
  <2>1. ASSUME NEW line \in Lines(raw) PROVE SubSeq(raw, line[1], line[2]) # <<"CR">>
    <3>1. PICK k \in 1 .. m : line = <<from[k], to[k]>>
      BY <1>1
    <3>2. line[1] = from[k] /\ line[2] = to[k]
      BY <3>1
    <3> QED BY <1>2, <1>11, <3>2, Zenon DEF IsRead, IsPassedOver
  <2> QED BY <2>1, Zenon
<1>7. ParseFromRaw(raw) = HeaderMap(raw, {line \in Lines(raw) : \A e \in {} : line[1] < e[1]})
  BY <1>6, Zenon DEF ParseFromRaw
<1>8. {line \in Lines(raw) : \A e \in {} : line[1] < e[1]} = Lines(raw)
  OBVIOUS
<1> QED BY <1>5, <1>7, <1>8, Zenon

LEMMA CountWraps ==
  ASSUME NEW a \in Int, NEW b \in Nat \ {0}
  PROVE  /\ a % b \in Nat
         /\ a \in Nat /\ a < b => a % b = a
OBVIOUS

\* The text between the first CR LF and the empty line, whose length is counted
\* modulo SizeMod.
LEMMA RawHeadersAre ==
  ASSUME NEW text \in Seq(STRING), NEW l \in Nat, NEW t \in Nat, Len(text) = l + 9 + t,
         Find(text, CRLF, 1) = 6, Find(text, CRLF \o CRLF, 1) = l + 6
  PROVE  \E c \in Nat, w \in Nat :
           /\ c = (l - 2) % SizeMod /\ w <= l + 2 + t /\ w <= c
           /\ w = c \/ w = l + 2 + t
           /\ RawHeaders(text) \in Seq(STRING) /\ Len(RawHeaders(text)) = w
           /\ \A i \in 1 .. w : RawHeaders(text)[i] = text[7 + i]
<1>1. RawHeaders(text) = Substr(text, 6 + 2, ((l + 6) - 6 - 2) % SizeMod)
  BY Zenon DEF RawHeaders
<1> PICK raw : raw = RawHeaders(text)
  OBVIOUS
<1>2. raw = Substr(text, 6 + 2, ((l + 6) - 6 - 2) % SizeMod)
  BY <1>1, Zenon
<1> HIDE <1>1
<1>3. (l + 6) - 6 - 2 = l - 2 /\ 6 + 2 = 8 /\ l - 2 \in Int
  OBVIOUS
<1> PICK c \in Nat : c = (l - 2) % SizeMod
  <2>1. SizeMod \in Nat \ {0}
    BY MessageAssumption, Zenon
  <2>2. (l - 2) % SizeMod \in Nat
    BY <1>3, <2>1, CountWraps, Zenon
  <2> QED BY <2>2, Zenon
<1>4. raw = Substr(text, 8, c)
  BY <1>2, <1>3, Zenon
<1> PICK len \in Nat : len = Len(text) /\ len = l + 9 + t
  OBVIOUS
<1>5. Min({len, 7 + c}) = IF len <= 7 + c THEN len ELSE 7 + c
  <2>1. 7 + c \in Nat
    OBVIOUS
  <2> QED BY <2>1, MinOfTwo
<1>6. PICK w \in Nat : /\ Min({len, 7 + c}) = 7 + w /\ w <= l + 2 + t /\ w <= c
                       /\ w = c \/ w = l + 2 + t
                       /\ 7 + w <= len
  <2>1. CASE len <= 7 + c
    <3>1. l + 2 + t \in Nat /\ 7 + (l + 2 + t) = len /\ l + 2 + t <= c
      BY <2>1
    <3> QED BY <1>5, <2>1, <3>1
  <2>2. CASE ~ (len <= 7 + c)
    <3>1. c <= l + 2 + t
      BY <2>2
    <3> QED BY <1>5, <2>2, <3>1
  <2> QED BY <2>1, <2>2
<1>7. raw = SubSeq(text, 8, 7 + w)
  <2>1. 8 + c - 1 = 7 + c
    OBVIOUS
  <2> QED BY <1>4, <1>6, <2>1, Zenon DEF Substr
<1>8. /\ raw \in Seq(STRING) /\ Len(raw) = w
      /\ \A i \in 1 .. w : raw[i] = text[7 + i]
  <2>1. 8 \in 1 .. Len(text) + 1 /\ 7 + w \in 8 - 1 .. Len(text) /\ (7 + w) - 8 + 1 = w
    BY <1>6
  <2>2. \A i \in 1 .. w : 8 + i - 1 = 7 + i
    OBVIOUS
  <2> QED BY <1>7, <2>1, <2>2, SubSeqProperties
<1> QED BY <1>6, <1>8, Zenon

\* Without header lines the first line is a CR, or there is none.
LEMMA NothingIsRead ==
  ASSUME NEW raw \in Seq(STRING), NEW w \in Nat, Len(raw) = w,
         w >= 1 => raw[1] = "CR", w >= 2 => raw[2] = "LF",
         NEW names, NEW values
  PROVE  ParseFromRaw(raw) = LastValues(names, values, {})
<1>1. {line \in Lines(raw) :
         \A e \in {e \in Lines(raw) : SubSeq(raw, e[1], e[2]) = <<"CR">>} : line[1] < e[1]} = {}
  <2> SUFFICES ASSUME NEW line \in Lines(raw)
               PROVE  \E e \in Lines(raw) :
                        SubSeq(raw, e[1], e[2]) = <<"CR">> /\ ~ (line[1] < e[1])
    OBVIOUS
  <2>1. line \in (1 .. w) \X (1 .. w)
    BY DEF Lines
  <2>2. w >= 1 /\ line[1] \in Nat /\ line[1] >= 1
    BY <2>1
  <2>3. <<1, 1>> \in Lines(raw)
    <3> DEFINE e == <<1, 1>>
    <3>1. e \in (DOMAIN raw) \X (DOMAIN raw) /\ e[1] = 1 /\ e[2] = 1 /\ e[1] <= e[2]
      BY <2>2
    <3>2. \A i \in 1 .. 1 : raw[i] # "LF"
      BY <2>2
    <3>3. 1 = Len(raw) \/ raw[1 + 1] = "LF"
      BY <2>2
    <3> HIDE DEF e
    <3>4. e \in Lines(raw)
      BY <3>1, <3>2, <3>3, Zenon DEF Lines
    <3> QED BY <3>4 DEF e
  <2>4. SubSeq(raw, 1, 1) = <<"CR">>
    <3>1. SubSeq(raw, 1, 1) \in Seq(STRING) /\ Len(SubSeq(raw, 1, 1)) = 1
          /\ SubSeq(raw, 1, 1)[1] = raw[1]
      BY <2>2
    <3>2. \A s \in Seq(STRING) : Len(s) = 1 => s = <<s[1]>>
      OBVIOUS
    <3> QED BY <2>2, <3>1, <3>2
  <2>5. <<1, 1>>[1] = 1 /\ <<1, 1>>[2] = 1 /\ ~ (line[1] < 1)
    BY <2>2
  <2> QED BY <2>3, <2>4, <2>5, Zenon
<1>2. ParseFromRaw(raw) = HeaderMap(raw, {})
  BY <1>1, Zenon DEF ParseFromRaw
<1>3. HeaderMap(raw, {}) = LastValues(names, values, {})
  <2>1. IsTable(raw, 0, {}, names, names, names, values) /\ AreLines({}, names, names, 0)
        /\ 0 \in Nat
    BY DEF IsTable, AreLines
  <2> QED BY <2>1, LastValueCounts
<1> QED BY <1>2, <1>3, Zenon

LEMMA PiecesAreLines ==
  ASSUME NEW sp, sp # "LF", NEW m \in Nat, NEW kept, NEW names, NEW values,
         PlainFields(kept, names, values),
         NEW pieces, HeaderPieces(pieces, m, kept, sp, names, values)
  PROVE  \A k \in 1 .. m : PieceIsLine(pieces[k])
<1> TAKE k \in 1 .. m
<1>1. CASE k \in kept
  <2>1. /\ names[k] \in Seq(STRING) /\ NameIsPlain(names[k])
        /\ values[k] \in Seq(STRING) /\ ValueIsPlain(values[k])
    BY <1>1, Zenon DEF PlainFields
  <2>2. HeaderPiece(pieces[k], sp, names[k], Len(names[k]), values[k], Len(values[k]))
    BY <1>1, Zenon DEF HeaderPieces
  <2>3. Len(names[k]) \in Nat /\ Len(values[k]) \in Nat
    BY <2>1
  <2> QED BY <2>1, <2>2, <2>3, HeaderPieceIsLine, Zenon
<1>2. CASE k \notin kept
  BY <1>2, Zenon DEF HeaderPieces, ArePassedOver
<1> QED BY <1>1, <1>2

\* Without the last CR LF.
LEMMA LinedIsRuled ==
  ASSUME NEW raw, NEW len \in Nat, NEW flat, NEW l \in Nat, len = l - 2,
         NEW m \in Nat \ {0}, NEW at, Lined(flat, l, m, at),
         \A p \in 1 .. len : raw[p] = flat[p]
  PROVE  Ruled(raw, len, m, at)
<1>1. /\ at \in [0 .. m -> Nat] /\ at[0] = 0 /\ at[m] = l
      /\ \A j, k \in 0 .. m : j <= k => at[j] <= at[k]
      /\ \A k \in 1 .. m : at[k - 1] + 4 <= at[k]
  BY Zenon DEF Lined
<1>2. \A k \in 1 .. m : \A p \in 1 .. len :
        at[k - 1] < p /\ p <= at[k] => (raw[p] = "LF" <=> p = at[k])
  <2> TAKE k \in 1 .. m
  <2> TAKE p \in 1 .. len
  <2>1. p \in 1 .. l
    OBVIOUS
  <2>2. raw[p] = flat[p]
    OBVIOUS
  <2>3. at[k - 1] < p /\ p <= at[k] => (flat[p] = "LF" <=> p = at[k])
    BY <2>1, Zenon DEF Lined
  <2> QED BY <2>2, <2>3, Zenon
<1>3. len = at[m] - 2
  BY <1>1, Zenon
<1> QED BY <1>1, <1>2, <1>3, Zenon DEF Ruled

LEMMA RawHoldsPieces ==
  ASSUME NEW raw, NEW len \in Nat, NEW flat, NEW l \in Nat,
         NEW m \in Nat, NEW pieces, NEW at, Layout(flat, pieces, m, at), Lined(flat, l, m, at),
         \A p \in 1 .. len : raw[p] = flat[p],
         \A k \in 1 .. m : PieceIsLine(pieces[k])
  PROVE  HoldsPieces(raw, len, pieces, m, at)
<1> SUFFICES ASSUME NEW k \in 1 .. m
             PROVE  /\ at[k] = at[k - 1] + Len(pieces[k])
                    /\ \A i \in 1 .. Len(pieces[k]) :
                         at[k - 1] + i <= len => raw[at[k - 1] + i] = pieces[k][i]
  BY Zenon DEF HoldsPieces
<1>1. /\ at[k] = at[k - 1] + Len(pieces[k])
      /\ \A i \in 1 .. Len(pieces[k]) : flat[at[k - 1] + i] = pieces[k][i]
  BY Zenon DEF Layout
<1>2. at[k - 1] \in Nat /\ Len(pieces[k]) \in Nat
  BY Zenon DEF Lined, PieceIsLine
<1>3. ASSUME NEW i \in 1 .. Len(pieces[k]), at[k - 1] + i <= len
      PROVE  raw[at[k - 1] + i] = pieces[k][i]
  <2>1. at[k - 1] + i \in 1 .. len
    BY <1>2, <1>3
  <2> QED BY <1>1, <2>1, Zenon
<1> QED BY <1>1, <1>3, Zenon

\* The head of a message: its lines are the pieces.
IsHead(text, sp, w1, w2, w3, flat, l, tail, t, pieces, m, at, kept, names, values) ==
  /\ text \in Seq(STRING) /\ sp \in STRING /\ IsSeparator(Colon, sp)
  /\ l \in Nat /\ t \in Nat /\ m \in Nat /\ Len(flat) = l
  /\ sp # "LF" /\ w1 # "LF" /\ w2 # "LF" /\ w3 # "LF"
  /\ MessageText(text, sp, w1, w2, w3, flat, l, tail, t)
  /\ Layout(flat, pieces, m, at)
  /\ HeaderPieces(pieces, m, kept, sp, names, values)
  /\ PlainFields(kept, names, values)

LEMMA HeadIsFound ==
  ASSUME NEW text, NEW sp, NEW w1, NEW w2, NEW w3, NEW flat, NEW l, NEW tail, NEW t,
         NEW pieces, NEW m, NEW at, NEW kept, NEW names, NEW values,
         IsHead(text, sp, w1, w2, w3, flat, l, tail, t, pieces, m, at, kept, names, values)
  PROVE  /\ \A k \in 1 .. m : PieceIsLine(pieces[k])
         /\ Lined(flat, l, m, at)
         /\ Find(text, CRLF, 1) = 6 /\ Find(text, CRLF \o CRLF, 1) = l + 6
<1>0. /\ text \in Seq(STRING) /\ sp \in STRING /\ IsSeparator(Colon, sp)
      /\ l \in Nat /\ t \in Nat /\ m \in Nat /\ Len(flat) = l
      /\ sp # "LF" /\ w1 # "LF" /\ w2 # "LF" /\ w3 # "LF"
      /\ MessageText(text, sp, w1, w2, w3, flat, l, tail, t)
      /\ Layout(flat, pieces, m, at)
      /\ HeaderPieces(pieces, m, kept, sp, names, values)
      /\ PlainFields(kept, names, values)
  BY Zenon DEF IsHead
<1>1. \A k \in 1 .. m : PieceIsLine(pieces[k])
  BY <1>0, PiecesAreLines, Zenon
<1>2. Lined(flat, l, m, at)
  BY <1>0, <1>1, LinesEndPieces, Zenon
<1>3. Find(text, CRLF, 1) = 6
  BY <1>0, StartLineEnds, Zenon
<1>4. Find(text, CRLF \o CRLF, 1) = l + 6
  <2>1. PICK four : four = CRLF \o CRLF
    OBVIOUS
  <2>2. IsBlank(four)
    BY <2>1, BlankIs, Zenon
  <2>3. Find(text, four, 1) = l + 6
    BY <1>0, <1>2, <2>2, HeadEnds
  <2> QED BY <2>1, <2>3, Zenon
<1> QED BY <1>1, <1>2, <1>3, <1>4, Zenon

LEMMA HeadersAreParsed ==
  ASSUME NEW text, NEW sp, NEW w1, NEW w2, NEW w3, NEW flat, NEW l, NEW tail, NEW t,
         NEW pieces, NEW m, NEW at, NEW kept, NEW names, NEW values,
         IsHead(text, sp, w1, w2, w3, flat, l, tail, t, pieces, m, at, kept, names, values),
         Len(text) < SizeMod
  PROVE  ParseFromRaw(RawHeaders(text)) = LastValues(names, values, kept)
<1>0. /\ text \in Seq(STRING) /\ sp \in STRING /\ IsSeparator(Colon, sp)
      /\ l \in Nat /\ t \in Nat /\ m \in Nat /\ Len(flat) = l
      /\ MessageText(text, sp, w1, w2, w3, flat, l, tail, t)
      /\ Layout(flat, pieces, m, at)
      /\ HeaderPieces(pieces, m, kept, sp, names, values)
      /\ PlainFields(kept, names, values)
  BY Zenon DEF IsHead
<1>1. /\ \A k \in 1 .. m : PieceIsLine(pieces[k])
      /\ Lined(flat, l, m, at)
      /\ Find(text, CRLF, 1) = 6 /\ Find(text, CRLF \o CRLF, 1) = l + 6
  BY HeadIsFound, Zenon
<1>2. /\ Len(text) = l + 9 + t
      /\ text[l + 8] = "CR" /\ text[l + 9] = "LF"
      /\ \A i \in 1 .. l : text[7 + i] = flat[i]
  BY <1>0, Zenon DEF MessageText
<1>3. \E c \in Nat, w \in Nat :
         /\ c = (l - 2) % SizeMod /\ w <= l + 2 + t /\ w <= c
         /\ w = c \/ w = l + 2 + t
         /\ RawHeaders(text) \in Seq(STRING) /\ Len(RawHeaders(text)) = w
         /\ \A i \in 1 .. w : RawHeaders(text)[i] = text[7 + i]
  BY <1>0, <1>1, <1>2, RawHeadersAre, Zenon
<1>4. PICK raw \in Seq(STRING), c \in Nat, w \in Nat :
         /\ raw = RawHeaders(text)
         /\ c = (l - 2) % SizeMod /\ w <= l + 2 + t /\ w <= c
         /\ w = c \/ w = l + 2 + t
         /\ Len(raw) = w
         /\ \A i \in 1 .. w : raw[i] = text[7 + i]
  BY <1>3, Zenon
<1>5. CASE m = 0
  <2>1. l = 0
    <3>1. at[0] = 0 /\ at[m] = l
      BY <1>1, Zenon DEF Lined
    <3> QED BY <1>5, <3>1, Zenon
  <2>2. text[8] = "CR" /\ text[9] = "LF"
    BY <1>2, <2>1
  <2>3. w >= 1 => raw[1] = "CR"
    <3>1. w >= 1 => 1 \in 1 .. w
      BY <1>4
    <3>2. 7 + 1 = 8
      OBVIOUS
    <3> QED BY <1>4, <2>2, <3>1, <3>2, Zenon
  <2>4. w >= 2 => raw[2] = "LF"
    <3>1. w >= 2 => 2 \in 1 .. w
      BY <1>4
    <3>2. 7 + 2 = 9
      OBVIOUS
    <3> QED BY <1>4, <2>2, <3>1, <3>2, Zenon
  <2>5. ParseFromRaw(raw) = LastValues(names, values, {})
    BY <1>4, <2>3, <2>4, NothingIsRead, Zenon
  <2>6. kept = {}
    <3>1. kept \in SUBSET (1 .. m)
      BY <1>0, Zenon DEF HeaderPieces
    <3> QED BY <1>5, <3>1
  <2> QED BY <1>4, <2>5, <2>6, Zenon
<1>6. CASE m # 0
  <2>1. m \in Nat \ {0} /\ m \in 1 .. m
    BY <1>0, <1>6
  <2>2. 4 <= l
    <3>1. at[m] = l /\ at[m - 1] \in Nat /\ at[m - 1] + 4 <= at[m]
      BY <1>1, <2>1, Zenon DEF Lined
    <3>2. at[m - 1] + 4 <= l
      BY <3>1, Zenon
    <3>3. \A a \in Nat : a + 4 <= l => 4 <= l
      BY <1>0
    <3> QED BY <3>1, <3>2, <3>3, Zenon
  <2>3. l - 2 \in Nat /\ l - 2 < SizeMod /\ l - 2 < l + 2 + t /\ l - 2 \in Int
    <3>1. SizeMod \in Nat
      BY MessageAssumption, Zenon
    <3>2. l + 9 + t < SizeMod
      BY <1>2, Zenon
    <3> QED BY <1>0, <2>2, <3>1, <3>2
  <2>4. c = l - 2
    <3>1. SizeMod \in Nat \ {0}
      BY MessageAssumption, Zenon
    <3>2. (l - 2) % SizeMod = l - 2
      BY <2>3, <3>1, CountWraps, Zenon
    <3> QED BY <1>4, <3>2, Zenon
  <2>5. w = l - 2
    <3>1. w <= c /\ (w = c \/ w = l + 2 + t)
      BY <1>4, Zenon
    <3>2. c < l + 2 + t /\ l + 2 + t \in Nat
      BY <1>0, <2>3, <2>4
    <3>3. \A a, b, d \in Nat : a <= b /\ b < d => a # d
      OBVIOUS
    <3> QED BY <1>4, <2>4, <3>1, <3>2, <3>3, Zenon
  <2>6. \A p \in 1 .. w : raw[p] = flat[p]
    <3> TAKE p \in 1 .. w
    <3>1. p \in 1 .. l
      BY <1>0, <1>4, <2>2, <2>5
    <3> QED BY <1>2, <1>4, <3>1, Zenon
  <2>7. Ruled(raw, w, m, at)
    BY <1>0, <1>1, <1>4, <2>1, <2>5, <2>6, LinedIsRuled, Zenon
  <2>8. HoldsPieces(raw, w, pieces, m, at)
    BY <1>0, <1>1, <1>4, <2>6, RawHoldsPieces, Zenon
  <2>9. /\ sp \in STRING /\ IsSeparator(Colon, sp) /\ raw \in Seq(STRING) /\ w \in Nat
        /\ Len(raw) = w /\ PlainFields(kept, names, values)
        /\ HeaderPieces(pieces, m, kept, sp, names, values)
    BY <1>0, <1>4, Zenon
  <2>10. IsRaw(raw, w, sp, pieces, m, at, kept, names, values)
    BY <2>1, <2>7, <2>8, <2>9, Zenon DEF IsRaw
  <2>11. ParseFromRaw(raw) = LastValues(names, values, kept)
    BY <2>10, RawIsRead, Zenon
  <2> QED BY <1>4, <2>11, Zenon
<1> QED BY <1>5, <1>6

-----------------------------------------------------------------------------
(***************************************************************************)
(* A whole message is read as it was written.                              *)
(***************************************************************************)
LEMMA BodyIsTail ==
  ASSUME NEW text \in Seq(STRING), NEW l \in Nat, NEW tail \in Seq(STRING), NEW t \in Nat,
         t = Len(tail), Find(text, CRLF \o CRLF, 1) = l + 6,
         NEW sp, NEW w1, NEW w2, NEW w3, NEW flat,
         MessageText(text, sp, w1, w2, w3, flat, l, tail, t)
  PROVE  Body(text) = tail
<1>1. Len(text) = l + 9 + t /\ \A i \in 1 .. t : text[l + 9 + i] = tail[i]
  BY Zenon DEF MessageText
<1>2. Body(text) = SubSeq(text, (l + 6) + 4, Len(text))
  BY Zenon DEF Body, From
<1>3. Body(text) = SubSeq(text, (l + 9) + 1, l + 9 + t)
  <2>1. (l + 6) + 4 = (l + 9) + 1
    OBVIOUS
  <2> QED BY <1>1, <1>2, <2>1, Zenon
<1>4. PICK rest : rest = SubSeq(text, (l + 9) + 1, l + 9 + t)
  OBVIOUS
<1>5. rest \in Seq(STRING) /\ Len(rest) = t /\ \A i \in 1 .. t : rest[i] = text[l + 9 + i]
  <2>1. PICK a, n : a = l + 9 /\ n = l + 9 + t
    OBVIOUS
  <2>2. a \in Nat /\ n \in Nat /\ n \in a .. n /\ n - a = t /\ Len(text) = n
    <3>1. \A i, j \in Nat : /\ i + 9 \in Nat /\ i + 9 + j \in Nat
                           /\ i + 9 + j \in i + 9 .. i + 9 + j
                           /\ (i + 9 + j) - (i + 9) = j
      OBVIOUS
    <3> QED BY <1>1, <2>1, <3>1, Zenon
  <2>3. Part(SubSeq(text, a + 1, n), text, a, n, STRING)
    BY <2>2, PartIs, Zenon
  <2>4. SubSeq(text, a + 1, n) = rest
    BY <1>4, <2>1, Zenon
  <2>5. rest \in Seq(STRING) /\ Len(rest) = t /\ \A i \in 1 .. t : rest[i] = text[a + i]
    BY <2>2, <2>3, <2>4, Zenon DEF Part
  <2> QED BY <2>1, <2>5, Zenon
<1>6. \A i \in 1 .. t : rest[i] = tail[i]
  BY <1>1, <1>5, Zenon
<1>7. rest = tail
  BY <1>5, <1>6, SeqEqual
<1> QED BY <1>3, <1>4, <1>7, Zenon

\* The words of the start line.
LEMMA StartLineParsed ==
  ASSUME NEW text, NEW sp, NEW w1, NEW w2, NEW w3, NEW flat, NEW l, NEW tail, NEW t,
         NEW pieces, NEW m, NEW at, NEW kept, NEW names, NEW values,
         IsHead(text, sp, w1, w2, w3, flat, l, tail, t, pieces, m, at, kept, names, values),
         w1 # sp, w2 # sp, w3 # sp
  PROVE  /\ ThreeWords(StartLine(text), sp)
         /\ StartLine(text)[1] = w1 /\ StartLine(text)[3] = w2 /\ StartLine(text)[5] = w3
<1>0. /\ text \in Seq(STRING) /\ l \in Nat /\ t \in Nat
      /\ MessageText(text, sp, w1, w2, w3, flat, l, tail, t)
  BY Zenon DEF IsHead
<1>1. Find(text, CRLF, 1) = 6
  BY HeadIsFound, Zenon
<1>2. 5 <= Len(text)
  <2>1. Len(text) = l + 9 + t
    BY <1>0, Zenon DEF MessageText
  <2> QED BY <1>0, <2>1, UpToFive, Zenon
<1>3. PICK line : line = StartLine(text)
  OBVIOUS
<1>4. Len(line) = 5 /\ \A i \in 1 .. 5 : line[i] = text[i]
  BY <1>0, <1>1, <1>2, <1>3, StartLineIs, Zenon
<1>5. line[1] = w1 /\ line[2] = sp /\ line[3] = w2 /\ line[4] = sp /\ line[5] = w3
  BY <1>0, <1>4, UpToFive, Zenon DEF MessageText
<1>6. ThreeWords(line, sp)
  BY <1>4, <1>5, Zenon DEF ThreeWords
<1> QED BY <1>3, <1>5, <1>6, Zenon

\* A message as RequestText and ToRawResponse put it together.
IsMessage(text, sp, w1, w2, w3, m, kept, names, values, pieces, tail) ==
  /\ sp \in STRING /\ IsSeparator(Colon, sp)
  /\ w1 \in STRING /\ w2 \in STRING /\ w3 \in STRING
  /\ sp # "LF" /\ w1 # "LF" /\ w2 # "LF" /\ w3 # "LF"
  /\ m \in Nat /\ PlainFields(kept, names, values)
  /\ kept \in SUBSET (1 .. m) /\ pieces \in [1 .. m -> Seq(STRING)]
  /\ \A k \in kept : pieces[k] = names[k] \o Colon \o values[k] \o CRLF
  /\ ArePassedOver(pieces, m, kept, sp)
  /\ tail \in Seq(STRING)
  /\ text = <<w1, sp, w2, sp, w3>> \o CRLF \o FlattenSeq(pieces) \o CRLF \o tail

\* A text that begins with such a head.
HasHead(text, sp, w1, w2, w3, tail, pieces, m, kept, names, values) ==
  \E flat, at : \E l, t \in Nat :
    /\ IsHead(text, sp, w1, w2, w3, flat, l, tail, t, pieces, m, at, kept, names, values)
    /\ t = Len(tail)

LEMMA MessageIsHead ==
  ASSUME NEW text, NEW sp, NEW w1, NEW w2, NEW w3, NEW m, NEW kept, NEW names, NEW values,
         NEW pieces,
         NEW tail, IsMessage(text, sp, w1, w2, w3, m, kept, names, values, pieces, tail)
  PROVE  HasHead(text, sp, w1, w2, w3, tail, pieces, m, kept, names, values)
<1>0. /\ sp \in STRING /\ IsSeparator(Colon, sp)
      /\ w1 \in STRING /\ w2 \in STRING /\ w3 \in STRING
      /\ sp # "LF" /\ w1 # "LF" /\ w2 # "LF" /\ w3 # "LF"
      /\ m \in Nat /\ PlainFields(kept, names, values)
      /\ tail \in Seq(STRING)
  BY Zenon DEF IsMessage
<1>1. PICK flat : flat = FlattenSeq(pieces)
  OBVIOUS
<1>2. text = <<w1, sp, w2, sp, w3>> \o CRLF \o flat \o CRLF \o tail
  BY <1>1, Zenon DEF IsMessage
<1>3. ASSUME NEW k \in kept
      PROVE  HeaderPiece(pieces[k], sp, names[k], Len(names[k]), values[k], Len(values[k]))
  <2>1. names[k] \in Seq(STRING) /\ values[k] \in Seq(STRING)
    BY <1>0, Zenon DEF PlainFields
  <2>2. Len(names[k]) \in Nat /\ Len(values[k]) \in Nat
    BY <2>1
  <2>3. pieces[k] = names[k] \o Colon \o values[k] \o CRLF
    BY Zenon DEF IsMessage
  <2>4. Colon = <<":", sp>>
    BY <1>0, Zenon DEF IsSeparator
  <2> PICK name, value, line, n, v, colon :
        /\ name = names[k] /\ value = values[k] /\ line = pieces[k]
        /\ n = Len(names[k]) /\ v = Len(values[k]) /\ colon = Colon
    OBVIOUS
  <2>5. /\ name \in Seq(STRING) /\ value \in Seq(STRING) /\ n \in Nat /\ v \in Nat
        /\ n = Len(name) /\ v = Len(value) /\ colon = <<":", sp>>
        /\ line = name \o colon \o value \o CRLF
    BY <2>1, <2>2, <2>3, <2>4, Zenon
  <2>6. line \in Seq(STRING) /\ HeaderPiece(line, sp, name, n, value, v)
    BY <1>0, <2>5, HeaderLineReads
  <2> QED BY <2>6, Zenon
<1>4. pieces \in [1 .. m -> Seq(STRING)]
  BY Zenon DEF IsMessage
<1>5. PICK at : flat \in Seq(STRING) /\ Layout(flat, pieces, m, at)
  <2>1. FlattenSeq(pieces) \in Seq(STRING) /\ \E at : Layout(FlattenSeq(pieces), pieces, m, at)
    BY <1>0, <1>4, FlattenLayout
  <2> QED BY <1>1, <2>1, Zenon
<1>6. PICK l \in Nat, t \in Nat : l = Len(flat) /\ t = Len(tail)
  BY <1>0, <1>5
<1>7. text \in Seq(STRING) /\ MessageText(text, sp, w1, w2, w3, flat, l, tail, t)
  <2>1. IsGluedText(text, sp, w1, w2, w3, flat, l, tail, t)
    BY <1>0, <1>2, <1>5, <1>6, Zenon DEF IsGluedText
  <2> QED BY <2>1, MessageReads, Zenon
<1>8. HeaderPieces(pieces, m, kept, sp, names, values)
  BY <1>3, Zenon DEF HeaderPieces, IsMessage
<1>9. IsHead(text, sp, w1, w2, w3, flat, l, tail, t, pieces, m, at, kept, names, values)
  BY <1>0, <1>5, <1>6, <1>7, <1>8, Zenon DEF IsHead
<1> QED BY <1>6, <1>9, Zenon DEF HasHead

\* Whatever is written in this way is read as it was meant.
LEMMA MessageIsParsed ==
  ASSUME NEW text, NEW w1, NEW w2, NEW w3, NEW m, NEW kept, NEW names, NEW values,
         NEW pieces, NEW tail,
         IsMessage(text, " ", w1, w2, w3, m, kept, names, values, pieces, tail),
         w1 # " ", w2 # " ", w3 # " ", Len(text) < SizeMod
  PROVE  ParseRequest(text) = [words   |-> <<w1, w2, w3>>,
                               headers |-> LastValues(names, values, kept),
                               body    |-> tail]
<1>1. PICK sp : sp = " "
  OBVIOUS
<1>2. IsMessage(text, sp, w1, w2, w3, m, kept, names, values, pieces, tail)
  BY <1>1, Zenon
<1>10. PICK flat, at : \E l, t \in Nat :
        /\ IsHead(text, sp, w1, w2, w3, flat, l, tail, t, pieces, m, at, kept, names, values)
        /\ t = Len(tail)
  <2>1. HasHead(text, sp, w1, w2, w3, tail, pieces, m, kept, names, values)
    BY <1>2, MessageIsHead, Zenon
  <2> QED BY <2>1, Zenon DEF HasHead
<1>3. PICK l \in Nat, t \in Nat :
        /\ IsHead(text, sp, w1, w2, w3, flat, l, tail, t, pieces, m, at, kept, names, values)
        /\ t = Len(tail)
  BY <1>10, Zenon
<1>4. /\ text \in Seq(STRING) /\ tail \in Seq(STRING)
      /\ MessageText(text, sp, w1, w2, w3, flat, l, tail, t)
  BY <1>2, <1>3, Zenon DEF IsHead, IsMessage
<1>5. Words(StartLine(text)) = <<w1, w2, w3>>
  <2>1. w1 # sp /\ w2 # sp /\ w3 # sp
    BY <1>1, Zenon
  <2>2. /\ ThreeWords(StartLine(text), sp)
        /\ StartLine(text)[1] = w1 /\ StartLine(text)[3] = w2 /\ StartLine(text)[5] = w3
    BY <1>3, <2>1, StartLineParsed, Zenon
  <2>3. ThreeWords(StartLine(text), " ")
    BY <1>1, <2>2, Zenon
  <2>4. Words(StartLine(text)) =
          <<StartLine(text)[1], StartLine(text)[3], StartLine(text)[5]>>
    BY <2>3, WordsAre, Zenon
  <2> QED BY <2>2, <2>4, Zenon
<1>6. ParseFromRaw(RawHeaders(text)) = LastValues(names, values, kept)
  BY <1>3, HeadersAreParsed, Zenon
<1>7. Body(text) = tail
  <2>1. Find(text, CRLF \o CRLF, 1) = l + 6
    BY <1>3, HeadIsFound, Zenon
  <2> QED BY <1>3, <1>4, <2>1, BodyIsTail, Zenon
<1> QED BY <1>5, <1>6, <1>7, Zenon DEF ParseRequest

LEMMA PlainName ==
  ASSUME NEW name \in Seq(STRING), NEW value \in Seq(STRING), IsPlainField(name, value)
  PROVE  NameIsPlain(name) /\ ValueIsPlain(value)
BY DEF IsPlainField, NameIsPlain, ValueIsPlain, Range

-----------------------------------------------------------------------------
(***************************************************************************)
(* A request, of which surplus may have come with the body.                *)
(***************************************************************************)
\* The last of the headers with a name: of the fields with ": ".
LastOf(fields, key) ==
  SelectLastInSeq(fields, LAMBDA field : field[2] = Colon /\ field[1] = key)

AreNames(fields, names, m, kept) ==
  /\ Len(fields) = m /\ kept \in SUBSET (1 .. m)
  /\ \A k \in 1 .. m : fields[k][1] = names[k] /\ (fields[k][2] = Colon <=> k \in kept)

LEMMA LastOfFields ==
  ASSUME NEW fields, NEW m \in Nat, NEW kept, NEW names, AreNames(fields, names, m, kept),
         NEW k \in kept
  PROVE  LastOf(fields, names[k]) = LastPlace(names, kept, names[k])
<1>1. {i \in 1 .. Len(fields) : fields[i][2] = Colon /\ fields[i][1] = names[k]} =
        {i \in kept : names[i] = names[k]}
  BY DEF AreNames
<1>2. {i \in kept : names[i] = names[k]} # {}
  OBVIOUS
<1> QED BY <1>1, <1>2, Zenon DEF LastOf, SelectLastInSeq, LastPlace

\* What is behind the head, and how far it goes.
Begins(stream, l, head, h, body, b) ==
  /\ Len(stream) = l /\ h + b <= l
  /\ \A i \in 1 .. h : stream[i] = head[i]
  /\ \A i \in 1 .. b : stream[h + i] = body[i]

\* What comes behind the head begins with the body.
HasTail(T, data, head, body) ==
  \E tail \in Seq(T) : data = head \o tail /\ IsPrefix(body, tail)

\* The first n of a stream of l words, the head of h and the body of b among them.
IsCutAt(T, stream, l, head, h, body, b, n) ==
  /\ head \in Seq(T) /\ body \in Seq(T) /\ stream \in Seq(T)
  /\ h \in Nat /\ b \in Nat /\ l \in Nat /\ h = Len(head) /\ b = Len(body)
  /\ Begins(stream, l, head, h, body, b) /\ n \in h + b .. l

LEMMA CutBehind ==
  ASSUME NEW T, NEW stream, NEW l, NEW head, NEW h, NEW body, NEW b, NEW n,
         IsCutAt(T, stream, l, head, h, body, b, n)
  PROVE  HasTail(T, SubSeq(stream, 1, n), head, body)
<1>9. /\ head \in Seq(T) /\ body \in Seq(T) /\ stream \in Seq(T)
      /\ h \in Nat /\ b \in Nat /\ l \in Nat /\ h = Len(head) /\ b = Len(body)
      /\ Begins(stream, l, head, h, body, b) /\ n \in h + b .. l
  BY Zenon DEF IsCutAt
<1> USE <1>9
<1>0. n - h \in Nat /\ n \in 0 .. l /\ n \in h .. l /\ b <= n - h
  OBVIOUS
<1>3. /\ Len(stream) = l
      /\ \A i \in 1 .. h : stream[i] = head[i]
      /\ \A i \in 1 .. b : stream[h + i] = body[i]
  BY DEF Begins
<1>4. PICK data, tail : data = SubSeq(stream, 1, n) /\ tail = SubSeq(stream, h + 1, n)
  OBVIOUS
<1>5. data \in Seq(T) /\ Len(data) = n /\ \A i \in 1 .. n : data[i] = stream[i]
  BY <1>0, <1>3, <1>4, StartReads, ZenonT(40)
<1>6. tail \in Seq(T) /\ Len(tail) = n - h /\ \A i \in 1 .. n - h : tail[i] = stream[h + i]
  <2>1. /\ SubSeq(stream, h + 1, n) \in Seq(T) /\ Len(SubSeq(stream, h + 1, n)) = n - h
        /\ \A i \in 1 .. n - h : SubSeq(stream, h + 1, n)[i] = stream[h + i]
    BY <1>0, <1>3, PartReads
  <2> QED BY <1>4, <2>1, Zenon
<1>7. data = head \o tail
  <2>0. PICK joined : joined = head \o tail
    OBVIOUS
  <2>1. joined \in Seq(T) /\ IsGlued(joined, head, h, tail, n - h)
    BY <1>0, <1>6, <2>0, Glue, Zenon
  <2>2. ASSUME NEW i \in 1 .. n PROVE joined[i] = data[i]
    <3>1. CASE i <= h
      BY <1>3, <1>5, <2>1, <3>1 DEF IsGlued
    <3>2. CASE ~ (i <= h)
      <4>1. \E k \in 1 .. n - h : i = h + k
        <5>1. i - h \in 1 .. n - h /\ i = h + (i - h)
          BY <3>2
        <5> QED BY <5>1, Zenon
      <4>2. PICK k \in 1 .. n - h : i = h + k
        BY <4>1
      <4>3. joined[h + k] = tail[k] /\ tail[k] = stream[h + k]
        BY <1>6, <2>1, Zenon DEF IsGlued
      <4> QED BY <1>5, <4>2, <4>3, Zenon
    <3> QED BY <3>1, <3>2
  <2>3. Len(joined) = n
    BY <2>1 DEF IsGlued
  <2>4. joined = data
    BY <1>5, <2>1, <2>2, <2>3, SeqEqual
  <2> QED BY <2>0, <2>4
<1>8. IsPrefix(body, tail)
  <2>1. b \in 0 .. n - h
    BY <1>0
  <2>0. PICK start : start = SubSeq(tail, 1, b)
    OBVIOUS
  <2>2. start \in Seq(T) /\ Len(start) = b /\ \A i \in 1 .. b : start[i] = tail[i]
    BY <1>0, <1>6, <2>0, <2>1, StartReads, ZenonT(40)
  <2>3. \A i \in 1 .. b : start[i] = body[i]
    BY <1>0, <1>3, <1>6, <2>2
  <2>4. start = body
    BY <2>2, <2>3, SeqEqual
  <2>5. SubSeq(body, 1, Len(body)) = body
    OBVIOUS
  <2>6. Len(body) <= Len(tail)
    BY <1>0, <1>6
  <2> QED BY <2>0, <2>4, <2>5, <2>6 DEF IsPrefix
<1> QED BY <1>4, <1>6, <1>7, <1>8, Zenon DEF HasTail

\* The names, the values and the lines of a list of fields, and which of them are
\* headers to parseFromRaw.
NamesOf(fields) == [k \in 1 .. Len(fields) |-> fields[k][1]]
ValuesOf(fields) == [k \in 1 .. Len(fields) |-> fields[k][3]]
LinesOf(fields) == [k \in DOMAIN fields |-> HeaderLine(fields[k])]
KeptOf(fields) == {k \in 1 .. Len(fields) : fields[k][2] = Colon}

\* A name, a colon and a value make a line, which has no ": " if it has none.
LEMMA BareLineReads ==
  ASSUME NEW name \in Seq(STRING), NEW value \in Seq(STRING), name # <<>>,
         NameIsPlain(name), ValueIsPlain(value),
         NEW line, line = name \o BareColon \o value \o CRLF
  PROVE  line \in Seq(STRING) /\ PieceIsLine(line)
<1> PICK colon : colon = BareColon
  OBVIOUS
<1> PICK n \in Nat, v \in Nat : n = Len(name) /\ v = Len(value)
  <2>1. Len(name) \in Nat /\ Len(value) \in Nat
    OBVIOUS
  <2> QED BY <2>1, Zenon
<1>1. colon \in Seq(STRING) /\ Len(colon) = 1 /\ colon[1] = ":"
  <2>1. ":" \in STRING
    BY RequestStreamAssumption, Zenon
  <2>2. <<":">> \in Seq(STRING)
    BY <2>1, ShortTexts
  <2> QED BY <2>2 DEF BareColon
<1>2. line \in Seq(STRING) /\ LinePiece(line, name, n, colon, 1, value, v)
  <2>1. 1 \in Nat /\ 1 = Len(colon) /\ line = name \o colon \o value \o CRLF
    BY <1>1, Zenon
  <2> QED BY <1>1, <2>1, LineReads, Zenon
<1>3. /\ Len(line) = n + 1 + v + 2
      /\ \A i \in 1 .. n : line[i] = name[i]
      /\ line[n + 1] = ":"
      /\ \A i \in 1 .. v : line[n + 1 + i] = value[i]
      /\ line[n + 1 + v + 1] = "CR" /\ line[n + 1 + v + 2] = "LF"
  <2>1. 1 \in 1 .. 1
    OBVIOUS
  <2> QED BY <1>1, <1>2, <2>1, Zenon DEF LinePiece
<1>4. n # 0
  OBVIOUS
<1>5. ASSUME NEW i \in 1 .. n + 1 + v + 2 PROVE line[i] = "LF" <=> i = n + 1 + v + 2
  <2>1. CASE i <= n
    <3>1. i \in 1 .. n /\ i \in DOMAIN name /\ i # n + 1 + v + 2
      BY <2>1
    <3>2. line[i] # "LF"
      BY <1>3, <3>1, Zenon DEF NameIsPlain
    <3> QED BY <3>1, <3>2
  <2>2. CASE i = n + 1 \/ i = n + 1 + v + 1 \/ i = n + 1 + v + 2
    <3>1. n + 1 # n + 1 + v + 2 /\ n + 1 + v + 1 # n + 1 + v + 2
      OBVIOUS
    <3> QED BY <1>3, <2>2, <3>1
  <2>3. CASE i \in n + 2 .. n + 1 + v
    <3> PICK j \in 1 .. v : i = n + 1 + j
      <4>1. i - n - 1 \in 1 .. v /\ i = n + 1 + (i - n - 1)
        BY <2>3
      <4> QED BY <4>1
    <3>1. j \in DOMAIN value /\ i # n + 1 + v + 2
      OBVIOUS
    <3>2. value[j] # "LF"
      BY <3>1, Zenon DEF ValueIsPlain
    <3>3. line[n + 1 + j] = value[j]
      BY <1>3, Zenon
    <3> QED BY <3>1, <3>2, <3>3
  <2>4. \/ i <= n \/ i = n + 1 \/ i = n + 1 + v + 1 \/ i = n + 1 + v + 2
        \/ i \in n + 2 .. n + 1 + v
    <3>1. \A a, b \in Nat : \A x \in 1 .. a + 1 + b + 2 :
            \/ x <= a \/ x = a + 1 \/ x = a + 1 + b + 1 \/ x = a + 1 + b + 2
            \/ x \in a + 2 .. a + 1 + b
      OBVIOUS
    <3> QED BY <3>1, Zenon
  <2> QED BY <2>1, <2>2, <2>3, <2>4, Zenon
<1>6. /\ n + 1 + v + 2 \in Nat /\ 4 <= n + 1 + v + 2
      /\ (n + 1 + v + 2) - 1 = n + 1 + v + 1
  BY <1>4
<1>7. PieceIsLine(line)
  BY <1>3, <1>5, <1>6, Zenon DEF PieceIsLine
<1> QED BY <1>2, <1>7

\* What IsPlainRequest says of a field.
FieldIsPlain(field) ==
  /\ IsPlainField(field[1], field[3])
  /\ field[2] = BareColon => field[1] # <<>> /\ Find(HeaderLine(field), Colon, 1) = Npos

LEMMA FieldIsLine ==
  ASSUME NEW field \in Seq(STRING) \X {Colon, BareColon} \X Seq(STRING), FieldIsPlain(field)
  PROVE  /\ HeaderLine(field) \in Seq(STRING)
         /\ NameIsPlain(field[1]) /\ ValueIsPlain(field[3])
         /\ field[2] # Colon =>
              /\ PieceIsLine(HeaderLine(field))
              /\ HasNoSeparator(HeaderLine(field), Len(HeaderLine(field)), " ")
<1>1. /\ field[1] \in Seq(STRING) /\ field[3] \in Seq(STRING)
      /\ field[2] \in {Colon, BareColon}
  OBVIOUS
<1>2. NameIsPlain(field[1]) /\ ValueIsPlain(field[3])
  BY <1>1, PlainName DEF FieldIsPlain
<1>3. CRLF \in Seq(STRING) /\ Colon \in Seq(STRING) /\ BareColon \in Seq(STRING)
  <2>1. "CR" \in STRING /\ "LF" \in STRING /\ ":" \in STRING /\ " " \in STRING
    BY RequestStreamAssumption, Zenon
  <2> QED BY <2>1, ShortTexts DEF CRLF, Colon, BareColon
<1>4. HeaderLine(field) \in Seq(STRING)
  <2>1. field[2] \in Seq(STRING)
    BY <1>1, <1>3, Zenon
  <2>2. field[1] \o field[2] \in Seq(STRING)
    BY <1>1, <2>1, ConcatIsSeq
  <2>3. field[1] \o field[2] \o field[3] \in Seq(STRING)
    BY <1>1, <2>2, ConcatIsSeq
  <2>4. field[1] \o field[2] \o field[3] \o CRLF \in Seq(STRING)
    BY <1>3, <2>3, ConcatIsSeq
  <2> QED BY <2>4 DEF HeaderLine
<1>5. ASSUME field[2] # Colon
      PROVE  /\ PieceIsLine(HeaderLine(field))
             /\ HasNoSeparator(HeaderLine(field), Len(HeaderLine(field)), " ")
  <2>1. field[2] = BareColon /\ field[1] # <<>> /\ Find(HeaderLine(field), Colon, 1) = Npos
    BY <1>1, <1>5, Zenon DEF FieldIsPlain
  <2>2. HeaderLine(field) = field[1] \o BareColon \o field[3] \o CRLF
    BY <2>1, Zenon DEF HeaderLine
  <2>3. PieceIsLine(HeaderLine(field))
    BY <1>1, <1>2, <2>1, <2>2, BareLineReads, Zenon
  <2>4. Len(HeaderLine(field)) \in Nat
    BY <1>4
  <2>5. " " \in STRING /\ IsSeparator(Colon, " ")
    BY RequestStreamAssumption, Zenon DEF IsSeparator, Colon
  <2>6. HasNoSeparator(HeaderLine(field), Len(HeaderLine(field)), " ")
    BY <1>4, <2>1, <2>4, <2>5, NothingSeparates, Zenon
  <2> QED BY <2>3, <2>6
<1> QED BY <1>2, <1>4, <1>5, Zenon

LEMMA FieldsArePlain ==
  ASSUME NEW fields \in Seq(Seq(STRING) \X {Colon, BareColon} \X Seq(STRING)),
         \A k \in DOMAIN fields : FieldIsPlain(fields[k])
  PROVE  /\ Len(fields) \in Nat /\ KeptOf(fields) \in SUBSET (1 .. Len(fields))
         /\ PlainFields(KeptOf(fields), NamesOf(fields), ValuesOf(fields))
         /\ LinesOf(fields) \in [1 .. Len(fields) -> Seq(STRING)]
         /\ \A k \in KeptOf(fields) :
              LinesOf(fields)[k] = NamesOf(fields)[k] \o Colon \o ValuesOf(fields)[k] \o CRLF
         /\ ArePassedOver(LinesOf(fields), Len(fields), KeptOf(fields), " ")
<1>1. /\ Len(fields) \in Nat /\ DOMAIN fields = 1 .. Len(fields)
      /\ \A k \in 1 .. Len(fields) :
           fields[k] \in Seq(STRING) \X {Colon, BareColon} \X Seq(STRING)
  OBVIOUS
<1>2. KeptOf(fields) \in SUBSET (1 .. Len(fields))
      /\ \A k \in KeptOf(fields) : k \in 1 .. Len(fields) /\ fields[k][2] = Colon
  BY DEF KeptOf
<1>3. ASSUME NEW k \in 1 .. Len(fields)
      PROVE  /\ NamesOf(fields)[k] = fields[k][1] /\ NamesOf(fields)[k] \in Seq(STRING)
             /\ ValuesOf(fields)[k] = fields[k][3] /\ ValuesOf(fields)[k] \in Seq(STRING)
  BY <1>1 DEF NamesOf, ValuesOf
<1>4. ASSUME NEW k \in 1 .. Len(fields)
      PROVE  LinesOf(fields)[k] = HeaderLine(fields[k])
  BY <1>1, Zenon DEF LinesOf
<1>5. ASSUME NEW k \in 1 .. Len(fields)
      PROVE  /\ HeaderLine(fields[k]) \in Seq(STRING)
             /\ NameIsPlain(fields[k][1]) /\ ValueIsPlain(fields[k][3])
             /\ fields[k][2] # Colon =>
                  /\ PieceIsLine(HeaderLine(fields[k]))
                  /\ HasNoSeparator(HeaderLine(fields[k]), Len(HeaderLine(fields[k])), " ")
  BY <1>1, FieldIsLine, Zenon
<1>6. PlainFields(KeptOf(fields), NamesOf(fields), ValuesOf(fields))
  BY <1>2, <1>3, <1>5, Zenon DEF PlainFields
<1>7. LinesOf(fields) \in [1 .. Len(fields) -> Seq(STRING)]
  <2>1. LinesOf(fields) = [k \in 1 .. Len(fields) |-> HeaderLine(fields[k])]
    BY <1>1, Zenon DEF LinesOf
  <2> QED BY <1>5, <2>1
<1>8. ASSUME NEW k \in KeptOf(fields)
      PROVE  LinesOf(fields)[k] = NamesOf(fields)[k] \o Colon \o ValuesOf(fields)[k] \o CRLF
  BY <1>2, <1>3, <1>4, Zenon DEF HeaderLine
<1>9. ArePassedOver(LinesOf(fields), Len(fields), KeptOf(fields), " ")
  <2> SUFFICES ASSUME NEW k \in 1 .. Len(fields), k \notin KeptOf(fields)
               PROVE  /\ PieceIsLine(LinesOf(fields)[k])
                      /\ HasNoSeparator(LinesOf(fields)[k], Len(LinesOf(fields)[k]), " ")
    BY Zenon DEF ArePassedOver
  <2>1. fields[k][2] # Colon
    BY DEF KeptOf
  <2> QED BY <1>4, <1>5, <2>1, Zenon
<1> QED BY <1>1, <1>2, <1>6, <1>7, <1>8, <1>9, Zenon

AreFields(fields, names, values, m, kept) ==
  /\ DOMAIN fields = 1 .. m /\ Len(fields) = m /\ kept \in SUBSET (1 .. m)
  /\ \A k \in 1 .. m : /\ fields[k][1] = names[k] /\ fields[k][3] = values[k]
                       /\ fields[k][2] = Colon <=> k \in kept

\* The names HandlerGetsWhatWasSent speaks of.
KeysOfFields(fields) == {field[1] : field \in {f \in Range(fields) : f[2] = Colon}}

LEMMA FieldsHaveNames ==
  ASSUME NEW fields, NEW names, NEW values, NEW m \in Nat, NEW kept,
         AreFields(fields, names, values, m, kept)
  PROVE  AreNames(fields, names, m, kept)
BY DEF AreFields, AreNames

\* The map HandlerGetsWhatWasSent speaks of.
FieldsCount(fields, names, values, kept) ==
  [key \in KeysOfFields(fields) |-> fields[LastOf(fields, key)][3]] =
    LastValues(names, values, kept)

LEMMA LastFieldsCount ==
  ASSUME NEW fields, NEW names, NEW values, NEW m \in Nat, NEW kept,
         AreFields(fields, names, values, m, kept)
  PROVE  FieldsCount(fields, names, values, kept)
<1>1. /\ DOMAIN fields = 1 .. m /\ Len(fields) = m
      /\ kept \in SUBSET (1 .. m) /\ \A k \in kept : k \in 1 .. m
      /\ \A k \in 1 .. m : /\ fields[k][1] = names[k] /\ fields[k][3] = values[k]
                           /\ fields[k][2] = Colon <=> k \in kept
  BY DEF AreFields
<1>2. KeysOfFields(fields) = {names[k] : k \in kept}
  <2>1. ASSUME NEW key \in KeysOfFields(fields) PROVE key \in {names[k] : k \in kept}
    <3>1. PICK field \in Range(fields) : field[2] = Colon /\ key = field[1]
      BY DEF KeysOfFields
    <3>2. PICK k \in 1 .. m : field = fields[k]
      BY <1>1, Zenon DEF Range
    <3> QED BY <1>1, <3>1, <3>2
  <2>2. ASSUME NEW k \in kept PROVE names[k] \in KeysOfFields(fields)
    <3>1. k \in DOMAIN fields /\ fields[k][2] = Colon /\ fields[k][1] = names[k]
      BY <1>1, Zenon
    <3>2. fields[k] \in Range(fields)
      BY <3>1, Zenon DEF Range
    <3> QED BY <3>1, <3>2, Zenon DEF KeysOfFields
  <2>3. \A key \in {names[k] : k \in kept} : key \in KeysOfFields(fields)
    BY <2>2, Zenon
  <2> QED BY <2>1, <2>3, Zenon
<1>3. ASSUME NEW k \in kept
      PROVE  fields[LastOf(fields, names[k])][3] = values[LastPlace(names, kept, names[k])]
  <2>1. AreNames(fields, names, m, kept)
    BY FieldsHaveNames, Zenon
  <2>2. LastOf(fields, names[k]) = LastPlace(names, kept, names[k])
    BY <2>1, LastOfFields
  <2>3. LastPlace(names, kept, names[k]) \in kept
    BY <1>1, LastPlaceIs
  <2> QED BY <1>1, <2>2, <2>3, Zenon
<1>4. \A key \in {names[k] : k \in kept} :
        fields[LastOf(fields, key)][3] = values[LastPlace(names, kept, key)]
  BY <1>3
<1>5. [key \in KeysOfFields(fields) |-> fields[LastOf(fields, key)][3]] =
        [key \in {names[k] : k \in kept} |-> values[LastPlace(names, kept, key)]]
  BY <1>2, <1>4, Zenon
<1> QED BY <1>5, Zenon DEF LastValues, FieldsCount

LEMMA FieldsAreFields ==
  ASSUME NEW fields \in Seq(Seq(STRING) \X {Colon, BareColon} \X Seq(STRING))
  PROVE  FieldsCount(fields, NamesOf(fields), ValuesOf(fields), KeptOf(fields))
<1>1. Len(fields) \in Nat /\ DOMAIN fields = 1 .. Len(fields)
  OBVIOUS
<1>2. AreFields(fields, NamesOf(fields), ValuesOf(fields), Len(fields), KeptOf(fields))
  BY <1>1 DEF AreFields, NamesOf, ValuesOf, KeptOf
<1> QED BY <1>1, <1>2, LastFieldsCount, Zenon

\* A stream and how much of it is there.
IsStream(stream, text, head, body, surplus, n) ==
  /\ head \in Seq(STRING) /\ body \in Seq(STRING) /\ surplus \in Seq(STRING)
  /\ text = head \o body /\ stream = text \o surplus
  /\ n \in Len(text) .. Len(stream)

LEMMA TextIsCut ==
  ASSUME NEW stream, NEW text, NEW head, NEW body, NEW surplus, NEW n,
         IsStream(stream, text, head, body, surplus, n)
  PROVE  HasTail(STRING, SubSeq(stream, 1, n), head, body)
<1>1. head \in Seq(STRING) /\ body \in Seq(STRING) /\ surplus \in Seq(STRING)
  BY Zenon DEF IsStream
<1>2. Len(head) \in Nat /\ Len(body) \in Nat /\ Len(surplus) \in Nat
  BY <1>1
<1>3. PICK h, b, c : /\ h \in Nat /\ b \in Nat /\ c \in Nat
                     /\ h = Len(head) /\ b = Len(body) /\ c = Len(surplus)
  BY <1>2, Zenon
<1>4. text \in Seq(STRING) /\ IsGlued(text, head, h, body, b)
  BY <1>1, <1>3, Glue, Zenon DEF IsStream
<1>5. stream \in Seq(STRING) /\ IsGlued(stream, text, h + b, surplus, c)
  <2>1. h + b \in Nat /\ h + b = Len(text)
    BY <1>3, <1>4 DEF IsGlued
  <2> QED BY <1>1, <1>3, <1>4, <2>1, Glue, Zenon DEF IsStream
<1>6. /\ h + b + c \in Nat /\ Begins(stream, h + b + c, head, h, body, b)
      /\ n \in h + b .. h + b + c
  <2>1. Len(text) = h + b /\ Len(stream) = h + b + c
    BY <1>4, <1>5 DEF IsGlued
  <2>2. \A i \in 1 .. h : stream[i] = head[i]
    BY <1>3, <1>4, <1>5 DEF IsGlued
  <2>3. \A i \in 1 .. b : stream[h + i] = body[i]
    BY <1>3, <1>4, <1>5 DEF IsGlued
  <2>4. h + b + c \in Nat /\ h + b <= h + b + c
    BY <1>3
  <2>5. n \in h + b .. h + b + c
    BY <2>1, Zenon DEF IsStream
  <2> QED BY <2>1, <2>2, <2>3, <2>4, <2>5, Zenon DEF Begins
<1>7. IsCutAt(STRING, stream, h + b + c, head, h, body, b, n)
  BY <1>1, <1>3, <1>5, <1>6, Zenon DEF IsCutAt
<1> QED BY <1>7, CutBehind, Zenon

LEMMA DataIsCut ==
  ASSUME NEW r \in AllRequests, NEW n \in Len(RequestText(r)) .. Len(StreamOf(r))
  PROVE  \E tail \in Seq(STRING) :
           SubSeq(StreamOf(r), 1, n) = HeadOf(r) \o tail /\ IsPrefix(r.body, tail)
<1>1. /\ HeadOf(r) \in Seq(STRING) /\ RequestText(r) = HeadOf(r) \o r.body
      /\ r.body \in Seq(STRING) /\ r.surplus \in Seq(STRING)
  BY HeadIsText, Zenon
<1>2. StreamOf(r) = RequestText(r) \o r.surplus
  BY Zenon DEF StreamOf
<1>3. IsStream(StreamOf(r), RequestText(r), HeadOf(r), r.body, r.surplus, n)
  BY <1>1, <1>2, Zenon DEF IsStream
<1>4. HasTail(STRING, SubSeq(StreamOf(r), 1, n), HeadOf(r), r.body)
  BY <1>3, TextIsCut, Zenon
<1> QED BY <1>4, Zenon DEF HasTail

\* A request is read as it was meant, whatever of the surplus came with it.
LEMMA RequestIsParsed ==
  ASSUME NEW r \in AllRequests, IsPlainRequest(r),
         NEW n \in Len(RequestText(r)) .. Len(StreamOf(r))
  PROVE  \E tail :
           /\ IsPrefix(r.body, tail)
           /\ ParseRequest(SubSeq(StreamOf(r), 1, n)) =
                [words   |-> <<r.words[1], r.words[2], r.words[3]>>,
                 headers |-> LastValues(NamesOf(r.fields), ValuesOf(r.fields), KeptOf(r.fields)),
                 body    |-> tail]
<1>1. PICK tail \in Seq(STRING) :
        SubSeq(StreamOf(r), 1, n) = HeadOf(r) \o tail /\ IsPrefix(r.body, tail)
  BY DataIsCut, Zenon
<1>2. PICK data, names, values, m, kept, w1, w2, w3 :
        /\ data = SubSeq(StreamOf(r), 1, n)
        /\ names = NamesOf(r.fields) /\ values = ValuesOf(r.fields) /\ m = Len(r.fields)
        /\ kept = KeptOf(r.fields)
        /\ w1 = r.words[1] /\ w2 = r.words[2] /\ w3 = r.words[3]
  OBVIOUS
<1>3. PICK pieces : pieces = LinesOf(r.fields)
  OBVIOUS
<1>4. /\ r.fields \in Seq(Seq(STRING) \X {Colon, BareColon} \X Seq(STRING))
      /\ w1 \in STRING /\ w2 \in STRING /\ w3 \in STRING
  <2>1. /\ r.fields \in Seq(Seq(STRING) \X {Colon, BareColon} \X Seq(STRING))
        /\ r.words[1] \in STRING /\ r.words[2] \in STRING /\ r.words[3] \in STRING
    BY RequestStreamAssumption
  <2> QED BY <1>2, <2>1, Zenon
<1>5. /\ w1 # " " /\ w2 # " " /\ w3 # " " /\ w1 # "LF" /\ w2 # "LF" /\ w3 # "LF"
  <2>1. IsPlainWord(r.words[1]) /\ IsPlainWord(r.words[2]) /\ IsPlainWord(r.words[3])
    BY DEF IsPlainRequest
  <2>2. IsPlainWord(w1) /\ IsPlainWord(w2) /\ IsPlainWord(w3)
    BY <1>2, <2>1, Zenon
  <2> QED BY <2>2, Zenon DEF IsPlainWord
<1>6. /\ m \in Nat /\ kept \in SUBSET (1 .. m) /\ PlainFields(kept, names, values)
      /\ pieces \in [1 .. m -> Seq(STRING)]
      /\ \A k \in kept : pieces[k] = names[k] \o Colon \o values[k] \o CRLF
      /\ ArePassedOver(pieces, m, kept, " ")
  <2>1. \A k \in DOMAIN r.fields : FieldIsPlain(r.fields[k])
    BY Zenon DEF IsPlainRequest, FieldIsPlain
  <2> QED BY <1>2, <1>3, <1>4, <2>1, FieldsArePlain, Zenon
<1>7. HeadOf(r) = <<w1, " ", w2, " ", w3>> \o CRLF \o FlattenSeq(pieces) \o CRLF
  BY <1>2, <1>3, Zenon DEF HeadOf, LinesOf
<1>8. IsMessage(data, " ", w1, w2, w3, m, kept, names, values, pieces, tail)
  <2>1. " " \in STRING /\ IsSeparator(Colon, " ")
    BY RequestStreamAssumption, Zenon DEF IsSeparator, Colon
  <2>2. " " # "LF"
    OBVIOUS
  <2>3. data = <<w1, " ", w2, " ", w3>> \o CRLF \o FlattenSeq(pieces) \o CRLF \o tail
    BY <1>1, <1>2, <1>7, Zenon
  <2> QED BY <1>3, <1>4, <1>5, <1>6, <2>1, <2>2, <2>3, Zenon DEF IsMessage
<1>9. Len(data) < SizeMod
  <2>0. PICK stream : stream = StreamOf(r)
    OBVIOUS
  <2>1. stream \in Seq(STRING) /\ Len(stream) < SizeMod /\ n \in Nat /\ n <= Len(stream)
    <3>1. stream \in Seq(STRING) /\ Len(stream) < SizeMod
      BY <2>0, StreamsAreText, Zenon DEF IsPlainRequest
    <3>2. RequestText(r) \in Seq(STRING)
      BY StreamsAreText, Zenon
    <3>3. Len(stream) \in Nat /\ Len(RequestText(r)) \in Nat
      BY <3>1, <3>2
    <3>4. n \in Len(RequestText(r)) .. Len(stream)
      BY <2>0, Zenon
    <3> QED BY <3>1, <3>3, <3>4
  <2>2. Len(SubSeq(stream, 1, n)) = n
    BY <2>1
  <2>3. SizeMod \in Nat
    BY MessageAssumption, Zenon
  <2>4. Len(SubSeq(stream, 1, n)) < SizeMod
    BY <2>1, <2>2, <2>3
  <2> QED BY <1>2, <2>0, <2>4, Zenon
<1>10. ParseRequest(data) = [words   |-> <<w1, w2, w3>>,
                             headers |-> LastValues(names, values, kept),
                             body    |-> tail]
  BY <1>5, <1>8, <1>9, MessageIsParsed, Zenon
<1> QED BY <1>1, <1>2, <1>10, Zenon

-----------------------------------------------------------------------------
(***************************************************************************)
(* A response, whose headers are written in some order.                    *)
(***************************************************************************)
\* A header written for every key is read back as the map it was.
\* Every name of a map with its value, in some order.
IsOrder(headers, m, names, values) ==
  /\ m \in Nat /\ IsMap(headers)
  /\ \A k \in 1 .. m : names[k] \in DOMAIN headers /\ values[k] = headers[names[k]]
  /\ \A key \in DOMAIN headers : \E k \in 1 .. m : names[k] = key

LEMMA LastValuesOfMap ==
  ASSUME NEW headers, NEW m, NEW names, NEW values, IsOrder(headers, m, names, values)
  PROVE  LastValues(names, values, 1 .. m) = headers
<1>0. /\ m \in Nat /\ IsMap(headers)
      /\ \A k \in 1 .. m : names[k] \in DOMAIN headers /\ values[k] = headers[names[k]]
      /\ \A key \in DOMAIN headers : \E k \in 1 .. m : names[k] = key
  BY Zenon DEF IsOrder
<1>1. {names[k] : k \in 1 .. m} = DOMAIN headers
  BY <1>0
<1>2. ASSUME NEW k \in 1 .. m
      PROVE  /\ LastPlace(names, 1 .. m, names[k]) \in 1 .. m
             /\ names[LastPlace(names, 1 .. m, names[k])] = names[k]
  <2>1. 1 .. m \in SUBSET (1 .. m) /\ m \in Nat
    BY <1>0
  <2> QED BY <2>1, LastPlaceIs
<1>3. ASSUME NEW key \in DOMAIN headers PROVE values[LastPlace(names, 1 .. m, key)] = headers[key]
  <2>1. PICK k \in 1 .. m : names[k] = key
    BY <1>0
  <2> QED BY <1>0, <1>2, <2>1
<1> QED BY <1>0, <1>1, <1>3 DEF LastValues, IsMap

\* What toRawString writes, from the keys of a map in some order.
KeysOf(headers) == SetToSeq(DOMAIN headers)
FieldsOf(headers) == [k \in 1 .. Cardinality(DOMAIN headers) |-> headers[KeysOf(headers)[k]]]

\* A finite map of plain headers.
PlainMap(headers) ==
  /\ IsMap(headers) /\ IsFiniteSet(DOMAIN headers)
  /\ \A name \in DOMAIN headers :
       /\ name \in Seq(STRING) /\ headers[name] \in Seq(STRING)
       /\ IsPlainField(name, headers[name])

LEMMA MapIsPlain ==
  ASSUME NEW headers, PlainMap(headers), NEW m, m = Cardinality(DOMAIN headers)
  PROVE  /\ m \in Nat
         /\ PlainFields(1 .. m, KeysOf(headers), FieldsOf(headers))
         /\ LastValues(KeysOf(headers), FieldsOf(headers), 1 .. m) = headers
         /\ ToRawString(headers) =
              FlattenSeq([k \in 1 .. m |->
                            KeysOf(headers)[k] \o Colon \o FieldsOf(headers)[k] \o CRLF])
<1>0. /\ IsMap(headers) /\ IsFiniteSet(DOMAIN headers)
      /\ \A name \in DOMAIN headers :
           /\ name \in Seq(STRING) /\ headers[name] \in Seq(STRING)
           /\ IsPlainField(name, headers[name])
  BY Zenon DEF PlainMap
<1>1. PICK keys, values : keys = KeysOf(headers) /\ values = FieldsOf(headers)
  OBVIOUS
<1>2. /\ m \in Nat /\ keys \in [1 .. m -> DOMAIN headers]
      /\ \A key \in DOMAIN headers : \E k \in 1 .. m : keys[k] = key
  BY <1>0, <1>1, KeysInOrder, Zenon DEF KeysOf
<1>3. /\ DOMAIN keys = 1 .. m
      /\ \A k \in 1 .. m : keys[k] \in DOMAIN headers
  BY <1>2
<1>4. \A k \in 1 .. m : values[k] = headers[keys[k]]
  BY <1>1 DEF FieldsOf
<1>5. PlainFields(1 .. m, keys, values)
  <2>1. ASSUME NEW k \in 1 .. m
        PROVE  /\ keys[k] \in Seq(STRING) /\ values[k] \in Seq(STRING)
               /\ IsPlainField(keys[k], values[k])
    BY <1>0, <1>3, <1>4, Zenon
  <2>2. ASSUME NEW k \in 1 .. m
        PROVE  NameIsPlain(keys[k]) /\ ValueIsPlain(values[k])
    BY <2>1, PlainName, Zenon
  <2> QED BY <2>1, <2>2, Zenon DEF PlainFields
<1>6. LastValues(keys, values, 1 .. m) = headers
  <2>1. /\ m \in Nat /\ IsMap(headers) /\ \A k \in 1 .. m : keys[k] \in DOMAIN headers
        /\ \A key \in DOMAIN headers : \E k \in 1 .. m : keys[k] = key
    BY <1>0, <1>2, <1>3, Zenon
  <2>2. IsOrder(headers, m, keys, values)
    BY <1>4, <2>1, Zenon DEF IsOrder
  <2> QED BY <2>2, LastValuesOfMap, Zenon
<1>7. ToRawString(headers) = FlattenSeq([k \in 1 .. m |-> keys[k] \o Colon \o values[k] \o CRLF])
  <2>1. ToRawString(headers) =
          FlattenSeq([k \in DOMAIN keys |-> keys[k] \o Colon \o headers[keys[k]] \o CRLF])
    BY <1>1, Zenon DEF ToRawString, KeysOf
  <2>2. [k \in DOMAIN keys |-> keys[k] \o Colon \o headers[keys[k]] \o CRLF] =
          [k \in 1 .. m |-> keys[k] \o Colon \o values[k] \o CRLF]
    BY <1>3, <1>4, Zenon
  <2> QED BY <2>1, <2>2, Zenon
<1> QED BY <1>1, <1>2, <1>5, <1>6, <1>7, Zenon

\* What toRawResponse writes is read as what it was written from.
LEMMA ResponseIsParsed ==
  ASSUME NEW r, IsPlainResponse(r), IsMap(r.headers)
  PROVE  ParseRequest(ToRawResponse(r)) =
           [words   |-> <<"HTTP/1.1", r.status, "reason">>,
            headers |-> r.headers,
            body    |-> r.body]
<1>1. PICK data, headers, names, values, m, kept, w1, w2, w3, tail :
        /\ data = ToRawResponse(r) /\ headers = r.headers
        /\ names = KeysOf(headers) /\ values = FieldsOf(headers)
        /\ m = Cardinality(DOMAIN headers) /\ kept = 1 .. m
        /\ w1 = "HTTP/1.1" /\ w2 = r.status /\ w3 = "reason" /\ tail = r.body
  OBVIOUS
<1>2. PICK pieces : pieces = [k \in 1 .. m |-> names[k] \o Colon \o values[k] \o CRLF]
  OBVIOUS
<1>3. /\ w2 \in STRING /\ IsPlainWord(w2) /\ tail \in Seq(STRING)
      /\ PlainMap(headers) /\ Len(data) < SizeMod
  BY <1>1, Zenon DEF IsPlainResponse, PlainMap
<1>4. /\ w1 \in STRING /\ w1 # " " /\ w1 # "LF" /\ w3 \in STRING /\ w3 # " " /\ w3 # "LF"
      /\ w2 # " " /\ w2 # "LF"
  <2>1. "HTTP/1.1" \in STRING /\ "reason" \in STRING
    BY RequestStreamAssumption, Zenon
  <2>3. "HTTP/1.1" # "LF" /\ "reason" # "LF"
    OBVIOUS
  <2>4. "HTTP/1.1" # " "
    OBVIOUS
  <2>5. "reason" # " "
    OBVIOUS
  <2>2. w2 # " " /\ w2 # "LF"
    BY <1>3, Zenon DEF IsPlainWord
  <2> QED BY <1>1, <2>1, <2>2, <2>3, <2>4, <2>5, Zenon
<1>5. /\ m \in Nat /\ PlainFields(kept, names, values)
      /\ LastValues(names, values, kept) = headers
      /\ ToRawString(headers) = FlattenSeq(pieces)
  BY <1>1, <1>2, <1>3, MapIsPlain, Zenon
<1>8. /\ kept \in SUBSET (1 .. m) /\ pieces \in [1 .. m -> Seq(STRING)]
      /\ \A k \in kept : pieces[k] = names[k] \o Colon \o values[k] \o CRLF
      /\ ArePassedOver(pieces, m, kept, " ")
  <2>1. kept = 1 .. m
    BY <1>1, Zenon
  <2>2. \A k \in 1 .. m : pieces[k] = names[k] \o Colon \o values[k] \o CRLF
    BY <1>2, Zenon
  <2>3. CRLF \in Seq(STRING) /\ Colon \in Seq(STRING)
    <3>1. "CR" \in STRING /\ "LF" \in STRING /\ ":" \in STRING /\ " " \in STRING
      BY RequestStreamAssumption, Zenon
    <3> QED BY <3>1, ShortTexts DEF CRLF, Colon
  <2>4. ASSUME NEW k \in 1 .. m PROVE pieces[k] \in Seq(STRING)
    <3>1. names[k] \in Seq(STRING) /\ values[k] \in Seq(STRING)
      BY <1>5, <2>1, Zenon DEF PlainFields
    <3>2. names[k] \o Colon \in Seq(STRING)
      BY <2>3, <3>1, ConcatIsSeq, Zenon
    <3>3. names[k] \o Colon \o values[k] \in Seq(STRING)
      BY <3>1, <3>2, ConcatIsSeq, Zenon
    <3>4. names[k] \o Colon \o values[k] \o CRLF \in Seq(STRING)
      BY <2>3, <3>3, ConcatIsSeq, Zenon
    <3> QED BY <2>2, <3>4, Zenon
  <2>5. pieces \in [1 .. m -> Seq(STRING)]
    <3>1. pieces = [k \in 1 .. m |-> pieces[k]]
      BY <1>2, Zenon
    <3> QED BY <2>4, <3>1, Zenon
  <2>6. ArePassedOver(pieces, m, kept, " ")
    BY <2>1, Zenon DEF ArePassedOver
  <2>7. kept \in SUBSET (1 .. m)
    BY <2>1
  <2> QED BY <2>1, <2>2, <2>5, <2>6, <2>7, Zenon
<1>6. IsMessage(data, " ", w1, w2, w3, m, kept, names, values, pieces, tail)
  <2>1. " " \in STRING /\ IsSeparator(Colon, " ")
    BY RequestStreamAssumption, Zenon DEF IsSeparator, Colon
  <2>2. " " # "LF"
    OBVIOUS
  <2>3. data = <<w1, " ", w2, " ", w3>> \o CRLF \o FlattenSeq(pieces) \o CRLF \o tail
    BY <1>1, <1>5, Zenon DEF ToRawResponse
  <2> QED BY <1>3, <1>4, <1>5, <1>8, <2>1, <2>2, <2>3, Zenon DEF IsMessage
<1>7. ParseRequest(data) = [words   |-> <<w1, w2, w3>>,
                            headers |-> LastValues(names, values, kept),
                            body    |-> tail]
  BY <1>3, <1>4, <1>6, MessageIsParsed, Zenon
<1> QED BY <1>1, <1>5, <1>7, Zenon

\* process_request's header is there, whatever the handler set.
LEMMA ClosingSaysClose ==
  ASSUME NEW r \in Responses
  PROVE  /\ IsMap(Closing(r).headers)
         /\ Closing(r).headers[<<"Connection">>] = <<"close">>
<1>1. "headers" \in DOMAIN r
  <2>1. DOMAIN r = {"status", "headers", "body"}
    BY ResponsesAssumption, Zenon
  <2> QED BY <2>1
<1>2. PICK name, value, headers :
        name = <<"Connection">> /\ value = <<"close">> /\ headers = r.headers
  OBVIOUS
<1>3. PICK table : table = [x \in DOMAIN headers \cup {name} |->
                              IF x = name THEN value ELSE headers[x]]
  OBVIOUS
<1>4. Closing(r) = [r EXCEPT !.headers = table]
  BY <1>2, <1>3, Zenon DEF Closing
<1>5. Closing(r).headers = table
  BY <1>1, <1>4
<1>6. IsMap(table) /\ table[name] = value
  BY <1>3 DEF IsMap
<1> QED BY <1>2, <1>5, <1>6, Zenon

-----------------------------------------------------------------------------
(***************************************************************************)
(* The connection.                                                         *)
(***************************************************************************)
\* With edge-triggered events, one recv takes whatever a peer may have sent.
OneReadSuffices ==
  "epoll" \in DOMAIN Requests =>
    \A r \in Requests["epoll"] : Len(StreamOf(r)) <= ReadSize

\* What is in the client's buffer has been sent, and is a part of the stream.
BytesCounted ==
  /\ poller \in DOMAIN Requests
  /\ request \in Requests[poller]
  /\ sent \in 0 .. Len(Stream)
  /\ received \in 0 .. sent
  /\ pc \in {"poll", "read", "respond", "close", "closed", "killed"}
  /\ fin \in BOOLEAN /\ rst \in BOOLEAN /\ edge \in BOOLEAN

\* While the thread waits, an edge stands for every byte that was not read.
EdgeIsOut == poller = "epoll" /\ pc = "poll" /\ Buffered > 0 => edge

\* A thread reads because there is something to read, and has not yet read a
\* whole request.
ReadsForAReason ==
  /\ pc = "read" /\ ~ rst => Buffered > 0 \/ fin
  /\ poller = "epoll" /\ pc \in {"poll", "read"} => ~ Ready(received)

\* What is answered has been found complete.
AnswersTheReady == pc = "respond" => Ready(received)

StreamInv == BytesCounted /\ ReadsForAReason /\ OnlyUnfinishedIsDropped /\ AnswersTheReady

\* Every request is one whose end is_request_ready can find.
RequestsAreWellFormed == \A r \in AllRequests : WellFormed(r)

\* Every request, and every response as it is sent, says what it means.
RequestsArePlain == \A r \in AllRequests : IsPlainRequest(r)
ResponsesArePlain == \A r \in Responses : IsPlainResponse(Closing(r))

\* What process_request has prepared is an answer of a handler.
AnswersAResponse == response # None => \E r \in Responses : response = Closing(r)

LEMMA NothingIsNotReady == ASSUME NEW r \in AllRequests PROVE 0 \notin ReadyAt[r]
<1>1. SubSeq(StreamOf(r), 1, 0) = <<>>
  BY DEF StreamOf
<1>2. ~ IsRequestReady(<<>>)
  BY DEF IsRequestReady, Find, Npos, CRLF
<1> QED BY <1>1, <1>2 DEF ReadyAt, AllRequests

-----------------------------------------------------------------------------
\* The three outcomes of a recv.
LEMMA ReadTakes ==
  ASSUME BytesCounted, Read, Len(Stream) \in Nat
  PROVE  /\ pc = "read" /\ UNCHANGED <<peerVars, edge, registered, response, reply>>
         /\ \/ pc' = "close" /\ received' = received /\ (Buffered = 0 \/ rst)
            \/ /\ received' \in received .. sent
               /\ Len(Stream) <= ReadSize => received' = sent
               /\ pc' = IF Ready(received') THEN "respond" ELSE "poll"
<1>0. ReadSize \in Nat
  BY RequestStreamAssumption
<1>1. Buffered \in Nat /\ Buffered <= Len(Stream) /\ received + Buffered = sent
  BY DEF BytesCounted, Buffered
<1>2. Min({Buffered, ReadSize}) = IF Buffered <= ReadSize THEN Buffered ELSE ReadSize
  BY <1>0, <1>1, MinOfTwo
<1>3. ASSUME Receive(Min({Buffered, ReadSize}))
      PROVE  /\ received' \in received .. sent
             /\ Len(Stream) <= ReadSize => received' = sent
             /\ pc' = IF Ready(received') THEN "respond" ELSE "poll"
  <2>1. received' = received + (IF Buffered <= ReadSize THEN Buffered ELSE ReadSize)
    BY <1>2, <1>3 DEF Receive
  <2>2. received \in Nat /\ sent \in Nat /\ ReadSize \in Nat
    BY <1>0 DEF BytesCounted
  <2> QED BY <1>1, <1>3, <2>1, <2>2 DEF Receive
<1> QED BY <1>3 DEF Read

LEMMA StreamInvHolds == Spec => []StreamInv
<1>1. Init => StreamInv
  <2> SUFFICES ASSUME Init PROVE StreamInv
    OBVIOUS
  <2>1. request \in AllRequests
    BY DEF Init, AllRequests, Range
  <2>2. Len(Stream) \in Nat /\ ~ Ready(0)
    BY <2>1, NothingIsNotReady, StreamsAreText DEF Stream, Ready
  <2>3. BytesCounted
    <3>1. sent \in 0 .. Len(Stream) /\ received \in 0 .. sent
      BY <2>2 DEF Init
    <3>2. fin \in BOOLEAN /\ rst \in BOOLEAN /\ edge \in BOOLEAN
      BY Zenon DEF Init
    <3> QED BY <3>1, <3>2, Zenon DEF Init, BytesCounted
  <2>4. ReadsForAReason /\ OnlyUnfinishedIsDropped /\ AnswersTheReady
    BY <2>2 DEF Init, ReadsForAReason, OnlyUnfinishedIsDropped, AnswersTheReady
  <2> QED BY <2>3, <2>4 DEF StreamInv
<1>2. StreamInv /\ [Next]_vars => StreamInv'
  <2> SUFFICES ASSUME StreamInv, [Next]_vars PROVE StreamInv'
    OBVIOUS
  <2> USE DEF StreamInv
  <2>1. Len(Stream) \in Nat
    <3>1. request \in AllRequests
      BY DEF BytesCounted, AllRequests, Range
    <3> QED BY <3>1, StreamsAreText DEF Stream
  <2>2. CASE Peer
    <3>1. /\ UNCHANGED <<poller, request, received, pc, response>>
          /\ Stream' = Stream
      BY <2>2 DEF Peer, PeerSends, PeerShutsDown, PeerResets, Stream
    <3>2. sent' \in sent .. Len(Stream)
      BY <2>1, <2>2 DEF Peer, PeerSends, PeerShutsDown, PeerResets, BytesCounted
    <3>3. /\ fin => sent' = sent /\ fin'
          /\ rst => rst'
      BY <2>2 DEF Peer, PeerSends, PeerShutsDown, PeerResets
    <3>4. fin' \in BOOLEAN /\ rst' \in BOOLEAN /\ edge' \in BOOLEAN
      BY <2>2 DEF Peer, PeerSends, PeerShutsDown, PeerResets, BytesCounted
    <3>5. BytesCounted'
      BY <2>1, <3>1, <3>2, <3>4 DEF BytesCounted
    <3>6. ReadsForAReason'
      <4>1. pc' = "read" /\ ~ rst' => Buffered' > 0 \/ fin'
        <5>1. sent \in Nat /\ received \in Nat /\ sent' \in Nat /\ sent <= sent'
              /\ received' = received
          BY <2>1, <3>1, <3>2 DEF BytesCounted
        <5>2. \A s, t, r \in Nat : s <= t /\ s - r > 0 => t - r > 0
          OBVIOUS
        <5>3. Buffered > 0 => Buffered' > 0
          BY <5>1, <5>2, Zenon DEF Buffered
        <5> QED BY <3>1, <3>3, <5>3 DEF ReadsForAReason
      <4>2. poller' = "epoll" /\ pc' \in {"poll", "read"} => ~ Ready(received)'
        BY <3>1 DEF ReadsForAReason, Ready
      <4> QED BY <4>1, <4>2 DEF ReadsForAReason
    <3>7. OnlyUnfinishedIsDropped'
      BY <3>1, <3>3 DEF OnlyUnfinishedIsDropped, Ready
    <3>8. AnswersTheReady'
      BY <3>1 DEF AnswersTheReady, Ready
    <3> QED BY <3>5, <3>6, <3>7, <3>8
  <2>3. CASE Read
    <3>1. BytesCounted'
      BY <2>1, <2>3, ReadTakes DEF BytesCounted, Stream, peerVars
    <3>2. ReadsForAReason'
      BY <2>1, <2>3, ReadTakes DEF ReadsForAReason, Ready, peerVars
    <3>3. OnlyUnfinishedIsDropped'
      BY <2>1, <2>3, ReadTakes
      DEF OnlyUnfinishedIsDropped, ReadsForAReason, BytesCounted, Buffered, Ready, peerVars
    <3>4. AnswersTheReady'
      BY <2>1, <2>3, ReadTakes DEF AnswersTheReady, Ready, peerVars
    <3> QED BY <3>1, <3>2, <3>3, <3>4
  <2>4. CASE Poll
    BY <2>1, <2>4
    DEF Poll, BytesCounted, ReadsForAReason, OnlyUnfinishedIsDropped, AnswersTheReady, Buffered,
        Stream, Ready, Hangup, EpollHangup, KqueueHangup, peerVars
  <2>5. CASE Respond
    <3>1. pc = "respond" /\ response' # None /\ pc' \in {"close", "killed"}
          /\ UNCHANGED <<poller, request, sent, fin, rst, received, edge>>
      BY <2>5, ResponsesAssumption DEF Respond, peerVars
    <3> QED
      BY <3>1
      DEF BytesCounted, ReadsForAReason, OnlyUnfinishedIsDropped, AnswersTheReady, Stream
  <2>6. CASE Register \/ Close \/ UNCHANGED vars
    BY <2>6
    DEF Register, Close, BytesCounted, ReadsForAReason, OnlyUnfinishedIsDropped,
        AnswersTheReady, Buffered, Stream, Ready, peerVars, vars
  <2> QED BY <2>2, <2>3, <2>4, <2>5, <2>6 DEF Next, Server
<1> QED BY <1>1, <1>2, PTL DEF Spec

\* handle_client_event takes "<= 0" from readRequest for the end of the connection,
\* EAGAIN included: it is never met while the peer still has something to say.
THEOREM OnlyUnfinishedPeersAreDropped == Spec => []OnlyUnfinishedIsDropped
BY StreamInvHolds, PTL DEF StreamInv

\* A single recv per edge strands no byte if it can take a whole request.
THEOREM NoByteIsStranded ==
  ASSUME OneReadSuffices PROVE Spec => []NothingUnreported
<1>1. Init => EdgeIsOut
  BY DEF Init, EdgeIsOut, Buffered
<1>2. StreamInv /\ EdgeIsOut /\ [Next]_vars => EdgeIsOut'
  <2> SUFFICES ASSUME StreamInv, EdgeIsOut, [Next]_vars PROVE EdgeIsOut'
    OBVIOUS
  <2>1. Len(Stream) \in Nat /\ (poller = "epoll" => Len(Stream) <= ReadSize)
    <3>1. request \in AllRequests /\ (poller = "epoll" => request \in Requests["epoll"])
      BY DEF StreamInv, BytesCounted, AllRequests, Range
    <3>2. Len(Stream) \in Nat
      BY <3>1, StreamsAreText DEF Stream
    <3>3. poller = "epoll" => "epoll" \in DOMAIN Requests
      BY DEF StreamInv, BytesCounted
    <3> QED BY <3>1, <3>2, <3>3, Zenon DEF Stream, OneReadSuffices
  <2>2. CASE Read
    <3>1. pc' = "poll" /\ poller = "epoll" => Buffered' = 0
      BY <2>1, <2>2, ReadTakes
      DEF StreamInv, BytesCounted, Buffered, peerVars
    <3> QED BY <2>2, <3>1 DEF EdgeIsOut, Read, peerVars
  <2>3. CASE ~ Read
    BY <2>3
    DEF Next, Server, Peer, PeerSends, PeerShutsDown, PeerResets, Register, Poll, Respond, Close,
        EdgeIsOut, Buffered, peerVars, vars
  <2> QED BY <2>2, <2>3
<1>3. StreamInv /\ EdgeIsOut => NothingUnreported
  BY DEF EdgeIsOut, NothingUnreported, Reports, EpollReports, KqueueReports
<1> QED BY <1>1, <1>2, <1>3, StreamInvHolds, PTL DEF Spec

\* process_request is given whole requests: no request whose end is_request_ready can
\* find is answered before the last byte of its body was received, whatever pieces
\* it arrives in and whatever the peer sends behind it.
THEOREM WholeRequestsAreAnswered ==
  ASSUME RequestsAreWellFormed PROVE Spec => []AnswersWholeRequest
<1>1. StreamInv => AnswersWholeRequest
  <2> SUFFICES ASSUME StreamInv, pc = "respond" PROVE received >= Len(RequestText(request))
    BY DEF AnswersWholeRequest
  <2>1. request \in AllRequests
    BY DEF StreamInv, BytesCounted, AllRequests, Range
  <2>2. WellFormed(request)
    BY <2>1, Zenon DEF RequestsAreWellFormed
  <2>3. received \in ReadyAt[request]
    BY DEF StreamInv, AnswersTheReady, Ready
  <2> QED BY <2>1, <2>2, <2>3, ReadyIsWhole
<1> QED BY <1>1, StreamInvHolds, PTL DEF Spec

\* Request and Headers make of the text process_request cuts up what the peer meant:
\* the words of the start line, every header written with ": " with the value it had
\* last, and the body first.  A header written "name:value" is dropped (Headers.cpp:66)
\* and disturbs no other.  No byte behind the head becomes a header, although
\* headers_end - first_crlf - 2 wraps around where there are no header lines (Pool.cpp).
THEOREM HandlersGetWhatWasSent ==
  ASSUME RequestsArePlain PROVE Spec => []HandlerGetsWhatWasSent
<1>1. StreamInv => HandlerGetsWhatWasSent
  <2> SUFFICES ASSUME StreamInv, received >= Len(RequestText(request))
               PROVE  LET parsed == ParseRequest(SubSeq(Stream, 1, received))
                          fields == request.fields
                          keys == {field[1] : field \in {f \in Range(fields) : f[2] = Colon}}
                          lastOf(key) ==
                            SelectLastInSeq(fields, LAMBDA field :
                                                      field[2] = Colon /\ field[1] = key)
                      IN  /\ parsed.words = request.words
                          /\ parsed.headers = [key \in keys |-> fields[lastOf(key)][3]]
                          /\ IsPrefix(request.body, parsed.body)
    BY Zenon DEF HandlerGetsWhatWasSent
  <2>1. request \in AllRequests
    BY DEF StreamInv, BytesCounted, AllRequests, Range
  <2>2. IsPlainRequest(request)
    BY <2>1, Zenon DEF RequestsArePlain
  <2>3. received \in Len(RequestText(request)) .. Len(Stream)
    <3>1. Len(Stream) \in Nat /\ received \in Nat /\ received <= Len(Stream)
      BY <2>1, StreamsAreText DEF StreamInv, BytesCounted, Stream
    <3>2. Len(RequestText(request)) \in Nat
      BY <2>1, StreamsAreText
    <3> QED BY <3>1, <3>2
  <2>4. PICK tail :
          /\ IsPrefix(request.body, tail)
          /\ ParseRequest(SubSeq(Stream, 1, received)) =
               [words   |-> <<request.words[1], request.words[2], request.words[3]>>,
                headers |-> LastValues(NamesOf(request.fields), ValuesOf(request.fields),
                                       KeptOf(request.fields)),
                body    |-> tail]
    BY <2>1, <2>2, <2>3, RequestIsParsed, Zenon DEF Stream
  <2>5. request.words = <<request.words[1], request.words[2], request.words[3]>>
    <3>1. request.words \in STRING \X STRING \X STRING
      BY <2>1, RequestStreamAssumption, Zenon
    <3>2. \A w \in STRING \X STRING \X STRING : w = <<w[1], w[2], w[3]>>
      OBVIOUS
    <3> QED BY <3>1, <3>2, Zenon
  <2>6. [key \in KeysOfFields(request.fields) |->
           request.fields[LastOf(request.fields, key)][3]] =
          LastValues(NamesOf(request.fields), ValuesOf(request.fields), KeptOf(request.fields))
    <3>1. request.fields \in Seq(Seq(STRING) \X {Colon, BareColon} \X Seq(STRING))
      BY <2>1, RequestStreamAssumption
    <3> QED BY <3>1, FieldsAreFields, Zenon DEF FieldsCount
  <2>8. /\ ParseRequest(SubSeq(Stream, 1, received)).words = request.words
        /\ ParseRequest(SubSeq(Stream, 1, received)).headers =
             LastValues(NamesOf(request.fields), ValuesOf(request.fields), KeptOf(request.fields))
        /\ ParseRequest(SubSeq(Stream, 1, received)).body = tail
    <3>0. PICK table, words, headers :
          /\ table = ParseRequest(SubSeq(Stream, 1, received))
          /\ words = <<request.words[1], request.words[2], request.words[3]>>
          /\ headers = LastValues(NamesOf(request.fields), ValuesOf(request.fields),
                                  KeptOf(request.fields))
      OBVIOUS
    <3>1. table = [words |-> words, headers |-> headers, body |-> tail]
      BY <2>4, <3>0, Zenon
    <3>2. table.words = words /\ table.headers = headers /\ table.body = tail
      BY <3>1
    <3> QED BY <2>5, <3>0, <3>2, Zenon
  <2>9. ParseRequest(SubSeq(Stream, 1, received)).headers =
          [key \in {field[1] : field \in {f \in Range(request.fields) : f[2] = Colon}} |->
             request.fields[SelectLastInSeq(request.fields,
                                            LAMBDA field :
                                              field[2] = Colon /\ field[1] = key)][3]]
    BY <2>6, <2>8, Zenon DEF LastOf, KeysOfFields
  <2> QED BY <2>4, <2>8, <2>9, Zenon
<1> QED BY <1>1, StreamInvHolds, PTL DEF Spec

\* What Response::toRawResponse writes is read back as it was meant by the code that
\* reads messages: status, headers in whatever order, body, and that the connection
\* will be closed.
THEOREM RepliesAreReadAsMeant ==
  ASSUME ResponsesArePlain PROVE Spec => []ReplyIsTheResponse
<1>1. Init => AnswersAResponse
  BY DEF Init, AnswersAResponse
<1>2. AnswersAResponse /\ [Next]_vars => AnswersAResponse'
  <2> SUFFICES ASSUME AnswersAResponse, [Next]_vars PROVE AnswersAResponse'
    OBVIOUS
  <2>1. CASE Respond
    BY <2>1 DEF Respond, AnswersAResponse
  <2>2. CASE ~ Respond
    <3>1. response' = response
      BY <2>2
      DEF Next, Server, Peer, PeerSends, PeerShutsDown, PeerResets, Register, Poll, Read, Close,
          peerVars, vars
    <3> QED BY <3>1 DEF AnswersAResponse
  <2> QED BY <2>1, <2>2
<1>3. AnswersAResponse => ReplyIsTheResponse
  <2> SUFFICES ASSUME AnswersAResponse, response # None, reply = ToRawResponse(response)
               PROVE  LET parsed == ParseRequest(reply)
                      IN  /\ parsed.words = <<"HTTP/1.1", response.status, "reason">>
                          /\ parsed.headers = response.headers
                          /\ parsed.body = response.body
                          /\ parsed.headers[<<"Connection">>] = <<"close">>
    BY Zenon DEF ReplyIsTheResponse
  <2>1. PICK r \in Responses : response = Closing(r)
    BY DEF AnswersAResponse
  <2>2. IsPlainResponse(response)
    BY <2>1, Zenon DEF ResponsesArePlain
  <2>3. IsMap(response.headers) /\ response.headers[<<"Connection">>] = <<"close">>
    BY <2>1, ClosingSaysClose, Zenon
  <2>4. ParseRequest(reply) = [words   |-> <<"HTTP/1.1", response.status, "reason">>,
                               headers |-> response.headers,
                               body    |-> response.body]
    BY <2>2, <2>3, ResponseIsParsed, Zenon
  <2>5. /\ ParseRequest(reply).words = <<"HTTP/1.1", response.status, "reason">>
        /\ ParseRequest(reply).headers = response.headers
        /\ ParseRequest(reply).body = response.body
    <3>0. PICK table, words, headers, body :
            /\ table = ParseRequest(reply)
            /\ words = <<"HTTP/1.1", response.status, "reason">>
            /\ headers = response.headers /\ body = response.body
      OBVIOUS
    <3>1. table = [words |-> words, headers |-> headers, body |-> body]
      BY <2>4, <3>0, Zenon
    <3>2. table.words = words /\ table.headers = headers /\ table.body = body
      BY <3>1
    <3> QED BY <3>0, <3>2, Zenon
  <2> QED BY <2>3, <2>5, Zenon
<1> QED BY <1>1, <1>2, <1>3, PTL DEF Spec
================================================================================
