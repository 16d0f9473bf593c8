------------------------------- MODULE URLProofs -------------------------------
(***************************************************************************)
(* The constructor finds the components a URL is made of, and throws       *)
(* exactly on a malformed authority, for every set of plain URLs; and so   *)
(* it does once more with the text toString gives.  First what each helper *)
(* looks for and finds in the text of its components; then the text        *)
(* toString gives, which is that of components of its own; last the        *)
(* inductive invariant, which says what the helpers so far have found.     *)
(***************************************************************************)
EXTENDS URL, TextProofs

-----------------------------------------------------------------------------
(***************************************************************************)
(* The fields of a query.                                                  *)
(***************************************************************************)
\* The text of a query.
PiecesOf(query) == [k \in DOMAIN query |-> <<IF k = 1 THEN "?" ELSE "&">> \o FieldText(query[k])]

\* A text that is a key, "=" and a value.
Joined(text, key, value, T) ==
  /\ text \in Seq(T) /\ text # <<>> /\ KeyValue(text) = <<key, value>>
  /\ \A c : c # "=" /\ Lacks(key, c) /\ Lacks(value, c) => Lacks(text, c)

\* Whatever else a value holds, the first "=" is the one that was put in.
LEMMA JoinedReads ==
  ASSUME NEW T, "=" \in T, NEW key \in Seq(T), NEW value \in Seq(T), key # <<>>, Lacks(key, "=")
  PROVE  Joined(key \o <<"=">> \o value, key, value, T)
<1> PICK equals, rest, text, at :
      equals = <<"=">> /\ rest = equals \o value /\ text = key \o <<"=">> \o value
      /\ at = Find(text, <<"=">>, 1)
  OBVIOUS
<1>1. equals \in Seq(T) /\ Len(equals) = 1 /\ equals[1] = "="
  BY OneOf
<1>2. text = (key \o equals) \o value
  BY Zenon
<1>3. text = key \o rest
  <2>1. (key \o equals) \o value = key \o (equals \o value)
    BY <1>1, ConcatAssociative
  <2> QED BY <1>2, <2>1, Zenon
<1>4. rest \in Seq(T) /\ text \in Seq(T) /\ Len(text) = Len(key) + Len(rest)
      /\ Len(key) \in Nat \ {0} /\ Len(rest) \in Nat
  <2>1. rest \in Seq(T) /\ Len(rest) \in Nat
    BY <1>1, ConcatParts
  <2>2. Len(key) \in Nat \ {0}
    BY EmptySeq
  <2> QED BY <1>3, <2>1, <2>2, ConcatParts
<1>5. text # <<>>
  <2>1. Len(text) # 0
    BY <1>4
  <2> QED BY <2>1
<1>6. at # 0 /\ Before(text, at) = key /\ From(text, at + 1) = value
  <2>1. text = key \o (<<"=">> \o value)
    BY <1>3, Zenon
  <2>2. FirstAtC(text, at, key, "=", value)
    BY <2>1, FirstFound, Zenon
  <2> QED BY <2>2 DEF FirstAtC
<1>7. KeyValue(text) = <<key, value>>
  BY <1>6, Zenon DEF KeyValue
<1>8. ASSUME NEW c, c # "=", Lacks(key, c), Lacks(value, c) PROVE Lacks(text, c)
  <2>1. Lacks(equals, c)
    BY <1>1, <1>8 DEF Lacks
  <2>2. Lacks(rest, c)
    BY <1>1, <1>8, <2>1, ConcatLacks
  <2>3. Lacks(key \o rest, c)
    BY <1>4, <1>8, <2>2, ConcatLacks, Zenon
  <2> QED BY <1>3, <2>3, Zenon
<1> QED BY <1>4, <1>5, <1>7, <1>8, Zenon DEF Joined

\* KeyValue takes apart what FieldText put together.
LEMMA KeyReads ==
  ASSUME NEW T, "=" \in T, NEW field, field[1] \in Seq(T), field[2] \in Seq(T),
         field[1] # <<>>, Lacks(field[1], "=")
  PROVE  /\ FieldText(field) \in Seq(T) /\ FieldText(field) # <<>>
         /\ KeyValue(FieldText(field)) = <<field[1], field[2]>>
         /\ \A c : c # "=" /\ Lacks(field[1], c) /\ Lacks(field[2], c) =>
                   Lacks(FieldText(field), c)
<1> PICK key, value, text : key = field[1] /\ value = field[2] /\ text = FieldText(field)
  OBVIOUS
<1>0. /\ key \in Seq(T) /\ value \in Seq(T) /\ key # <<>> /\ Lacks(key, "=")
      /\ text = IF value = <<>> THEN key ELSE key \o <<"=">> \o value
  BY Zenon DEF FieldText
<1>1. CASE value = <<>>
  <2>1. text = key
    BY <1>0, <1>1
  <2>2. Find(text, <<"=">>, 1) = 0
    BY <2>1, FirstMissing, Zenon
  <2>3. KeyValue(text) = <<text, <<>> >>
    BY <2>2, Zenon DEF KeyValue
  <2> QED BY <1>1, <2>1, <2>3
<1>2. CASE value # <<>>
  <2>1. Joined(key \o <<"=">> \o value, key, value, T)
    BY <1>0, JoinedReads, Zenon
  <2>2. text = key \o <<"=">> \o value
    BY <1>0, <1>2, Zenon
  <2>3. Joined(text, key, value, T)
    BY <2>1, <2>2, Zenon
  <2> QED BY <2>3, Zenon DEF Joined
<1> QED BY <1>1, <1>2, Zenon

\* The m fields of a query.
IsQuery(query, m, T) ==
  /\ m \in Nat /\ DOMAIN query = 1 .. m /\ {"?", "&", "="} \subseteq T
  /\ \A k \in 1 .. m :
       /\ query[k] = <<query[k][1], query[k][2]>>
       /\ query[k][1] \in Seq(T) /\ query[k][2] \in Seq(T) /\ query[k][1] # <<>>
       /\ Lacks(query[k][1], "=") /\ Lacks(query[k][1], "&") /\ Lacks(query[k][1], "#")
       /\ Lacks(query[k][2], "&") /\ Lacks(query[k][2], "#")

\* The text of one field.
IsFieldText(text, field, T) ==
  /\ text \in Seq(T) /\ text # <<>> /\ Len(text) \in Nat \ {0}
  /\ Lacks(text, "&") /\ Lacks(text, "#")
  /\ KeyValue(text) = field

\* FieldText gives such a text.
LEMMA FieldReads ==
  ASSUME NEW T, NEW query, NEW m, IsQuery(query, m, T), NEW k \in 1 .. m
  PROVE  IsFieldText(FieldText(query[k]), query[k], T)
<1> PICK key, value, text :
      key = query[k][1] /\ value = query[k][2] /\ text = FieldText(query[k])
  OBVIOUS
<1>1. /\ query[k] = <<key, value>> /\ key \in Seq(T) /\ value \in Seq(T) /\ key # <<>>
      /\ Lacks(key, "=") /\ Lacks(key, "&") /\ Lacks(key, "#")
      /\ Lacks(value, "&") /\ Lacks(value, "#") /\ "=" \in T
  BY DEF IsQuery
<1>3. /\ text \in Seq(T) /\ text # <<>> /\ KeyValue(text) = <<key, value>>
      /\ \A c : c # "=" /\ Lacks(key, c) /\ Lacks(value, c) => Lacks(text, c)
  BY <1>1, KeyReads, Zenon
<1>4. Len(text) \in Nat \ {0}
  BY <1>3, EmptySeq
<1>5. "&" # "=" /\ "#" # "="
  OBVIOUS
<1>6. Lacks(text, "&") /\ Lacks(text, "#")
  BY <1>1, <1>3, <1>5, Zenon
<1> QED BY <1>1, <1>3, <1>4, <1>6, Zenon DEF IsFieldText

\* What stands in front of the k-th field.
Mark(k) == IF k = 1 THEN "?" ELSE "&"

\* What QueryText puts together.
IsPiece(piece, text, k, T) ==
  /\ piece \in Seq(T) /\ Len(piece) = 1 + Len(text) /\ piece[1] = Mark(k)
  /\ \A i \in 1 .. Len(text) : piece[1 + i] = text[i]
  /\ Lacks(piece, "#")

\* One mark and one field.
LEMMA PieceReads ==
  ASSUME NEW T, NEW query, NEW m, IsQuery(query, m, T), NEW k \in 1 .. m
  PROVE  IsPiece(PiecesOf(query)[k], FieldText(query[k]), k, T)
<1> PICK text, piece, mark : text = FieldText(query[k]) /\ piece = PiecesOf(query)[k]
                               /\ mark = <<Mark(k)>>
  OBVIOUS
<1>1. piece = mark \o text
  <2>1. k \in DOMAIN query
    BY DEF IsQuery
  <2> QED BY <2>1 DEF PiecesOf, Mark
<1>2. text \in Seq(T) /\ Len(text) \in Nat /\ Lacks(text, "#")
  BY FieldReads, Zenon DEF IsFieldText
<1>3. mark \in Seq(T) /\ Len(mark) = 1 /\ mark[1] = Mark(k)
  <2>1. Mark(k) \in T
    BY DEF IsQuery, Mark
  <2> QED BY <2>1, OneOf
<1>4. /\ mark \o text \in Seq(T) /\ Len(mark \o text) = Len(mark) + Len(text)
      /\ \A i \in 1 .. Len(mark) : (mark \o text)[i] = mark[i]
      /\ \A i \in 1 .. Len(text) : (mark \o text)[Len(mark) + i] = text[i]
  BY <1>2, <1>3, ConcatParts
<1>5. Lacks(mark, "#")
  <2>1. Mark(k) # "#"
    BY DEF Mark
  <2> QED BY <1>3, <2>1 DEF Lacks
<1>6. Lacks(piece, "#")
  <2>1. Lacks(mark \o text, "#")
    BY <1>2, <1>3, <1>5, ConcatLacks, Zenon
  <2> QED BY <1>1, <2>1, Zenon
<1>7. 1 \in 1 .. Len(mark)
  BY <1>3
<1> QED BY <1>1, <1>3, <1>4, <1>6, <1>7 DEF IsPiece

\* A sequence of m fields, separated by "&" at at[1], at[2] and so on.
Separated(s, len, m, at) ==
  /\ at \in [0 .. m -> Nat] /\ at[0] = 0 /\ len = at[m] - 1
  /\ \A k \in 1 .. m : at[k - 1] \in Nat /\ at[k] \in Nat /\ at[k - 1] + 2 <= at[k] /\ at[k] <= at[m]
  /\ \A k \in 1 .. m : \A q \in 1 .. len :
       at[k - 1] <= q /\ q < at[k] => (s[q] = "&" <=> q = at[k - 1])

\* The conditions of Fields, for one pair of places.
IsBetween(s, len, a, b) ==
  /\ a <= b
  /\ \A i \in a .. b : s[i] # "&"
  /\ a = 1 \/ s[a - 1] = "&"
  /\ b = len \/ s[b + 1] = "&"

\* A field stands between two marks ...
LEMMA FieldIsBetween ==
  ASSUME NEW s, NEW len, NEW m \in Nat, NEW at, Separated(s, len, m, at), NEW k \in 1 .. m
  PROVE  /\ at[k - 1] + 1 \in 1 .. len /\ at[k] - 1 \in 1 .. len
         /\ IsBetween(s, len, at[k - 1] + 1, at[k] - 1)
<1>0. /\ at[k - 1] \in Nat /\ at[k] \in Nat /\ at[k - 1] + 2 <= at[k] /\ at[k] <= at[m]
      /\ len = at[m] - 1 /\ at[m] \in Nat /\ at[0] = 0
  BY DEF Separated
<1>1. \A q \in 1 .. len : at[k - 1] <= q /\ q < at[k] => (s[q] = "&" <=> q = at[k - 1])
  BY DEF Separated
<1>2. \A i \in at[k - 1] + 1 .. at[k] - 1 : s[i] # "&"
  <2> TAKE i \in at[k - 1] + 1 .. at[k] - 1
  <2>1. i \in 1 .. len /\ at[k - 1] <= i /\ i < at[k] /\ i # at[k - 1]
    BY <1>0
  <2> QED BY <1>1, <2>1
<1>3. at[k - 1] + 1 = 1 \/ s[(at[k - 1] + 1) - 1] = "&"
  <2>1. CASE at[k - 1] = 0
    BY <2>1
  <2>2. CASE at[k - 1] # 0
    <3>1. at[k - 1] \in 1 .. len /\ at[k - 1] < at[k] /\ (at[k - 1] + 1) - 1 = at[k - 1]
      BY <1>0, <2>2
    <3> QED BY <1>1, <3>1
  <2> QED BY <2>1, <2>2
<1>4. at[k] - 1 = len \/ s[(at[k] - 1) + 1] = "&"
  <2>1. CASE k = m
    BY <1>0, <2>1
  <2>2. CASE k # m
    <3>1. k + 1 \in 1 .. m /\ (k + 1) - 1 = k
      BY <2>2
    <3>2. /\ at[k] + 2 <= at[k + 1] /\ at[k + 1] \in Nat /\ at[k + 1] <= at[m]
          /\ \A q \in 1 .. len : at[k] <= q /\ q < at[k + 1] => (s[q] = "&" <=> q = at[k])
      BY <3>1 DEF Separated
    <3>3. at[k] \in 1 .. len /\ at[k] < at[k + 1] /\ (at[k] - 1) + 1 = at[k]
      BY <1>0, <3>2
    <3> QED BY <3>2, <3>3
  <2> QED BY <2>1, <2>2
<1> QED BY <1>0, <1>2, <1>3, <1>4 DEF IsBetween

\* The k-th field stands from a to b, for some k.
FieldAt(a, b, m, at) == \E k \in 1 .. m : a = at[k - 1] + 1 /\ b = at[k] - 1

\* ... and what stands between two marks is a field.
LEMMA BetweenIsField ==
  ASSUME NEW s, NEW len, NEW m \in Nat, NEW at, Separated(s, len, m, at),
         NEW a \in 1 .. len, NEW b \in 1 .. len, IsBetween(s, len, a, b)
  PROVE  FieldAt(a, b, m, at)
<1>0. at \in [0 .. m -> Nat] /\ at[0] = 0 /\ len = at[m] - 1 /\ at[m] \in Nat
  BY DEF Separated
<1>1. a + 1 \in 1 .. at[m]
  BY <1>0
<1>2. PICK k \in 1 .. m : at[k - 1] < a + 1 /\ a + 1 <= at[k]
  BY <1>0, <1>1, PieceOf
<1>3. /\ at[k - 1] \in Nat /\ at[k] \in Nat /\ at[k - 1] + 2 <= at[k] /\ at[k] <= at[m]
      /\ \A q \in 1 .. len : at[k - 1] <= q /\ q < at[k] => (s[q] = "&" <=> q = at[k - 1])
  BY DEF Separated
<1>4. /\ a <= b
      /\ \A i \in a .. b : s[i] # "&"
      /\ a = 1 \/ s[a - 1] = "&"
      /\ b = len \/ s[b + 1] = "&"
  BY DEF IsBetween
<1>5. a = at[k - 1] + 1
  <2>1. s[a] # "&"
    BY <1>4
  <2>2. at[k - 1] <= a /\ a < at[k]
    BY <1>2, <1>3
  <2>3. a # at[k - 1]
    BY <1>3, <2>1, <2>2
  <2> SUFFICES ASSUME a > at[k - 1] + 1 PROVE FALSE
    BY <1>3, <2>2, <2>3
  <2>4. a - 1 \in 1 .. len /\ at[k - 1] <= a - 1 /\ a - 1 < at[k] /\ a - 1 # at[k - 1] /\ a # 1
    BY <1>0, <1>3, <2>2
  <2>5. s[a - 1] # "&"
    BY <1>3, <2>4
  <2> QED BY <1>4, <2>4, <2>5
<1>6. b <= at[k] - 1
  <2> SUFFICES ASSUME b >= at[k] PROVE FALSE
    BY <1>3
  <2>1. k # m
    BY <1>0
  <2>2. k + 1 \in 1 .. m /\ (k + 1) - 1 = k
    BY <2>1
  <2>3. /\ at[k] + 2 <= at[k + 1] /\ at[k + 1] \in Nat
        /\ \A q \in 1 .. len : at[k] <= q /\ q < at[k + 1] => (s[q] = "&" <=> q = at[k])
    BY <2>2 DEF Separated
  <2>4. at[k] \in 1 .. len /\ at[k] < at[k + 1] /\ at[k] \in a .. b
    BY <1>0, <1>2, <1>3, <2>3, SMTT(40)
  <2>5. s[at[k]] = "&"
    BY <2>3, <2>4
  <2> QED BY <1>4, <2>4, <2>5
<1>7. b = at[k] - 1
  <2> SUFFICES ASSUME b < at[k] - 1 PROVE FALSE
    BY <1>3, <1>6
  <2>1. b + 1 \in 1 .. len /\ at[k - 1] <= b + 1 /\ b + 1 < at[k] /\ b + 1 # at[k - 1] /\ b # len
    BY <1>0, <1>3, <1>4, <1>5, SMTT(40)
  <2>2. s[b + 1] # "&"
    BY <1>3, <2>1
  <2> QED BY <1>4, <2>1, <2>2
<1> QED BY <1>5, <1>7 DEF FieldAt

\* The pieces of a query's text begin with their marks; what follows has no mark.
Marked(flat, l, m, at) ==
  /\ at \in [0 .. m -> Nat] /\ at[0] = 0 /\ at[m] = l
  /\ \A j, k \in 0 .. m : j <= k => at[j] <= at[k]
  /\ \A k \in 1 .. m : at[k - 1] \in Nat /\ at[k] \in Nat /\ at[k - 1] + 2 <= at[k] /\ at[k] <= at[m]
  /\ \A k \in 1 .. m : \A p \in 1 .. l :
       /\ p = at[k - 1] + 1 => flat[p] = Mark(k)
       /\ at[k - 1] + 1 < p /\ p <= at[k] => flat[p] # "&"

\* flat is the text of a query whose k-th field ends at at[k].
IsTextOf(flat, query, m, at, T) ==
  /\ flat \in Seq(T) /\ m \in Nat /\ Lacks(flat, "#") /\ Marked(flat, Len(flat), m, at)
  /\ \A k \in 1 .. m : at[k] = at[k - 1] + 1 + Len(FieldText(query[k]))
  /\ \A k \in 1 .. m : \A i \in 1 .. Len(FieldText(query[k])) :
       flat[at[k - 1] + 1 + i] = FieldText(query[k])[i]

\* One mark and a text of n characters behind position x.
LEMMA PieceEnds ==
  \A x, y, n, p \in Nat : n # 0 /\ p = 1 + n /\ y = x + p => y = x + 1 + n /\ x + 2 <= y
OBVIOUS

\* How far a place is behind another.
LEMMA BehindPlace ==
  \A x, p : x \in Nat /\ p \in Nat /\ x + 1 < p => p - x - 1 \in Nat /\ x + 1 + (p - x - 1) = p
OBVIOUS

\* The place of a character within its field.
LEMMA InsidePiece ==
  \A x, y, n, p, i \in Nat :
     y = x + 1 + n /\ x + 1 < p /\ p <= y /\ x + 1 + i = p => i \in 1 .. n
OBVIOUS

\* A field of n characters, without its mark.
EndsAt(x, y, n, len) == y - 1 \in x .. len /\ (y - 1) - x = n

\* Where the field behind a mark ends.
LEMMA BehindMark ==
  ASSUME NEW x \in Nat, NEW y \in Nat, NEW n \in Nat, NEW len \in Nat,
         y = x + 1 + n, n # 0, y <= len + 1
  PROVE  EndsAt(x, y, n, len)
BY DEF EndsAt

\* A character of a field, counted with and without the first mark.
LEMMA ShiftOne ==
  \A x, i, n, len, b \in Nat :
     i \in 1 .. n /\ b \in x .. len /\ b - x = n =>
       x + i \in 1 .. len /\ (x + i) + 1 = x + 1 + i /\ i \in 1 .. b - x
OBVIOUS

\* QueryText gives such a text.
LEMMA QueryIsMarked ==
  ASSUME NEW T, NEW query, NEW m, IsQuery(query, m, T)
  PROVE  \E at : IsTextOf(QueryText(query), query, m, at, T)
<1> PICK pieces, flat, l : pieces = PiecesOf(query) /\ flat = FlattenSeq(pieces) /\ l = Len(flat)
  OBVIOUS
<1>0. flat = QueryText(query)
  BY Zenon DEF QueryText, PiecesOf
<1>1. m \in Nat
  BY DEF IsQuery
<1>2. ASSUME NEW k \in 1 .. m
      PROVE  /\ pieces[k] \in Seq(T) /\ Len(FieldText(query[k])) \in Nat \ {0}
             /\ Len(pieces[k]) = 1 + Len(FieldText(query[k]))
             /\ pieces[k][1] = Mark(k)
             /\ \A i \in 1 .. Len(FieldText(query[k])) : pieces[k][1 + i] = FieldText(query[k])[i]
             /\ Lacks(FieldText(query[k]), "&") /\ Lacks(pieces[k], "#")
  <2>1. IsPiece(pieces[k], FieldText(query[k]), k, T)
    BY PieceReads, Zenon
  <2>2. IsFieldText(FieldText(query[k]), query[k], T)
    BY FieldReads, Zenon
  <2> QED BY <2>1, <2>2, Zenon DEF IsPiece, IsFieldText
<1>3. pieces \in [1 .. m -> Seq(T)]
  <2>1. pieces = [k \in 1 .. m |-> pieces[k]]
    BY DEF PiecesOf, IsQuery
  <2>2. \A k \in 1 .. m : pieces[k] \in Seq(T)
    BY <1>2
  <2> HIDE DEF PiecesOf
  <2>3. [k \in 1 .. m |-> pieces[k]] \in [1 .. m -> Seq(T)]
    BY <2>2
  <2> QED BY <2>1, <2>3, Zenon
<1>4. flat \in Seq(T) /\ \E at : Layout(flat, pieces, m, at)
  BY <1>1, <1>3, FlattenLayout, Zenon
<1> PICK at : Layout(flat, pieces, m, at)
  BY <1>4
<1>5. /\ at \in [0 .. m -> Nat] /\ at[0] = 0 /\ at[m] = l
      /\ \A j, k \in 0 .. m : j <= k => at[j] <= at[k]
  BY DEF Layout
<1>6. ASSUME NEW k \in 1 .. m
      PROVE  /\ at[k] = at[k - 1] + 1 + Len(FieldText(query[k]))
             /\ at[k - 1] \in Nat /\ at[k] \in Nat /\ at[k - 1] + 2 <= at[k] /\ at[k] <= at[m]
             /\ \A i \in 1 .. 1 + Len(FieldText(query[k])) : flat[at[k - 1] + i] = pieces[k][i]
  <2>1. at[k] = at[k - 1] + Len(pieces[k])
    BY Zenon DEF Layout
  <2>8. \A i \in 1 .. Len(pieces[k]) : flat[at[k - 1] + i] = pieces[k][i]
    BY Zenon DEF Layout
  <2>2. k - 1 \in 0 .. m /\ k \in 0 .. m /\ m \in 0 .. m /\ k <= m
    BY <1>1
  <2>3. at[k - 1] \in Nat /\ at[k] \in Nat /\ at[k] <= at[m]
    BY <1>5, <2>2
  <2>4. Len(pieces[k]) = 1 + Len(FieldText(query[k])) /\ Len(FieldText(query[k])) \in Nat \ {0}
    BY <1>2
  <2>5. Len(FieldText(query[k])) \in Nat /\ Len(FieldText(query[k])) # 0 /\ Len(pieces[k]) \in Nat
    BY <2>4
  <2>6. at[k] = at[k - 1] + 1 + Len(FieldText(query[k])) /\ at[k - 1] + 2 <= at[k]
    <3>1. Len(pieces[k]) = 1 + Len(FieldText(query[k]))
      BY <2>4, Zenon
    <3>2. at[k - 1] \in Nat /\ at[k] \in Nat
      BY <2>3, Zenon
    <3> QED BY <2>1, <2>5, <3>1, <3>2, PieceEnds
  <2>7. \A i \in 1 .. 1 + Len(FieldText(query[k])) : flat[at[k - 1] + i] = pieces[k][i]
    BY <2>4, <2>8, Zenon
  <2> QED BY <2>3, <2>6, <2>7, Zenon
<1>7. ASSUME NEW k \in 1 .. m, NEW i \in 1 .. Len(FieldText(query[k]))
      PROVE  flat[at[k - 1] + 1 + i] = FieldText(query[k])[i]
  <2>1. 1 + i \in 1 .. 1 + Len(FieldText(query[k])) /\ at[k - 1] + (1 + i) = at[k - 1] + 1 + i
    <3> PICK n : n = Len(FieldText(query[k]))
      OBVIOUS
    <3>1. n \in Nat /\ i \in 1 .. n /\ at[k - 1] \in Nat
      BY <1>2, <1>6
    <3>2. 1 + i \in 1 .. 1 + n /\ at[k - 1] + (1 + i) = at[k - 1] + 1 + i
      BY <3>1
    <3> QED BY <3>2
  <2>2. flat[at[k - 1] + (1 + i)] = pieces[k][1 + i]
    BY <1>6, <2>1
  <2>3. pieces[k][1 + i] = FieldText(query[k])[i]
    BY <1>2
  <2> QED BY <2>1, <2>2, <2>3
<1>8. ASSUME NEW k \in 1 .. m, NEW p \in 1 .. l
      PROVE  /\ p = at[k - 1] + 1 => flat[p] = Mark(k)
             /\ at[k - 1] + 1 < p /\ p <= at[k] => flat[p] # "&"
  <2>1. flat[at[k - 1] + 1] = Mark(k)
    <3>1. 1 \in 1 .. 1 + Len(FieldText(query[k]))
      BY <1>2
    <3> QED BY <1>2, <1>6, <3>1
  <2>2. ASSUME at[k - 1] + 1 < p, p <= at[k] PROVE flat[p] # "&"
    <3> PICK i : i = p - at[k - 1] - 1
      OBVIOUS
    <3>1. i \in 1 .. Len(FieldText(query[k])) /\ at[k - 1] + 1 + i = p
      <4>1. /\ Len(FieldText(query[k])) \in Nat /\ at[k - 1] \in Nat /\ at[k] \in Nat
            /\ at[k] = at[k - 1] + 1 + Len(FieldText(query[k]))
        BY <1>2, <1>6
      <4>2. i \in Nat /\ at[k - 1] + 1 + i = p /\ p \in Nat
        <5>1. at[k - 1] + 1 < p /\ p \in Nat
          BY <2>2
        <5> QED BY <4>1, <5>1, BehindPlace
      <4> QED BY <2>2, <4>1, <4>2, InsidePiece, Zenon
    <3>2. flat[p] = FieldText(query[k])[i]
      BY <1>7, <3>1
    <3>3. FieldText(query[k])[i] # "&"
      BY <1>2, <3>1 DEF Lacks
    <3> QED BY <3>2, <3>3
  <2> QED BY <2>1, <2>2
<1>9. Marked(flat, l, m, at)
  BY <1>5, <1>6, <1>8 DEF Marked
<1>10. Lacks(flat, "#")
  BY <1>1, <1>2, <1>3, FlattenLacks, Zenon
<1>11. IsTextOf(flat, query, m, at, T)
  BY <1>1, <1>4, <1>6, <1>7, <1>9, <1>10, Zenon DEF IsTextOf
<1> QED BY <1>0, <1>11, Zenon

\* Behind the question mark fields are separated by "&".
LEMMA MarkedIsSeparated ==
  ASSUME NEW T, NEW s \in Seq(T), NEW flat, NEW m \in Nat \ {0}, NEW at,
         Marked(flat, Len(s) + 1, m, at),
         \A i \in 1 .. Len(s) : s[i] = flat[i + 1]
  PROVE  Separated(s, Len(s), m, at)
<1> PICK len : len = Len(s)
  OBVIOUS
<1>1. /\ len \in Nat /\ at \in [0 .. m -> Nat] /\ at[0] = 0 /\ at[m] = len + 1
      /\ \A k \in 1 .. m : at[k - 1] \in Nat /\ at[k] \in Nat /\ at[k - 1] + 2 <= at[k]
                          /\ at[k] <= at[m]
  BY DEF Marked
<1>2. ASSUME NEW k \in 1 .. m, NEW q \in 1 .. len, at[k - 1] <= q, q < at[k]
      PROVE  s[q] = "&" <=> q = at[k - 1]
  <2>1. q + 1 \in 1 .. len + 1 /\ s[q] = flat[q + 1] /\ at[k - 1] \in Nat /\ at[k] \in Nat
    BY <1>1
  <2>2. /\ q + 1 = at[k - 1] + 1 => flat[q + 1] = Mark(k)
        /\ at[k - 1] + 1 < q + 1 /\ q + 1 <= at[k] => flat[q + 1] # "&"
    BY <2>1 DEF Marked
  <2>3. CASE q = at[k - 1]
    <3>1. k # 1
      BY <1>1, <2>3
    <3>2. Mark(k) = "&"
      BY <3>1 DEF Mark
    <3>3. q + 1 = at[k - 1] + 1
      BY <2>3
    <3> QED BY <2>1, <2>2, <2>3, <3>2, <3>3
  <2>4. CASE q # at[k - 1]
    <3>1. at[k - 1] + 1 < q + 1 /\ q + 1 <= at[k]
      BY <1>2, <2>1, <2>4
    <3> QED BY <2>1, <2>2, <2>4, <3>1
  <2> QED BY <2>3, <2>4
<1>3. len = at[m] - 1
  BY <1>1
<1> QED BY <1>1, <1>2, <1>3 DEF Separated

\* parseQuery finds the fields.
FieldsLie(s, query, m, at) ==
  /\ \A k \in 1 .. m : at[k - 1] \in Nat /\ at[k] \in Nat /\ at[k - 1] < at[k]
  /\ \A j, k \in 1 .. m : j < k => at[j - 1] < at[k - 1]
  /\ Fields(s) = {<<at[k - 1] + 1, at[k] - 1>> : k \in 1 .. m}
  /\ \A k \in 1 .. m : SubSeq(s, at[k - 1] + 1, at[k] - 1) = FieldText(query[k])

\* Fields finds the fields where QueryText put them.
LEMMA QueryIsCut ==
  ASSUME NEW T, NEW query, NEW m, IsQuery(query, m, T), m # 0,
         NEW s \in Seq(T), QueryText(query) = <<"?">> \o s
  PROVE  \E at : FieldsLie(s, query, m, at)
<1> PICK flat, len : flat = QueryText(query) /\ len = Len(s)
  OBVIOUS
<1> PICK at : IsTextOf(flat, query, m, at, T)
  BY QueryIsMarked, Zenon
<1>1. /\ flat \in Seq(T) /\ m \in Nat
      /\ Marked(flat, Len(flat), m, at)
      /\ \A k \in 1 .. m : \A i \in 1 .. Len(FieldText(query[k])) :
           flat[at[k - 1] + 1 + i] = FieldText(query[k])[i]
      /\ \A k \in 1 .. m : at[k] = at[k - 1] + 1 + Len(FieldText(query[k]))
  BY Zenon DEF IsTextOf
<1>2. len \in Nat /\ Len(flat) = len + 1 /\ \A i \in 1 .. len : s[i] = flat[i + 1]
  <2> PICK one : one = <<"?">>
    OBVIOUS
  <2>1. one \in Seq(T) /\ Len(one) = 1
    <3>1. "?" \in T
      BY DEF IsQuery
    <3> QED BY <3>1, OneOf
  <2>2. /\ Len(one \o s) = Len(one) + Len(s) /\ Len(s) \in Nat
        /\ \A i \in 1 .. Len(s) : (one \o s)[Len(one) + i] = s[i]
    BY <2>1, ConcatParts
  <2>3. \A i \in 1 .. len : Len(one) + i = i + 1
    BY <2>1, <2>2
  <2> QED BY <2>1, <2>2, <2>3
<1>3. Separated(s, len, m, at)
  <2>1. Marked(flat, Len(s) + 1, m, at) /\ m \in Nat \ {0}
    BY <1>1, <1>2
  <2> QED BY <1>2, <2>1, MarkedIsSeparated, Zenon
<1>4. /\ at \in [0 .. m -> Nat] /\ at[0] = 0 /\ len = at[m] - 1
      /\ \A k \in 1 .. m : at[k - 1] \in Nat /\ at[k] \in Nat /\ at[k - 1] + 2 <= at[k]
                          /\ at[k] <= at[m]
  BY <1>3 DEF Separated
<1>5. Fields(s) = {<<at[k - 1] + 1, at[k] - 1>> : k \in 1 .. m}
  <2>0. DOMAIN s = 1 .. len
    OBVIOUS
  <2>1. Fields(s) = {f \in (1 .. len) \X (1 .. len) : IsBetween(s, len, f[1], f[2])}
    BY <2>0 DEF Fields, IsBetween
  <2>2. ASSUME NEW f \in (1 .. len) \X (1 .. len), IsBetween(s, len, f[1], f[2])
        PROVE  f \in {<<at[k - 1] + 1, at[k] - 1>> : k \in 1 .. m}
    <3>1. f = <<f[1], f[2]>> /\ f[1] \in 1 .. len /\ f[2] \in 1 .. len
      OBVIOUS
    <3> PICK a \in 1 .. len, b \in 1 .. len : a = f[1] /\ b = f[2]
      BY <3>1
    <3>2. IsBetween(s, len, a, b) /\ m \in Nat
      BY <1>1, <2>2
    <3>3. FieldAt(a, b, m, at)
      BY <1>3, <3>2, BetweenIsField, Zenon
    <3> QED BY <3>1, <3>3 DEF FieldAt
  <2>3. ASSUME NEW k \in 1 .. m
        PROVE  <<at[k - 1] + 1, at[k] - 1>>
            \in {f \in (1 .. len) \X (1 .. len) : IsBetween(s, len, f[1], f[2])}
    <3>1. /\ at[k - 1] + 1 \in 1 .. len /\ at[k] - 1 \in 1 .. len
          /\ IsBetween(s, len, at[k - 1] + 1, at[k] - 1)
      BY <1>1, <1>3, FieldIsBetween, Zenon
    <3> QED BY <3>1
  <2> QED BY <2>1, <2>2, <2>3
<1>6. ASSUME NEW k \in 1 .. m
      PROVE  SubSeq(s, at[k - 1] + 1, at[k] - 1) = FieldText(query[k])
  <2> PICK part, text, a, b : /\ part = SubSeq(s, at[k - 1] + 1, at[k] - 1) /\ text = FieldText(query[k])
                              /\ a = at[k - 1] /\ b = at[k] - 1
    OBVIOUS
  <2>1. text \in Seq(T) /\ Len(text) \in Nat /\ Len(text) # 0
    <3>1. IsFieldText(text, query[k], T)
      BY FieldReads, Zenon
    <3> QED BY <3>1 DEF IsFieldText
  <2>2. a \in Nat /\ b \in a .. len /\ b - a = Len(text)
    <3> PICK y : y = at[k]
      OBVIOUS
    <3>0. y = a + 1 + Len(text)
      BY <1>1, Zenon
    <3>1. a \in Nat /\ y \in Nat /\ len \in Nat /\ Len(text) \in Nat /\ Len(text) # 0
      BY <1>2, <1>4, <2>1, Zenon
    <3>2. y <= len + 1
      <4>1. y <= at[m] /\ at[m] \in Nat /\ len = at[m] - 1
        BY <1>1, <1>4
      <4> QED BY <3>1, <4>1
    <3>3. y - 1 \in a .. len /\ (y - 1) - a = Len(text)
      <4>1. EndsAt(a, y, Len(text), len)
        BY <3>0, <3>1, <3>2, BehindMark, Zenon
      <4> QED BY <4>1, Zenon DEF EndsAt
    <3> QED BY <3>1, <3>3, Zenon
  <2>3. /\ part \in Seq(T) /\ Len(part) = b - a
        /\ \A i \in 1 .. b - a : part[i] = s[a + i]
    <3>1. Part(SubSeq(s, a + 1, b), s, a, b, T)
      <4>1. a \in Nat /\ b \in a .. Len(s)
        BY <1>2, <2>2
      <4> QED BY <4>1, PartIs, Zenon
    <3>2. part = SubSeq(s, a + 1, b)
      OBVIOUS
    <3> QED BY <3>1, <3>2, Zenon DEF Part
  <2>4. \A i \in 1 .. Len(text) : part[i] = text[i]
    <3> TAKE i \in 1 .. Len(text)
    <3>0. i \in Nat /\ a \in Nat /\ b \in Nat /\ len \in Nat /\ Len(text) \in Nat
      BY <1>2, <2>1, <2>2
    <3>1. a + i \in 1 .. len /\ (a + i) + 1 = a + 1 + i /\ i \in 1 .. b - a
      BY <2>2, <3>0, ShiftOne, Zenon
    <3>2. s[a + i] = flat[a + 1 + i]
      BY <1>2, <3>1
    <3>3. flat[a + 1 + i] = text[i]
      BY <1>1
    <3> QED BY <2>3, <3>1, <3>2, <3>3
  <2>5. part = text
    BY <2>1, <2>2, <2>3, <2>4, SeqEqual
  <2> QED BY <2>5
<1>7. \A j, k \in 1 .. m : j < k => at[j - 1] < at[k - 1]
  <2> TAKE j, k \in 1 .. m
  <2> HAVE j < k
  <2>1. Marked(flat, len + 1, m, at)
    BY <1>1, <1>2
  <2>2. at[j - 1] < at[j] /\ at[j - 1] \in Nat /\ at[j] \in Nat /\ at[k - 1] \in Nat
    BY <1>4
  <2>3. at[j] <= at[k - 1]
    <3>1. j \in 0 .. m /\ k - 1 \in 0 .. m /\ j <= k - 1
      BY <1>1
    <3> QED BY <2>1, <3>1 DEF Marked
  <2> QED BY <2>2, <2>3
<1>8. \A k \in 1 .. m : at[k - 1] \in Nat /\ at[k] \in Nat /\ at[k - 1] < at[k]
  BY <1>4
<1> QED BY <1>5, <1>6, <1>7, <1>8, Zenon DEF FieldsLie

\* The fields of a query, from their first positions to their last.
IsCut(s, query, m, from, to) ==
  /\ \A k \in 1 .. m : from[k] \in Nat
  /\ \A j, k \in 1 .. m : j < k => from[j] < from[k]
  /\ Fields(s) = {<<from[k], to[k]>> : k \in 1 .. m}
  /\ \A k \in 1 .. m : KeyValue(SubSeq(s, from[k], to[k])) = <<query[k][1], query[k][2]>>

\* The last field with a key, and the values such fields give.
LastIndex(query, m, key) == Max({i \in 1 .. m : query[i][1] = key})

LastValues(query, m) ==
  [key \in {query[k][1] : k \in 1 .. m} |-> query[LastIndex(query, m, key)][2]]

\* There is a last field with a key.
LEMMA LastIndexIs ==
  ASSUME NEW m \in Nat, NEW query, NEW k \in 1 .. m
  PROVE  /\ LastIndex(query, m, query[k][1]) \in 1 .. m
         /\ query[LastIndex(query, m, query[k][1])][1] = query[k][1]
         /\ \A i \in 1 .. m : query[i][1] = query[k][1] => i <= LastIndex(query, m, query[k][1])
<1> DEFINE S == {i \in 1 .. m : query[i][1] = query[k][1]}
<1>1. S \in SUBSET (1 .. m) /\ S # {}
  OBVIOUS
<1>2. Max(S) \in S /\ \A i \in S : i <= Max(S)
  <2> HIDE DEF S
  <2> QED BY <1>1, GreatestIndex
<1> QED BY <1>2 DEF LastIndex

\* The last value of every key is its value.
LEMMA LastValueCounts ==
  ASSUME NEW s, NEW m \in Nat, NEW query, NEW from, NEW to, IsCut(s, query, m, from, to)
  PROVE  QueryMap(s) = LastValues(query, m)
<1> DEFINE fields == Fields(s)
           pair(f) == KeyValue(SubSeq(s, f[1], f[2]))
           lastOf(key) == Max({f[1] : f \in {g \in fields : pair(g)[1] = key}})
           value(key) == pair(CHOOSE f \in fields : f[1] = lastOf(key))[2]
<1>0. fields = {<<from[k], to[k]>> : k \in 1 .. m}
  BY Zenon DEF IsCut
<1>1. QueryMap(s) = [key \in {pair(f)[1] : f \in fields} |-> value(key)]
  BY DEF QueryMap
<1>2. ASSUME NEW k \in 1 .. m
      PROVE  /\ <<from[k], to[k]>> \in fields /\ from[k] \in Nat
             /\ pair(<<from[k], to[k]>>)[1] = query[k][1]
             /\ pair(<<from[k], to[k]>>)[2] = query[k][2]
  <2>1. <<from[k], to[k]>> \in fields /\ from[k] \in Nat
    BY <1>0 DEF IsCut
  <2>2. pair(<<from[k], to[k]>>) = KeyValue(SubSeq(s, from[k], to[k]))
    OBVIOUS
  <2>3. KeyValue(SubSeq(s, from[k], to[k])) = <<query[k][1], query[k][2]>>
    BY Zenon DEF IsCut
  <2> HIDE DEF pair, fields
  <2> QED BY <2>1, <2>2, <2>3
<1>3. \A f \in fields : \E k \in 1 .. m : f = <<from[k], to[k]>>
  BY <1>0
<1> HIDE DEF pair, fields
<1>4. {pair(f)[1] : f \in fields} = {query[k][1] : k \in 1 .. m}
  <2>1. \A f \in fields : pair(f)[1] \in {query[k][1] : k \in 1 .. m}
    BY <1>2, <1>3
  <2>2. \A k \in 1 .. m : query[k][1] \in {pair(f)[1] : f \in fields}
    <3> TAKE k \in 1 .. m
    <3>1. <<from[k], to[k]>> \in fields /\ pair(<<from[k], to[k]>>)[1] = query[k][1]
      BY <1>2
    <3> QED BY <3>1, Zenon
  <2> QED BY <2>1, <2>2
<1>5. ASSUME NEW k \in 1 .. m
      PROVE  value(query[k][1]) = query[LastIndex(query, m, query[k][1])][2]
  <2> PICK key : key = query[k][1]
    OBVIOUS
  <2> DEFINE starts == {f[1] : f \in {g \in fields : pair(g)[1] = key}}
  <2>1. PICK last \in 1 .. m :
          /\ last = LastIndex(query, m, key) /\ query[last][1] = key
          /\ \A i \in 1 .. m : query[i][1] = key => i <= last
    BY LastIndexIs
  <2>2. from[last] \in starts
    <3>1. <<from[last], to[last]>> \in fields
          /\ pair(<<from[last], to[last]>>)[1] = key
      BY <1>2, <2>1
    <3>2. <<from[last], to[last]>>[1] = from[last]
      OBVIOUS
    <3> QED BY <3>1, <3>2, Zenon
  <2>3. ASSUME NEW i \in starts PROVE i \in Nat /\ i <= from[last]
    <3>1. PICK f \in fields : pair(f)[1] = key /\ i = f[1]
      OBVIOUS
    <3>2. PICK j \in 1 .. m : f = <<from[j], to[j]>>
      BY <1>3
    <3>3. query[j][1] = key /\ i = from[j]
      BY <1>2, <3>1, <3>2
    <3>4. j <= last
      BY <2>1, <3>3
    <3>5. j = last \/ from[j] < from[last]
      BY <3>4 DEF IsCut
    <3>6. from[j] \in Nat /\ from[last] \in Nat
      BY <1>2
    <3> QED BY <3>3, <3>5, <3>6
  <2>4. lastOf(key) = from[last]
    <3>1. starts \in SUBSET Nat
      BY <2>3
    <3>2. Max(starts) = from[last]
      <4> HIDE DEF starts
      <4> QED BY <2>2, <2>3, <3>1, GreatestIs
    <3> QED BY <3>2
  <2> HIDE DEF starts
  <2>5. \A f \in fields : f[1] = from[last] => f = <<from[last], to[last]>>
    <3> TAKE f \in fields
    <3> HAVE f[1] = from[last]
    <3>1. PICK j \in 1 .. m : f = <<from[j], to[j]>>
      BY <1>3
    <3>2. from[j] = from[last]
      BY <3>1
    <3>3. ~ (j < last) /\ ~ (last < j)
      BY <1>2, <3>2 DEF IsCut
    <3>4. j = last
      BY <3>3
    <3> QED BY <3>1, <3>4
  <2> PICK chosen : chosen = CHOOSE f \in fields : f[1] = lastOf(key)
    OBVIOUS
  <2>6. <<from[last], to[last]>> \in fields /\ <<from[last], to[last]>>[1] = lastOf(key)
    BY <1>2, <2>4
  <2> HIDE DEF lastOf
  <2>7. chosen \in fields /\ chosen[1] = lastOf(key)
    BY <2>6, Zenon
  <2>8. chosen = <<from[last], to[last]>>
    BY <2>4, <2>5, <2>7
  <2>9. value(key) = pair(chosen)[2]
    BY Zenon
  <2>10. pair(chosen)[2] = query[last][2]
    BY <1>2, <2>8, Zenon
  <2> QED BY <2>1, <2>9, <2>10, Zenon
<1> HIDE DEF value
<1>6. \A key \in {query[k][1] : k \in 1 .. m} : value(key) = query[LastIndex(query, m, key)][2]
  BY <1>5
<1>7. [key \in {query[k][1] : k \in 1 .. m} |-> value(key)] = LastValues(query, m)
  BY <1>6 DEF LastValues
<1> QED BY <1>1, <1>4, <1>7, Zenon

\* parseQuery reads from the text of a query what is expected.
LEMMA QueryMapReads ==
  ASSUME NEW T, NEW query, NEW m, IsQuery(query, m, T), m # 0,
         NEW s \in Seq(T), QueryText(query) = <<"?">> \o s
  PROVE  QueryMap(s) = LastValues(query, m)
<1>0. \E at : FieldsLie(s, query, m, at)
  BY QueryIsCut, Zenon
<1> PICK at : FieldsLie(s, query, m, at)
  BY <1>0, Zenon
<1>1. /\ \A k \in 1 .. m : at[k - 1] \in Nat /\ at[k] \in Nat /\ at[k - 1] < at[k]
      /\ \A j, k \in 1 .. m : j < k => at[j - 1] < at[k - 1]
      /\ Fields(s) = {<<at[k - 1] + 1, at[k] - 1>> : k \in 1 .. m}
      /\ \A k \in 1 .. m : SubSeq(s, at[k - 1] + 1, at[k] - 1) = FieldText(query[k])
  BY Zenon DEF FieldsLie
<1> PICK from, to : from = [k \in 1 .. m |-> at[k - 1] + 1] /\ to = [k \in 1 .. m |-> at[k] - 1]
  OBVIOUS
<1>2. \A k \in 1 .. m : from[k] = at[k - 1] + 1 /\ to[k] = at[k] - 1
  OBVIOUS
<1>3. ASSUME NEW k \in 1 .. m
      PROVE  KeyValue(SubSeq(s, from[k], to[k])) = <<query[k][1], query[k][2]>>
  <2>1. IsFieldText(FieldText(query[k]), query[k], T)
    BY FieldReads, Zenon
  <2>2. KeyValue(FieldText(query[k])) = query[k]
    BY <2>1, Zenon DEF IsFieldText
  <2>3. query[k] = <<query[k][1], query[k][2]>>
    BY Zenon DEF IsQuery
  <2>4. SubSeq(s, from[k], to[k]) = FieldText(query[k])
    BY <1>1, <1>2, Zenon
  <2> QED BY <2>2, <2>3, <2>4, Zenon
<1>4. Fields(s) = {<<from[k], to[k]>> : k \in 1 .. m}
  <2>1. {<<from[k], to[k]>> : k \in 1 .. m} = {<<at[k - 1] + 1, at[k] - 1>> : k \in 1 .. m}
    BY <1>2
  <2> QED BY <1>1, <2>1, Zenon
<1>5. \A k \in 1 .. m : from[k] \in Nat
  <2> TAKE k \in 1 .. m
  <2>1. at[k - 1] \in Nat /\ from[k] = at[k - 1] + 1
    BY <1>1, <1>2, Zenon
  <2> QED BY <2>1
<1>6. \A j, k \in 1 .. m : j < k => from[j] < from[k]
  <2> TAKE j, k \in 1 .. m
  <2> HAVE j < k
  <2>1. at[j - 1] \in Nat /\ at[k - 1] \in Nat /\ at[j - 1] < at[k - 1]
    BY <1>1, Zenon
  <2>2. from[j] = at[j - 1] + 1 /\ from[k] = at[k - 1] + 1
    BY <1>2, Zenon
  <2> QED BY <2>1, <2>2
<1>7. IsCut(s, query, m, from, to)
  BY <1>3, <1>4, <1>5, <1>6, Zenon DEF IsCut
<1>8. m \in Nat
  BY DEF IsQuery
<1> QED BY <1>7, <1>8, LastValueCounts, Zenon

-----------------------------------------------------------------------------
(***************************************************************************)
(* Host and port.                                                          *)
(***************************************************************************)
\* Where a text a is followed by a text b without character c and by a tail that is
\* empty or begins with c.
Cuts(s, at, a, b, tail) ==
  IF tail = <<>>
  THEN at = 0 /\ s = a \o b /\ From(s, Len(a) + 1) = b
  ELSE /\ at # 0 /\ at = Len(a) + Len(b) + 1
       /\ Before(s, at) = a \o b /\ SubSeq(s, Len(a) + 1, at - 1) = b
       /\ From(s, at) = tail /\ From(s, at + 1) = Tail(tail)

\* One helper's cut: behind a, at the first c.
LEMMA Cut ==
  ASSUME NEW T, NEW a \in Seq(T), NEW b \in Seq(T), NEW tail \in Seq(T), NEW c \in T,
         Lacks(b, c), tail # <<>> => Head(tail) = c
  PROVE  Cuts(a \o (b \o tail), Find(a \o (b \o tail), <<c>>, Len(a) + 1), a, b, tail)
<1>1. CASE tail = <<>>
  <2>1. b \o tail = b
    BY <1>1, ConcatEmptySeq
  <2>2. NotAt(a \o b, Find(a \o b, <<c>>, Len(a) + 1), Len(a) + 1, b)
    BY CutMissing, Zenon
  <2> QED BY <1>1, <2>1, <2>2, Zenon DEF NotAt, Cuts
<1>2. CASE tail # <<>>
  <2>1. Tail(tail) \in Seq(T) /\ tail = <<c>> \o Tail(tail)
    BY <1>2, HeadFirst, Zenon
  <2> PICK d : d = Tail(tail)
    OBVIOUS
  <2>2. d \in Seq(T) /\ tail = <<c>> \o d
    BY <2>1, Zenon
  <2>3. CutAt((a \o b) \o (<<c>> \o d), Find((a \o b) \o (<<c>> \o d), <<c>>, Len(a) + 1),
              a, b, c, d)
    BY <2>2, CutFound, Zenon
  <2>4. (a \o b) \o tail = a \o (b \o tail)
    <3>1. Regroups(a, b, tail)
      BY Regroup, Zenon
    <3> QED BY <3>1, Zenon DEF Regroups
  <2>5. (a \o b) \o (<<c>> \o d) = a \o (b \o tail)
    BY <2>2, <2>4, Zenon
  <2>6. CutAt(a \o (b \o tail), Find(a \o (b \o tail), <<c>>, Len(a) + 1), a, b, c, d)
    BY <2>3, <2>5, Zenon
  <2> QED BY <1>2, <2>2, <2>6, Zenon DEF CutAt, Cuts
<1> QED BY <1>1, <1>2, Zenon

\* Text in front of an "@" is left out.
BehindUser(s, t) == From(s, Find(s, <<"@">>, 1) + 1) = t

\* What stands behind the user information is left.
LEMMA UserIsDropped ==
  ASSUME NEW T, "@" \in T, NEW user \in Seq(T), NEW t \in Seq(T), Lacks(t, "@"),
         user # <<>> => Last(user) = "@" /\ Lacks(Front(user), "@")
  PROVE  BehindUser(user \o t, t)
<1>1. CASE user = <<>>
  <2>1. user \o t = t
    BY <1>1, ConcatEmptySeq
  <2>2. Find(t, <<"@">>, 1) = 0 /\ From(t, 1) = t
    BY FirstMissing, Zenon
  <2>3. 0 + 1 = 1
    OBVIOUS
  <2> QED BY <2>1, <2>2, <2>3, Zenon DEF BehindUser
<1>2. CASE user # <<>>
  <2> PICK f : f = Front(user)
    OBVIOUS
  <2>1. f \in Seq(T) /\ user = f \o <<"@">> /\ Lacks(f, "@")
    BY <1>2, LastLast, Zenon
  <2>2. <<"@">> \in Seq(T)
    BY OneOf, Zenon
  <2>3. (f \o <<"@">>) \o t = f \o (<<"@">> \o t)
    <3>1. Regroups(f, <<"@">>, t)
      BY <2>1, <2>2, Regroup, Zenon
    <3> QED BY <2>1, <2>2, <3>1, Zenon DEF Regroups
  <2>4. FirstAtC(f \o (<<"@">> \o t), Find(f \o (<<"@">> \o t), <<"@">>, 1), f, "@", t)
    BY <2>1, FirstFound, Zenon
  <2>5. FirstAtC(user \o t, Find(user \o t, <<"@">>, 1), f, "@", t)
    BY <2>1, <2>3, <2>4, Zenon
  <2> QED BY <2>5, Zenon DEF FirstAtC, BehindUser
<1> QED BY <1>1, <1>2, Zenon

\* What stands behind a host.
Behind(s, host, port) ==
  /\ Len(host) \in Nat /\ Len(s) > Len(host) /\ s[Len(host) + 1] = Head(port)
  /\ From(s, Len(host) + 1 + 1) = Tail(port)
  /\ Before(s, Len(host) + 1) = host /\ SubSeq(s, 1, Len(host)) = host

\* Where the colon of a port is, the text divides into host and port.
LEMMA BehindHost ==
  ASSUME NEW T, NEW host \in Seq(T), NEW port \in Seq(T), port # <<>>
  PROVE  Behind(host \o port, host, port)
<1> PICK s, c, d, hc, l : /\ s = host \o port /\ c = Head(port) /\ d = Tail(port)
                          /\ hc = host \o <<c>> /\ l = Len(host)
  OBVIOUS
<1>1. c \in T /\ d \in Seq(T) /\ port = <<c>> \o d
  BY HeadFirst, Zenon
<1>2. <<c>> \in Seq(T) /\ Len(<<c>>) = 1 /\ <<c>>[1] = c
  BY <1>1, OneOf, Zenon
<1>3. l \in Nat /\ hc \in Seq(T) /\ Len(hc) = l + 1 /\ hc[l + 1] = c
  <2>1. /\ host \o <<c>> \in Seq(T) /\ Len(host \o <<c>>) = Len(host) + Len(<<c>>) /\ Len(host) \in Nat
        /\ \A i \in 1 .. Len(<<c>>) : (host \o <<c>>)[Len(host) + i] = <<c>>[i]
    <3>1. Chain(host \o <<c>>, host, <<c>>, T)
      BY <1>2, Chained, Zenon
    <3> QED BY <1>2, <3>1, Zenon DEF Chain
  <2>2. 1 \in 1 .. Len(<<c>>)
    BY <1>2
  <2> QED BY <1>2, <2>1, <2>2, Zenon
<1>4. s = hc \o d
  <2>1. Regroups(host, <<c>>, d)
    BY <1>1, <1>2, Regroup, Zenon
  <2> QED BY <1>1, <1>2, <2>1, Zenon DEF Regroups
<1>5. Halved(hc \o d, Len(hc), hc, d)
  BY <1>1, <1>3, Halves, Zenon
<1>6. SubSeq(s, (l + 1) + 1, Len(s)) = d
  BY <1>3, <1>4, <1>5, Zenon DEF Halved
<1>7. /\ Len(hc \o d) = Len(hc) + Len(d) /\ Len(d) \in Nat
      /\ \A i \in 1 .. Len(hc) : (hc \o d)[i] = hc[i]
  <2>1. Chain(hc \o d, hc, d, T)
    BY <1>1, <1>3, Chained, Zenon
  <2> QED BY <1>1, <1>3, <2>1, Zenon DEF Chain
<1>8. Len(s) > l /\ s[l + 1] = c
  <2>1. Len(s) = (l + 1) + Len(d) /\ Len(d) \in Nat
    BY <1>3, <1>4, <1>7, Zenon
  <2>2. l + 1 \in 1 .. Len(hc)
    BY <1>3
  <2>3. s[l + 1] = hc[l + 1]
    BY <1>4, <1>7, <2>2, Zenon
  <2>4. Len(s) > l
    BY <1>3, <2>1
  <2> QED BY <1>3, <2>3, <2>4, Zenon
<1>9. Halved(host \o port, Len(host), host, port)
  BY Halves, Zenon
<1>10. SubSeq(s, 1, l) = host
  BY <1>9, Zenon DEF Halved
<1>11. (l + 1) - 1 = l
  BY <1>3
<1>12. Before(s, l + 1) = host
  BY <1>10, <1>11, Zenon DEF Before
<1> QED BY <1>3, <1>6, <1>8, <1>10, <1>12, Zenon DEF Behind, From

\* Place i stands j places behind the character that follows the first l.
IsInTail(i, l, n) ==
  LET j == i - l - 1 IN j \in 1 .. n /\ l + (j + 1) = i /\ j + 1 \in 1 .. n + 1

\* So does every place behind that character.
LEMMA InTail ==
  ASSUME NEW i \in Nat, NEW l \in Nat, NEW n \in Nat, i > l + 1, i <= l + (n + 1)
  PROVE  IsInTail(i, l, n)
BY DEF IsInTail

\* The last colon.
LEMMA LastColon ==
  ASSUME NEW T, NEW host \in Seq(T), NEW port \in Seq(T), port # <<>>, Lacks(Tail(port), Head(port))
  PROVE  FindLast(host \o port, Head(port)) = Len(host) + 1
<1> PICK s, c, d, l : /\ s = host \o port /\ c = Head(port) /\ d = Tail(port) /\ l = Len(host)
  OBVIOUS
<1>1. Behind(s, host, port)
  BY BehindHost, Zenon
<1>2. l \in Nat /\ Len(s) > l /\ s[l + 1] = c
  BY <1>1, Zenon DEF Behind
<1>3. s \in Seq(T) /\ Len(s) = l + Len(port) /\ \A i \in 1 .. Len(port) : s[l + i] = port[i]
  <2>1. Chain(host \o port, host, port, T)
    BY Chained, Zenon
  <2> QED BY <2>1, Zenon DEF Chain
<1>4. Len(d) \in Nat /\ Len(port) = Len(d) + 1 /\ \A i \in 1 .. Len(d) : port[i + 1] = d[i]
  BY SMT
<1> DEFINE at == {i \in DOMAIN s : s[i] = c}
<1>5. l + 1 \in at
  <2>1. DOMAIN s = 1 .. Len(s) /\ Len(s) \in Nat
    BY <1>3
  <2>2. l + 1 \in 1 .. Len(s)
    BY <1>2, <2>1
  <2> QED BY <1>2, <2>1, <2>2
<1>6. ASSUME NEW i \in at PROVE i \in Nat /\ i <= l + 1
  <2>1. i \in 1 .. Len(s) /\ s[i] = c /\ Len(s) \in Nat
    BY <1>3
  <2> SUFFICES ASSUME i > l + 1 PROVE FALSE
    BY <1>2, <2>1
  <2> PICK j : j = i - l - 1
    OBVIOUS
  <2>2. Len(s) = l + (Len(d) + 1)
    BY <1>3, <1>4, Zenon
  <2>3. j \in 1 .. Len(d) /\ l + (j + 1) = i /\ j + 1 \in 1 .. Len(d) + 1
    <3>1. l \in Nat /\ Len(d) \in Nat /\ i \in Nat /\ i <= l + (Len(d) + 1)
      BY <1>2, <1>4, <2>1, <2>2
    <3> QED BY <3>1, InTail, Zenon DEF IsInTail
  <2>4. s[l + (j + 1)] = port[j + 1]
    BY <1>3, <1>4, <2>3, Zenon
  <2>5. port[j + 1] = d[j] /\ d[j] # c
    BY <1>4, <2>3, Zenon DEF Lacks
  <2> QED BY <2>1, <2>3, <2>4, <2>5, Zenon
<1> HIDE DEF at
<1>7. Max(at) = l + 1 /\ at # {}
  <2>1. at \in SUBSET Nat
    BY <1>6
  <2> QED BY <1>5, <1>6, <2>1, GreatestIs
<1>8. FindLast(s, c) = IF at = {} THEN Npos ELSE Max(at)
  BY Zenon DEF FindLast, at
<1> QED BY <1>7, <1>8, Zenon

\* Without a colon none is found.
LEMMA NoColon ==
  ASSUME NEW s, NEW c, DOMAIN s = 1 .. Len(s), Lacks(s, c)
  PROVE  FindLast(s, c) = 0
BY DEF FindLast, Lacks, Npos

\* What HostAndPort looks for: the bracket that closes, the colon, and the host.
CloseOf(hp) == Find(hp, <<"]">>, 1)

ColonOf(hp) ==
  IF hp[1] = "["
  THEN IF Len(hp) > CloseOf(hp) /\ hp[CloseOf(hp) + 1] = ":" THEN CloseOf(hp) + 1 ELSE 0
  ELSE FindLast(hp, ":")

HostOf(hp) ==
  IF hp[1] = "[" THEN SubSeq(hp, 1, CloseOf(hp))
  ELSE IF ColonOf(hp) = 0 THEN hp ELSE Before(hp, ColonOf(hp))

\* A host and a port are told apart.
Splits(hp, host, port) ==
  /\ hp[1] = "[" => CloseOf(hp) # 0
  /\ port = <<>> => ColonOf(hp) = 0
  /\ port # <<>> => ColonOf(hp) # 0 /\ From(hp, ColonOf(hp) + 1) = Tail(port)
  /\ HostOf(hp) = host

\* What the split needs to know of a port ...
IsPort(port) ==
  port # <<>> => Head(port) = ":" /\ Lacks(Tail(port), ":") /\ Lacks(Tail(port), "]")

\* ... and of a host.
Bracketed(host) == host # <<>> /\ Head(host) = "["

\* A host without brackets has no colon, so the last colon is the port's.
LEMMA PlainHostSplits ==
  ASSUME NEW T, NEW host \in Seq(T), NEW port \in Seq(T), host \o port # <<>>,
         ~ Bracketed(host), Lacks(host, ":"), IsPort(port)
  PROVE  Splits(host \o port, host, port)
<1> PICK hp : hp = host \o port
  OBVIOUS
<1>1. hp[1] = IF host = <<>> THEN Head(port) ELSE Head(host)
  BY FirstOf, Zenon
<1>2. host = <<>> => port # <<>>
  BY ConcatEmptySeq
<1>3. hp[1] # "["
  <2>1. CASE host = <<>>
    BY <1>1, <1>2, <2>1 DEF IsPort
  <2>2. CASE host # <<>>
    BY <1>1, <2>2, Zenon DEF Bracketed
  <2> QED BY <2>1, <2>2, Zenon
<1>4. ColonOf(hp) = FindLast(hp, ":")
  BY <1>3, Zenon DEF ColonOf
<1>5. CASE port = <<>>
  <2>1. hp = host
    BY <1>5, ConcatEmptySeq
  <2>2. FindLast(host, ":") = 0
    <3>1. DOMAIN host = 1 .. Len(host)
      OBVIOUS
    <3> QED BY <3>1, NoColon, Zenon
  <2>3. ColonOf(hp) = 0
    BY <1>4, <2>1, <2>2, Zenon
  <2>4. HostOf(hp) = host
    BY <1>3, <2>1, <2>3, Zenon DEF HostOf
  <2> QED BY <1>3, <1>5, <2>3, <2>4, Zenon DEF Splits
<1>6. CASE port # <<>>
  <2>1. Head(port) = ":" /\ Lacks(Tail(port), Head(port))
    BY <1>6, Zenon DEF IsPort
  <2>2. FindLast(hp, ":") = Len(host) + 1
    BY <1>6, <2>1, LastColon, Zenon
  <2>3. Behind(hp, host, port)
    BY <1>6, BehindHost, Zenon
  <2>4. ColonOf(hp) = Len(host) + 1 /\ Len(host) + 1 # 0
    BY <1>4, <2>2
  <2>5. HostOf(hp) = host
    BY <1>3, <2>3, <2>4, Zenon DEF HostOf, Behind
  <2>6. From(hp, ColonOf(hp) + 1) = Tail(port)
    BY <2>3, <2>4, Zenon DEF Behind
  <2> QED BY <1>3, <1>6, <2>4, <2>5, <2>6, Zenon DEF Splits
<1> QED BY <1>5, <1>6, Zenon

\* Behind a bracket the colon is the port's.
LEMMA ClosedHostSplits ==
  ASSUME NEW T, "]" \in T, NEW host \in Seq(T), NEW port \in Seq(T),
         Bracketed(host), Last(host) = "]", Lacks(Front(host), "]"), IsPort(port)
  PROVE  Splits(host \o port, host, port)
<1> PICK hp, f : hp = host \o port /\ f = Front(host)
  OBVIOUS
<1>1. /\ f \in Seq(T) /\ host = f \o <<"]">> /\ Len(host) = Len(f) + 1 /\ host # <<>>
  BY LastLast, Zenon DEF Bracketed
<1>0. <<"]">> \in Seq(T)
  BY OneOf, Zenon
<1>2. hp = f \o (<<"]">> \o port)
  <2>1. Regroups(f, <<"]">>, port)
    BY <1>0, <1>1, Regroup, Zenon
  <2> QED BY <1>1, <2>1, Zenon DEF Regroups
<1>3. FirstAtC(f \o (<<"]">> \o port), Find(f \o (<<"]">> \o port), <<"]">>, 1), f, "]", port)
  BY <1>1, FirstFound, Zenon
<1>4. CloseOf(hp) # 0 /\ CloseOf(hp) = Len(host)
  BY <1>1, <1>2, <1>3, Zenon DEF CloseOf, FirstAtC
<1>5. hp[1] = "["
  <2>1. Chain(hp, host, port, T)
    BY Chained, Zenon
  <2>2. 1 \in 1 .. Len(host)
    BY <1>1, EmptySeq
  <2>3. hp[1] = host[1]
    BY <2>1, <2>2, Zenon DEF Chain
  <2>4. host[1] = "["
    BY <1>1, HeadFirst, Zenon DEF Bracketed
  <2> QED BY <2>3, <2>4, Zenon
<1>6. HostOf(hp) = host
  <2>1. Halved(host \o port, Len(host), host, port)
    BY Halves, Zenon
  <2> QED BY <1>4, <1>5, <2>1, Zenon DEF Halved, HostOf
<1>7. CASE port = <<>>
  <2>1. hp = host
    BY <1>7, ConcatEmptySeq
  <2>2. ~ (Len(hp) > Len(host))
    <3>1. Len(host) \in Nat
      OBVIOUS
    <3> QED BY <2>1, <3>1
  <2>3. ColonOf(hp) = 0
    BY <1>4, <1>5, <2>2, Zenon DEF ColonOf
  <2> QED BY <1>4, <1>6, <1>7, <2>3, Zenon DEF Splits
<1>8. CASE port # <<>>
  <2>1. Behind(hp, host, port)
    BY <1>8, BehindHost, Zenon
  <2>2. Len(hp) > Len(host) /\ hp[Len(host) + 1] = ":" /\ From(hp, Len(host) + 1 + 1) = Tail(port)
    BY <1>8, <2>1, Zenon DEF Behind, IsPort
  <2>3. ColonOf(hp) = Len(host) + 1
    BY <1>4, <1>5, <2>2, Zenon DEF ColonOf
  <2>4. Len(host) + 1 # 0
    <3>1. Len(host) \in Nat
      OBVIOUS
    <3> QED BY <3>1
  <2> QED BY <1>4, <1>6, <1>8, <2>2, <2>3, <2>4, Zenon DEF Splits
<1> QED BY <1>7, <1>8, Zenon

\* A bracket that is not closed.
LEMMA OpenHostIsBad ==
  ASSUME NEW T, NEW host \in Seq(T), NEW port \in Seq(T), NEW scheme,
         Bracketed(host), Last(host) # "]", Lacks(Front(host), "]"), IsPort(port)
  PROVE  HostAndPort(host \o port, scheme) = Bad
<1> PICK hp, f : hp = host \o port /\ f = Front(host)
  OBVIOUS
<1>1. /\ f \in Seq(T) /\ host = f \o <<Last(host)>> /\ Last(host) \in T /\ host # <<>>
  BY LastLast, Zenon DEF Bracketed
<1>2. hp[1] = "["
  <2>1. Chain(hp, host, port, T)
    BY Chained, Zenon
  <2>2. 1 \in 1 .. Len(host)
    BY <1>1, EmptySeq
  <2>3. hp[1] = host[1]
    BY <2>1, <2>2, Zenon DEF Chain
  <2>4. host[1] = "["
    BY <1>1, HeadFirst, Zenon DEF Bracketed
  <2> QED BY <2>3, <2>4, Zenon
<1>3. Lacks(host, "]")
  <2>1. Lacks(<<Last(host)>>, "]") /\ <<Last(host)>> \in Seq(T)
    BY <1>1 DEF Lacks
  <2> PICK one : one = <<Last(host)>>
    OBVIOUS
  <2>2. Lacks(f \o one, "]") <=> Lacks(f, "]") /\ Lacks(one, "]")
    BY <1>1, <2>1, ConcatLacks, Zenon
  <2> QED BY <1>1, <2>1, <2>2, Zenon
<1>4. Lacks(port, "]")
  <2>1. CASE port = <<>>
    BY <2>1 DEF Lacks
  <2>2. CASE port # <<>>
    <3>1. Tail(port) \in Seq(T) /\ Head(port) \in T /\ port = <<Head(port)>> \o Tail(port)
      BY <2>2, HeadFirst, Zenon
    <3> PICK one, d : one = <<Head(port)>> /\ d = Tail(port)
      OBVIOUS
    <3>2. one \in Seq(T) /\ Lacks(one, "]") /\ Lacks(d, "]")
      BY <2>2, <3>1 DEF IsPort, Lacks
    <3>3. Lacks(one \o d, "]") <=> Lacks(one, "]") /\ Lacks(d, "]")
      BY <3>1, <3>2, ConcatLacks, Zenon
    <3> QED BY <3>1, <3>2, <3>3, Zenon
  <2> QED BY <2>1, <2>2, Zenon
<1>5. hp \in Seq(T) /\ Lacks(hp, "]")
  <2>1. Lacks(host \o port, "]") <=> Lacks(host, "]") /\ Lacks(port, "]")
    BY ConcatLacks, Zenon
  <2> QED BY <1>3, <1>4, <2>1
<1>6. Find(hp, <<"]">>, 1) = 0
  BY <1>5, FirstMissing, Zenon
<1> QED BY <1>2, <1>6, Zenon DEF HostAndPort

\* A bracket that is not closed at the end of the host.
Unclosed(host) == Bracketed(host) /\ Last(host) # "]"

\* What HostAndPort makes of a host and a port.
ReadAs(result, host, port, scheme) ==
  result =
    IF Unclosed(host) \/ (port # <<>> /\ ~ ValidPort(Tail(port))) THEN Bad
    ELSE [host |-> host,
          port |-> IF port = <<>> THEN DefaultPort(scheme) ELSE Number(Tail(port))]

\* It finds the host and the port, or that one of them is malformed.
LEMMA HostAndPortReads ==
  ASSUME NEW T, "]" \in T, NEW host \in Seq(T), NEW port \in Seq(T), NEW scheme, host \o port # <<>>,
         IF Bracketed(host) THEN Lacks(Front(host), "]") ELSE Lacks(host, ":"), IsPort(port)
  PROVE  ReadAs(HostAndPort(host \o port, scheme), host, port, scheme)
<1>1. CASE Unclosed(host)
  <2>1. Bracketed(host) /\ Last(host) # "]" /\ Lacks(Front(host), "]")
    BY <1>1, Zenon DEF Unclosed
  <2>2. HostAndPort(host \o port, scheme) = Bad
    BY <2>1, OpenHostIsBad, Zenon
  <2> QED BY <1>1, <2>2, Zenon DEF ReadAs
<1>2. CASE ~ Unclosed(host)
  <2> PICK hp : hp = host \o port
    OBVIOUS
  <2>1. Splits(hp, host, port)
    BY <1>2, PlainHostSplits, ClosedHostSplits, Zenon DEF Unclosed
  <2>2. HostAndPort(hp, scheme) =
          IF hp[1] = "[" /\ CloseOf(hp) = 0 THEN Bad
          ELSE IF ColonOf(hp) = 0 THEN [host |-> HostOf(hp), port |-> DefaultPort(scheme)]
          ELSE IF ~ ValidPort(From(hp, ColonOf(hp) + 1)) THEN Bad
          ELSE [host |-> HostOf(hp), port |-> Number(From(hp, ColonOf(hp) + 1))]
    BY Zenon DEF HostAndPort, CloseOf, ColonOf, HostOf
  <2>3. ReadAs(HostAndPort(hp, scheme), host, port, scheme)
    BY <1>2, <2>1, <2>2, Zenon DEF ReadAs, Splits
  <2> QED BY <2>3
<1> QED BY <1>1, <1>2

-----------------------------------------------------------------------------
(***************************************************************************)
(* Decimal numbers.                                                        *)
(***************************************************************************)
\* The value of the first i digits, for all i.
Values(value, digits, n) ==
  value = [i \in 0 .. n |-> IF i = 0 THEN 0 ELSE 10 * value[i - 1] + Digit(digits[i])]

\* The function by which Number is defined exists.
LEMMA ValuesExist ==
  ASSUME NEW digits, NEW n \in Nat, \A i \in 1 .. n : Digit(digits[i]) \in Nat
  PROVE  \E value \in [0 .. n -> Nat] : Values(value, digits, n)
<1> DEFINE Good == {k \in 0 .. n : \E value \in [0 .. k -> Nat] : Values(value, digits, k)}
<1>1. 0 \in Good
  <2>1. [i \in 0 .. 0 |-> 0] \in [0 .. 0 -> Nat]
    OBVIOUS
  <2>2. Values([i \in 0 .. 0 |-> 0], digits, 0)
    BY DEF Values
  <2>3. 0 \in 0 .. n
    OBVIOUS
  <2> QED BY <2>1, <2>2, <2>3, Zenon
<1>2. ASSUME NEW k \in 1 .. n, k - 1 \in Good PROVE k \in Good
  <2>1. PICK v \in [0 .. k - 1 -> Nat] : Values(v, digits, k - 1)
    BY <1>2
  <2> PICK last : last = 10 * v[k - 1] + Digit(digits[k])
    OBVIOUS
  <2>2. last \in Nat
    BY <2>1
  <2> DEFINE w == [i \in 0 .. k |-> IF i = k THEN last ELSE v[i]]
  <2>3. w \in [0 .. k -> Nat]
    <3>1. ASSUME NEW i \in 0 .. k PROVE (IF i = k THEN last ELSE v[i]) \in Nat
      <4>1. i # k => i \in 0 .. k - 1
        OBVIOUS
      <4> QED BY <2>1, <2>2, <4>1
    <3> QED BY <3>1
  <2>4. ASSUME NEW i \in 0 .. k
        PROVE  w[i] = IF i = 0 THEN 0 ELSE 10 * w[i - 1] + Digit(digits[i])
    <3>1. CASE i = k
      <4>1. w[i] = last /\ i # 0 /\ w[i - 1] = v[k - 1]
        BY <3>1
      <4> QED BY <3>1, <4>1
    <3>2. CASE i # k
      <4>1. i \in 0 .. k - 1 /\ w[i] = v[i] /\ (i # 0 => w[i - 1] = v[i - 1])
        BY <3>2
      <4>2. v[i] = IF i = 0 THEN 0 ELSE 10 * v[i - 1] + Digit(digits[i])
        BY <2>1, <4>1, Zenon DEF Values
      <4> HIDE DEF w
      <4> QED BY <4>1, <4>2, Zenon
    <3> QED BY <3>1, <3>2
  <2>5. w = [i \in 0 .. k |-> w[i]]
    OBVIOUS
  <2> HIDE DEF w
  <2>6. Values(w, digits, k)
    BY <2>4, <2>5 DEF Values
  <2>7. k \in 0 .. n
    OBVIOUS
  <2> QED BY <2>3, <2>6, <2>7, Zenon
<1>3. n \in Good
  <2> HIDE DEF Good
  <2>1. \A k \in 0 .. n : k \in Good
    BY <1>1, <1>2, InductionTo
  <2> QED BY <2>1
<1> QED BY <1>3, Zenon

\* What a sequence of digits counts.
Counts(value, digits, n) ==
  /\ Number(digits) = value[n] /\ value[0] = 0
  /\ \A i \in 0 .. n : value[i] \in Nat
  /\ \A i \in 1 .. n : value[i] = 10 * value[i - 1] + Digit(digits[i])

\* Number adds up the digits.
LEMMA NumberCounts ==
  ASSUME NEW digits, NEW n \in Nat, Len(digits) = n, \A i \in 1 .. n : Digit(digits[i]) \in Nat
  PROVE  \E value : Counts(value, digits, n)
<1> DEFINE value == CHOOSE f : Values(f, digits, n)
<1>1. Number(digits) = value[n]
  BY DEF Number, Values
<1>2. \E f : Values(f, digits, n)
  BY ValuesExist, Zenon
<1>3. Values(value, digits, n)
  BY <1>2, Zenon
<1> HIDE DEF value
<1>4. \A i \in 0 .. n : value[i] = IF i = 0 THEN 0 ELSE 10 * value[i - 1] + Digit(digits[i])
  BY <1>3, Zenon DEF Values
<1>5. value[0] = 0 /\ \A i \in 1 .. n : value[i] = 10 * value[i - 1] + Digit(digits[i])
  BY <1>4
<1> DEFINE Good == {i \in 0 .. n : value[i] \in Nat}
<1>6. 0 \in Good
  BY <1>5
<1>7. ASSUME NEW i \in 1 .. n, i - 1 \in Good PROVE i \in Good
  BY <1>5, <1>7
<1>8. \A i \in 0 .. n : value[i] \in Nat
  <2> HIDE DEF Good
  <2>1. \A i \in 0 .. n : i \in Good
    BY <1>6, <1>7, InductionTo
  <2> QED BY <2>1 DEF Good
<1>9. Counts(value, digits, n)
  BY <1>1, <1>5, <1>8, Zenon DEF Counts
<1> QED BY <1>9, Zenon

\* Ten characters stand for ten numbers.
LEMMA DigitOf ==
  ASSUME NEW d \in 0 .. 9
  PROVE  Digit(Digits[d + 1]) = d
<1>1. \A e \in 0 .. 9 : Digits[e + 1] = Digits[d + 1] => e = d
  <2>1. d \in {0, 1, 2, 3, 4, 5, 6, 7, 8, 9}
    OBVIOUS
  <2> QED BY <2>1 DEF Digits
<1>2. \E e \in 0 .. 9 : Digits[e + 1] = Digits[d + 1]
  OBVIOUS
<1>3. Digit(Digits[d + 1]) \in 0 .. 9 /\ Digits[Digit(Digits[d + 1]) + 1] = Digits[d + 1]
  BY <1>2, Zenon DEF Digit
<1> QED BY <1>1, <1>3

\* A digit has a value.
LEMMA DigitRange ==
  ASSUME NEW ch, ch \in Range(Digits)
  PROVE  Digit(ch) \in 0 .. 9
<1>1. PICK i \in 1 .. 10 : ch = Digits[i]
  BY DEF Range, Digits
<1>2. i - 1 \in 0 .. 9 /\ (i - 1) + 1 = i
  OBVIOUS
<1> QED BY <1>1, <1>2, DigitOf

\* Digits make a number.
LEMMA NumberType ==
  ASSUME NEW T, NEW s \in Seq(T), \A i \in DOMAIN s : s[i] \in Range(Digits)
  PROVE  Number(s) \in Nat
<1> PICK n \in Nat : n = Len(s) /\ DOMAIN s = 1 .. n
  OBVIOUS
<1>1. \A i \in 1 .. n : Digit(s[i]) \in Nat
  <2> TAKE i \in 1 .. n
  <2>1. Digit(s[i]) \in 0 .. 9
    BY DigitRange
  <2> QED BY <2>1
<1>2. PICK value : Counts(value, s, n)
  BY <1>1, NumberCounts
<1>3. n \in 0 .. n
  OBVIOUS
<1> QED BY <1>2, <1>3, Zenon DEF Counts

\* The numbers a std::uint16_t holds.
PortNumbers == {n \in Nat : n <= 65535}

\* How many digits a number has.
Count(n) == Max({k \in 1 .. 5 : k = 1 \/ n >= Powers[k]})

\* The number of digits, if it is known which power is too large ...
LEMMA CountIs ==
  ASSUME NEW n \in Nat, NEW c \in 1 .. 5, c = 1 \/ n >= Powers[c],
         \A k \in 1 .. 5 : k > c => ~ (n >= Powers[k])
  PROVE  Count(n) = c
<1> DEFINE S == {k \in 1 .. 5 : k = 1 \/ n >= Powers[k]}
<1>1. S \in SUBSET Nat /\ c \in S
  OBVIOUS
<1>2. \A k \in S : k <= c
  <2> TAKE k \in S
  <2>1. k \in 1 .. 5 /\ (k = 1 \/ n >= Powers[k])
    OBVIOUS
  <2> QED BY <2>1
<1> HIDE DEF S
<1>3. Max(S) = c
  BY <1>1, <1>2, GreatestIs
<1> QED BY <1>3 DEF Count, S

\* ... and that there is such a power.
LEMMA CountCases ==
  ASSUME NEW n \in PortNumbers
  PROVE  /\ Count(n) \in 1 .. 5
         /\ n < 10 * Powers[Count(n)]
<1>6. n \in Nat /\ n <= 65535
  BY DEF PortNumbers
<1>0. /\ Powers[1] = 1 /\ Powers[2] = 10 /\ Powers[3] = 100 /\ Powers[4] = 1000
      /\ Powers[5] = 10000
  BY DEF Powers
<1>1. CASE n < 10
  <2>1. Count(n) = 1
    BY <1>0, <1>1, <1>6, CountIs
  <2> QED BY <1>0, <1>1, <1>6, <2>1
<1>2. CASE 10 <= n /\ n < 100
  <2>1. Count(n) = 2
    BY <1>0, <1>2, <1>6, CountIs
  <2> QED BY <1>0, <1>2, <1>6, <2>1
<1>3. CASE 100 <= n /\ n < 1000
  <2>1. Count(n) = 3
    BY <1>0, <1>3, <1>6, CountIs
  <2> QED BY <1>0, <1>3, <1>6, <2>1
<1>4. CASE 1000 <= n /\ n < 10000
  <2>1. Count(n) = 4
    BY <1>0, <1>4, <1>6, CountIs
  <2> QED BY <1>0, <1>4, <1>6, <2>1
<1>5. CASE 10000 <= n
  <2>1. Count(n) = 5
    BY <1>0, <1>5, <1>6, CountIs
  <2> QED BY <1>0, <1>5, <1>6, <2>1
<1> QED BY <1>1, <1>2, <1>3, <1>4, <1>5, <1>6

\* The digits of a decimal number.
DigitAt(n, i) == (n \div Powers[Count(n) - i + 1]) % 10

\* The digits Decimal gives.
LEMMA DecimalIs ==
  ASSUME NEW T, Range(Digits) \subseteq T, NEW n \in PortNumbers
  PROVE  /\ Decimal(n) \in Seq(T) /\ Len(Decimal(n)) = Count(n)
         /\ DOMAIN Decimal(n) = 1 .. Count(n)
         /\ \A i \in 1 .. Count(n) :
              /\ Decimal(n)[i] \in Range(Digits) /\ Digit(Decimal(n)[i]) = DigitAt(n, i)
<1> PICK c : c = Count(n)
  OBVIOUS
<1>1. c \in 1 .. 5
  BY CountCases, Zenon
<1>2. Decimal(n) = [i \in 1 .. c |-> Digits[DigitAt(n, i) + 1]]
  BY DEF Decimal, DigitAt, Count
<1>3. ASSUME NEW i \in 1 .. c
      PROVE  DigitAt(n, i) \in 0 .. 9
  <2>1. Powers[c - i + 1] \in {1, 10, 100, 1000, 10000}
    <3>1. c - i + 1 \in 1 .. 5
      BY <1>1
    <3> QED BY <3>1 DEF Powers
  <2> QED BY <2>1 DEF DigitAt, PortNumbers
<1>4. ASSUME NEW i \in 1 .. c
      PROVE  /\ Digits[DigitAt(n, i) + 1] \in Range(Digits)
             /\ Digit(Digits[DigitAt(n, i) + 1]) = DigitAt(n, i)
  <2>1. DigitAt(n, i) \in 0 .. 9
    BY <1>3
  <2>2. DigitAt(n, i) + 1 \in DOMAIN Digits
    BY <2>1 DEF Digits
  <2> QED BY <2>1, <2>2, DigitOf DEF Range
<1>5. \A i \in 1 .. c : Digits[DigitAt(n, i) + 1] \in T
  BY <1>4
<1> QED BY <1>1, <1>2, <1>4, <1>5

\* A digit more is ten times as much.
LEMMA OneMoreDigit ==
  ASSUME NEW n \in Nat, NEW k \in 1 .. 4
  PROVE  n \div Powers[k] = 10 * (n \div Powers[k + 1]) + ((n \div Powers[k]) % 10)
<1>1. CASE k = 1
  BY <1>1 DEF Powers
<1>2. CASE k = 2
  BY <1>2 DEF Powers
<1>3. CASE k = 3
  BY <1>3 DEF Powers
<1>4. CASE k = 4
  BY <1>4 DEF Powers
<1> QED BY <1>1, <1>2, <1>3, <1>4

\* A number that is written and read again is the same number.
LEMMA DecimalCounts ==
  ASSUME NEW T, Range(Digits) \subseteq T, NEW n \in PortNumbers
  PROVE  Number(Decimal(n)) = n
<1> PICK c, s : c = Count(n) /\ s = Decimal(n)
  OBVIOUS
<1>1. c \in 1 .. 5 /\ n < 10 * Powers[c]
  BY CountCases, Zenon
<1>2. Len(s) = c /\ \A i \in 1 .. c : s[i] \in Range(Digits) /\ Digit(s[i]) = DigitAt(n, i)
  BY DecimalIs, Zenon
<1>3. \A i \in 1 .. c : Digit(s[i]) \in Nat
  BY <1>2, DigitRange
<1>4. PICK value : Counts(value, s, c)
  BY <1>1, <1>2, <1>3, NumberCounts
<1> DEFINE Good == {i \in 0 .. c : i = 0 \/ value[i] = n \div Powers[c - i + 1]}
<1>5. 0 \in Good
  BY <1>1
<1>6. ASSUME NEW i \in 1 .. c, i - 1 \in Good PROVE i \in Good
  <2>1. value[i] = 10 * value[i - 1] + DigitAt(n, i) /\ value[0] = 0
    BY <1>2, <1>4, Zenon DEF Counts
  <2>2. DigitAt(n, i) = (n \div Powers[c - i + 1]) % 10
    BY Zenon DEF DigitAt
  <2>3. CASE i = 1
    <3>1. value[i] = DigitAt(n, i) /\ c - i + 1 = c
      <4>1. value[1] = 10 * 0 + DigitAt(n, 1) /\ DigitAt(n, 1) \in Nat
        BY <1>2, <1>3, <2>1, <2>3
      <4> QED BY <1>1, <2>3, <4>1
    <3>2. (n \div Powers[c]) % 10 = n \div Powers[c]
      <4>1. Powers[c] \in {1, 10, 100, 1000, 10000}
        BY <1>1 DEF Powers
      <4> QED BY <1>1, <4>1 DEF PortNumbers
    <3> QED BY <2>2, <3>1, <3>2
  <2>4. CASE i # 1
    <3> PICK k : k = c - i + 1
      OBVIOUS
    <3>1. k \in 1 .. 4 /\ c - (i - 1) + 1 = k + 1 /\ i - 1 # 0
      BY <1>1, <2>4
    <3>2. value[i - 1] = n \div Powers[k + 1]
      BY <1>6, <3>1
    <3>3. n \div Powers[k] = 10 * (n \div Powers[k + 1]) + ((n \div Powers[k]) % 10)
      BY <3>1, OneMoreDigit DEF PortNumbers
    <3>4. value[i] = n \div Powers[k]
      BY <2>1, <2>2, <3>2, <3>3
    <3> QED BY <3>4
  <2> QED BY <2>3, <2>4
<1>7. value[c] = n \div Powers[1]
  <2> HIDE DEF Good
  <2>1. c \in Good
    BY <1>1, <1>5, <1>6, InductionTo
  <2>2. c # 0 /\ c - c + 1 = 1
    BY <1>1
  <2> QED BY <2>1, <2>2 DEF Good
<1>8. n \div Powers[1] = n
  BY DEF Powers, PortNumbers
<1> QED BY <1>4, <1>7, <1>8, Zenon DEF Counts

\* What is written is accepted when it is read.
LEMMA DecimalIsValid ==
  ASSUME NEW T, Range(Digits) \subseteq T, NEW n \in PortNumbers
  PROVE  ValidPort(Decimal(n))
<1>1. /\ Len(Decimal(n)) = Count(n) /\ Count(n) \in 1 .. 5
      /\ DOMAIN Decimal(n) = 1 .. Count(n)
      /\ \A i \in 1 .. Count(n) : Decimal(n)[i] \in Range(Digits)
  BY DecimalIs, CountCases, Zenon
<1>2. Decimal(n) # <<>>
  BY <1>1
<1>3. Number(Decimal(n)) = n
  BY DecimalCounts, Zenon
<1> QED BY <1>1, <1>2, <1>3 DEF ValidPort, PortNumbers

\* It consists of digits only.
LEMMA DecimalLacks ==
  ASSUME NEW T, Range(Digits) \subseteq T, NEW n \in PortNumbers, NEW c, c \notin Range(Digits)
  PROVE  Lacks(Decimal(n), c)
<1>1. /\ Len(Decimal(n)) = Count(n)
      /\ \A i \in 1 .. Count(n) : Decimal(n)[i] \in Range(Digits)
  BY DecimalIs, Zenon
<1> QED BY <1>1 DEF Lacks

-----------------------------------------------------------------------------
(***************************************************************************)
(* The components.                                                         *)
(***************************************************************************)
\* Components as they are in a plain URL.
Delimiters == {"/", "?", "#", "@"}

\* IsPlain, part by part.
IsUser(user) ==
  user # <<>> => Last(user) = "@" /\ \A c \in Delimiters : Lacks(Front(user), c)

IsHost(host) ==
  /\ \A c \in Delimiters : Lacks(host, c)
  /\ IF Bracketed(host) THEN Lacks(Front(host), "]") ELSE Lacks(host, ":")

IsPortText(port) ==
  port # <<>> => Head(port) = ":" /\ \A c \in Delimiters \cup {":", "]"} : Lacks(Tail(port), c)

IsPath(path) == path # <<>> => Head(path) = "/" /\ Lacks(path, "?") /\ Lacks(path, "#")

IsAnchor(anchor) == anchor # <<>> => Head(anchor) = "#"

\* What the four helpers need to know of the components.
WellMade(in) ==
  /\ \A part \in {in.scheme, in.user, in.host, in.port, in.path, in.anchor} : part \in Seq(STRING)
  /\ Lacks(in.scheme, ":")
  /\ IsUser(in.user) /\ IsHost(in.host) /\ IsPortText(in.port) /\ IsPath(in.path)
  /\ IsQuery(in.query, Len(in.query), STRING)
  /\ IsAnchor(in.anchor)

\* The raw string in parts: each is what a helper leaves of the one behind it.
Prefix(in) == IF in.scheme = <<>> THEN <<>> ELSE in.scheme \o Separator

Authority(in) == in.user \o in.host \o in.port

Target(in) == Authority(in) \o in.path

Line(in) == Target(in) \o QueryText(in.query)

\* The text of a query.
IsQueryText(text, m) ==
  /\ text \in Seq(STRING) /\ Lacks(text, "#")
  /\ m = 0 => text = <<>>
  /\ m # 0 => text # <<>> /\ Head(text) = "?"

\* The text of a query.
LEMMA QueryTextIs ==
  ASSUME NEW query, NEW m, IsQuery(query, m, STRING)
  PROVE  IsQueryText(QueryText(query), m)
<1> PICK flat : flat = QueryText(query)
  OBVIOUS
<1>0. \E at : IsTextOf(flat, query, m, at, STRING)
  BY QueryIsMarked, Zenon
<1> PICK at : IsTextOf(flat, query, m, at, STRING)
  BY <1>0, Zenon
<1>1. flat \in Seq(STRING) /\ m \in Nat /\ Lacks(flat, "#") /\ Marked(flat, Len(flat), m, at)
  BY Zenon DEF IsTextOf
<1>2. CASE m = 0
  <2>1. Len(flat) = 0
    BY <1>1, <1>2 DEF Marked
  <2>2. flat = <<>>
    BY <1>1, <2>1, EmptySeq
  <2> QED BY <1>1, <1>2, <2>2, Zenon DEF IsQueryText
<1>3. CASE m # 0
  <2>1. 1 \in 1 .. m /\ 1 - 1 = 0 /\ m \in 0 .. m
    BY <1>1, <1>3
  <2>2. at[0] = 0 /\ at[0] + 2 <= at[1] /\ at[1] <= at[m] /\ at[m] = Len(flat) /\ at[1] \in Nat
    BY <1>1, <2>1 DEF Marked
  <2>3. Len(flat) \in Nat /\ at[m] \in Nat
    BY <1>1, <2>2
  <2>4. 1 \in 1 .. Len(flat) /\ 1 = at[1 - 1] + 1
    BY <2>1, <2>2, <2>3
  <2>5. flat[1] = Mark(1)
    BY <1>1, <2>1, <2>4 DEF Marked
  <2>6. flat # <<>>
    BY <1>1, <2>4, EmptySeq
  <2>7. Head(flat) = "?"
    BY <1>1, <2>5, <2>6, HeadFirst, Zenon DEF Mark
  <2> QED BY <1>1, <1>3, <2>6, <2>7, Zenon DEF IsQueryText
<1> QED BY <1>2, <1>3

\* What the parts of a URL are free of.
IsLine(in) ==
  /\ Authority(in) \in Seq(STRING) /\ Lacks(Authority(in), "/")
  /\ Target(in) \in Seq(STRING) /\ Lacks(Target(in), "?")
  /\ Line(in) \in Seq(STRING) /\ Lacks(Line(in), "#")
  /\ in.host \o in.port \in Seq(STRING) /\ Lacks(in.host \o in.port, "@")
  /\ Authority(in) = in.user \o (in.host \o in.port)

\* Each part has none of the characters at which it is cut off.
LEMMA LineIs ==
  ASSUME NEW in, WellMade(in)
  PROVE  IsLine(in)
<1> PICK user, host, port, path, text :
      user = in.user /\ host = in.host /\ port = in.port /\ path = in.path
      /\ text = QueryText(in.query)
  OBVIOUS
<1>1. /\ user \in Seq(STRING) /\ host \in Seq(STRING) /\ port \in Seq(STRING) /\ path \in Seq(STRING)
      /\ IsUser(user) /\ IsHost(host) /\ IsPortText(port) /\ IsPath(path)
      /\ IsQuery(in.query, Len(in.query), STRING)
  BY Zenon DEF WellMade
<1>2. text \in Seq(STRING) /\ Lacks(text, "#")
  <2>1. IsQueryText(text, Len(in.query))
    BY <1>1, QueryTextIs, Zenon
  <2> QED BY <2>1, Zenon DEF IsQueryText
<1>3. ASSUME NEW c \in {"/", "?", "#"} PROVE Lacks(user, c)
  <2>1. user # <<>> => Last(user) # c /\ Lacks(Front(user), c)
    BY <1>1 DEF IsUser, Delimiters
  <2> QED BY <1>1, <2>1, LastLacks, Zenon
<1>4. ASSUME NEW c \in Delimiters PROVE Lacks(host, c) /\ Lacks(port, c)
  <2>1. port # <<>> => Head(port) # c /\ Lacks(Tail(port), c)
    BY <1>1 DEF IsPortText, Delimiters
  <2>2. Lacks(port, c)
    BY <1>1, <2>1, HeadLacks, Zenon
  <2> QED BY <1>1, <2>2, Zenon DEF IsHost
<1> PICK uh, hp, auth, target, line :
      uh = user \o host /\ hp = host \o port /\ auth = uh \o port /\ target = auth \o path
      /\ line = target \o text
  OBVIOUS
<1>5. auth = Authority(in) /\ target = Target(in) /\ line = Line(in)
  BY Zenon DEF Authority, Target, Line
<1>6. /\ uh \in Seq(STRING) /\ hp \in Seq(STRING)
  BY <1>1, ConcatType, Zenon
<1>7. auth \in Seq(STRING)
  BY <1>1, <1>6, ConcatType, Zenon
<1>8. target \in Seq(STRING)
  BY <1>1, <1>7, ConcatType, Zenon
<1>9. line \in Seq(STRING)
  BY <1>2, <1>8, ConcatType, Zenon
<1>10. ASSUME NEW c \in {"/", "?", "#"} PROVE Lacks(auth, c)
  <2>1. Lacks(user, c) /\ Lacks(host, c) /\ Lacks(port, c)
    BY <1>3, <1>4 DEF Delimiters
  <2>2. Lacks(user \o host, c) <=> Lacks(user, c) /\ Lacks(host, c)
    BY <1>1, ConcatLacks, Zenon
  <2>3. Lacks(uh \o port, c) <=> Lacks(uh, c) /\ Lacks(port, c)
    BY <1>1, <1>6, ConcatLacks, Zenon
  <2> QED BY <2>1, <2>2, <2>3, Zenon
<1>11. ASSUME NEW c \in {"?", "#"} PROVE Lacks(target, c)
  <2>1. Lacks(auth, c) /\ Lacks(path, c)
    <3>1. CASE path = <<>>
      <4>1. Lacks(path, c)
        BY <3>1 DEF Lacks
      <4> QED BY <1>10, <4>1
    <3>2. CASE path # <<>>
      BY <1>1, <1>10, <3>2 DEF IsPath
    <3> QED BY <3>1, <3>2
  <2>2. Lacks(auth \o path, c) <=> Lacks(auth, c) /\ Lacks(path, c)
    BY <1>1, <1>7, ConcatLacks, Zenon
  <2> QED BY <2>1, <2>2, Zenon
<1>12. Lacks(line, "#")
  <2>1. Lacks(target, "#")
    BY <1>11
  <2>2. Lacks(target \o text, "#") <=> Lacks(target, "#") /\ Lacks(text, "#")
    BY <1>2, <1>8, ConcatLacks, Zenon
  <2> QED BY <1>2, <2>1, <2>2, Zenon
<1>13. Lacks(hp, "@")
  <2>1. Lacks(host, "@") /\ Lacks(port, "@")
    BY <1>4 DEF Delimiters
  <2>2. Lacks(host \o port, "@") <=> Lacks(host, "@") /\ Lacks(port, "@")
    BY <1>1, ConcatLacks, Zenon
  <2> QED BY <2>1, <2>2, Zenon
<1>14. auth = user \o hp
  <2>1. Regroups(user, host, port)
    BY <1>1, Regroup, Zenon
  <2> QED BY <2>1, Zenon DEF Regroups
<1>15. Lacks(auth, "/") /\ Lacks(target, "?")
  BY <1>10, <1>11
<1> QED BY <1>5, <1>6, <1>7, <1>8, <1>9, <1>12, <1>13, <1>14, <1>15, Zenon DEF IsLine

\* The raw string is a prefix, a line and an anchor.
IsRaw(in) ==
  /\ Prefix(in) \in Seq(STRING) /\ Rest(in) \in Seq(STRING)
  /\ Rest(in) = Line(in) \o in.anchor
  /\ Raw(in) = Prefix(in) \o Rest(in)

\* The characters of the separator.
LEMMA SeparatorIs ==
  Separator \in Seq(STRING) /\ Len(Separator) = 3
  /\ Separator[1] = ":" /\ Separator[2] = "/" /\ Separator[3] = "/"
BY URLAssumption DEF Separator

\* The raw string is the prefix, the line and the fragment.
LEMMA RawIs ==
  ASSUME NEW in, WellMade(in)
  PROVE  IsRaw(in)
<1>1. IsLine(in) /\ in.scheme \in Seq(STRING) /\ in.anchor \in Seq(STRING)
  BY LineIs, Zenon DEF WellMade
<1>2. Line(in) \in Seq(STRING)
  BY <1>1, Zenon DEF IsLine
<1>3. Rest(in) = Line(in) \o in.anchor
  BY Zenon DEF Rest, Line, Target, Authority
<1>4. Rest(in) \in Seq(STRING)
  BY <1>1, <1>2, <1>3, ConcatType, Zenon
<1>5. CASE in.scheme = <<>>
  <2>1. Prefix(in) = <<>> /\ Raw(in) = Rest(in)
    BY <1>5, Zenon DEF Prefix, Raw
  <2>2. Prefix(in) \in Seq(STRING) /\ Raw(in) = Prefix(in) \o Rest(in)
    BY <1>4, <2>1, EmptyFirst, Zenon
  <2> QED BY <1>3, <1>4, <2>2, Zenon DEF IsRaw
<1>6. CASE in.scheme # <<>>
  <2>1. Prefix(in) = in.scheme \o Separator /\ Raw(in) = (in.scheme \o Separator) \o Rest(in)
    BY <1>6, Zenon DEF Prefix, Raw
  <2>2. Prefix(in) \in Seq(STRING)
    BY <1>1, <2>1, SeparatorIs, ConcatType, Zenon
  <2> QED BY <1>3, <1>4, <2>1, <2>2, Zenon DEF IsRaw
<1> QED BY <1>5, <1>6, Zenon

\* The first "://" is the one behind the scheme.
SchemeEnds(s, scheme, prefix) ==
  /\ Len(scheme) \in Nat
  /\ Find(s, Separator, 1) = Len(scheme) + 1
  /\ Len(prefix) + 1 = (Len(scheme) + 1) + 3
  /\ \A i \in 1 .. Len(scheme) : s[i] = scheme[i]

\* The first "://" is behind a scheme without a colon.
LEMMA SchemeIsFound ==
  ASSUME NEW scheme \in Seq(STRING), Lacks(scheme, ":"), NEW rest \in Seq(STRING)
  PROVE  SchemeEnds((scheme \o Separator) \o rest, scheme, scheme \o Separator)
<1> PICK prefix, s, l, len :
      prefix = scheme \o Separator /\ s = prefix \o rest /\ l = Len(scheme) /\ len = Len(s)
  OBVIOUS
<1>1. Chain(prefix, scheme, Separator, STRING)
  BY SeparatorIs, Chained, Zenon
<1>2. /\ prefix \in Seq(STRING) /\ l \in Nat /\ Len(prefix) = l + 3
      /\ \A i \in 1 .. l : prefix[i] = scheme[i]
      /\ prefix[l + 1] = ":" /\ prefix[l + 2] = "/" /\ prefix[l + 3] = "/"
  <2>1. /\ prefix \in Seq(STRING) /\ l \in Nat /\ Len(prefix) = l + Len(Separator)
        /\ \A i \in 1 .. l : prefix[i] = scheme[i]
        /\ \A i \in 1 .. Len(Separator) : prefix[l + i] = Separator[i]
    BY <1>1, Zenon DEF Chain
  <2>2. 1 \in 1 .. 3 /\ 2 \in 1 .. 3 /\ 3 \in 1 .. 3
    OBVIOUS
  <2> QED BY <2>1, <2>2, SeparatorIs, Zenon
<1>3. Chain(s, prefix, rest, STRING)
  BY <1>2, Chained, Zenon
<1>4. /\ s \in Seq(STRING) /\ len \in Nat /\ len >= l + 3
      /\ \A i \in 1 .. l + 3 : s[i] = prefix[i]
  <2>1. /\ s \in Seq(STRING) /\ len = Len(prefix) + Len(rest) /\ len \in Nat
        /\ Len(rest) \in Nat /\ \A i \in 1 .. Len(prefix) : s[i] = prefix[i]
    BY <1>3, Zenon DEF Chain
  <2>2. len = (l + 3) + Len(rest) /\ \A i \in 1 .. l + 3 : s[i] = prefix[i]
    BY <1>2, <2>1, Zenon
  <2>3. len >= l + 3
    BY <1>2, <2>1, <2>2
  <2> QED BY <2>1, <2>2, <2>3, Zenon
<1>5. \A i \in 1 .. l : s[i] = scheme[i] /\ s[i] # ":"
  <2> TAKE i \in 1 .. l
  <2>1. i \in 1 .. l + 3
    BY <1>2
  <2>2. s[i] = prefix[i] /\ prefix[i] = scheme[i]
    BY <1>2, <1>4, <2>1, Zenon
  <2> QED BY <2>2, Zenon DEF Lacks
<1>6. s[l + 1] = ":" /\ s[l + 2] = "/" /\ s[l + 3] = "/"
  <2>1. l + 1 \in 1 .. l + 3 /\ l + 2 \in 1 .. l + 3 /\ l + 3 \in 1 .. l + 3
    BY <1>2
  <2> QED BY <1>2, <1>4, <2>1, Zenon
<1>7. FirstAt(s, Separator, 1, len, 3, Find(s, Separator, 1))
  <2>1. 3 \in Nat /\ 1 \in Nat \ {0} /\ len = Len(s)
    OBVIOUS
  <2> QED BY <1>4, <2>1, SeparatorIs, FindFinds, Zenon
<1> PICK at : at = Find(s, Separator, 1)
  OBVIOUS
<1>8. /\ at # Npos => at \in 1 .. len + 1 - 3 /\ SubSeq(s, at, at + 3 - 1) = Separator
      /\ \A i \in 1 .. len + 1 - 3 : SubSeq(s, i, i + 3 - 1) = Separator => at # Npos /\ at <= i
  BY <1>7, Zenon DEF FirstAt
<1>9. ASSUME NEW i \in 1 .. len + 1 - 3
      PROVE  /\ SubSeq(s, i, i + 3 - 1) \in Seq(STRING) /\ Len(SubSeq(s, i, i + 3 - 1)) = 3
             /\ SubSeq(s, i, i + 3 - 1)[1] = s[i]
             /\ SubSeq(s, i, i + 3 - 1)[2] = s[i + 1]
             /\ SubSeq(s, i, i + 3 - 1)[3] = s[i + 2]
  <2> PICK a \in Nat : a = i - 1 /\ a + 1 = i /\ i + 3 - 1 = a + 3 /\ a + 3 \in a .. len
    BY <1>4
  <2>1. Part(SubSeq(s, a + 1, a + 3), s, a, a + 3, STRING)
    BY <1>4, PartIs, Zenon
  <2> PICK part : part = SubSeq(s, a + 1, a + 3)
    OBVIOUS
  <2>2. /\ part \in Seq(STRING) /\ Len(part) = (a + 3) - a
        /\ \A j \in 1 .. (a + 3) - a : part[j] = s[a + j]
    BY <2>1, Zenon DEF Part
  <2>3. (a + 3) - a = 3 /\ a + 1 = i /\ a + 2 = i + 1 /\ a + 3 = i + 2
    OBVIOUS
  <2>4. Len(part) = 3 /\ part[1] = s[i] /\ part[2] = s[i + 1] /\ part[3] = s[i + 2]
    BY <2>2, <2>3
  <2> QED BY <2>2, <2>4, Zenon
<1>10. at # Npos /\ at <= l + 1
  <2>1. l + 1 \in 1 .. len + 1 - 3 /\ (l + 1) + 1 = l + 2 /\ (l + 1) + 2 = l + 3
    BY <1>2, <1>4
  <2> PICK part : part = SubSeq(s, l + 1, (l + 1) + 3 - 1)
    OBVIOUS
  <2>2. part \in Seq(STRING) /\ Len(part) = 3 /\ part[1] = ":" /\ part[2] = "/" /\ part[3] = "/"
    BY <1>6, <1>9, <2>1, SMTT(40)
  <2>3. part = Separator
    <3>1. \A i \in 1 .. 3 : part[i] = Separator[i]
      <4> TAKE i \in 1 .. 3
      <4>1. i = 1 \/ i = 2 \/ i = 3
        OBVIOUS
      <4> QED BY <2>2, <4>1, SeparatorIs, Zenon
    <3> QED BY <2>2, <3>1, SeparatorIs, SeqEqual
  <2> QED BY <1>8, <2>1, <2>3
<1>11. at \in Nat /\ ~ (at < l + 1)
  <2>1. at \in 1 .. len + 1 - 3 /\ SubSeq(s, at, at + 3 - 1) = Separator
    BY <1>8, <1>10
  <2>2. s[at] = ":"
    BY <1>9, <2>1, SeparatorIs, ZenonT(40)
  <2>3. at < l + 1 => at \in 1 .. l
    BY <1>2, <2>1
  <2> QED BY <1>4, <1>5, <2>1, <2>2, <2>3
<1>12. at = l + 1
  BY <1>2, <1>10, <1>11
<1>13. Len(prefix) + 1 = (l + 1) + 3
  BY <1>2
<1> QED BY <1>2, <1>5, <1>12, <1>13, Zenon DEF SchemeEnds

-----------------------------------------------------------------------------
(***************************************************************************)
(* The helpers of the constructor, one after the other.                    *)
(***************************************************************************)
\* The members of the object.
Object(scheme, host, port, path, anchor, query) ==
  [scheme |-> scheme, domainName |-> host, port |-> port,
   pathToResource |-> path, anchor |-> anchor, queryParameters |-> query]

\* The path and the fragment as members hold them.
PathOf(in) == IF in.path = <<>> THEN <<"/">> ELSE in.path

AnchorOf(in) == IF in.anchor = <<>> THEN <<>> ELSE Tail(in.anchor)

\* What each helper finds and leaves.
AtScheme(in) == url = Raw(in) /\ pos = 1 /\ u = Empty

\* The scheme has been found.
AtFragment(in) ==
  /\ url = Prefix(in) \o (Line(in) \o in.anchor) /\ pos = Len(Prefix(in)) + 1
  /\ u = Object(ExpectedScheme(in), <<>>, 0, <<"/">>, <<>>, <<>>)

\* The fragment has been cut off.
AtQuery(in) ==
  /\ url = Prefix(in) \o (Target(in) \o QueryText(in.query)) /\ pos = Len(Prefix(in)) + 1
  /\ u = Object(ExpectedScheme(in), <<>>, 0, <<"/">>, AnchorOf(in), <<>>)

\* The query has been cut off.
AtAuthority(in) ==
  /\ url = Prefix(in) \o (Authority(in) \o in.path) /\ pos = Len(Prefix(in)) + 1
  /\ u = Object(ExpectedScheme(in), <<>>, 0, <<"/">>, AnchorOf(in), ExpectedQuery(in))

\* The object a URL becomes.
Complete(in) ==
  Object(ExpectedScheme(in), in.host, ExpectedPort(in), PathOf(in), AnchorOf(in), ExpectedQuery(in))

\* What holds between the helpers.
Stage(in) ==
  /\ pc = "scheme" => AtScheme(in)
  /\ pc = "fragment" => AtFragment(in)
  /\ pc = "query" => AtQuery(in)
  /\ pc = "authority" => AtAuthority(in)
  /\ pc = "done" => u = Complete(in) /\ ~ Malformed(in)
  /\ pc = "throws" => Malformed(in)

\* parseScheme.
LEMMA SchemeStep ==
  ASSUME NEW in, WellMade(in), Unambiguous(in), AtScheme(in), ParseScheme
  PROVE  Stage(in)'
<1> PICK at, given : /\ at = Find(url, Separator, 1)
                     /\ given = [i \in 1 .. at - 1 |-> Lower[url[i]]]
  OBVIOUS
<1>1. /\ pc' = "fragment" /\ url' = url /\ url = Raw(in) /\ u = Empty
      /\ at # 0 => u' = [u EXCEPT !.scheme = given] /\ pos' = at + 3
      /\ at = 0 => u' = [u EXCEPT !.scheme = IF url[1] = "/" THEN <<>> ELSE Http] /\ pos' = 1
  BY DEF ParseScheme, AtScheme
<1>2. IsRaw(in) /\ in.scheme \in Seq(STRING) /\ Lacks(in.scheme, ":")
  BY RawIs, Zenon DEF WellMade
<1>3. url = Prefix(in) \o (Line(in) \o in.anchor) /\ Rest(in) \in Seq(STRING)
  BY <1>1, <1>2, Zenon DEF IsRaw
<1>4. CASE in.scheme = <<>>
  <2>1. Raw(in) = Rest(in) /\ Prefix(in) = <<>>
    BY <1>4, Zenon DEF Raw, Prefix
  <2>2. at = 0
    BY <1>1, <1>4, <2>1, Zenon DEF Unambiguous
  <2>3. u' = Object(ExpectedScheme(in), <<>>, 0, <<"/">>, <<>>, <<>>)
    <3>1. ExpectedScheme(in) = IF url[1] = "/" THEN <<>> ELSE Http
      BY <1>1, <1>4, Zenon DEF ExpectedScheme
    <3> PICK scheme : scheme = ExpectedScheme(in)
      OBVIOUS
    <3>2. u' = [Empty EXCEPT !.scheme = scheme]
      BY <1>1, <2>2, <3>1, Zenon
    <3>3. [Empty EXCEPT !.scheme = scheme] = Object(scheme, <<>>, 0, <<"/">>, <<>>, <<>>)
      BY DEF Empty, Object
    <3> QED BY <3>2, <3>3, Zenon
  <2>4. pos' = Len(Prefix(in)) + 1
    <3>1. Len(<<>>) + 1 = 1
      OBVIOUS
    <3> QED BY <1>1, <2>1, <2>2, <3>1, Zenon
  <2>5. AtFragment(in)'
    BY <1>1, <1>3, <2>3, <2>4, Zenon DEF AtFragment
  <2> QED BY <1>1, <2>5 DEF Stage
<1>5. CASE in.scheme # <<>>
  <2>1. Prefix(in) = in.scheme \o Separator /\ Raw(in) = (in.scheme \o Separator) \o Rest(in)
    BY <1>5, Zenon DEF Raw, Prefix
  <2>2. SchemeEnds(url, in.scheme, Prefix(in))
    <3>1. SchemeEnds((in.scheme \o Separator) \o Rest(in), in.scheme, in.scheme \o Separator)
      BY <1>2, <1>3, SchemeIsFound, Zenon
    <3>2. url = (in.scheme \o Separator) \o Rest(in)
      BY <1>1, <2>1, Zenon
    <3> QED BY <2>1, <3>1, <3>2, Zenon
  <2>3. /\ Len(in.scheme) \in Nat /\ at = Len(in.scheme) + 1
        /\ Len(Prefix(in)) + 1 = (Len(in.scheme) + 1) + 3
        /\ \A i \in 1 .. Len(in.scheme) : url[i] = in.scheme[i]
    BY <2>2, Zenon DEF SchemeEnds
  <2>4. at # 0 /\ at - 1 = Len(in.scheme)
    BY <2>3
  <2>5. given = ExpectedScheme(in)
    <3>1. ExpectedScheme(in) = [i \in DOMAIN in.scheme |-> Lower[in.scheme[i]]]
      BY <1>5, Zenon DEF ExpectedScheme
    <3>2. DOMAIN in.scheme = 1 .. Len(in.scheme)
      BY <1>2
    <3>3. given = [i \in 1 .. Len(in.scheme) |-> Lower[url[i]]]
      BY <2>4
    <3>4. [i \in 1 .. Len(in.scheme) |-> Lower[url[i]]] =
            [i \in 1 .. Len(in.scheme) |-> Lower[in.scheme[i]]]
      BY <2>3
    <3> QED BY <3>1, <3>2, <3>3, <3>4, Zenon
  <2>6. u' = Object(ExpectedScheme(in), <<>>, 0, <<"/">>, <<>>, <<>>)
    <3> PICK scheme : scheme = ExpectedScheme(in)
      OBVIOUS
    <3>2. u' = [Empty EXCEPT !.scheme = scheme]
      BY <1>1, <2>4, <2>5, Zenon
    <3>3. [Empty EXCEPT !.scheme = scheme] = Object(scheme, <<>>, 0, <<"/">>, <<>>, <<>>)
      BY DEF Empty, Object
    <3> QED BY <3>2, <3>3, Zenon
  <2>7. pos' = Len(Prefix(in)) + 1
    BY <1>1, <2>3, <2>4, Zenon
  <2>8. AtFragment(in)'
    BY <1>1, <1>3, <2>6, <2>7, Zenon DEF AtFragment
  <2> QED BY <1>1, <2>8 DEF Stage
<1> QED BY <1>4, <1>5

\* parseFragment.
LEMMA FragmentStep ==
  ASSUME NEW in, WellMade(in), AtFragment(in), ParseFragment
  PROVE  Stage(in)'
<1> PICK at, prefix, line, anchor :
      at = Find(url, <<"#">>, pos) /\ prefix = Prefix(in) /\ line = Line(in) /\ anchor = in.anchor
  OBVIOUS
<1>1. /\ pc' = "query" /\ pos' = pos /\ pos = Len(prefix) + 1
      /\ url = prefix \o (line \o anchor)
      /\ u = Object(ExpectedScheme(in), <<>>, 0, <<"/">>, <<>>, <<>>)
      /\ at = 0 => url' = url /\ u' = u
      /\ at # 0 => u' = [u EXCEPT !.anchor = From(url, at + 1)] /\ url' = Before(url, at)
  BY DEF ParseFragment, AtFragment
<1>2. /\ IsRaw(in) /\ IsLine(in) /\ anchor \in Seq(STRING) /\ IsAnchor(anchor)
  BY RawIs, LineIs, Zenon DEF WellMade
<1>3. /\ prefix \in Seq(STRING) /\ line \in Seq(STRING) /\ Lacks(line, "#")
      /\ anchor # <<>> => Head(anchor) = "#"
  BY <1>2, Zenon DEF IsRaw, IsLine, IsAnchor
<1>4. Cuts(url, at, prefix, line, anchor)
  <2>1. "#" \in STRING
    BY URLAssumption
  <2>2. Cuts(prefix \o (line \o anchor), Find(prefix \o (line \o anchor), <<"#">>, Len(prefix) + 1),
             prefix, line, anchor)
    BY <1>2, <1>3, <2>1, Cut, Zenon
  <2> QED BY <1>1, <2>2, Zenon
<1>5. url' = prefix \o line /\ u' = Object(ExpectedScheme(in), <<>>, 0, <<"/">>, AnchorOf(in), <<>>)
  <2>1. CASE anchor = <<>>
    BY <1>1, <1>4, <2>1, Zenon DEF Cuts, AnchorOf
  <2>2. CASE anchor # <<>>
    <3>1. at # 0 /\ Before(url, at) = prefix \o line /\ From(url, at + 1) = Tail(anchor)
      BY <1>4, <2>2, Zenon DEF Cuts
    <3> PICK tail, scheme : tail = Tail(anchor) /\ scheme = ExpectedScheme(in)
      OBVIOUS
    <3>2. AnchorOf(in) = tail
      BY <2>2, Zenon DEF AnchorOf
    <3>3. u' = [Object(scheme, <<>>, 0, <<"/">>, <<>>, <<>>) EXCEPT !.anchor = tail]
      BY <1>1, <3>1, Zenon
    <3>4. u' = Object(scheme, <<>>, 0, <<"/">>, tail, <<>>)
      BY <3>3 DEF Object
    <3> QED BY <1>1, <3>1, <3>2, <3>4, Zenon
  <2> QED BY <2>1, <2>2
<1>6. AtQuery(in)'
  BY <1>1, <1>5, Zenon DEF AtQuery, Line
<1> QED BY <1>1, <1>6 DEF Stage

\* parseQuery.
LEMMA ExpectedQueryIs ==
  ASSUME NEW in, IsQuery(in.query, Len(in.query), STRING)
  PROVE  ExpectedQuery(in) = LastValues(in.query, Len(in.query))
<1>1. DOMAIN in.query = 1 .. Len(in.query)
  BY Zenon DEF IsQuery
<1>2. {field[1] : field \in Range(in.query)} = {in.query[k][1] : k \in 1 .. Len(in.query)}
  BY <1>1 DEF Range
<1> QED BY <1>1, <1>2 DEF ExpectedQuery, LastValues, LastIndex

\* parseQuery finds the fields and leaves what stands in front of them.
LEMMA QueryStep ==
  ASSUME NEW in, WellMade(in), AtQuery(in), ParseQuery
  PROVE  Stage(in)'
<1> PICK at, prefix, target, text, m :
      /\ at = Find(url, <<"?">>, pos) /\ prefix = Prefix(in) /\ target = Target(in)
      /\ text = QueryText(in.query) /\ m = Len(in.query)
  OBVIOUS
<1>1. /\ pc' = "authority" /\ pos' = pos /\ pos = Len(prefix) + 1
      /\ url = prefix \o (target \o text)
      /\ u = Object(ExpectedScheme(in), <<>>, 0, <<"/">>, AnchorOf(in), <<>>)
      /\ at = 0 => url' = url /\ u' = u
      /\ at # 0 => /\ u' = [u EXCEPT !.queryParameters = QueryMap(From(url, at + 1))]
                   /\ url' = Before(url, at)
  BY DEF ParseQuery, AtQuery
<1>2. IsRaw(in) /\ IsLine(in) /\ IsQuery(in.query, m, STRING)
  BY RawIs, LineIs, Zenon DEF WellMade
<1>3. /\ prefix \in Seq(STRING) /\ target \in Seq(STRING) /\ Lacks(target, "?")
      /\ text \in Seq(STRING) /\ (m = 0 => text = <<>>)
      /\ m # 0 => text # <<>> /\ Head(text) = "?"
  <2>1. IsQueryText(text, m)
    BY <1>2, QueryTextIs, Zenon
  <2> QED BY <1>2, <2>1, Zenon DEF IsRaw, IsLine, IsQueryText
<1>4. Cuts(url, at, prefix, target, text)
  <2>1. "?" \in STRING
    BY URLAssumption
  <2>2. Cuts(prefix \o (target \o text), Find(prefix \o (target \o text), <<"?">>, Len(prefix) + 1),
             prefix, target, text)
    BY <1>3, <2>1, Cut, Zenon
  <2> QED BY <1>1, <2>2, Zenon
<1>5. /\ url' = prefix \o target
      /\ u' = Object(ExpectedScheme(in), <<>>, 0, <<"/">>, AnchorOf(in), ExpectedQuery(in))
  <2>0. ExpectedQuery(in) = LastValues(in.query, m)
    BY <1>2, ExpectedQueryIs, Zenon
  <2>1. CASE m = 0
    <3>1. LastValues(in.query, m) = <<>>
      BY <2>1 DEF LastValues
    <3> QED BY <1>1, <1>3, <1>4, <2>0, <2>1, <3>1, Zenon DEF Cuts
  <2>2. CASE m # 0
    <3>1. at # 0 /\ Before(url, at) = prefix \o target /\ From(url, at + 1) = Tail(text)
      BY <1>3, <1>4, <2>2, Zenon DEF Cuts
    <3>2. Tail(text) \in Seq(STRING) /\ text = <<"?">> \o Tail(text)
      BY <1>3, <2>2, HeadFirst, Zenon
    <3>3. QueryMap(Tail(text)) = LastValues(in.query, m)
      BY <1>2, <2>2, <3>2, QueryMapReads, Zenon
    <3> PICK scheme, anchor, query :
          scheme = ExpectedScheme(in) /\ anchor = AnchorOf(in) /\ query = ExpectedQuery(in)
      OBVIOUS
    <3>4. u' = [Object(scheme, <<>>, 0, <<"/">>, anchor, <<>>) EXCEPT !.queryParameters = query]
      BY <1>1, <2>0, <3>1, <3>3, Zenon
    <3>5. u' = Object(scheme, <<>>, 0, <<"/">>, anchor, query)
      BY <3>4 DEF Object
    <3> QED BY <1>1, <3>1, <3>5, Zenon
  <2> QED BY <2>1, <2>2
<1>6. AtAuthority(in)'
  BY <1>1, <1>5, Zenon DEF AtAuthority, Target
<1> QED BY <1>1, <1>6 DEF Stage

\* The marks of an authority are characters.
LEMMA BracketsInText == {"]", "@", "/", ":"} \subseteq STRING
BY URLAssumption

\* What was parsed is told apart from what was not.
LEMMA NotBad == \A h, p : [host |-> h, port |-> p] # Bad
BY DEF Bad

\* What the constructor throws on.
MalformedParts(host, port) ==
  Unclosed(host) \/ (port # <<>> /\ ~ ValidPort(Tail(port)))

\* Malformed, for a host and a port.
LEMMA MalformedIs ==
  ASSUME NEW in, in.host \in Seq(STRING), in.port \in Seq(STRING)
  PROVE  Malformed(in) <=> MalformedParts(in.host, in.port)
<1>1. MalformedPort(in) <=> in.port # <<>> /\ ~ ValidPort(Tail(in.port))
  <2>1. CASE in.port = <<>>
    BY <2>1 DEF MalformedPort
  <2>2. CASE in.port # <<>>
    <3> PICK port, d : port = in.port /\ d = Tail(port)
      OBVIOUS
    <3>1. port \in Seq(STRING) /\ d \in Seq(STRING) /\ port # <<>>
      BY <2>2, HeadFirst, Zenon
    <3>2. Len(port) = 1 <=> d = <<>>
      <4>1. Len(port) = Len(d) + 1 /\ Len(d) \in Nat
        BY <3>1
      <4>2. Len(d) = 0 <=> d = <<>>
        BY <3>1, EmptySeq
      <4> QED BY <4>1, <4>2
    <3>3. (\A i \in DOMAIN d : d[i] \in Range(Digits)) <=> Range(d) \subseteq Range(Digits)
      BY DEF Range
    <3>4. (\A i \in DOMAIN d : d[i] \in Range(Digits)) => Number(d) \in Nat
      BY <3>1, NumberType, Zenon
    <3>5. ~ ValidPort(d) <=>
            \/ d = <<>> \/ ~ Range(d) \subseteq Range(Digits)
            \/ ~ (Number(d) <= 65535)
      BY <3>3 DEF ValidPort
    <3>6. Number(d) \in Nat => (~ (Number(d) <= 65535) <=> Number(d) >= 65536)
      OBVIOUS
    <3>7. MalformedPort(in) <=>
            \/ Len(port) = 1 \/ ~ Range(d) \subseteq Range(Digits)
            \/ Number(d) >= 65536
      BY <3>1 DEF MalformedPort
    <3> QED BY <2>2, <3>2, <3>3, <3>4, <3>5, <3>6, <3>7
  <2> QED BY <2>1, <2>2
<1>2. Malformed(in) <=> MalformedPort(in) \/ Unclosed(in.host)
  BY Zenon DEF Malformed, Unclosed, Bracketed
<1> QED BY <1>1, <1>2, Zenon DEF MalformedParts

\* parseAuthorityAndPath.
LEMMA AuthorityStep ==
  ASSUME NEW in, WellMade(in), AtAuthority(in), ParseAuthorityAndPath
  PROVE  Stage(in)'
<1> PICK prefix, authority, host, port, path, scheme, anchor, query :
      /\ prefix = Prefix(in) /\ authority = Authority(in) /\ host = in.host /\ port = in.port
      /\ path = in.path /\ scheme = ExpectedScheme(in) /\ anchor = AnchorOf(in)
      /\ query = ExpectedQuery(in)
  OBVIOUS
<1> PICK hp, slash : hp = host \o port /\ slash = Find(url, <<"/">>, pos)
  OBVIOUS
<1> PICK auth : auth = IF slash = 0 THEN From(url, pos) ELSE SubSeq(url, pos, slash - 1)
  OBVIOUS
<1> PICK hostPort, pathTo : /\ hostPort = From(auth, Find(auth, <<"@">>, 1) + 1)
                            /\ pathTo = IF slash = 0 THEN <<"/">> ELSE From(url, slash)
  OBVIOUS
<1> PICK parsed : parsed = HostAndPort(hostPort, u.scheme)
  OBVIOUS
<1>1. /\ pos = Len(prefix) + 1 /\ url = prefix \o (authority \o path)
      /\ u = Object(scheme, <<>>, 0, <<"/">>, anchor, query)
  BY Zenon DEF AtAuthority
<1>2. \/ /\ slash = pos \/ hostPort = <<>>
         /\ u' = [u EXCEPT !.pathToResource = pathTo] /\ pc' = "done"
      \/ /\ ~ (slash = pos \/ hostPort = <<>>) /\ parsed = Bad /\ pc' = "throws"
      \/ /\ ~ (slash = pos \/ hostPort = <<>>) /\ parsed # Bad /\ pc' = "done"
         /\ u' = [u EXCEPT !.pathToResource = pathTo,
                           !.domainName = parsed.host, !.port = parsed.port]
  BY Zenon DEF ParseAuthorityAndPath
<1>3. /\ IsRaw(in) /\ IsLine(in) /\ host \in Seq(STRING) /\ port \in Seq(STRING)
      /\ path \in Seq(STRING) /\ in.user \in Seq(STRING)
      /\ IsUser(in.user) /\ IsHost(host) /\ IsPortText(port) /\ IsPath(path)
  BY RawIs, LineIs, Zenon DEF WellMade
<1>4. /\ prefix \in Seq(STRING) /\ authority \in Seq(STRING) /\ Lacks(authority, "/")
      /\ path # <<>> => Head(path) = "/"
      /\ hp \in Seq(STRING) /\ Lacks(hp, "@") /\ authority = in.user \o hp
  BY <1>3, Zenon DEF IsRaw, IsLine, IsPath
<1>5. Cuts(url, slash, prefix, authority, path)
  <2>1. Cuts(prefix \o (authority \o path),
             Find(prefix \o (authority \o path), <<"/">>, Len(prefix) + 1), prefix, authority, path)
    <3>1. "/" \in STRING
      BY BracketsInText
    <3> QED BY <1>3, <1>4, <3>1, Cut, Zenon
  <2> QED BY <1>1, <2>1, Zenon
<1>6. auth = authority /\ pathTo = PathOf(in)
  <2>1. CASE path = <<>>
    <3>1. slash = 0 /\ From(url, pos) = authority
      BY <1>1, <1>5, <2>1, Zenon DEF Cuts
    <3> QED BY <2>1, <3>1, Zenon DEF PathOf
  <2>2. CASE path # <<>>
    <3>1. slash # 0 /\ SubSeq(url, pos, slash - 1) = authority /\ From(url, slash) = path
      BY <1>1, <1>5, <2>2, Zenon DEF Cuts
    <3> QED BY <2>2, <3>1, Zenon DEF PathOf
  <2> QED BY <2>1, <2>2
<1>7. hostPort = hp
  <2>1. "@" \in STRING /\ (in.user # <<>> => Last(in.user) = "@" /\ Lacks(Front(in.user), "@"))
    BY <1>3, BracketsInText DEF IsUser, Delimiters
  <2>2. BehindUser(in.user \o hp, hp)
    BY <1>3, <1>4, <2>1, UserIsDropped, Zenon
  <2> QED BY <1>4, <1>6, <2>2, Zenon DEF BehindUser
<1>8. hp = <<>> <=> host = <<>> /\ port = <<>>
  BY <1>3, ConcatEqualIffEmpty
<1>9. slash = pos => hp = <<>>
  <2> SUFFICES ASSUME slash = pos PROVE hp = <<>>
    OBVIOUS
  <2>1. Len(prefix) \in Nat /\ Len(authority) \in Nat
    BY <1>4, LenProperties, Zenon
  <2>2. slash # 0
    BY <1>1, <2>1
  <2>3. slash = Len(prefix) + Len(authority) + 1
    BY <1>5, <2>2, Zenon DEF Cuts
  <2>4. Len(authority) = 0
    BY <1>1, <2>1, <2>3
  <2>5. authority = <<>>
    BY <1>4, <2>4, EmptySeq
  <2>6. in.user \o hp = <<>> <=> in.user = <<>> /\ hp = <<>>
    BY <1>3, <1>4, ConcatEqualIffEmpty
  <2> QED BY <1>4, <2>5, <2>6, Zenon
<1>10. Malformed(in) <=> MalformedParts(host, port)
  BY <1>3, MalformedIs, Zenon
<1>11. u.scheme = scheme
  BY <1>1 DEF Object
<1>12. CASE hp = <<>>
  <2>1. host = <<>> /\ port = <<>>
    BY <1>8, <1>12, Zenon
  <2>2. ~ Malformed(in)
    BY <1>10, <2>1, Zenon DEF MalformedParts, Unclosed, Bracketed
  <2>3. ExpectedPort(in) = 0
    BY <2>1, Zenon DEF ExpectedPort
  <2>4. pc' = "done" /\ u' = [u EXCEPT !.pathToResource = pathTo]
    BY <1>2, <1>7, <1>12, Zenon
  <2>5. u' = Object(scheme, <<>>, 0, pathTo, anchor, query)
    <3>1. u' = [Object(scheme, <<>>, 0, <<"/">>, anchor, query) EXCEPT !.pathToResource = pathTo]
      BY <1>1, <2>4, Zenon
    <3> QED BY <3>1 DEF Object
  <2>6. u' = Complete(in)
    BY <1>6, <2>1, <2>3, <2>5, Zenon DEF Complete
  <2> QED BY <2>2, <2>4, <2>6 DEF Stage
<1>13. CASE hp # <<>>
  <2>1. ReadAs(parsed, host, port, scheme)
    <3>1. /\ IF Bracketed(host) THEN Lacks(Front(host), "]") ELSE Lacks(host, ":")
          /\ "]" \in STRING
      BY <1>3, BracketsInText DEF IsHost
    <3>2. IsPort(port)
      BY <1>3 DEF IsPort, IsPortText
    <3>3. ReadAs(HostAndPort(host \o port, scheme), host, port, scheme)
      BY <1>3, <1>13, <3>1, <3>2, HostAndPortReads, Zenon
    <3> QED BY <1>7, <1>11, <3>3, Zenon
  <2>2. ~ (slash = pos \/ hostPort = <<>>)
    BY <1>7, <1>9, <1>13, Zenon
  <2>3. CASE MalformedParts(host, port)
    <3>1. parsed = Bad
      BY <2>1, <2>3, Zenon DEF ReadAs, MalformedParts
    <3>2. pc' = "throws"
      BY <1>2, <2>2, <3>1, Zenon
    <3> QED BY <1>10, <2>3, <3>2 DEF Stage
  <2>4. CASE ~ MalformedParts(host, port)
    <3>1. parsed = [host |-> host,
                    port |-> IF port = <<>> THEN DefaultPort(scheme) ELSE Number(Tail(port))]
      BY <2>1, <2>4, Zenon DEF ReadAs, MalformedParts
    <3>2. parsed # Bad
      BY <3>1, NotBad, Zenon
    <3>3. pc' = "done" /\ u' = [u EXCEPT !.pathToResource = pathTo,
                                         !.domainName = parsed.host, !.port = parsed.port]
      BY <1>2, <2>2, <3>2, Zenon
    <3>4. ExpectedPort(in) = IF port = <<>> THEN DefaultPort(scheme) ELSE Number(Tail(port))
      BY <1>8, <1>13, Zenon DEF ExpectedPort
    <3> PICK number : number = ExpectedPort(in)
      OBVIOUS
    <3>5. parsed.host = host /\ parsed.port = number
      BY <3>1, <3>4
    <3>6. u' = Object(scheme, host, number, pathTo, anchor, query)
      <4>1. u' = [Object(scheme, <<>>, 0, <<"/">>, anchor, query) EXCEPT
                   !.pathToResource = pathTo, !.domainName = host, !.port = number]
        BY <1>1, <3>3, <3>5, Zenon
      <4> QED BY <4>1 DEF Object
    <3>7. u' = Complete(in)
      BY <1>6, <3>6, Zenon DEF Complete
    <3> QED BY <1>10, <2>4, <3>3, <3>7 DEF Stage
  <2> QED BY <2>3, <2>4
<1> QED BY <1>12, <1>13

-----------------------------------------------------------------------------
(***************************************************************************)
(* The components a URL is made of.                                        *)
(***************************************************************************)
\* Lacks, for a set of characters.
LEMMA LacksAll ==
  ASSUME NEW T, NEW s \in Seq(T), NEW C, Range(s) \cap C = {}
  PROVE  \A c \in C : Lacks(s, c)
<1> TAKE c \in C
<1>1. c \notin Range(s)
  OBVIOUS
<1> QED BY <1>1, LacksOrHas, Zenon

\* The fields of a plain query.
LEMMA PlainQuery ==
  ASSUME NEW T, {"?", "&", "="} \subseteq T, NEW query \in Seq(Seq(T) \X Seq(T)),
         \A k \in DOMAIN query :
           LET field == query[k]
           IN  /\ field[1] # <<>> /\ Range(field[1]) \cap {"=", "&", "#"} = {}
               /\ Range(field[2]) \cap {"&", "#"} = {}
  PROVE  IsQuery(query, Len(query), T)
<1> PICK m : m = Len(query)
  OBVIOUS
<1>1. m \in Nat /\ DOMAIN query = 1 .. m /\ \A k \in 1 .. m : query[k] \in Seq(T) \X Seq(T)
  OBVIOUS
<1>2. ASSUME NEW k \in 1 .. m
      PROVE  /\ query[k] = <<query[k][1], query[k][2]>>
             /\ query[k][1] \in Seq(T) /\ query[k][2] \in Seq(T) /\ query[k][1] # <<>>
             /\ Lacks(query[k][1], "=") /\ Lacks(query[k][1], "&") /\ Lacks(query[k][1], "#")
             /\ Lacks(query[k][2], "&") /\ Lacks(query[k][2], "#")
  <2> PICK key, value : key = query[k][1] /\ value = query[k][2]
    OBVIOUS
  <2>1. query[k] = <<key, value>> /\ key \in Seq(T) /\ value \in Seq(T)
    BY <1>1
  <2>2. key # <<>> /\ Range(key) \cap {"=", "&", "#"} = {} /\ Range(value) \cap {"&", "#"} = {}
    BY <1>1
  <2>3. \A c \in {"=", "&", "#"} : Lacks(key, c)
    BY <2>1, <2>2, LacksAll, Zenon
  <2>4. \A c \in {"&", "#"} : Lacks(value, c)
    BY <2>1, <2>2, LacksAll, Zenon
  <2> QED BY <2>1, <2>2, <2>3, <2>4
<1> QED BY <1>1, <1>2 DEF IsQuery

\* What IsPlain says, in the terms used here.
LEMMA PlainIsWellMade ==
  ASSUME NEW in \in Inputs, IsPlain(in)
  PROVE  WellMade(in)
<1> PICK scheme, user, host, port, path, anchor :
      /\ scheme = in.scheme /\ user = in.user /\ host = in.host /\ port = in.port
      /\ path = in.path /\ anchor = in.anchor
  OBVIOUS
<1>1. /\ scheme \in Seq(STRING) /\ user \in Seq(STRING) /\ host \in Seq(STRING)
      /\ port \in Seq(STRING) /\ path \in Seq(STRING) /\ anchor \in Seq(STRING)
      /\ in.query \in Seq(Seq(STRING) \X Seq(STRING))
      /\ {"?", "&", "="} \subseteq STRING
  BY URLAssumption
<1>2. /\ ":" \notin Range(scheme)
      /\ user # <<>> => Last(user) = "@" /\ Range(Front(user)) \cap Delimiters = {}
      /\ Range(host) \cap Delimiters = {}
      /\ IF Bracketed(host) THEN "]" \notin Range(Front(host)) ELSE ":" \notin Range(host)
      /\ port # <<>> => Head(port) = ":" /\ Range(Tail(port)) \cap (Delimiters \cup {":", "]"}) = {}
      /\ path # <<>> => Head(path) = "/" /\ Range(path) \cap {"?", "#"} = {}
      /\ anchor # <<>> => Head(anchor) = "#"
  BY Zenon DEF IsPlain, Delimiters, Bracketed
<1>3. \A k \in DOMAIN in.query :
           LET field == in.query[k]
           IN  /\ field[1] # <<>> /\ Range(field[1]) \cap {"=", "&", "#"} = {}
               /\ Range(field[2]) \cap {"&", "#"} = {}
  BY Zenon DEF IsPlain
<1>4. Lacks(scheme, ":")
  BY <1>1, <1>2, LacksOrHas, Zenon
<1>5. IsUser(user)
  <2> SUFFICES ASSUME user # <<>>
               PROVE Last(user) = "@" /\ \A c \in Delimiters : Lacks(Front(user), c)
    BY Zenon DEF IsUser
  <2>1. Front(user) \in Seq(STRING)
    BY <1>1, LastLast, Zenon
  <2> QED BY <1>2, <2>1, LacksAll, Zenon
<1>6. IsHost(host)
  <2>1. \A c \in Delimiters : Lacks(host, c)
    BY <1>1, <1>2, LacksAll, Zenon
  <2>2. CASE Bracketed(host)
    <3>1. Front(host) \in Seq(STRING)
      BY <1>1, <2>2, LastLast, Zenon DEF Bracketed
    <3>2. Lacks(Front(host), "]")
      BY <1>2, <2>2, <3>1, LacksOrHas, Zenon
    <3> QED BY <2>1, <2>2, <3>2, Zenon DEF IsHost
  <2>3. CASE ~ Bracketed(host)
    <3>1. Lacks(host, ":")
      BY <1>1, <1>2, <2>3, LacksOrHas, Zenon
    <3> QED BY <2>1, <2>3, <3>1, Zenon DEF IsHost
  <2> QED BY <2>2, <2>3
<1>7. IsPortText(port)
  <2> SUFFICES ASSUME port # <<>>
               PROVE  Head(port) = ":" /\ \A c \in Delimiters \cup {":", "]"} : Lacks(Tail(port), c)
    BY Zenon DEF IsPortText
  <2>1. Tail(port) \in Seq(STRING)
    BY <1>1, HeadFirst, Zenon
  <2> QED BY <1>2, <2>1, LacksAll, Zenon
<1>8. IsPath(path)
  <2> SUFFICES ASSUME path # <<>> PROVE Head(path) = "/" /\ Lacks(path, "?") /\ Lacks(path, "#")
    BY Zenon DEF IsPath
  <2>1. \A c \in {"?", "#"} : Lacks(path, c)
    BY <1>1, <1>2, LacksAll, Zenon
  <2> QED BY <1>2, <2>1
<1>9. IsQuery(in.query, Len(in.query), STRING)
  BY <1>1, <1>3, PlainQuery, Zenon
<1>10. IsAnchor(anchor)
  BY <1>2, Zenon DEF IsAnchor
<1>11. \A part \in {in.scheme, in.user, in.host, in.port, in.path, in.anchor} : part \in Seq(STRING)
  BY URLAssumption
<1> QED BY <1>4, <1>5, <1>6, <1>7, <1>8, <1>9, <1>10, <1>11, Zenon DEF WellMade

\* keys enumerates S.
IsOrder(keys, n, S) ==
  n \in Nat /\ keys \in [1 .. n -> S] /\ \A x \in S : \E k \in 1 .. n : keys[k] = x

\* SetToSeq does.
LEMMA KeysAreOrdered ==
  ASSUME NEW S, IsFiniteSet(S)
  PROVE  IsOrder(SetToSeq(S), Cardinality(S), S)
BY KeysInOrder DEF IsOrder

\* The fields of a map, one for each key.
QueryOf(map) ==
  LET keys == SetToSeq(DOMAIN map) IN [k \in DOMAIN keys |-> <<keys[k], map[keys[k]]>>]

\* fields holds, in some order, the last value of every key of a query.
IsQueryOf(fields, query, m, n, T) ==
  /\ IsQuery(fields, n, T) /\ n = Len(fields)
  /\ LastValues(fields, n) = LastValues(query, m)
  /\ \A k \in 1 .. n : \E j \in 1 .. m : fields[k] = query[j]

\* The fields of the map parseQuery fills are such fields.
LEMMA FieldsOfMap ==
  ASSUME NEW T, NEW query, NEW m, IsQuery(query, m, T)
  PROVE  \E n : IsQueryOf(QueryOf(LastValues(query, m)), query, m, n, T)
<1> PICK map, S, keys : map = LastValues(query, m) /\ S = DOMAIN map /\ keys = SetToSeq(S)
  OBVIOUS
<1> PICK n : n = Cardinality(S)
  OBVIOUS
<1>1. m \in Nat /\ \A k \in 1 .. m : query[k] = <<query[k][1], query[k][2]>>
  BY Zenon DEF IsQuery
<1>2. S = {query[k][1] : k \in 1 .. m}
  BY DEF LastValues
<1>3. IsFiniteSet(S)
  <2> PICK f : f = [k \in 1 .. m |-> query[k][1]]
    OBVIOUS
  <2>1. f \in Surjection(1 .. m, S)
    BY <1>2 DEF Surjection
  <2>2. ExistsSurjection(1 .. m, S)
    BY <2>1, Zenon DEF ExistsSurjection
  <2> QED BY <1>1, <2>2, FS_NatSurjection, Zenon
<1>4. /\ n \in Nat /\ keys \in [1 .. n -> S] /\ \A x \in S : \E k \in 1 .. n : keys[k] = x
  <2>1. IsOrder(keys, n, S)
    <3>1. IsOrder(SetToSeq(S), Cardinality(S), S)
      BY <1>3, KeysAreOrdered, Zenon
    <3> QED BY <3>1, Zenon
  <2> QED BY <2>1, Zenon DEF IsOrder
<1> PICK fields : fields = QueryOf(map)
  OBVIOUS
<1>5. fields = [k \in 1 .. n |-> <<keys[k], map[keys[k]]>>]
  <2>1. DOMAIN keys = 1 .. n
    BY <1>4
  <2> QED BY <2>1, Zenon DEF QueryOf
<1>6. DOMAIN fields = 1 .. n /\ Len(fields) = n
  BY <1>4, <1>5
<1>7. \A k \in 1 .. n : fields[k] = <<keys[k], map[keys[k]]>> /\ keys[k] \in S
  BY <1>4, <1>5
<1>8. ASSUME NEW k \in 1 .. n PROVE \E j \in 1 .. m : fields[k] = query[j]
  <2> PICK key : key = keys[k]
    OBVIOUS
  <2>1. PICK i \in 1 .. m : key = query[i][1]
    BY <1>2, <1>7
  <2> PICK j : j = LastIndex(query, m, key)
    OBVIOUS
  <2>2. j \in 1 .. m /\ query[j][1] = key
    BY <1>1, <2>1, LastIndexIs, ZenonT(40)
  <2>3. map[key] = query[j][2]
    BY <1>2, <1>7 DEF LastValues
  <2>4. query[j] = <<key, map[key]>>
    BY <1>1, <2>2, <2>3, Zenon
  <2> QED BY <1>7, <2>2, <2>4, Zenon
<1>9. IsQuery(fields, n, T)
  <2>1. {"?", "&", "="} \subseteq T
    BY Zenon DEF IsQuery
  <2>2. ASSUME NEW k \in 1 .. n
        PROVE /\ fields[k] = <<fields[k][1], fields[k][2]>>
              /\ fields[k][1] \in Seq(T) /\ fields[k][2] \in Seq(T) /\ fields[k][1] # <<>>
              /\ Lacks(fields[k][1], "=") /\ Lacks(fields[k][1], "&") /\ Lacks(fields[k][1], "#")
              /\ Lacks(fields[k][2], "&") /\ Lacks(fields[k][2], "#")
    <3>1. PICK j \in 1 .. m : fields[k] = query[j]
      BY <1>8
    <3> QED BY <3>1, Zenon DEF IsQuery
  <2> QED BY <1>4, <1>6, <2>1, <2>2, Zenon DEF IsQuery
<1>10. LastValues(fields, n) = map
  <2>1. {fields[k][1] : k \in 1 .. n} = S
    <3>1. \A k \in 1 .. n : fields[k][1] \in S
      BY <1>7
    <3>2. \A x \in S : \E k \in 1 .. n : fields[k][1] = x
      BY <1>4, <1>7
    <3> QED BY <3>1, <3>2
  <2>2. ASSUME NEW key \in S PROVE fields[LastIndex(fields, n, key)][2] = map[key]
    <3>1. PICK k \in 1 .. n : key = fields[k][1]
      BY <2>1
    <3> PICK i : i = LastIndex(fields, n, key)
      OBVIOUS
    <3>2. i \in 1 .. n /\ fields[i][1] = key
      <4>1. n \in Nat
        BY <1>4, Zenon
      <4>2. /\ LastIndex(fields, n, fields[k][1]) \in 1 .. n
            /\ fields[LastIndex(fields, n, fields[k][1])][1] = fields[k][1]
        BY <4>1, LastIndexIs
      <4> QED BY <3>1, <4>2, Zenon
    <3> QED BY <1>7, <3>2
  <2>3. map = [key \in S |-> map[key]]
    BY DEF LastValues
  <2>4. LastValues(fields, n) = [key \in S |-> fields[LastIndex(fields, n, key)][2]]
    BY <2>1, Zenon DEF LastValues
  <2>5. [key \in S |-> fields[LastIndex(fields, n, key)][2]] = [key \in S |-> map[key]]
    BY <2>2
  <2> QED BY <2>3, <2>4, <2>5, Zenon
<1>11. IsQueryOf(fields, query, m, n, T)
  BY <1>6, <1>8, <1>9, <1>10, Zenon DEF IsQueryOf
<1> QED BY <1>11, Zenon

-----------------------------------------------------------------------------
(***************************************************************************)
(* The first "://".                                                        *)
(***************************************************************************)
\* "://" stands nowhere in a text.
SeparatedAt(s, i) == s[i] = ":" /\ s[i + 1] = "/" /\ s[i + 2] = "/"

\* There is no "://" in s.
NoSeparator(s, len) == \A i \in Nat : 1 <= i /\ i + 2 <= len => ~ SeparatedAt(s, i)

\* The separator, character by character.
LEMMA ThreeCharacters ==
  ASSUME NEW s \in Seq(STRING), NEW i \in 1 .. Len(s) + 1 - 3
  PROVE  SubSeq(s, i, i + 3 - 1) = Separator <=> SeparatedAt(s, i)
<1> PICK len \in Nat : len = Len(s)
  OBVIOUS
<1> PICK a \in Nat : a = i - 1 /\ a + 1 = i /\ i + 3 - 1 = a + 3 /\ a + 3 \in a .. len
  OBVIOUS
<1>1. Part(SubSeq(s, a + 1, a + 3), s, a, a + 3, STRING)
  BY PartIs, Zenon
<1> PICK part : part = SubSeq(s, i, i + 3 - 1)
  OBVIOUS
<1>2. part = SubSeq(s, a + 1, a + 3)
  OBVIOUS
<1>3. /\ part \in Seq(STRING) /\ Len(part) = (a + 3) - a
      /\ \A j \in 1 .. (a + 3) - a : part[j] = s[a + j]
  BY <1>1, <1>2, Zenon DEF Part
<1>4. Len(part) = 3 /\ part[1] = s[i] /\ part[2] = s[i + 1] /\ part[3] = s[i + 2]
  <2>1. (a + 3) - a = 3 /\ a + 1 = i /\ a + 2 = i + 1 /\ a + 3 = i + 2
    OBVIOUS
  <2> HIDE DEF Part
  <2> QED BY <1>3, <2>1
<1>5. ASSUME SeparatedAt(s, i) PROVE part = Separator
  <2>1. \A j \in 1 .. 3 : part[j] = Separator[j]
    <3> TAKE j \in 1 .. 3
    <3>1. j = 1 \/ j = 2 \/ j = 3
      OBVIOUS
    <3> QED BY <1>4, <1>5, <3>1, SeparatorIs, Zenon DEF SeparatedAt
  <2> QED BY <1>3, <1>4, <2>1, SeparatorIs, SeqEqual
<1>6. ASSUME part = Separator PROVE SeparatedAt(s, i)
  BY <1>4, <1>6, SeparatorIs, Zenon DEF SeparatedAt
<1> QED BY <1>5, <1>6

\* Find finds none exactly if there is none.
LEMMA NoSeparatorIs ==
  ASSUME NEW s \in Seq(STRING)
  PROVE  Find(s, Separator, 1) = 0 <=> NoSeparator(s, Len(s))
<1> PICK len \in Nat : len = Len(s)
  OBVIOUS
<1> PICK at : at = Find(s, Separator, 1)
  OBVIOUS
<1>1. FirstAt(s, Separator, 1, len, 3, at)
  <2>1. 3 \in Nat /\ 1 \in Nat \ {0}
    OBVIOUS
  <2> QED BY <2>1, SeparatorIs, FindFinds, Zenon
<1>2. /\ at # 0 => at \in 1 .. len + 1 - 3 /\ SubSeq(s, at, at + 3 - 1) = Separator
      /\ \A i \in 1 .. len + 1 - 3 : SubSeq(s, i, i + 3 - 1) = Separator => at # 0
  BY <1>1, Zenon DEF FirstAt, Npos
<1>3. \A i \in 1 .. len + 1 - 3 : SubSeq(s, i, i + 3 - 1) = Separator <=> SeparatedAt(s, i)
  BY ThreeCharacters
<1>4. \A i \in Nat : 1 <= i /\ i + 2 <= len <=> i \in 1 .. len + 1 - 3
  OBVIOUS
<1>5. \A i \in 1 .. len + 1 - 3 : i \in Nat
  OBVIOUS
<1> QED BY <1>2, <1>3, <1>4, <1>5, Zenon DEF NoSeparator

\* Between two texts there is none when the second begins with another character.
LEMMA ConcatNoSeparator ==
  ASSUME NEW s \in Seq(STRING), NEW t \in Seq(STRING), t # <<>> => Head(t) \notin {":", "/"}
  PROVE  NoSeparator(s \o t, Len(s \o t)) <=> NoSeparator(s, Len(s)) /\ NoSeparator(t, Len(t))
<1> PICK both, l, m, len : both = s \o t /\ l = Len(s) /\ m = Len(t) /\ len = Len(both)
  OBVIOUS
<1>1. Chain(both, s, t, STRING)
  BY Chained, Zenon
<1>2. /\ len = l + m /\ len \in Nat /\ l \in Nat /\ m \in Nat
      /\ \A i \in 1 .. l : both[i] = s[i]
      /\ \A i \in 1 .. m : both[l + i] = t[i]
  BY <1>1, Zenon DEF Chain
<1>3. m # 0 => both[l + 1] \notin {":", "/"}
  <2> SUFFICES ASSUME m # 0 PROVE both[l + 1] \notin {":", "/"}
    OBVIOUS
  <2>1. t # <<>> /\ 1 \in 1 .. m
    BY <1>2
  <2>2. both[l + 1] = t[1] /\ t[1] = Head(t)
    BY <1>2, <2>1, HeadFirst, Zenon
  <2> QED BY <2>1, <2>2, Zenon
<1>4. ASSUME NEW i \in Nat, 1 <= i, i + 2 <= l
      PROVE  SeparatedAt(both, i) <=> SeparatedAt(s, i)
  <2>1. i \in 1 .. l /\ i + 1 \in 1 .. l /\ i + 2 \in 1 .. l
    BY <1>2, <1>4
  <2> QED BY <1>2, <2>1, Zenon DEF SeparatedAt
<1>5. ASSUME NEW i \in Nat, 1 <= i, i + 2 <= m
      PROVE  SeparatedAt(both, l + i) <=> SeparatedAt(t, i)
  <2>1. /\ i \in 1 .. m /\ i + 1 \in 1 .. m /\ i + 2 \in 1 .. m
        /\ (l + i) + 1 = l + (i + 1) /\ (l + i) + 2 = l + (i + 2)
    BY <1>2, <1>5
  <2> QED BY <1>2, <2>1, Zenon DEF SeparatedAt
<1>6. ASSUME NoSeparator(both, len) PROVE NoSeparator(s, l) /\ NoSeparator(t, m)
  <2>1. \A i \in Nat : 1 <= i /\ i + 2 <= l => ~ SeparatedAt(s, i)
    <3> TAKE i \in Nat
    <3> HAVE 1 <= i /\ i + 2 <= l
    <3>1. i + 2 <= len
      BY <1>2
    <3> QED BY <1>4, <1>6, <3>1, Zenon DEF NoSeparator
  <2>2. \A i \in Nat : 1 <= i /\ i + 2 <= m => ~ SeparatedAt(t, i)
    <3> TAKE i \in Nat
    <3> HAVE 1 <= i /\ i + 2 <= m
    <3>1. l + i \in Nat /\ 1 <= l + i /\ (l + i) + 2 <= len
      BY <1>2
    <3> QED BY <1>5, <1>6, <3>1, Zenon DEF NoSeparator
  <2> QED BY <2>1, <2>2, Zenon DEF NoSeparator
<1>7. ASSUME NoSeparator(s, l), NoSeparator(t, m) PROVE NoSeparator(both, len)
  <2> SUFFICES ASSUME NEW i \in Nat, 1 <= i, i + 2 <= len PROVE ~ SeparatedAt(both, i)
    BY Zenon DEF NoSeparator
  <2>1. CASE i + 2 <= l
    BY <1>4, <1>7, <2>1, Zenon DEF NoSeparator
  <2>2. CASE i + 1 = l \/ i = l
    <3>1. m # 0 /\ (i + 2 = l + 1 \/ i + 1 = l + 1)
      BY <1>2, <2>2
    <3> QED BY <1>3, <3>1 DEF SeparatedAt
  <2>3. CASE i > l
    <3> PICK j \in Nat : l + j = i /\ 1 <= j /\ j + 2 <= m
      <4>1. i - l \in Nat /\ l + (i - l) = i /\ 1 <= i - l /\ (i - l) + 2 <= m
        BY <1>2, <2>3
      <4> QED BY <4>1
    <3> QED BY <1>5, <1>7, Zenon DEF NoSeparator
  <2>4. i + 2 <= l \/ i + 1 = l \/ i = l \/ i > l
    BY <1>2
  <2> QED BY <2>1, <2>2, <2>3, <2>4
<1> QED BY <1>6, <1>7

\* Positions in a field, whose text of n characters stands behind position a + 1.
InField(a, i, n, l) ==
  /\ i \in 1 .. n /\ i + 1 \in 1 .. n /\ i + 2 \in 1 .. n
  /\ a + 1 + i + 1 = a + 1 + (i + 1) /\ a + 1 + i + 2 = a + 1 + (i + 2)
  /\ a + 1 + i \in Nat /\ 1 <= a + 1 + i /\ a + 1 + i + 2 <= l

\* Places in a field and in the text of the query.
LEMMA FieldPlace ==
  ASSUME NEW a \in Nat, NEW i \in Nat, NEW n \in Nat, NEW l \in Nat,
         1 <= i, i + 2 <= n, a + 1 + n <= l
  PROVE  InField(a, i, n, l)
BY DEF InField

\* Place p of the text is place i of a field.
OffsetIn(a, p, n) ==
  LET i == p - a - 1 IN i \in Nat /\ 1 <= i /\ i + 2 <= n /\ a + 1 + i = p

\* A place within a field, as an offset.
LEMMA FieldOffset ==
  ASSUME NEW a \in Nat, NEW p \in Nat, NEW n \in Nat, a < p, p # a + 1, p + 2 <= a + 1 + n
  PROVE  OffsetIn(a, p, n)
BY DEF OffsetIn

\* The mark behind place b is one of the two characters behind place p.
MarkNear(b, p, l) == b + 1 \in 1 .. l /\ (b + 1 = p + 1 \/ b + 1 = p + 2)

\* Three characters that do not lie in one field hold a mark.
LEMMA NextMark ==
  ASSUME NEW b \in Nat, NEW p \in Nat, NEW l \in Nat, p <= b, p + 2 <= l, p + 2 > b
  PROVE  MarkNear(b, p, l)
BY DEF MarkNear

\* Nor between the fields of a query.
LEMMA QueryNoSeparator ==
  ASSUME NEW query, NEW m, IsQuery(query, m, STRING)
  PROVE  NoSeparator(QueryText(query), Len(QueryText(query))) <=>
           \A k \in 1 .. m : NoSeparator(FieldText(query[k]), Len(FieldText(query[k])))
<1> PICK flat, l, texts : /\ flat = QueryText(query) /\ l = Len(flat)
                          /\ texts = [k \in 1 .. m |-> FieldText(query[k])]
  OBVIOUS
<1>0. \E at : IsTextOf(flat, query, m, at, STRING)
  BY QueryIsMarked, Zenon
<1> PICK at : IsTextOf(flat, query, m, at, STRING)
  BY <1>0, Zenon
<1> PICK lens : lens = [k \in 1 .. m |-> Len(texts[k])]
  OBVIOUS
<1>1. /\ flat \in Seq(STRING) /\ m \in Nat /\ Marked(flat, l, m, at)
      /\ \A k \in 1 .. m : at[k] = at[k - 1] + 1 + Len(FieldText(query[k]))
      /\ \A k \in 1 .. m : \A i \in 1 .. Len(FieldText(query[k])) :
           flat[at[k - 1] + 1 + i] = FieldText(query[k])[i]
  BY Zenon DEF IsTextOf
<1>2. \A k \in 1 .. m : texts[k] = FieldText(query[k]) /\ lens[k] = Len(FieldText(query[k]))
  OBVIOUS
<1>3. \A k \in 1 .. m : lens[k] \in Nat
  <2> TAKE k \in 1 .. m
  <2>1. IsFieldText(FieldText(query[k]), query[k], STRING)
    BY FieldReads, Zenon
  <2>2. Len(FieldText(query[k])) \in Nat
    BY <2>1 DEF IsFieldText
  <2> QED BY <1>2, <2>2
<1>4. /\ l \in Nat /\ at \in [0 .. m -> Nat] /\ at[0] = 0 /\ at[m] = l
      /\ \A k \in 1 .. m : at[k - 1] \in Nat /\ at[k] \in Nat /\ at[k] <= l
      /\ \A k \in 1 .. m : \A p \in 1 .. l : p = at[k - 1] + 1 => flat[p] = Mark(k)
  BY <1>1 DEF Marked
<1>5. \A k \in 1 .. m : at[k] = at[k - 1] + 1 + lens[k]
  BY <1>1, <1>2, Zenon
<1>6. \A k \in 1 .. m : \A i \in 1 .. lens[k] : flat[at[k - 1] + 1 + i] = texts[k][i]
  BY <1>1, <1>2, Zenon
<1>7. ASSUME NEW k \in 1 .. m, NEW i \in Nat, 1 <= i, i + 2 <= lens[k]
      PROVE  /\ SeparatedAt(flat, at[k - 1] + 1 + i) <=> SeparatedAt(texts[k], i)
             /\ at[k - 1] + 1 + i \in Nat /\ 1 <= at[k - 1] + 1 + i /\ at[k - 1] + 1 + i + 2 <= l
  <2> PICK a \in Nat, n \in Nat : a = at[k - 1] /\ n = lens[k]
    BY <1>3, <1>4
  <2>0. a + 1 + n <= l
    BY <1>4, <1>5
  <2>1. InField(a, i, n, l)
    <3>1. l \in Nat /\ 1 <= i /\ i + 2 <= n
      BY <1>4, <1>7, Zenon
    <3> QED BY <2>0, <3>1, FieldPlace, Zenon
  <2>2. flat[a + 1 + i] = texts[k][i] /\ flat[a + 1 + i + 1] = texts[k][i + 1]
        /\ flat[a + 1 + i + 2] = texts[k][i + 2]
    BY <1>6, <2>1, ZenonT(40) DEF InField
  <2>3. SeparatedAt(flat, a + 1 + i) <=> SeparatedAt(texts[k], i)
    BY <2>2, Zenon DEF SeparatedAt
  <2> QED BY <2>1, <2>3, Zenon DEF InField
<1>8. ASSUME NoSeparator(flat, l), NEW k \in 1 .. m PROVE NoSeparator(texts[k], lens[k])
  <2> SUFFICES ASSUME NEW i \in Nat, 1 <= i, i + 2 <= lens[k] PROVE ~ SeparatedAt(texts[k], i)
    BY Zenon DEF NoSeparator
  <2> QED BY <1>7, <1>8, Zenon DEF NoSeparator
<1>9. ASSUME \A k \in 1 .. m : NoSeparator(texts[k], lens[k]) PROVE NoSeparator(flat, l)
  <2> SUFFICES ASSUME NEW p \in Nat, 1 <= p, p + 2 <= l, SeparatedAt(flat, p) PROVE FALSE
    BY Zenon DEF NoSeparator
  <2>0. flat[p] = ":" /\ flat[p + 1] = "/" /\ flat[p + 2] = "/"
    BY Zenon DEF SeparatedAt
  <2>1. p \in 1 .. at[m]
    BY <1>4
  <2>2. PICK k \in 1 .. m : at[k - 1] < p /\ p <= at[k]
    BY <1>1, <1>4, <2>1, PieceOf
  <2> PICK a \in Nat, b \in Nat, n \in Nat : a = at[k - 1] /\ b = at[k] /\ n = lens[k]
    BY <1>3, <1>4
  <2>3. a < p /\ p <= b /\ b = a + 1 + n /\ b <= l
    BY <1>4, <1>5, <2>2
  <2>4. ASSUME NEW j \in 1 .. m, NEW q \in 1 .. l, q = at[j - 1] + 1
        PROVE  flat[q] \notin {":", "/"}
    <3>1. flat[q] = Mark(j)
      BY <1>4, <2>4
    <3> QED BY <3>1 DEF Mark
  <2>5. p # a + 1
    <3>1. p \in 1 .. l
      BY <1>4
    <3> QED BY <2>0, <2>4, <3>1
  <2>6. CASE p + 2 <= b
    <3>0. OffsetIn(a, p, n)
      <4>1. p + 2 <= a + 1 + n
        BY <2>3, <2>6, Zenon
      <4> QED BY <2>3, <2>5, <4>1, FieldOffset, Zenon
    <3> PICK i \in Nat : 1 <= i /\ i + 2 <= n /\ a + 1 + i = p
      BY <3>0, Zenon DEF OffsetIn
    <3>1. SeparatedAt(texts[k], i)
      BY <1>7
    <3> QED BY <1>9, <3>1, Zenon DEF NoSeparator
  <2>7. CASE p + 2 > b
    <3>1. k + 1 \in 1 .. m /\ (k + 1) - 1 = k
      <4>1. b < l
        BY <1>4, <2>7
      <4>2. k # m
        BY <1>4, <4>1
      <4> QED BY <1>1, <4>2
    <3>2. b + 1 \in 1 .. l /\ (b + 1 = p + 1 \/ b + 1 = p + 2)
      <4>1. l \in Nat /\ p <= b /\ p + 2 <= l /\ p + 2 > b
        BY <1>4, <2>3, <2>7, Zenon
      <4>2. MarkNear(b, p, l)
        BY <4>1, NextMark, Zenon
      <4> QED BY <4>2, Zenon DEF MarkNear
    <3>3. flat[b + 1] \notin {":", "/"}
      BY <2>4, <3>1, <3>2
    <3> QED BY <2>0, <3>2, <3>3
  <2>8. p + 2 <= b \/ p + 2 > b
    OBVIOUS
  <2> QED BY <2>6, <2>7, <2>8
<1>10. NoSeparator(flat, l) <=> \A k \in 1 .. m : NoSeparator(texts[k], lens[k])
  BY <1>8, <1>9
<1> QED BY <1>2, <1>10, Zenon

-----------------------------------------------------------------------------
(***************************************************************************)
(* The text toString gives, and the components it is made of.              *)
(***************************************************************************)
\* The components of the text toString gives.
Second(in) ==
  [scheme |-> ExpectedScheme(in), user |-> <<>>, host |-> in.host,
   port |-> IF in.host = <<>> THEN <<>> ELSE PortText(Complete(in)),
   path |-> PathOf(in), query |-> QueryOf(ExpectedQuery(in)),
   anchor |-> IF AnchorOf(in) = <<>> THEN <<>> ELSE <<"#">> \o AnchorOf(in)]

\* The scheme that is assumed.
LEMMA HttpIs ==
  /\ Http \in Seq(STRING) /\ Http # <<>> /\ Lacks(Http, ":")
  /\ [i \in DOMAIN Http |-> Lower[Http[i]]] = Http
<1>1. Http \in Seq(STRING) /\ Len(Http) = 4 /\ DOMAIN Http = 1 .. 4
  BY URLAssumption DEF Http
<1>2. \A i \in 1 .. 4 : Http[i] \in {"h", "t", "p"}
  BY DEF Http
<1>3. \A i \in 1 .. 4 : Http[i] # ":" /\ Lower[Http[i]] = Http[i]
  BY <1>2, URLAssumption
<1>4. Http = [i \in DOMAIN Http |-> Http[i]]
  BY <1>1
<1>5. [i \in DOMAIN Http |-> Lower[Http[i]]] = [i \in DOMAIN Http |-> Http[i]]
  BY <1>1, <1>3
<1>6. Lacks(Http, ":") /\ Http # <<>>
  BY <1>1, <1>3 DEF Lacks
<1> QED BY <1>1, <1>4, <1>5, <1>6, Zenon

\* A scheme in lower case.
IsLowered(scheme, in) ==
  /\ scheme \in Seq(STRING) /\ Lacks(scheme, ":")
  /\ scheme # <<>> => [i \in DOMAIN scheme |-> Lower[scheme[i]]] = scheme
  /\ scheme = <<>> <=> in.scheme = <<>> /\ Raw(in)[1] = "/"

\* A scheme that is lowered once more stays as it is.
LEMMA SchemeIsLowered ==
  ASSUME NEW in \in Inputs, WellMade(in)
  PROVE  IsLowered(ExpectedScheme(in), in)
<1> PICK given, scheme : given = in.scheme /\ scheme = ExpectedScheme(in)
  OBVIOUS
<1>1. CASE given = <<>>
  <2>1. CASE Raw(in)[1] = "/"
    <3>1. scheme = <<>> /\ Lacks(<<>>, ":") /\ <<>> \in Seq(STRING)
      <4>1. scheme = <<>>
        BY <1>1, <2>1, Zenon DEF ExpectedScheme
      <4>2. Lacks(<<>>, ":") /\ <<>> \in Seq(STRING)
        BY DEF Lacks
      <4> QED BY <4>1, <4>2, Zenon
    <3> QED BY <1>1, <2>1, <3>1, Zenon DEF IsLowered
  <2>2. CASE Raw(in)[1] # "/"
    <3>1. scheme = Http
      BY <1>1, <2>2, Zenon DEF ExpectedScheme
    <3> QED BY <1>1, <2>2, <3>1, HttpIs, Zenon DEF IsLowered
  <2> QED BY <2>1, <2>2
<1>2. CASE given # <<>>
  <2>1. scheme = [i \in DOMAIN given |-> Lower[given[i]]]
    BY <1>2, Zenon DEF ExpectedScheme
  <2> PICK n \in Nat : n = Len(given) /\ DOMAIN given = 1 .. n /\ n # 0
    <3>1. given \in Seq(STRING)
      BY Zenon DEF WellMade
    <3> QED BY <1>2, <3>1, EmptySeq
  <2>2. \A i \in 1 .. n : given[i] \in DOMAIN Lower /\ given[i] # ":"
    <3>1. Range(given) \subseteq DOMAIN Lower
      BY URLAssumption
    <3>2. Lacks(given, ":")
      BY Zenon DEF WellMade
    <3> QED BY <3>1, <3>2 DEF Range, Lacks
  <2>3. scheme = [i \in 1 .. n |-> Lower[given[i]]]
    BY <2>1
  <2>4. \A i \in 1 .. n : /\ Lower[given[i]] \in STRING /\ Lower[given[i]] # ":"
                          /\ Lower[Lower[given[i]]] = Lower[given[i]]
    BY <2>2, URLAssumption
  <2>5. scheme \in Seq(STRING) /\ Len(scheme) = n /\ DOMAIN scheme = 1 .. n
    BY <2>3, <2>4
  <2>6. \A i \in 1 .. n : scheme[i] # ":" /\ Lower[scheme[i]] = scheme[i]
    BY <2>3, <2>4
  <2>7. scheme # <<>>
    BY <2>5
  <2>8. [i \in DOMAIN scheme |-> Lower[scheme[i]]] = scheme
    <3>1. scheme = [i \in 1 .. n |-> scheme[i]]
      BY <2>3
    <3>2. [i \in 1 .. n |-> Lower[scheme[i]]] = [i \in 1 .. n |-> scheme[i]]
      BY <2>6
    <3> QED BY <2>5, <3>1, <3>2, Zenon
  <2>9. Lacks(scheme, ":")
    BY <2>5, <2>6 DEF Lacks
  <2> QED BY <1>2, <2>5, <2>7, <2>8, <2>9, Zenon DEF IsLowered
<1> QED BY <1>1, <1>2

\* A port that is written again.
LEMMA StandardPorts ==
  0 \in PortNumbers /\ \A scheme : DefaultPort(scheme) \in PortNumbers \ {0}
BY SMT DEF DefaultPort, PortNumbers

\* What parsePortNumber accepts is a port number.
LEMMA ValidNumbers ==
  ASSUME NEW T, NEW d \in Seq(T), ValidPort(d)
  PROVE  Number(d) \in PortNumbers
<1>1. \A i \in DOMAIN d : d[i] \in Range(Digits)
  BY DEF ValidPort
<1>2. Number(d) <= 65535
  BY DEF ValidPort
<1>3. Number(d) \in Nat
  BY <1>1, NumberType
<1> QED BY <1>2, <1>3 DEF PortNumbers

\* The text of a number reads as the number.
IsDecimal(n) ==
  /\ Decimal(n) \in Seq(STRING) /\ ValidPort(Decimal(n)) /\ Number(Decimal(n)) = n
  /\ \A c : c \notin Range(Digits) => Lacks(Decimal(n), c)

\* So does that of every port number.
LEMMA DecimalPort ==
  ASSUME NEW n \in PortNumbers
  PROVE  IsDecimal(n)
<1>1. Range(Digits) \subseteq STRING
  BY URLAssumption
<1>2. Decimal(n) \in Seq(STRING) /\ ValidPort(Decimal(n)) /\ Number(Decimal(n)) = n
  BY <1>1, DecimalIs, DecimalIsValid, DecimalCounts, Zenon
<1>3. \A c : c \notin Range(Digits) => Lacks(Decimal(n), c)
  BY <1>1, DecimalLacks, Zenon
<1> QED BY <1>2, <1>3, Zenon DEF IsDecimal

\* The port of a URL that has a host is not 0.
LEMMA PortIs ==
  ASSUME NEW in, WellMade(in), IsPlain(in), ~ Malformed(in)
  PROVE  ExpectedPort(in) \in PortNumbers /\ (in.host # <<>> => ExpectedPort(in) # 0)
<1> PICK port, d : port = in.port /\ d = Tail(port)
  OBVIOUS
<1>0. in.host \in Seq(STRING) /\ port \in Seq(STRING)
  BY Zenon DEF WellMade
<1>1. CASE port = <<>>
  <2>1. ExpectedPort(in) = IF in.host # <<>> THEN DefaultPort(ExpectedScheme(in)) ELSE 0
    BY <1>1, Zenon DEF ExpectedPort
  <2>2. DefaultPort(ExpectedScheme(in)) \in PortNumbers \ {0} /\ 0 \in PortNumbers
    BY StandardPorts, Zenon
  <2> QED BY <2>1, <2>2, Zenon
<1>2. CASE port # <<>>
  <2>1. ExpectedPort(in) = Number(d)
    BY <1>2, Zenon DEF ExpectedPort
  <2>2. ValidPort(d)
    <3>1. ~ MalformedParts(in.host, port)
      BY <1>0, MalformedIs, Zenon
    <3> QED BY <1>2, <3>1, Zenon DEF MalformedParts
  <2>3. d \in Seq(STRING)
    BY <1>0, <1>2, HeadFirst, Zenon
  <2>4. Number(d) \in PortNumbers
    BY <2>2, <2>3, ValidNumbers, Zenon
  <2>6. Number(d) # 0
    BY <1>2, <2>2, Zenon DEF IsPlain
  <2> QED BY <2>1, <2>4, <2>6, Zenon
<1> QED BY <1>1, <1>2, Zenon

\* What is written of it is read again.
Rewritten(port, number, scheme) ==
  /\ port \in Seq(STRING) /\ IsPortText(port)
  /\ port = <<>> => number = DefaultPort(scheme)
  /\ port # <<>> => ValidPort(Tail(port)) /\ Number(Tail(port)) = number

\* What PortText writes reads as the port it was made of.
LEMMA PortIsRewritten ==
  ASSUME NEW v, v.port \in PortNumbers, v.port # 0
  PROVE  Rewritten(PortText(v), v.port, v.scheme)
<1> PICK number, text : number = v.port /\ text = PortText(v)
  OBVIOUS
<1>0. number \in PortNumbers /\ number # 0 /\ ":" \in STRING
  BY BracketsInText, Zenon
<1>1. CASE v.scheme \in {Http, Https} /\ number = DefaultPort(v.scheme)
  <2>1. text = <<>>
    BY <1>1, Zenon DEF PortText
  <2>2. <<>> \in Seq(STRING) /\ IsPortText(<<>>)
    BY DEF IsPortText
  <2> QED BY <1>1, <2>1, <2>2, Zenon DEF Rewritten
<1>2. CASE ~ (v.scheme \in {Http, Https} /\ number = DefaultPort(v.scheme))
  <2> PICK d : d = Decimal(number)
    OBVIOUS
  <2>1. text = <<":">> \o d
    BY <1>0, <1>2, Zenon DEF PortText
  <2>2. d \in Seq(STRING) /\ ValidPort(d) /\ Number(d) = number
    BY <1>0, DecimalPort, Zenon DEF IsDecimal
  <2>3. text \in Seq(STRING) /\ text # <<>> /\ Head(text) = ":" /\ Tail(text) = d
    BY <1>0, <2>1, <2>2, SMT
  <2>4. \A c \in Delimiters \cup {":", "]"} : Lacks(d, c)
    <3> TAKE c \in Delimiters \cup {":", "]"}
    <3>1. c \notin Range(Digits)
      BY DEF Delimiters, Range, Digits
    <3> QED BY <1>0, <3>1, DecimalPort, Zenon DEF IsDecimal
  <2> QED BY <2>2, <2>3, <2>4, Zenon DEF Rewritten, IsPortText
<1> QED BY <1>1, <1>2, Zenon

\* The second set of components, part by part.
IsSecond(in, again2) ==
  /\ again2.scheme = ExpectedScheme(in) /\ again2.user = <<>> /\ again2.host = in.host
  /\ again2.port = (IF in.host = <<>> THEN <<>> ELSE PortText(Complete(in)))
  /\ again2.path = PathOf(in) /\ again2.query = QueryOf(ExpectedQuery(in))
  /\ again2.anchor = IF AnchorOf(in) = <<>> THEN <<>> ELSE <<"#">> \o AnchorOf(in)

\* Second has these parts.
LEMMA SecondParts == \A in : IsSecond(in, Second(in))
BY DEF IsSecond, Second

\* The members of the complete object.
LEMMA CompleteParts ==
  ASSUME NEW in
  PROVE  /\ Complete(in).scheme = ExpectedScheme(in) /\ Complete(in).domainName = in.host
         /\ Complete(in).port = ExpectedPort(in) /\ Complete(in).pathToResource = PathOf(in)
         /\ Complete(in).anchor = AnchorOf(in) /\ Complete(in).queryParameters = ExpectedQuery(in)
BY DEF Complete, Object

\* The empty text is a text.
LEMMA EmptyText == <<>> \in Seq(STRING) /\ \A c : Lacks(<<>>, c)
BY DEF Lacks

\* The anchor and the path.
IsSecondAnchor(anchor, in) ==
  /\ anchor \in Seq(STRING) /\ IsAnchor(anchor)
  /\ anchor = <<>> \/ anchor = in.anchor
  /\ (IF anchor = <<>> THEN <<>> ELSE Tail(anchor)) = AnchorOf(in)

\* The fragment that is written is the one that was read.
LEMMA SecondAnchor ==
  ASSUME NEW in, WellMade(in)
  PROVE  IsSecondAnchor(Second(in).anchor, in)
<1> PICK given, anchor, d : given = in.anchor /\ anchor = Second(in).anchor /\ d = AnchorOf(in)
  OBVIOUS
<1>1. anchor = IF d = <<>> THEN <<>> ELSE <<"#">> \o d
  BY SecondParts, Zenon DEF IsSecond
<1>2. given \in Seq(STRING) /\ (given # <<>> => Head(given) = "#")
  BY Zenon DEF WellMade, IsAnchor
<1>3. d = IF given = <<>> THEN <<>> ELSE Tail(given)
  BY Zenon DEF AnchorOf
<1>4. CASE d = <<>>
  <2>1. anchor = <<>>
    BY <1>1, <1>4, Zenon
  <2> QED BY <1>4, <2>1, EmptyText, Zenon DEF IsSecondAnchor, IsAnchor
<1>5. CASE d # <<>>
  <2>1. given # <<>> /\ d = Tail(given)
    BY <1>3, <1>5, Zenon
  <2>2. given = <<"#">> \o d
    BY <1>2, <2>1, HeadFirst, Zenon
  <2>3. anchor = given
    BY <1>1, <1>5, <2>2, Zenon
  <2> QED BY <1>2, <2>1, <2>3, Zenon DEF IsSecondAnchor, IsAnchor
<1> QED BY <1>4, <1>5, Zenon

\* The path that is written is a path.
LEMMA SecondPath ==
  ASSUME NEW in, WellMade(in)
  PROVE  PathOf(in) \in Seq(STRING) /\ IsPath(PathOf(in)) /\ PathOf(in) # <<>>
<1>1. CASE in.path = <<>>
  <2>1. PathOf(in) = <<"/">>
    BY <1>1, Zenon DEF PathOf
  <2>2. <<"/">> \in Seq(STRING) /\ <<"/">> # <<>> /\ Head(<<"/">>) = "/"
        /\ Lacks(<<"/">>, "?") /\ Lacks(<<"/">>, "#")
    BY BracketsInText DEF Lacks
  <2> QED BY <2>1, <2>2, Zenon DEF IsPath
<1>2. CASE in.path # <<>>
  <2>1. PathOf(in) = in.path /\ in.path \in Seq(STRING) /\ IsPath(in.path)
    BY <1>2, Zenon DEF PathOf, WellMade
  <2> QED BY <1>2, <2>1, Zenon
<1> QED BY <1>1, <1>2, Zenon

\* The port.
LEMMA SecondPort ==
  ASSUME NEW in, WellMade(in), IsPlain(in), ~ Malformed(in)
  PROVE  /\ in.host = <<>> => Second(in).port = <<>>
         /\ in.host # <<>> => Rewritten(Second(in).port, ExpectedPort(in), ExpectedScheme(in))
<1>1. CASE in.host = <<>>
  BY <1>1, SecondParts, Zenon DEF IsSecond
<1>2. CASE in.host # <<>>
  <2>1. Second(in).port = PortText(Complete(in))
    BY <1>2, SecondParts, Zenon DEF IsSecond
  <2>2. Complete(in).scheme = ExpectedScheme(in) /\ Complete(in).port = ExpectedPort(in)
    BY CompleteParts, Zenon
  <2>3. Complete(in).port \in PortNumbers /\ Complete(in).port # 0
    BY <1>2, <2>2, PortIs, Zenon
  <2>4. Rewritten(PortText(Complete(in)), Complete(in).port, Complete(in).scheme)
    BY <2>3, PortIsRewritten, Zenon
  <2> QED BY <1>2, <2>1, <2>2, <2>4, Zenon
<1> QED BY <1>1, <1>2, Zenon

\* The query.
LEMMA SecondQuery ==
  ASSUME NEW in, WellMade(in)
  PROVE  IsQueryOf(Second(in).query, in.query, Len(in.query), Len(Second(in).query), STRING)
<1> PICK query, m : query = in.query /\ m = Len(query)
  OBVIOUS
<1>1. IsQuery(query, m, STRING)
  BY Zenon DEF WellMade
<1>2. ExpectedQuery(in) = LastValues(query, m)
  BY <1>1, ExpectedQueryIs, Zenon
<1>3. Second(in).query = QueryOf(LastValues(query, m))
  BY <1>2, SecondParts, Zenon DEF IsSecond
<1>4. \E n : IsQueryOf(QueryOf(LastValues(query, m)), query, m, n, STRING)
  BY <1>1, FieldsOfMap, Zenon
<1>5. PICK n : IsQueryOf(Second(in).query, query, m, n, STRING)
  BY <1>3, <1>4, Zenon
<1>6. n = Len(Second(in).query)
  BY <1>5, Zenon DEF IsQueryOf
<1> QED BY <1>5, <1>6, Zenon

\* The components of the second URL are as plain as those of the first.
LEMMA SecondIsWellMade ==
  ASSUME NEW in \in Inputs, WellMade(in), IsPlain(in), ~ Malformed(in)
  PROVE  WellMade(Second(in))
<1> PICK second : second = Second(in)
  OBVIOUS
<1>1. IsSecond(in, second)
  BY SecondParts, Zenon
<1>2. second.scheme \in Seq(STRING) /\ Lacks(second.scheme, ":")
  BY <1>1, SchemeIsLowered, Zenon DEF IsSecond, IsLowered
<1>3. second.user \in Seq(STRING) /\ IsUser(second.user)
  BY <1>1, EmptyText, Zenon DEF IsSecond, IsUser
<1>4. second.host \in Seq(STRING) /\ IsHost(second.host)
  BY <1>1, Zenon DEF IsSecond, WellMade
<1>5. second.port \in Seq(STRING) /\ IsPortText(second.port)
  <2>1. CASE in.host = <<>>
    <3>1. second.port = <<>>
      BY <2>1, SecondPort, Zenon
    <3> QED BY <3>1, EmptyText, Zenon DEF IsPortText
  <2>2. CASE in.host # <<>>
    <3>1. Rewritten(second.port, ExpectedPort(in), ExpectedScheme(in))
      BY <2>2, SecondPort, Zenon
    <3> QED BY <3>1, Zenon DEF Rewritten
  <2> QED BY <2>1, <2>2, Zenon
<1>6. second.path \in Seq(STRING) /\ IsPath(second.path)
  <2>1. second.path = PathOf(in)
    BY <1>1, Zenon DEF IsSecond
  <2> QED BY <2>1, SecondPath, Zenon
<1>7. IsQuery(second.query, Len(second.query), STRING)
  <2>1. IsQueryOf(second.query, in.query, Len(in.query), Len(second.query), STRING)
    BY SecondQuery, Zenon
  <2> QED BY <2>1, Zenon DEF IsQueryOf
<1>8. second.anchor \in Seq(STRING) /\ IsAnchor(second.anchor)
  <2>1. IsSecondAnchor(second.anchor, in)
    BY SecondAnchor, Zenon
  <2> QED BY <2>1, Zenon DEF IsSecondAnchor
<1>9. \A part \in {second.scheme, second.user, second.host, second.port, second.path, second.anchor} :
        part \in Seq(STRING)
  BY <1>2, <1>3, <1>4, <1>5, <1>6, <1>8
<1> QED BY <1>2, <1>3, <1>4, <1>5, <1>6, <1>7, <1>8, <1>9, Zenon DEF WellMade

\* toString's text is the raw string of the second set of components.
LEMMA TextAgain ==
  ASSUME NEW in \in Inputs, WellMade(in), IsPlain(in), ~ Malformed(in)
  PROVE  ObjectText(Complete(in)) = Raw(Second(in))
<1> PICK second, v : second = Second(in) /\ v = Complete(in)
  OBVIOUS
<1>1. IsSecond(in, second) /\ WellMade(second)
  BY SecondParts, SecondIsWellMade, Zenon
<1>2. /\ v.scheme = second.scheme /\ v.domainName = second.host
      /\ v.pathToResource = second.path
      /\ second.anchor = (IF v.anchor = <<>> THEN <<>> ELSE <<"#">> \o v.anchor)
      /\ second.query = QueryOf(v.queryParameters)
      /\ second.port = (IF second.host = <<>> THEN <<>> ELSE PortText(v))
  BY <1>1, CompleteParts, Zenon DEF IsSecond
<1> PICK host, text : /\ host = (IF v.domainName = <<>> THEN <<>> ELSE v.domainName \o PortText(v))
                      /\ text = QueryText(second.query)
  OBVIOUS
<1>3. ObjectText(v) = (((Prefix(second) \o host) \o second.path) \o text) \o second.anchor
  <2>1. Prefix(second) = IF v.scheme = <<>> THEN <<>> ELSE v.scheme \o Separator
    BY <1>2, Zenon DEF Prefix
  <2> QED BY <1>2, <2>1, Zenon DEF ObjectText, QueryOf
<1>4. /\ second.host \in Seq(STRING) /\ second.port \in Seq(STRING) /\ second.path \in Seq(STRING)
      /\ second.anchor \in Seq(STRING) /\ second.user = <<>>
      /\ IsQuery(second.query, Len(second.query), STRING)
  BY <1>1, Zenon DEF WellMade, IsSecond
<1>5. host = second.host \o second.port
  <2>1. CASE second.host = <<>>
    <3>1. host = <<>> /\ second.port = <<>>
      BY <1>2, <2>1, Zenon
    <3> QED BY <2>1, <3>1, ConcatEmptySeq, EmptyText
  <2>2. CASE second.host # <<>>
    BY <1>2, <2>2, Zenon
  <2> QED BY <2>1, <2>2, Zenon
<1>6. host \in Seq(STRING)
  BY <1>4, <1>5, ConcatType, Zenon
<1>7. Authority(second) = host
  <2>1. Authority(second) = second.user \o (second.host \o second.port)
    BY <1>1, LineIs, Zenon DEF IsLine
  <2> QED BY <1>4, <1>5, <1>6, <2>1, EmptyFirst, Zenon
<1>8. Rest(second) = ((host \o second.path) \o text) \o second.anchor
  BY <1>7, Zenon DEF Rest, Authority
<1>9. text \in Seq(STRING)
  <2>1. IsQueryText(text, Len(second.query))
    BY <1>4, QueryTextIs, Zenon
  <2> QED BY <2>1, Zenon DEF IsQueryText
<1>10. Prefix(second) \in Seq(STRING) /\ Raw(second) = Prefix(second) \o Rest(second)
  BY <1>1, RawIs, Zenon DEF IsRaw
<1>11. ObjectText(v) = Prefix(second) \o Rest(second)
  <2>1. FiveRegroup(Prefix(second), host, second.path, text, second.anchor)
    BY <1>4, <1>6, <1>9, <1>10, FiveParts, Zenon
  <2> QED BY <1>3, <1>8, <2>1, Zenon DEF FiveRegroup
<1> QED BY <1>10, <1>11, Zenon

-----------------------------------------------------------------------------
(***************************************************************************)
(* The second object.                                                      *)
(***************************************************************************)
\* A relative target has no "://" in its path, its fields or its anchor.
RestHasNone(in) ==
  NoSeparator(Rest(in), Len(Rest(in))) <=>
    /\ NoSeparator(Target(in), Len(Target(in)))
    /\ \A k \in 1 .. Len(in.query) : NoSeparator(FieldText(in.query[k]), Len(FieldText(in.query[k])))
    /\ NoSeparator(in.anchor, Len(in.anchor))

\* What begins a query or a fragment is no part of a separator.
LEMMA MarksDiffer ==
  "#" \notin {":", "/"} /\ "?" \notin {":", "/"}
OBVIOUS

\* A separator is in neither part or in the whole.
HasNone(st, s, t) ==
  NoSeparator(st, Len(st)) <=> NoSeparator(s, Len(s)) /\ NoSeparator(t, Len(t))

\* The lemma ConcatNoSeparator once more, as a predicate.
LEMMA ConcatHasNone ==
  ASSUME NEW s \in Seq(STRING), NEW t \in Seq(STRING), t # <<>> => Head(t) \notin {":", "/"}
  PROVE  HasNone(s \o t, s, t)
BY ConcatNoSeparator DEF HasNone

\* What stands behind the scheme has a separator in one of its parts or none.
LEMMA RestSeparators ==
  ASSUME NEW in, WellMade(in)
  PROVE  RestHasNone(in)
<1> PICK text, m : text = QueryText(in.query) /\ m = Len(in.query)
  OBVIOUS
<1>1. /\ in.anchor \in Seq(STRING) /\ IsAnchor(in.anchor) /\ IsQuery(in.query, m, STRING)
  BY Zenon DEF WellMade
<1>2. /\ Target(in) \in Seq(STRING) /\ Line(in) \in Seq(STRING) /\ Line(in) = Target(in) \o text
  BY LineIs, Zenon DEF IsLine, Line
<1>3. IsQueryText(text, m)
  BY <1>1, QueryTextIs, Zenon
<1>4. Rest(in) = Line(in) \o in.anchor
  BY RawIs, Zenon DEF IsRaw
<1>5. in.anchor # <<>> => Head(in.anchor) \notin {":", "/"}
  BY <1>1, MarksDiffer, Zenon DEF IsAnchor
<1>6. text \in Seq(STRING) /\ (text # <<>> => Head(text) \notin {":", "/"})
  <2>1. text # <<>> => Head(text) = "?"
    BY <1>3, Zenon DEF IsQueryText
  <2> QED BY <1>3, <2>1, MarksDiffer, Zenon DEF IsQueryText
<1>7. NoSeparator(Rest(in), Len(Rest(in))) <=>
        NoSeparator(Line(in), Len(Line(in))) /\ NoSeparator(in.anchor, Len(in.anchor))
  <2>1. HasNone(Line(in) \o in.anchor, Line(in), in.anchor)
    BY <1>1, <1>2, <1>5, ConcatHasNone, Zenon
  <2> QED BY <1>4, <2>1, Zenon DEF HasNone
<1>8. NoSeparator(Line(in), Len(Line(in))) <=>
        NoSeparator(Target(in), Len(Target(in))) /\ NoSeparator(text, Len(text))
  <2>1. HasNone(Target(in) \o text, Target(in), text)
    BY <1>2, <1>6, ConcatHasNone, Zenon
  <2> QED BY <1>2, <2>1, Zenon DEF HasNone
<1>9. NoSeparator(text, Len(text)) <=>
        \A k \in 1 .. m : NoSeparator(FieldText(in.query[k]), Len(FieldText(in.query[k])))
  BY <1>1, QueryNoSeparator, Zenon
<1> QED BY <1>7, <1>8, <1>9, Zenon DEF RestHasNone

\* A target that begins with a slash has a path and nothing in front of it.
IsPathOnly(in) ==
  /\ in.user = <<>> /\ in.host = <<>> /\ in.port = <<>> /\ in.path # <<>>
  /\ Target(in) = in.path

\* A raw string that begins with a slash has neither host nor user information.
LEMMA PathOnly ==
  ASSUME NEW in, WellMade(in), in.scheme = <<>>, Raw(in) # <<>>, Raw(in)[1] = "/"
  PROVE  IsPathOnly(in)
<1> PICK a, text, raw : a = Authority(in) /\ text = QueryText(in.query) /\ raw = Raw(in)
  OBVIOUS
<1>1. /\ in.anchor \in Seq(STRING) /\ in.path \in Seq(STRING) /\ in.user \in Seq(STRING)
      /\ in.host \in Seq(STRING) /\ in.port \in Seq(STRING)
      /\ IsAnchor(in.anchor) /\ IsQuery(in.query, Len(in.query), STRING)
  BY Zenon DEF WellMade
<1>2. /\ Target(in) \in Seq(STRING) /\ Line(in) \in Seq(STRING)
      /\ Line(in) = Target(in) \o text /\ Target(in) = a \o in.path
      /\ a \in Seq(STRING) /\ Lacks(a, "/")
      /\ a = in.user \o (in.host \o in.port) /\ in.host \o in.port \in Seq(STRING)
  BY LineIs, Zenon DEF IsLine, Line, Target
<1>3. raw = Line(in) \o in.anchor
  BY RawIs, Zenon DEF IsRaw, Raw
<1>4. IsQueryText(text, Len(in.query))
  BY <1>1, QueryTextIs, Zenon
<1>5. text \in Seq(STRING) /\ (text # <<>> => Head(text) = "?")
  BY <1>4, Zenon DEF IsQueryText
<1>6. raw[1] = IF Line(in) = <<>> THEN Head(in.anchor) ELSE Head(Line(in))
  <2>1. StartsAs(raw, Line(in), in.anchor)
    BY <1>1, <1>2, <1>3, Starts, Zenon
  <2> QED BY <2>1, Zenon DEF StartsAs
<1>7. Line(in) # <<>>
  <2> SUFFICES ASSUME Line(in) = <<>> PROVE FALSE
    OBVIOUS
  <2>1. raw = in.anchor
    BY <1>1, <1>3, EmptyFirst, Zenon
  <2>2. raw[1] = "#"
    BY <1>1, <1>6, <2>1, Zenon DEF IsAnchor
  <2> QED BY <2>2
<1>8. Line(in)[1] = "/"
  BY <1>2, <1>6, <1>7, HeadFirst, Zenon
<1>9. Line(in)[1] = IF Target(in) = <<>> THEN Head(text) ELSE Head(Target(in))
  <2>1. StartsAs(Line(in), Target(in), text)
    BY <1>2, <1>5, <1>7, Starts, Zenon
  <2> QED BY <2>1, Zenon DEF StartsAs
<1>10. Target(in) # <<>>
  <2> SUFFICES ASSUME Target(in) = <<>> PROVE FALSE
    OBVIOUS
  <2>1. Line(in) = text
    BY <1>2, <1>5, EmptyFirst, Zenon
  <2>2. Line(in)[1] = "?"
    BY <1>5, <1>7, <1>9, <2>1, Zenon
  <2> QED BY <1>8, <2>2
<1>11. Target(in)[1] = "/"
  BY <1>2, <1>8, <1>9, <1>10, HeadFirst, Zenon
<1>12. Target(in)[1] = IF a = <<>> THEN Head(in.path) ELSE Head(a)
  <2>1. StartsAs(Target(in), a, in.path)
    BY <1>1, <1>2, <1>10, Starts, Zenon
  <2> QED BY <2>1, Zenon DEF StartsAs
<1>13. a = <<>>
  <2> SUFFICES ASSUME a # <<>> PROVE FALSE
    OBVIOUS
  <2>1. Head(a) # "/"
    BY <1>2, SlashFirst, Zenon
  <2> QED BY <1>11, <1>12, <2>1, Zenon
<1>14. Target(in) = in.path
  BY <1>1, <1>2, <1>13, EmptyFirst, Zenon
<1>15. in.user = <<>> /\ in.host \o in.port = <<>>
  BY <1>1, <1>2, <1>13, BothEmpty, ZenonT(40)
<1>16. in.host = <<>> /\ in.port = <<>>
  BY <1>1, <1>15, BothEmpty, Zenon
<1> QED BY <1>10, <1>14, <1>15, <1>16, Zenon DEF IsPathOnly

\* There is no separator in nothing.
LEMMA EmptyHasNone == NoSeparator(<<>>, Len(<<>>))
BY DEF NoSeparator

\* A URL that is a path only begins with a slash.
LEMMA RawOfPathOnly ==
  ASSUME NEW in, WellMade(in), in.scheme = <<>>, IsPathOnly(in)
  PROVE  Raw(in)[1] = "/"
<1> PICK text, raw, target : text = QueryText(in.query) /\ raw = Raw(in) /\ target = Target(in)
  OBVIOUS
<1>1. /\ in.anchor \in Seq(STRING) /\ in.path \in Seq(STRING) /\ in.path # <<>>
      /\ Head(in.path) = "/" /\ target = in.path /\ IsQuery(in.query, Len(in.query), STRING)
  BY Zenon DEF WellMade, IsPathOnly, IsPath
<1>2. /\ Line(in) \in Seq(STRING) /\ Line(in) = target \o text
  BY LineIs, Zenon DEF IsLine, Line
<1>3. raw = Line(in) \o in.anchor
  BY RawIs, Zenon DEF IsRaw, Raw
<1>4. text \in Seq(STRING)
  <2>1. IsQueryText(text, Len(in.query))
    BY <1>1, QueryTextIs, Zenon
  <2> QED BY <2>1, Zenon DEF IsQueryText
<1>5. target \o text # <<>>
  BY <1>1, <1>4, BothEmpty, Zenon
<1>6. Head(Line(in)) = "/"
  <2>1. StartsAs(target \o text, target, text)
    BY <1>1, <1>4, <1>5, Starts, Zenon
  <2>2. Head(Line(in)) = Line(in)[1]
    BY <1>2, <1>5, HeadFirst, Zenon
  <2> QED BY <1>1, <1>2, <2>1, <2>2, Zenon DEF StartsAs
<1>7. Line(in) \o in.anchor # <<>>
  BY <1>1, <1>2, <1>5, BothEmpty, Zenon
<1>8. StartsAs(Line(in) \o in.anchor, Line(in), in.anchor)
  BY <1>1, <1>2, <1>7, Starts, Zenon
<1> QED BY <1>2, <1>3, <1>5, <1>6, <1>8, Zenon DEF StartsAs

\* What the second parse starts from when the first object has no scheme.
SecondIsPathOnly(in) ==
  /\ IsPathOnly(in) /\ IsPathOnly(Second(in))
  /\ Second(in).path = in.path /\ Raw(Second(in))[1] = "/"

\* If there is no scheme, both URLs are paths only.
LEMMA PathOnlyAgain ==
  ASSUME NEW in \in Inputs, WellMade(in), IsPlain(in), ~ Malformed(in), Raw(in) # <<>>,
         ExpectedScheme(in) = <<>>
  PROVE  SecondIsPathOnly(in)
<1> PICK second : second = Second(in)
  OBVIOUS
<1>1. IsSecond(in, second) /\ WellMade(second)
  BY SecondParts, SecondIsWellMade, Zenon
<1>2. in.scheme = <<>> /\ Raw(in)[1] = "/"
  BY SchemeIsLowered, Zenon DEF IsLowered
<1>3. IsPathOnly(in)
  BY <1>2, PathOnly, Zenon
<1>4. second.path = in.path
  BY <1>1, <1>3, Zenon DEF IsSecond, PathOf, IsPathOnly
<1>5. second.scheme = <<>> /\ second.user = <<>> /\ second.host = <<>> /\ second.port = <<>>
  BY <1>1, <1>3, Zenon DEF IsSecond, IsPathOnly
<1>6. Target(second) = second.path
  <2>1. second.path \in Seq(STRING)
    BY <1>1, Zenon DEF WellMade
  <2>2. Target(second) = ((<<>> \o <<>>) \o <<>>) \o second.path
    BY <1>5, Zenon DEF Target, Authority
  <2>3. <<>> \o <<>> = <<>>
    BY EmptyText, EmptyFirst, Zenon
  <2> QED BY <2>1, <2>2, <2>3, EmptyFirst, Zenon
<1>7. IsPathOnly(second)
  BY <1>3, <1>4, <1>5, <1>6, Zenon DEF IsPathOnly
<1>8. Raw(second)[1] = "/"
  BY <1>1, <1>5, <1>7, RawOfPathOnly, Zenon
<1> QED BY <1>3, <1>4, <1>7, <1>8, Zenon DEF SecondIsPathOnly

\* The text toString makes of an unambiguous URL is unambiguous.
LEMMA UnambiguousAgain ==
  ASSUME NEW in \in Inputs, WellMade(in), IsPlain(in), ~ Malformed(in), Raw(in) # <<>>,
         Unambiguous(in)
  PROVE  Unambiguous(Second(in))
<1> PICK second : second = Second(in)
  OBVIOUS
<1>1. IsSecond(in, second) /\ WellMade(second)
  BY SecondParts, SecondIsWellMade, Zenon
<1>2. CASE ExpectedScheme(in) # <<>>
  BY <1>1, <1>2, Zenon DEF IsSecond, Unambiguous
<1>3. CASE ExpectedScheme(in) = <<>>
  <2>1. SecondIsPathOnly(in) /\ in.scheme = <<>>
    BY <1>3, PathOnlyAgain, SchemeIsLowered, Zenon DEF IsLowered
  <2>2. Target(second) = Target(in)
    BY <2>1, Zenon DEF SecondIsPathOnly, IsPathOnly
  <2>3. Find(Rest(in), Separator, 1) = 0
    BY <2>1, Zenon DEF Unambiguous
  <2>4. Rest(in) \in Seq(STRING) /\ Rest(second) \in Seq(STRING)
    BY <1>1, RawIs, Zenon DEF IsRaw
  <2>5. NoSeparator(Rest(in), Len(Rest(in)))
    BY <2>3, <2>4, NoSeparatorIs, Zenon
  <2>6. RestHasNone(in) /\ RestHasNone(second)
    BY <1>1, RestSeparators, Zenon
  <2>7. /\ NoSeparator(Target(in), Len(Target(in)))
        /\ \A k \in 1 .. Len(in.query) :
             NoSeparator(FieldText(in.query[k]), Len(FieldText(in.query[k])))
        /\ NoSeparator(in.anchor, Len(in.anchor))
    BY <2>5, <2>6, Zenon DEF RestHasNone
  <2>8. NoSeparator(second.anchor, Len(second.anchor))
    <3>1. second.anchor = <<>> \/ second.anchor = in.anchor
      BY SecondAnchor, Zenon DEF IsSecondAnchor
    <3> QED BY <2>7, <3>1, EmptyHasNone, Zenon
  <2>9. \A k \in 1 .. Len(second.query) :
          NoSeparator(FieldText(second.query[k]), Len(FieldText(second.query[k])))
    <3>1. IsQueryOf(second.query, in.query, Len(in.query), Len(second.query), STRING)
      BY SecondQuery, Zenon
    <3>2. \A k \in 1 .. Len(second.query) :
            \E j \in 1 .. Len(in.query) : second.query[k] = in.query[j]
      BY <3>1, Zenon DEF IsQueryOf
    <3> QED BY <2>7, <3>2, Zenon
  <2>10. NoSeparator(Rest(second), Len(Rest(second)))
    BY <2>2, <2>6, <2>7, <2>8, <2>9, Zenon DEF RestHasNone
  <2>11. Find(Rest(second), Separator, 1) = 0
    BY <2>4, <2>10, NoSeparatorIs, Zenon
  <2> QED BY <2>11, Zenon DEF Unambiguous
<1> QED BY <1>2, <1>3, Zenon

\* What is expected of the second object is what the first one is made of.
SameObject(in) ==
  /\ ~ Malformed(Second(in))
  /\ Complete(Second(in)) =
       Object(ExpectedScheme(in), in.host, IF in.host = <<>> THEN 0 ELSE ExpectedPort(in),
              PathOf(in), AnchorOf(in), ExpectedQuery(in))

\* The second object is the first one, except for a port without a host.
LEMMA ObjectAgain ==
  ASSUME NEW in \in Inputs, WellMade(in), IsPlain(in), ~ Malformed(in), Raw(in) # <<>>
  PROVE  SameObject(in)
<1> PICK second : second = Second(in)
  OBVIOUS
<1>1. IsSecond(in, second) /\ WellMade(second)
  BY SecondParts, SecondIsWellMade, Zenon
<1>2. ExpectedScheme(second) = ExpectedScheme(in)
  <2>1. IsLowered(ExpectedScheme(in), in) /\ second.scheme = ExpectedScheme(in)
    BY <1>1, SchemeIsLowered, Zenon DEF IsSecond
  <2>2. CASE ExpectedScheme(in) # <<>>
    BY <2>1, <2>2, Zenon DEF IsLowered, ExpectedScheme
  <2>3. CASE ExpectedScheme(in) = <<>>
    <3>1. Raw(second)[1] = "/"
      BY <2>3, PathOnlyAgain, Zenon DEF SecondIsPathOnly
    <3> QED BY <2>1, <2>3, <3>1, Zenon DEF ExpectedScheme
  <2> QED BY <2>2, <2>3, Zenon
<1>3. ExpectedQuery(second) = ExpectedQuery(in)
  <2>1. IsQueryOf(second.query, in.query, Len(in.query), Len(second.query), STRING)
    BY SecondQuery, Zenon
  <2>2. ExpectedQuery(in) = LastValues(in.query, Len(in.query))
    BY ExpectedQueryIs, Zenon DEF WellMade
  <2>3. ExpectedQuery(second) = LastValues(second.query, Len(second.query))
    BY <1>1, ExpectedQueryIs, Zenon DEF WellMade
  <2> QED BY <2>1, <2>2, <2>3, Zenon DEF IsQueryOf
<1>4. PathOf(second) = PathOf(in)
  <2>1. second.path = PathOf(in) /\ PathOf(in) # <<>>
    BY <1>1, SecondPath, Zenon DEF IsSecond
  <2> QED BY <2>1, Zenon DEF PathOf
<1>5. AnchorOf(second) = AnchorOf(in)
  BY SecondAnchor, Zenon DEF IsSecondAnchor, AnchorOf
<1>6. second.host = in.host
  BY <1>1, Zenon DEF IsSecond
<1>7. ExpectedPort(second) = IF in.host = <<>> THEN 0 ELSE ExpectedPort(in)
  <2>1. CASE in.host = <<>>
    <3>1. second.port = <<>>
      BY <2>1, SecondPort, Zenon
    <3> QED BY <1>6, <2>1, <3>1, Zenon DEF ExpectedPort
  <2>2. CASE in.host # <<>>
    <3>1. Rewritten(second.port, ExpectedPort(in), ExpectedScheme(in))
      BY <2>2, SecondPort, Zenon
    <3>2. CASE second.port = <<>>
      <4>1. ExpectedPort(second) = DefaultPort(ExpectedScheme(second))
        BY <1>6, <2>2, <3>2, Zenon DEF ExpectedPort
      <4> QED BY <1>2, <2>2, <3>1, <3>2, <4>1, Zenon DEF Rewritten
    <3>3. CASE second.port # <<>>
      <4>1. ExpectedPort(second) = Number(Tail(second.port))
        BY <3>3, Zenon DEF ExpectedPort
      <4> QED BY <2>2, <3>1, <3>3, <4>1, Zenon DEF Rewritten
    <3> QED BY <3>2, <3>3, Zenon
  <2> QED BY <2>1, <2>2, Zenon
<1>8. ~ Malformed(second)
  <2>1. /\ second.host \in Seq(STRING) /\ second.port \in Seq(STRING)
        /\ in.host \in Seq(STRING) /\ in.port \in Seq(STRING)
    BY <1>1, Zenon DEF WellMade
  <2>2. ~ Unclosed(in.host)
    BY <2>1, MalformedIs, Zenon DEF MalformedParts
  <2>3. second.port # <<>> => ValidPort(Tail(second.port))
    <3>1. CASE in.host = <<>>
      BY <3>1, SecondPort, Zenon
    <3>2. CASE in.host # <<>>
      <4>1. Rewritten(second.port, ExpectedPort(in), ExpectedScheme(in))
        BY <3>2, SecondPort, Zenon
      <4> QED BY <4>1, Zenon DEF Rewritten
    <3> QED BY <3>1, <3>2, Zenon
  <2>4. ~ MalformedParts(second.host, second.port)
    BY <1>6, <2>2, <2>3, Zenon DEF MalformedParts
  <2> QED BY <2>1, <2>4, MalformedIs, Zenon
<1> QED BY <1>2, <1>3, <1>4, <1>5, <1>6, <1>7, <1>8, Zenon DEF SameObject, Complete

-----------------------------------------------------------------------------
(***************************************************************************)
(* The inductive invariant and the theorems.                               *)
(***************************************************************************)
\* The components of the object that is being made.
Current == IF again THEN Second(input) ELSE input

\* The object that is being made is at its stage; a second one is only made of a complete one.
IInv ==
  /\ input \in Inputs /\ Raw(input) # <<>> /\ again \in BOOLEAN
  /\ pc \in {"scheme", "fragment", "query", "authority", "done", "throws"}
  /\ Unambiguous(input) => Stage(Current) /\ (again => ~ Malformed(input))

\* The URLs the theorems are about: the components are such as the grammar allows.
InputsArePlain == \A in \in Inputs : IsPlain(in)

\* The invariant holds before the first helper runs.
LEMMA InitInv ==
  ASSUME Init PROVE IInv
<1> PICK in : in = input
  OBVIOUS
<1>1. AtScheme(in) /\ pc = "scheme" /\ again = FALSE /\ in \in Inputs /\ Raw(in) # <<>>
  BY Zenon DEF Init, AtScheme
<1>2. Stage(in)
  BY <1>1 DEF Stage
<1>3. Current = in
  BY <1>1, Zenon DEF Current
<1> QED BY <1>1, <1>2, <1>3 DEF IInv

\* What is known of the object a helper works on.
IsCurrent(in, first) ==
  /\ first \in Inputs /\ WellMade(first) /\ IsPlain(first) /\ Raw(first) # <<>>
  /\ IF again THEN in = Second(first) /\ ~ Malformed(first) ELSE in = first
  /\ WellMade(in) /\ Unambiguous(in) /\ Stage(in)

\* The components of the current object are well made, whichever object that is.
LEMMA CurrentIs ==
  ASSUME InputsArePlain, IInv, Unambiguous(input)
  PROVE  IsCurrent(Current, input)
<1> PICK in, first : in = Current /\ first = input
  OBVIOUS
<1>1. first \in Inputs /\ WellMade(first) /\ IsPlain(first) /\ Raw(first) # <<>>
  BY PlainIsWellMade, Zenon DEF IInv, InputsArePlain
<1>2. Stage(in) /\ (again => ~ Malformed(first)) /\ again \in BOOLEAN /\ Unambiguous(first)
  BY Zenon DEF IInv
<1>3. CASE again
  <2>1. in = Second(first)
    BY <1>3, Zenon DEF Current
  <2>2. WellMade(in) /\ Unambiguous(in)
    BY <1>1, <1>2, <1>3, <2>1, SecondIsWellMade, UnambiguousAgain, Zenon
  <2> QED BY <1>1, <1>2, <1>3, <2>1, <2>2, Zenon DEF IsCurrent
<1>4. CASE ~ again
  <2>1. in = first
    BY <1>4, Zenon DEF Current
  <2> QED BY <1>1, <1>2, <1>4, <2>1, Zenon DEF IsCurrent
<1> QED BY <1>3, <1>4, Zenon

\* The values of pc.
Phases == {"scheme", "fragment", "query", "authority", "done", "throws"}

\* Every helper goes on to its next stage, and toString's text starts again.
LEMMA NextInv ==
  ASSUME InputsArePlain, IInv, [Next]_vars
  PROVE  IInv'
<1> PICK in, first : in = Current /\ first = input
  OBVIOUS
<1>1. /\ first \in Inputs /\ Raw(first) # <<>> /\ again \in BOOLEAN /\ pc \in Phases
      /\ input' = first
  BY Zenon DEF IInv, Next, vars, ParseScheme, ParseFragment, ParseQuery, ParseAuthorityAndPath,
     ParseAgain, Phases
<1>2. CASE UNCHANGED vars
  BY <1>2, Zenon DEF vars, IInv, Current, Stage, AtScheme, AtFragment, AtQuery, AtAuthority
<1>3. CASE Next
  <2>1. again' \in BOOLEAN /\ pc' \in Phases
    BY <1>1, <1>3 DEF Next, ParseScheme, ParseFragment, ParseQuery, ParseAuthorityAndPath,
       ParseAgain, Phases
  <2>2. ASSUME Unambiguous(first)
        PROVE  Stage(Current)' /\ (again' => ~ Malformed(first))
    <3>1. IsCurrent(in, first)
      BY <2>2, CurrentIs, Zenon
    <3>2. WellMade(in) /\ Unambiguous(in) /\ Stage(in)
      BY <3>1, Zenon DEF IsCurrent
    <3>3. ASSUME again' = again, Stage(in)'
          PROVE  Stage(Current)' /\ (again' => ~ Malformed(first))
      <4>1. Current' = in
        BY <1>1, <3>3, Zenon DEF Current
      <4> QED BY <3>1, <3>3, <4>1, Zenon DEF IsCurrent
    <3>4. CASE ParseScheme
      <4>1. AtScheme(in) /\ again' = again
        BY <3>2, <3>4, Zenon DEF Stage, ParseScheme
      <4>2. Stage(in)'
        BY <3>2, <3>4, <4>1, SchemeStep, Zenon
      <4> QED BY <3>3, <4>1, <4>2, Zenon
    <3>5. CASE ParseFragment
      <4>1. AtFragment(in) /\ again' = again
        BY <3>2, <3>5, Zenon DEF Stage, ParseFragment
      <4>2. Stage(in)'
        BY <3>2, <3>5, <4>1, FragmentStep, Zenon
      <4> QED BY <3>3, <4>1, <4>2, Zenon
    <3>6. CASE ParseQuery
      <4>1. AtQuery(in) /\ again' = again
        BY <3>2, <3>6, Zenon DEF Stage, ParseQuery
      <4>2. Stage(in)'
        BY <3>2, <3>6, <4>1, QueryStep, Zenon
      <4> QED BY <3>3, <4>1, <4>2, Zenon
    <3>7. CASE ParseAuthorityAndPath
      <4>1. AtAuthority(in) /\ again' = again
        BY <3>2, <3>7, Zenon DEF Stage, ParseAuthorityAndPath
      <4>2. Stage(in)'
        BY <3>2, <3>7, <4>1, AuthorityStep, Zenon
      <4> QED BY <3>3, <4>1, <4>2, Zenon
    <3>8. CASE ParseAgain
      <4>1. /\ pc = "done" /\ ~ again /\ pc' = "scheme" /\ url' = ObjectText(u) /\ pos' = 1
            /\ u' = Empty /\ again' = TRUE
        BY <3>8, Zenon DEF ParseAgain
      <4>2. in = first
        BY <3>1, <4>1, Zenon DEF IsCurrent
      <4>3. u = Complete(first) /\ ~ Malformed(first)
        BY <3>2, <4>1, <4>2, Zenon DEF Stage
      <4>4. ObjectText(u) = Raw(Second(first))
        <5>1. first \in Inputs /\ WellMade(first) /\ IsPlain(first)
          BY <3>1, Zenon DEF IsCurrent
        <5> QED BY <4>3, <5>1, TextAgain, Zenon
      <4> PICK second : second = Second(first)
        OBVIOUS
      <4>5. AtScheme(second)'
        BY <4>1, <4>4, Zenon DEF AtScheme
      <4>6. Stage(second)'
        BY <4>1, <4>5 DEF Stage
      <4>7. Current' = second
        BY <1>1, <4>1, Zenon DEF Current
      <4> QED BY <4>3, <4>6, <4>7, Zenon
    <3> QED BY <1>3, <3>4, <3>5, <3>6, <3>7, <3>8, Zenon DEF Next
  <2> QED BY <1>1, <2>1, <2>2, Zenon DEF IInv, Phases
<1> QED BY <1>2, <1>3, Zenon

\* The members, one by one.
IsObject(v, scheme, host, port, path, anchor, query) ==
  /\ v.scheme = scheme /\ v.domainName = host /\ v.port = port
  /\ v.pathToResource = path /\ v.anchor = anchor /\ v.queryParameters = query

\* A record has the members it is made of.
LEMMA ObjectParts ==
  \A scheme, host, port, path, anchor, query :
    IsObject(Object(scheme, host, port, path, anchor, query), scheme, host, port, path, anchor, query)
BY DEF Object, IsObject

\* What the constructor has found when it is done, and when it throws.
LEMMA InvImplies ==
  ASSUME InputsArePlain, IInv
  PROVE  ComponentsAreFound /\ ThrowsOnMalformed
<1> PICK in, first : in = Current /\ first = input
  OBVIOUS
<1> SUFFICES ASSUME Unambiguous(first) PROVE ComponentsAreFound /\ ThrowsOnMalformed
  BY Zenon DEF ComponentsAreFound, ThrowsOnMalformed
<1>1. IsCurrent(in, first)
  BY CurrentIs, Zenon
<1>2. Stage(in) /\ again \in BOOLEAN
  BY <1>1, Zenon DEF IsCurrent, IInv
<1>3. again => in = Second(first) /\ ~ Malformed(first) /\ SameObject(first)
  BY <1>1, ObjectAgain, Zenon DEF IsCurrent
<1>4. ~ again => in = first
  BY <1>1, Zenon DEF IsCurrent
<1>5. ASSUME pc = "done"
      PROVE  /\ u.scheme = ExpectedScheme(first)
             /\ u.domainName = first.host
             /\ u.port = (IF again /\ first.host = <<>> THEN 0 ELSE ExpectedPort(first))
             /\ u.pathToResource = PathOf(first)
             /\ u.queryParameters = ExpectedQuery(first)
             /\ u.anchor = AnchorOf(first)
  <2>1. u = Complete(in)
    BY <1>2, <1>5, Zenon DEF Stage
  <2>2. u = Object(ExpectedScheme(first), first.host,
                   IF again /\ first.host = <<>> THEN 0 ELSE ExpectedPort(first),
                   PathOf(first), AnchorOf(first), ExpectedQuery(first))
    <3>1. CASE again
      BY <1>3, <2>1, <3>1, Zenon DEF SameObject
    <3>2. CASE ~ again
      BY <1>4, <2>1, <3>2, Zenon DEF Complete
    <3> QED BY <3>1, <3>2, Zenon
  <2>3. IsObject(u, ExpectedScheme(first), first.host,
                   IF again /\ first.host = <<>> THEN 0 ELSE ExpectedPort(first),
                   PathOf(first), AnchorOf(first), ExpectedQuery(first))
    BY <2>2, ObjectParts, Zenon
  <2> QED BY <2>3, Zenon DEF IsObject
<1>6. ComponentsAreFound
  BY <1>5, Zenon DEF ComponentsAreFound, PathOf, AnchorOf
<1>7. ASSUME pc \in {"done", "throws"}
      PROVE  pc = "throws" <=> Malformed(first)
  <2>1. CASE again
    <3>1. ~ Malformed(first) /\ ~ Malformed(in)
      BY <1>3, <2>1, Zenon DEF SameObject
    <3>2. pc # "throws"
      BY <1>2, <3>1, Zenon DEF Stage
    <3> QED BY <3>1, <3>2, Zenon
  <2>2. CASE ~ again
    <3>1. /\ pc = "done" => ~ Malformed(first)
          /\ pc = "throws" => Malformed(first)
      BY <1>2, <1>4, <2>2, Zenon DEF Stage
    <3> QED BY <1>7, <3>1
  <2> QED BY <2>1, <2>2, Zenon
<1>8. ThrowsOnMalformed
  BY <1>7, Zenon DEF ThrowsOnMalformed
<1> QED BY <1>6, <1>8

\* ComponentsAreFound, for every set of plain URLs: the constructor (URL.cpp) finds the
\* components a URL is made of, and finds them again in what toString
\* gives, if the first "://" is the one behind the scheme.
THEOREM MembersHoldTheComponents ==
  ASSUME InputsArePlain
  PROVE  Spec => []ComponentsAreFound
<1>1. Init => IInv
  BY InitInv
<1>2. IInv /\ [Next]_vars => IInv'
  BY NextInv
<1>3. IInv => ComponentsAreFound
  BY InvImplies
<1> QED BY <1>1, <1>2, <1>3, PTL DEF Spec

\* ThrowsOnMalformed, for every set of plain URLs: the constructor (URL.cpp) throws on a
\* malformed port or an unclosed bracket, and on nothing else; it does not throw on the
\* text of an object it made.
THEOREM MalformedUrlsThrow ==
  ASSUME InputsArePlain
  PROVE  Spec => []ThrowsOnMalformed
<1>1. Init => IInv
  BY InitInv
<1>2. IInv /\ [Next]_vars => IInv'
  BY NextInv
<1>3. IInv => ThrowsOnMalformed
  BY InvImplies
<1> QED BY <1>1, <1>2, <1>3, PTL DEF Spec
================================================================================
