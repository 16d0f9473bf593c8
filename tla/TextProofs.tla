------------------------------ MODULE TextProofs -------------------------------
(***************************************************************************)
(* Lemmas about sequences and texts on which the proofs about requests and *)
(* about URLs rest: induction over an interval, what FlattenSeq glues      *)
(* together, what Find finds, and where a text is cut.                     *)
(***************************************************************************)
EXTENDS Text, Integers, SequencesExt, SequenceTheorems, FiniteSetTheorems, TLAPS

\* A non-empty set of natural numbers has a least element.
LEMMA LeastIndex ==
  ASSUME NEW S \in SUBSET Nat, S # {}
  PROVE  Min(S) \in S /\ \A n \in S : Min(S) <= n
<1>1. PICK m \in S : \A n \in S : <<n, m>> \notin OpToRel(<, Nat)
  BY WFMin, NatLessThanWellFounded, Zenon
<1>2. \A n \in S : ~ (n < m)
  BY <1>1, Zenon DEF OpToRel
<1>3. \A n \in S : m <= n
  BY <1>2
<1> QED BY <1>3 DEF Min

\* What holds of 0 and of every number behind one it holds of, up to n.
LEMMA InductionTo ==
  ASSUME NEW n \in Nat, NEW S, 0 \in S, \A i \in 1 .. n : i - 1 \in S => i \in S
  PROVE  \A i \in 0 .. n : i \in S
<1> DEFINE Missing == {i \in Nat : i <= n /\ i \notin S}
<1> SUFFICES ASSUME Missing # {} PROVE FALSE
  BY DEF Missing
<1>1. Missing \in SUBSET Nat
  OBVIOUS
<1>2. PICK m \in Missing : \A i \in Missing : m <= i
  <2> HIDE DEF Missing
  <2> QED BY <1>1, LeastIndex
<1>3. m \in 1 .. n /\ m \notin S
  BY <1>2
<1>4. m - 1 \in S
  BY <1>2, <1>3
<1> QED BY <1>3, <1>4

\* A non-empty set of places has a greatest one ...
LEMMA GreatestIndex ==
  ASSUME NEW n \in Nat, NEW S \in SUBSET (1 .. n), S # {}
  PROVE  Max(S) \in S /\ \A i \in S : i <= Max(S)
<1> DEFINE Flipped == {n - i : i \in S}
<1>1. Flipped \in SUBSET Nat /\ Flipped # {}
  <2>1. \A i \in S : n - i \in Nat
    OBVIOUS
  <2> QED BY <2>1
<1>2. PICK least \in Flipped : \A i \in Flipped : least <= i
  <2> HIDE DEF Flipped
  <2> QED BY <1>1, LeastIndex
<1>3. n - least \in S /\ \A i \in S : i <= n - least
  BY <1>2
<1> QED BY <1>3 DEF Max

\* ... and an element that bounds the others is it.
LEMMA GreatestIs ==
  ASSUME NEW S \in SUBSET Nat, NEW m \in S, \A i \in S : i <= m
  PROVE  Max(S) = m
<1>1. m \in S /\ \A i \in S : m >= i
  OBVIOUS
<1>2. ASSUME NEW x \in S, \A i \in S : x >= i PROVE x = m
  BY <1>2
<1> QED BY <1>1, <1>2 DEF Max

\* The function by which FlattenSeq is defined ...
Joins(f, seqs, n) ==
  f = [i \in 1 .. n |-> IF i = 1 THEN seqs[i] ELSE f[i - 1] \o seqs[i]]

\* ... exists.
LEMMA FlattenExists ==
  ASSUME NEW T, NEW n \in Nat, NEW seqs \in [1 .. n -> Seq(T)]
  PROVE  \E f \in [1 .. n -> Seq(T)] : Joins(f, seqs, n)
<1> DEFINE Good == {k \in 0 .. n : \E f \in [1 .. k -> Seq(T)] : Joins(f, seqs, k)}
<1>1. 0 \in Good
  <2> DEFINE f == [i \in 1 .. 0 |-> <<>>]
  <2>1. f \in [1 .. 0 -> Seq(T)] /\ Joins(f, seqs, 0)
    BY DEF Joins
  <2>2. 0 \in 0 .. n
    OBVIOUS
  <2> HIDE DEF f
  <2> QED BY <2>1, <2>2
<1>2. ASSUME NEW k \in 1 .. n, k - 1 \in Good PROVE k \in Good
  <2>1. PICK f \in [1 .. (k - 1) -> Seq(T)] : Joins(f, seqs, k - 1)
    BY <1>2
  <2>0. \A j \in 1 .. (k - 1) : f[j] = IF j = 1 THEN seqs[j] ELSE f[j - 1] \o seqs[j]
    BY <2>1 DEF Joins
  <2> DEFINE last == IF k = 1 THEN seqs[k] ELSE f[k - 1] \o seqs[k]
             g == [i \in 1 .. k |-> IF i = k THEN last ELSE f[i]]
  <2>2. last \in Seq(T)
    <3>1. CASE k = 1
      BY <3>1
    <3>2. CASE k # 1
      <4>1. f[k - 1] \in Seq(T) /\ seqs[k] \in Seq(T)
        BY <3>2
      <4> QED BY <3>2, <4>1
    <3> QED BY <3>1, <3>2
  <2>3. g \in [1 .. k -> Seq(T)]
    <3> HIDE DEF last
    <3> QED BY <2>2
  <2>4. ASSUME NEW i \in 1 .. k
        PROVE  g[i] = IF i = 1 THEN seqs[i] ELSE g[i - 1] \o seqs[i]
    <3>1. CASE i = k
      BY <3>1
    <3>2. CASE i # k
      <4>1. f[i] = IF i = 1 THEN seqs[i] ELSE f[i - 1] \o seqs[i]
        <5>1. i \in 1 .. (k - 1)
          BY <3>2
        <5> HIDE DEF g, last
        <5> QED BY <2>0, <5>1
      <4>2. g[i] = f[i] /\ (i # 1 => g[i - 1] = f[i - 1])
        <5> HIDE DEF last
        <5> QED BY <3>2
      <4> HIDE DEF g
      <4> QED BY <4>1, <4>2
    <3> QED BY <3>1, <3>2
  <2>5. Joins(g, seqs, k)
    <3>1. g = [i \in 1 .. k |-> g[i]]
      BY <2>3
    <3> HIDE DEF g
    <3> QED BY <2>4, <3>1 DEF Joins
  <2>6. k \in 0 .. n
    OBVIOUS
  <2> HIDE DEF g
  <2> QED BY <2>3, <2>5, <2>6
<1>3. n \in Good
  <2> HIDE DEF Good
  <2>1. \A k \in 0 .. n : k \in Good
    BY <1>1, <1>2, InductionTo
  <2> QED BY <2>1
<1> QED BY <1>3

\* f[i] is what the first i sequences are together.
JoinedBy(f, seqs, n) ==
  /\ FlattenSeq(seqs) = f[n]
  /\ \A i \in 1 .. n : f[i] = IF i = 1 THEN seqs[i] ELSE f[i - 1] \o seqs[i]

\* FlattenSeq appends one sequence after the other.
LEMMA FlattenJoins ==
  ASSUME NEW T, NEW n \in Nat \ {0}, NEW seqs \in [1 .. n -> Seq(T)]
  PROVE  \E f \in [1 .. n -> Seq(T)] : JoinedBy(f, seqs, n)
<1> DEFINE joined == CHOOSE f : Joins(f, seqs, n)
<1>0. Len(seqs) = n
  OBVIOUS
<1>1. PICK g \in [1 .. n -> Seq(T)] : Joins(g, seqs, n)
  BY FlattenExists
<1>2. Joins(joined, seqs, n)
  BY <1>1, Zenon
<1>3. FlattenSeq(seqs) = joined[n]
  BY <1>0 DEF FlattenSeq, Joins
<1> HIDE DEF joined
<1>4. /\ \A i \in 1 .. n : joined[i] = IF i = 1 THEN seqs[i] ELSE joined[i - 1] \o seqs[i]
      /\ joined = [i \in 1 .. n |-> joined[i]]
  BY <1>2 DEF Joins
<1> DEFINE Good == {i \in 0 .. n : i = 0 \/ joined[i] \in Seq(T)}
<1>5. 0 \in Good
  OBVIOUS
<1>6. ASSUME NEW i \in 1 .. n, i - 1 \in Good PROVE i \in Good
  <2>1. seqs[i] \in Seq(T) /\ i \in 0 .. n
    OBVIOUS
  <2>2. CASE i = 1
    BY <1>4, <2>1, <2>2
  <2>3. CASE i # 1
    <3>1. joined[i - 1] \in Seq(T)
      BY <1>6, <2>3
    <3>2. joined[i] = joined[i - 1] \o seqs[i]
      BY <1>4, <2>3
    <3>3. joined[i - 1] \o seqs[i] \in Seq(T)
      BY <2>1, <3>1
    <3> QED BY <2>1, <3>2, <3>3
  <2> QED BY <2>2, <2>3
<1>7. \A i \in 1 .. n : joined[i] \in Seq(T)
  <2> HIDE DEF Good
  <2>1. \A i \in 0 .. n : i \in Good
    BY <1>5, <1>6, InductionTo
  <2>2. \A i \in 1 .. n : i \in Good /\ i # 0
    BY <2>1
  <2> QED BY <2>2 DEF Good
<1>8. joined \in [1 .. n -> Seq(T)]
  <2>1. [i \in 1 .. n |-> joined[i]] \in [1 .. n -> Seq(T)]
    BY <1>7
  <2> QED BY <1>4, <2>1, Zenon
<1> QED BY <1>3, <1>4, <1>8, Zenon DEF JoinedBy

\* Where the pieces of s end: at[k] is the end of the k-th.
Layout(s, pieces, m, at) ==
  /\ at \in [0 .. m -> Nat] /\ at[0] = 0 /\ at[m] = Len(s)
  /\ \A j, k \in 0 .. m : j <= k => at[j] <= at[k]
  /\ \A k \in 1 .. m :
       /\ at[k] = at[k - 1] + Len(pieces[k])
       /\ \A i \in 1 .. Len(pieces[k]) : s[at[k - 1] + i] = pieces[k][i]

\* Where the characters of s \o t come from.
LEMMA ConcatParts ==
  ASSUME NEW T, NEW s \in Seq(T), NEW t \in Seq(T)
  PROVE  /\ s \o t \in Seq(T) /\ Len(s \o t) = Len(s) + Len(t)
         /\ Len(s) \in Nat /\ Len(t) \in Nat
         /\ \A i \in 1 .. Len(s) : (s \o t)[i] = s[i]
         /\ \A i \in 1 .. Len(t) : (s \o t)[Len(s) + i] = t[i]
OBVIOUS

\* FlattenSeq lays the pieces out one behind the other.
LEMMA FlattenLayout ==
  ASSUME NEW T, NEW m \in Nat, NEW pieces \in [1 .. m -> Seq(T)]
  PROVE  /\ FlattenSeq(pieces) \in Seq(T)
         /\ \E at : Layout(FlattenSeq(pieces), pieces, m, at)
<1>1. CASE m = 0
  <2>1. pieces = <<>>
    BY <1>1
  <2>2. FlattenSeq(pieces) = <<>>
    BY <2>1 DEF FlattenSeq
  <2> DEFINE at == [k \in 0 .. m |-> 0]
  <2>3. Layout(<<>>, pieces, m, at)
    BY <1>1 DEF Layout
  <2> HIDE DEF at
  <2> QED BY <2>2, <2>3
<1>2. CASE m # 0
  <2>0. m \in Nat \ {0}
    BY <1>2
  <2>1. PICK f \in [1 .. m -> Seq(T)] : JoinedBy(f, pieces, m)
    BY <2>0, FlattenJoins
  <2> DEFINE at == [k \in 0 .. m |-> IF k = 0 THEN 0 ELSE Len(f[k])]
  <2>2. /\ at \in [0 .. m -> Nat] /\ at[0] = 0 /\ at[m] = Len(f[m])
        /\ \A k \in 1 .. m : at[k] = Len(f[k])
    BY <2>0
  <2> HIDE DEF at
  <2>3. ASSUME NEW k \in 1 .. m
        PROVE  /\ at[k] = at[k - 1] + Len(pieces[k]) /\ Len(pieces[k]) \in Nat
               /\ at[k] \in Nat /\ at[k - 1] \in Nat /\ k - 1 \in 0 .. m
               /\ \A i \in 1 .. Len(pieces[k]) : f[k][at[k - 1] + i] = pieces[k][i]
               /\ k # 1 => \A i \in 1 .. at[k - 1] : f[k][i] = f[k - 1][i]
    <3>0. pieces[k] \in Seq(T) /\ f[k] \in Seq(T) /\ at[k] = Len(f[k])
      BY <2>2
    <3>1. CASE k = 1
      <4>1. f[k] = pieces[k] /\ at[k - 1] = 0
        BY <2>1, <2>2, <3>1 DEF JoinedBy
      <4>2. Len(f[k]) = Len(pieces[k]) /\ Len(pieces[k]) \in Nat
        BY <3>0, <4>1
      <4>3. /\ at[k] = at[k - 1] + Len(pieces[k]) /\ at[k] \in Nat /\ at[k - 1] \in Nat
            /\ k - 1 \in 0 .. m
        BY <3>0, <4>1, <4>2
      <4>4. \A i \in 1 .. Len(pieces[k]) : at[k - 1] + i = i
        BY <4>1, <4>2
      <4> QED BY <3>1, <4>1, <4>2, <4>3, <4>4
    <3>2. CASE k # 1
      <4>1. k - 1 \in 1 .. m
        BY <3>2
      <4>2. f[k] = f[k - 1] \o pieces[k] /\ f[k - 1] \in Seq(T) /\ at[k - 1] = Len(f[k - 1])
        BY <2>1, <2>2, <3>2, <4>1 DEF JoinedBy
      <4>3. /\ Len(f[k]) = Len(f[k - 1]) + Len(pieces[k])
            /\ Len(f[k - 1]) \in Nat /\ Len(pieces[k]) \in Nat
            /\ \A i \in 1 .. Len(f[k - 1]) : f[k][i] = f[k - 1][i]
            /\ \A i \in 1 .. Len(pieces[k]) : f[k][Len(f[k - 1]) + i] = pieces[k][i]
        <5> PICK u \in Seq(T), v \in Seq(T) : u = f[k - 1] /\ v = pieces[k]
          BY <3>0, <4>2
        <5>1. /\ Len(u \o v) = Len(u) + Len(v) /\ Len(u) \in Nat /\ Len(v) \in Nat
              /\ \A i \in 1 .. Len(u) : (u \o v)[i] = u[i]
              /\ \A i \in 1 .. Len(v) : (u \o v)[Len(u) + i] = v[i]
          BY ConcatParts
        <5>2. f[k] = u \o v
          BY <4>2
        <5> QED BY <5>1, <5>2, Zenon
      <4>4. at[k] = at[k - 1] + Len(pieces[k]) /\ at[k] \in Nat /\ at[k - 1] \in Nat
        BY <3>0, <4>2, <4>3
      <4>5. k - 1 \in 0 .. m
        OBVIOUS
      <4>6. /\ \A i \in 1 .. Len(pieces[k]) : f[k][at[k - 1] + i] = pieces[k][i]
            /\ \A i \in 1 .. at[k - 1] : f[k][i] = f[k - 1][i]
        BY <4>2, <4>3
      <4> QED BY <4>3, <4>4, <4>5, <4>6, Zenon
    <3> QED BY <3>1, <3>2
  <2> DEFINE Kept(k) == \A j \in 0 .. k : /\ at[j] <= at[k]
                                          /\ j # 0 => \A i \in 1 .. at[j] : f[k][i] = f[j][i]
             Good == {k \in 0 .. m : Kept(k)}
  <2>4. 0 \in Good
    BY <2>2
  <2>5. ASSUME NEW k \in 1 .. m, k - 1 \in Good PROVE k \in Good
    <3>1. Kept(k - 1) /\ k - 1 \in 0 .. m
      BY <2>5
    <3>2. ASSUME NEW j \in 0 .. k
          PROVE  at[j] <= at[k] /\ (j # 0 => \A i \in 1 .. at[j] : f[k][i] = f[j][i])
      <4>0. at[j] \in Nat
        BY <2>2
      <4>1. CASE j = k
        BY <4>0, <4>1
      <4>2. CASE j # k
        <5>1. j \in 0 .. k - 1
          BY <4>2
        <5>2. at[j] <= at[k - 1] /\ (j # 0 => \A i \in 1 .. at[j] : f[k - 1][i] = f[j][i])
          BY <3>1, <5>1
        <5>3. j # 0 => k # 1
          BY <5>1
        <5>4. /\ at[k - 1] <= at[k] /\ at[k] \in Nat /\ at[k - 1] \in Nat
              /\ k # 1 => \A i \in 1 .. at[k - 1] : f[k][i] = f[k - 1][i]
          <6>1. /\ at[k] = at[k - 1] + Len(pieces[k]) /\ Len(pieces[k]) \in Nat
                /\ at[k] \in Nat /\ at[k - 1] \in Nat
                /\ k # 1 => \A i \in 1 .. at[k - 1] : f[k][i] = f[k - 1][i]
            BY <2>3, Zenon
          <6>2. at[k - 1] <= at[k]
            BY <6>1
          <6> QED BY <6>1, <6>2, Zenon
        <5>5. at[j] <= at[k] /\ \A i \in 1 .. at[j] : i \in 1 .. at[k - 1]
          BY <4>0, <5>2, <5>4, SMTT(40)
        <5> QED BY <5>2, <5>3, <5>4, <5>5, Zenon
      <4> QED BY <4>1, <4>2
    <3> QED BY <3>2
  <2>6. \A k \in 0 .. m : Kept(k)
    <3>1. \A k \in 0 .. m : k \in Good
      <4> HIDE DEF Good
      <4> QED BY <2>4, <2>5, InductionTo
    <3> HIDE DEF Kept
    <3> QED BY <3>1
  <2>7. \A k \in 1 .. m : \A i \in 1 .. Len(pieces[k]) : f[m][at[k - 1] + i] = pieces[k][i]
    <3> TAKE k \in 1 .. m
    <3> TAKE i \in 1 .. Len(pieces[k])
    <3>0. /\ at[k] = at[k - 1] + Len(pieces[k]) /\ Len(pieces[k]) \in Nat
          /\ at[k] \in Nat /\ at[k - 1] \in Nat
      BY <2>3, Zenon
    <3>1. at[k - 1] + i \in 1 .. at[k]
      BY <3>0
    <3>3. f[k][at[k - 1] + i] = pieces[k][i]
      BY <2>3, Zenon
    <3>2. \A p \in 1 .. at[k] : f[m][p] = f[k][p]
      <4>1. k \in 0 .. m /\ k # 0 /\ m \in 0 .. m
        OBVIOUS
      <4> QED BY <2>6, <4>1
    <3> QED BY <3>1, <3>2, <3>3, Zenon
  <2>8. \A j, k \in 0 .. m : j <= k => at[j] <= at[k]
    <3> TAKE j, k \in 0 .. m
    <3> HAVE j <= k
    <3>1. j \in 0 .. k
      OBVIOUS
    <3> QED BY <2>6, <3>1
  <2>9. Layout(f[m], pieces, m, at)
    BY <2>2, <2>3, <2>7, <2>8 DEF Layout
  <2>10. f[m] \in Seq(T)
    BY <2>0
  <2> QED BY <2>1, <2>9, <2>10, Zenon DEF JoinedBy
<1> QED BY <1>1, <1>2

\* The characters of a part.
LEMMA PartReads ==
  ASSUME NEW T, NEW s \in Seq(T), NEW l \in Nat, Len(s) = l, NEW a \in Nat, NEW n \in a .. l
  PROVE  /\ SubSeq(s, a + 1, n) \in Seq(T) /\ Len(SubSeq(s, a + 1, n)) = n - a
         /\ \A i \in 1 .. n - a : SubSeq(s, a + 1, n)[i] = s[a + i]
<1>1. a + 1 \in 1 .. Len(s) + 1 /\ n \in (a + 1) - 1 .. Len(s) /\ n - (a + 1) + 1 = n - a
  OBVIOUS
<1> PICK part : part = SubSeq(s, a + 1, n)
  OBVIOUS
<1>2. part \in Seq(T) /\ Len(part) = n - a /\ \A i \in 1 .. n - a : part[i] = s[(a + 1) + i - 1]
  BY <1>1, SubSeqProperties
<1>3. \A i \in 1 .. n - a : (a + 1) + i - 1 = a + i
  OBVIOUS
<1> QED BY <1>2, <1>3

\* find returns npos or the first place where the needle stands.
FirstAt(s, needle, from, len, k, at) ==
  /\ at # Npos => at \in from .. len + 1 - k /\ SubSeq(s, at, at + k - 1) = needle
  /\ \A i \in from .. len + 1 - k :
       SubSeq(s, i, i + k - 1) = needle => at # Npos /\ at <= i

\* Find is the least place, as basic_string::find has it.
LEMMA FindFinds ==
  ASSUME NEW s, NEW len \in Nat, Len(s) = len,
         NEW needle, NEW k \in Nat, Len(needle) = k, NEW from \in Nat \ {0}
  PROVE  FirstAt(s, needle, from, len, k, Find(s, needle, from))
<1> DEFINE at == {i \in from .. len + 1 - k : SubSeq(s, i, i + k - 1) = needle}
<1>1. Find(s, needle, from) = IF at = {} THEN 0 ELSE Min(at)
  BY DEF Find, Npos
<1>2. at \in SUBSET Nat /\ 0 \notin at
  OBVIOUS
<1>3. at # {} => Min(at) \in at /\ \A i \in at : Min(at) <= i
  <2> HIDE DEF at
  <2> QED BY <1>2, LeastIndex
<1>4. at # {} => Find(s, needle, from) \in at /\ Find(s, needle, from) # Npos
                 /\ \A i \in at : Find(s, needle, from) <= i
  <2> HIDE DEF at
  <2> QED BY <1>1, <1>2, <1>3 DEF Npos
<1>5. at = {} => Find(s, needle, from) = Npos
  BY <1>1 DEF Npos
<1> QED BY <1>4, <1>5 DEF FirstAt

\* Between the ends of two pieces lies a third.
LEMMA PieceOf ==
  ASSUME NEW m \in Nat, NEW at \in [0 .. m -> Nat], at[0] = 0, NEW p \in 1 .. at[m]
  PROVE  \E k \in 1 .. m : at[k - 1] < p /\ p <= at[k]
<1> DEFINE Ends == {k \in 0 .. m : p <= at[k]}
<1>1. m \in Ends /\ Ends \in SUBSET Nat /\ 0 \notin Ends
  OBVIOUS
<1>2. PICK k \in Ends : \A j \in Ends : k <= j
  <2> HIDE DEF Ends
  <2>1. Ends # {}
    BY <1>1
  <2> QED BY <1>1, <2>1, LeastIndex
<1>3. k \in 1 .. m /\ k - 1 \in 0 .. m /\ p <= at[k]
  BY <1>1, <1>2
<1>4. k - 1 \notin Ends
  BY <1>2, <1>3
<1>5. at[k - 1] < p
  BY <1>3, <1>4
<1> QED BY <1>3, <1>5

\* The keys of a map, in some order.
LEMMA KeysInOrder ==
  ASSUME NEW S, IsFiniteSet(S)
  PROVE  /\ Cardinality(S) \in Nat
         /\ SetToSeq(S) \in [1 .. Cardinality(S) -> S]
         /\ \A x \in S : \E k \in 1 .. Cardinality(S) : SetToSeq(S)[k] = x
<1> DEFINE n == Cardinality(S)
<1>1. n \in Nat /\ ExistsBijection(1 .. n, S)
  BY FS_CardinalityType
<1>2. \E f \in [1 .. n -> S] : IsInjective(f)
  BY <1>1 DEF ExistsBijection, Bijection, Injection
<1>3. SetToSeq(S) \in [1 .. n -> S] /\ IsInjective(SetToSeq(S))
  BY <1>2 DEF SetToSeq
<1> PICK keys : keys = SetToSeq(S)
  OBVIOUS
<1>4. keys \in Injection(1 .. n, S)
  BY <1>3 DEF Injection
<1>5. Cardinality(1 .. n) = n
  BY <1>1, FS_Interval
<1>6. keys \in Surjection(1 .. n, S)
  BY <1>4, <1>5, FS_Injection
<1>7. \A x \in S : \E k \in 1 .. n : keys[k] = x
  BY <1>6 DEF Surjection
<1> QED BY <1>1, <1>3, <1>7

\* f is a function.
IsMap(f) == f = [key \in DOMAIN f |-> f[key]]

\* What stands before and behind a place where two texts meet.
Halved(s, m, u, v) == SubSeq(s, 1, m) = u /\ SubSeq(s, m + 1, Len(s)) = v

\* The two halves of u \o v are u and v.
LEMMA Halves ==
  ASSUME NEW T, NEW u \in Seq(T), NEW v \in Seq(T)
  PROVE  Halved(u \o v, Len(u), u, v)
<1> PICK s, m, n : s = u \o v /\ m = Len(u) /\ n = Len(v)
  OBVIOUS
<1>0. m \in Nat /\ n \in Nat
  BY ConcatParts
<1>1. /\ s \in Seq(T) /\ Len(s) = m + n
      /\ \A i \in 1 .. m : s[i] = u[i]
      /\ \A i \in 1 .. n : s[m + i] = v[i]
  BY <1>0, ConcatParts
<1>2. /\ SubSeq(s, 0 + 1, m) \in Seq(T) /\ Len(SubSeq(s, 0 + 1, m)) = m - 0
      /\ \A i \in 1 .. m - 0 : SubSeq(s, 0 + 1, m)[i] = s[0 + i]
  <2>1. 0 \in Nat /\ m \in 0 .. m + n /\ m + n \in Nat
    BY <1>0
  <2> QED BY <1>1, <2>1, PartReads
<1>3. /\ SubSeq(s, m + 1, m + n) \in Seq(T) /\ Len(SubSeq(s, m + 1, m + n)) = (m + n) - m
      /\ \A i \in 1 .. (m + n) - m : SubSeq(s, m + 1, m + n)[i] = s[m + i]
  <2>1. m \in Nat /\ m + n \in m .. m + n /\ m + n \in Nat
    BY <1>0
  <2> QED BY <1>1, <2>1, PartReads
<1>4. 0 + 1 = 1 /\ m - 0 = m /\ (m + n) - m = n /\ \A i \in 1 .. m : 0 + i = i
  BY <1>0
<1>5. SubSeq(s, 1, m) = u
  <2> PICK part : part = SubSeq(s, 1, m)
    OBVIOUS
  <2>1. part \in Seq(T) /\ Len(part) = Len(u) /\ \A i \in 1 .. Len(part) : part[i] = u[i]
    BY <1>1, <1>2, <1>4
  <2> QED BY <2>1, SeqEqual
<1>6. SubSeq(s, m + 1, m + n) = v
  <2> PICK part : part = SubSeq(s, m + 1, m + n)
    OBVIOUS
  <2>1. part \in Seq(T) /\ Len(part) = Len(v) /\ \A i \in 1 .. Len(part) : part[i] = v[i]
    BY <1>1, <1>3, <1>4
  <2> QED BY <2>1, SeqEqual
<1> QED BY <1>1, <1>5, <1>6 DEF Halved

\* c is not in t.
Lacks(t, c) == \A i \in 1 .. Len(t) : t[i] # c

\* A part of length one is a character.
LEMMA OneCharacter ==
  ASSUME NEW T, NEW s \in Seq(T), NEW i \in 1 .. Len(s), NEW c
  PROVE  SubSeq(s, i, i + 1 - 1) = <<c>> <=> s[i] = c
<1>1. i + 1 - 1 = i /\ s[i] \in T
  OBVIOUS
<1>2. SubSeq(s, i, i) = <<s[i]>>
  <2>1. /\ SubSeq(s, i, i) \in Seq(T) /\ Len(SubSeq(s, i, i)) = 1
        /\ SubSeq(s, i, i)[1] = s[i]
    BY <1>1
  <2>2. <<s[i]>> \in Seq(T) /\ Len(<<s[i]>>) = 1 /\ <<s[i]>>[1] = s[i]
    BY <1>1
  <2>3. \A j \in 1 .. 1 : SubSeq(s, i, i)[j] = <<s[i]>>[j]
    BY <2>1, <2>2
  <2> QED BY <2>1, <2>2, <2>3, SeqEqual
<1> QED BY <1>1, <1>2

\* Where Find looks for one character.
FindsOne(s, c, from, at) ==
  /\ at \in Nat
  /\ at # 0 => at \in from .. Len(s) /\ s[at] = c
  /\ \A i \in from .. Len(s) : s[i] = c => at # 0 /\ at <= i

\* Find for a needle of one character.
LEMMA FindOne ==
  ASSUME NEW T, NEW s \in Seq(T), NEW c, NEW from \in Nat \ {0}
  PROVE  FindsOne(s, c, from, Find(s, <<c>>, from))
<1> PICK at : at = Find(s, <<c>>, from)
  OBVIOUS
<1> PICK len \in Nat : len = Len(s)
  OBVIOUS
<1>0. Len(<<c>>) = 1 /\ 1 \in Nat /\ len + 1 - 1 = len
  OBVIOUS
<1>1. FirstAt(s, <<c>>, from, len, 1, at)
  BY <1>0, FindFinds
<1>2. \A i \in from .. len : SubSeq(s, i, i + 1 - 1) = <<c>> <=> s[i] = c
  <2> TAKE i \in from .. len
  <2>1. i \in 1 .. Len(s)
    OBVIOUS
  <2> QED BY <2>1, OneCharacter
<1>3. at # 0 => at \in from .. len /\ s[at] = c
  BY <1>0, <1>1, <1>2 DEF FirstAt, Npos
<1>4. \A i \in from .. len : s[i] = c => at # 0 /\ at <= i
  BY <1>0, <1>1, <1>2 DEF FirstAt, Npos
<1> QED BY <1>3, <1>4 DEF FindsOne

\* Cutting at the first c behind a: there is one behind b ...
CutAt(s, at, a, b, c, d) ==
  /\ at = Len(a) + Len(b) + 1 /\ at # 0
  /\ Before(s, at) = a \o b
  /\ SubSeq(s, Len(a) + 1, at - 1) = b
  /\ From(s, at) = <<c>> \o d
  /\ From(s, at + 1) = d

\* The cut at c separates what was put together around c.
LEMMA CutFound ==
  ASSUME NEW T, NEW a \in Seq(T), NEW b \in Seq(T), NEW d \in Seq(T), NEW c \in T, Lacks(b, c)
  PROVE  CutAt((a \o b) \o (<<c>> \o d), Find((a \o b) \o (<<c>> \o d), <<c>>, Len(a) + 1),
               a, b, c, d)
<1> PICK s, l, at : /\ s = (a \o b) \o (<<c>> \o d) /\ l = Len(a)
                    /\ at = Find(s, <<c>>, l + 1)
  OBVIOUS
<1> PICK m, n, ab, cd : m = Len(b) /\ n = Len(d) /\ ab = a \o b /\ cd = <<c>> \o d
  OBVIOUS
<1>0. l \in Nat /\ m \in Nat /\ n \in Nat /\ ab \in Seq(T) /\ cd \in Seq(T) /\ s = ab \o cd
  <2>1. <<c>> \in Seq(T)
    OBVIOUS
  <2> QED BY <2>1, ConcatParts
<1>1. /\ Len(ab) = l + m
      /\ \A i \in 1 .. l : ab[i] = a[i]
      /\ \A i \in 1 .. m : ab[l + i] = b[i]
  BY <1>0, ConcatParts
<1>2. Len(cd) = 1 + n /\ cd[1] = c
  BY <1>0, ConcatParts
<1>3. /\ s \in Seq(T) /\ Len(s) = (l + m) + (1 + n)
      /\ \A i \in 1 .. l + m : s[i] = ab[i]
      /\ \A i \in 1 .. 1 + n : s[(l + m) + i] = cd[i]
  BY <1>0, <1>1, <1>2, ConcatParts
<1>4. s[l + m + 1] = c
  BY <1>0, <1>2, <1>3
<1>5. \A i \in l + 1 .. l + m : s[i] # c
  <2> TAKE i \in l + 1 .. l + m
  <2>1. i - l \in 1 .. m /\ i = l + (i - l) /\ i \in 1 .. l + m
    BY <1>0
  <2>2. s[i] = b[i - l]
    BY <1>1, <1>3, <2>1
  <2> QED BY <2>1, <2>2 DEF Lacks
<1>6. FindsOne(s, c, l + 1, at)
  <2>1. l + 1 \in Nat \ {0}
    BY <1>0
  <2> QED BY <1>3, <2>1, FindOne, Zenon
<1>7. at = l + m + 1
  <2>1. l + m + 1 \in l + 1 .. Len(s)
    BY <1>0, <1>3
  <2>2. at # 0 /\ at <= l + m + 1 /\ at \in l + 1 .. Len(s) /\ s[at] = c
    BY <1>4, <1>6, <2>1 DEF FindsOne
  <2> QED BY <1>5, <2>2
<1>8. /\ SubSeq(s, 1, l + m) = ab
      /\ SubSeq(s, (l + m) + 1, Len(s)) = cd
  <2>1. l + m = Len(ab)
    BY <1>1
  <2>2. Halved(s, l + m, ab, cd)
    BY <1>0, <2>1, Halves, Zenon
  <2> QED BY <2>2, Zenon DEF Halved
<1>9. SubSeq(s, l + 1, l + m) = b
  <2>1. /\ SubSeq(s, l + 1, l + m) \in Seq(T) /\ Len(SubSeq(s, l + 1, l + m)) = (l + m) - l
        /\ \A i \in 1 .. (l + m) - l : SubSeq(s, l + 1, l + m)[i] = s[l + i]
    <3>1. l + m \in l .. (l + m) + (1 + n) /\ (l + m) + (1 + n) \in Nat
      BY <1>0
    <3> QED BY <1>0, <1>3, <3>1, PartReads
  <2> PICK part : part = SubSeq(s, l + 1, l + m)
    OBVIOUS
  <2>2. \A i \in 1 .. m : s[l + i] = b[i]
    <3> TAKE i \in 1 .. m
    <3>1. l + i \in 1 .. l + m
      BY <1>0
    <3> QED BY <1>1, <1>3, <3>1
  <2>3. part \in Seq(T) /\ Len(part) = Len(b) /\ \A i \in 1 .. Len(part) : part[i] = b[i]
    BY <1>0, <2>1, <2>2, SMTT(40)
  <2> QED BY <2>3, SeqEqual
<1>10. SubSeq(s, (l + m + 1) + 1, Len(s)) = d
  <2> PICK abc : abc = ab \o <<c>>
    OBVIOUS
  <2>1. <<c>> \in Seq(T) /\ Len(<<c>>) = 1
    OBVIOUS
  <2>2. abc \in Seq(T) /\ l + m + 1 = Len(abc)
    BY <1>0, <1>1, <2>1, ConcatParts
  <2>3. s = abc \o d
    <3> PICK one : one = <<c>>
      OBVIOUS
    <3>1. one \in Seq(T)
      BY <2>1
    <3>2. (ab \o one) \o d = ab \o (one \o d)
      BY <1>0, <3>1, ConcatAssociative
    <3> QED BY <1>0, <3>2, Zenon
  <2>4. Halved(s, l + m + 1, abc, d)
    BY <2>2, <2>3, Halves, Zenon
  <2> QED BY <2>4, Zenon DEF Halved
<1>11. at - 1 = l + m
  BY <1>0, <1>7
<1>12. at = l + Len(b) + 1 /\ at # 0
  BY <1>0, <1>7
<1> QED BY <1>0, <1>3, <1>7, <1>8, <1>9, <1>10, <1>11, <1>12, Zenon DEF Before, From, CutAt

\* ... or there is none.
NotAt(s, at, from, b) == at = 0 /\ From(s, from) = b

\* Without c nothing is cut.
LEMMA CutMissing ==
  ASSUME NEW T, NEW a \in Seq(T), NEW b \in Seq(T), NEW c, Lacks(b, c)
  PROVE  NotAt(a \o b, Find(a \o b, <<c>>, Len(a) + 1), Len(a) + 1, b)
<1> PICK s, l : s = a \o b /\ l = Len(a)
  OBVIOUS
<1> PICK m, at : m = Len(b) /\ at = Find(s, <<c>>, l + 1)
  OBVIOUS
<1>0. l \in Nat /\ m \in Nat
  BY ConcatParts
<1>1. s \in Seq(T) /\ Len(s) = l + m /\ \A i \in 1 .. m : s[l + i] = b[i]
  BY ConcatParts
<1>2. \A i \in l + 1 .. l + m : s[i] # c
  <2> TAKE i \in l + 1 .. l + m
  <2>1. i - l \in 1 .. m /\ i = l + (i - l)
    BY <1>0
  <2>2. s[i] = b[i - l]
    BY <1>1, <2>1
  <2> QED BY <2>1, <2>2 DEF Lacks
<1>3. FindsOne(s, c, l + 1, at)
  <2>1. l + 1 \in Nat \ {0}
    BY <1>0
  <2> QED BY <1>1, <2>1, FindOne, Zenon
<1>4. SubSeq(s, l + 1, Len(s)) = b
  <2>1. Halved(s, l, a, b)
    BY Halves, Zenon
  <2> QED BY <2>1, Zenon DEF Halved
<1>5. at = 0
  BY <1>1, <1>2, <1>3 DEF FindsOne
<1> QED BY <1>4, <1>5, Zenon DEF From, NotAt

\* A character is in neither part or in the whole.
LEMMA ConcatLacks ==
  ASSUME NEW T, NEW a \in Seq(T), NEW b \in Seq(T), NEW c
  PROVE  Lacks(a \o b, c) <=> Lacks(a, c) /\ Lacks(b, c)
<1> PICK l \in Nat, m \in Nat : l = Len(a) /\ m = Len(b)
  BY ConcatParts
<1> PICK s : s = a \o b
  OBVIOUS
<1>1. /\ Len(s) = l + m /\ \A i \in 1 .. l : s[i] = a[i]
      /\ \A i \in 1 .. m : s[l + i] = b[i]
  BY ConcatParts
<1>2. ASSUME Lacks(s, c) PROVE Lacks(a, c) /\ Lacks(b, c)
  <2>1. \A i \in 1 .. l : i \in 1 .. l + m
    OBVIOUS
  <2>2. \A i \in 1 .. m : l + i \in 1 .. l + m
    OBVIOUS
  <2> QED BY <1>1, <1>2, <2>1, <2>2 DEF Lacks
<1>3. ASSUME Lacks(a, c), Lacks(b, c), NEW i \in 1 .. Len(s) PROVE s[i] # c
  <2>1. CASE i \in 1 .. l
    BY <1>1, <1>3, <2>1 DEF Lacks
  <2>2. CASE i \notin 1 .. l
    <3>1. i - l \in 1 .. m /\ i = l + (i - l)
      BY <1>1, <2>2
    <3>2. s[i] = b[i - l]
      BY <1>1, <3>1
    <3> QED BY <1>3, <3>1, <3>2 DEF Lacks
  <2> QED BY <2>1, <2>2
<1> QED BY <1>2, <1>3 DEF Lacks

\* A text is its first character and the rest ...
LEMMA HeadFirst ==
  ASSUME NEW T, NEW s \in Seq(T), s # <<>>
  PROVE  /\ Head(s) = s[1] /\ Head(s) \in T /\ Tail(s) \in Seq(T)
         /\ s = <<Head(s)>> \o Tail(s)
<1>1. Head(s) = s[1] /\ Head(s) \in T /\ Tail(s) \in Seq(T) /\ Len(Tail(s)) = Len(s) - 1
      /\ \A i \in 1 .. Len(Tail(s)) : Tail(s)[i] = s[i + 1]
  BY HeadTailProperties
<1> PICK n, one, rest : n = Len(s) /\ one = <<Head(s)>> /\ rest = Tail(s)
  OBVIOUS
<1>2. n \in Nat \ {0} /\ one \in Seq(T) /\ Len(one) = 1 /\ one[1] = s[1]
  BY <1>1
<1>3. /\ one \o rest \in Seq(T) /\ Len(one \o rest) = 1 + (n - 1)
      /\ \A i \in 1 .. 1 : (one \o rest)[i] = one[i]
      /\ \A i \in 1 .. n - 1 : (one \o rest)[1 + i] = rest[i]
  BY <1>1, <1>2, ConcatParts
<1>4. ASSUME NEW i \in 1 .. n PROVE s[i] = (one \o rest)[i]
  <2>1. CASE i = 1
    BY <1>2, <1>3, <2>1
  <2>2. CASE i # 1
    <3>1. i - 1 \in 1 .. n - 1 /\ 1 + (i - 1) = i /\ (i - 1) + 1 = i
      BY <1>2, <2>2
    <3> QED BY <1>1, <1>3, <3>1
  <2> QED BY <2>1, <2>2
<1>5. s = one \o rest
  <2> PICK t : t = one \o rest
    OBVIOUS
  <2>1. t \in Seq(T) /\ Len(s) = Len(t) /\ \A i \in 1 .. Len(s) : s[i] = t[i]
    BY <1>2, <1>3, <1>4
  <2> QED BY <2>1, SeqEqual
<1> QED BY <1>1, <1>5

\* ... and all but its last character and that one.
LEMMA LastLast ==
  ASSUME NEW T, NEW s \in Seq(T), s # <<>>
  PROVE  /\ Last(s) = s[Len(s)] /\ Last(s) \in T /\ Front(s) \in Seq(T)
         /\ s = Front(s) \o <<Last(s)>> /\ Len(s) = Len(Front(s)) + 1
<1> PICK n, part : n = Len(s) - 1 /\ part = SubSeq(s, 1, n)
  OBVIOUS
<1>1. n \in Nat /\ Len(s) = n + 1 /\ s[n + 1] \in T
  OBVIOUS
<1>2. part \in Seq(T) /\ Len(part) = n /\ \A i \in 1 .. n : part[i] = s[i]
  <2>1. 1 \in 1 .. Len(s) + 1 /\ n \in 1 - 1 .. Len(s)
    BY <1>1
  <2>2. \A i \in 1 .. n : 1 + i - 1 = i
    BY <1>1
  <2>3. \A i \in 1 .. n : s[i] \in T
    BY <1>1
  <2> QED BY <1>1, <2>1, <2>2, <2>3, SubSeqProperties
<1>3. Front(s) = part /\ Last(s) = s[n + 1]
  BY <1>1 DEF Front, Last
<1> PICK one, t : one = <<s[n + 1]>> /\ t = part \o one
  OBVIOUS
<1>4. one \in Seq(T) /\ Len(one) = 1 /\ one[1] = s[n + 1]
  BY <1>1
<1>5. /\ t \in Seq(T) /\ Len(t) = n + 1
      /\ \A i \in 1 .. n : t[i] = part[i]
      /\ \A i \in 1 .. 1 : t[n + i] = one[i]
  BY <1>1, <1>2, <1>4, ConcatParts
<1>6. \A i \in 1 .. n + 1 : s[i] = t[i]
  <2> TAKE i \in 1 .. n + 1
  <2>1. i \in 1 .. n \/ i = n + 1
    BY <1>1
  <2> QED BY <1>2, <1>4, <1>5, <2>1
<1>7. s = t
  BY <1>1, <1>5, <1>6, SeqEqual
<1> QED BY <1>1, <1>2, <1>3, <1>7

\* Lacks in the words of the model.
LEMMA LacksOrHas ==
  ASSUME NEW T, NEW s \in Seq(T), NEW c
  PROVE  c \notin Range(s) <=> Lacks(s, c)
<1>1. DOMAIN s = 1 .. Len(s)
  OBVIOUS
<1> QED BY <1>1 DEF Range, Lacks

\* What is in no piece is not in their whole.
LEMMA FlattenLacks ==
  ASSUME NEW T, NEW m \in Nat, NEW pieces \in [1 .. m -> Seq(T)], NEW c,
         \A k \in 1 .. m : Lacks(pieces[k], c)
  PROVE  Lacks(FlattenSeq(pieces), c)
<1> PICK flat : flat = FlattenSeq(pieces)
  OBVIOUS
<1>1. PICK at : Layout(flat, pieces, m, at)
  BY FlattenLayout
<1>2. ASSUME NEW p \in 1 .. Len(flat) PROVE flat[p] # c
  <2>1. at \in [0 .. m -> Nat] /\ at[0] = 0 /\ at[m] = Len(flat)
    BY <1>1 DEF Layout
  <2>2. PICK k \in 1 .. m : at[k - 1] < p /\ p <= at[k]
    BY <2>1, PieceOf
  <2>3. /\ at[k] = at[k - 1] + Len(pieces[k])
        /\ \A i \in 1 .. Len(pieces[k]) : flat[at[k - 1] + i] = pieces[k][i]
    BY <1>1 DEF Layout
  <2>4. at[k - 1] \in Nat /\ Len(pieces[k]) \in Nat /\ at[k] \in Nat
    <3>1. pieces[k] \in Seq(T)
      OBVIOUS
    <3> QED BY <2>1, <3>1
  <2>5. p - at[k - 1] \in 1 .. Len(pieces[k]) /\ at[k - 1] + (p - at[k - 1]) = p
    BY <2>1, <2>2, <2>3, <2>4
  <2>6. flat[p] = pieces[k][p - at[k - 1]]
    BY <2>3, <2>5
  <2> QED BY <2>5, <2>6 DEF Lacks
<1> QED BY <1>2 DEF Lacks

\* A character is a text.
LEMMA OneOf ==
  ASSUME NEW T, NEW c \in T
  PROVE  <<c>> \in Seq(T) /\ Len(<<c>>) = 1 /\ <<c>>[1] = c
OBVIOUS

\* The empty text adds nothing in front.
LEMMA EmptyFirst ==
  ASSUME NEW T, NEW s \in Seq(T)
  PROVE  <<>> \in Seq(T) /\ 0 = Len(<<>>) /\ s = <<>> \o s
BY ConcatEmptySeq DEF Lacks

\* Cutting at the first c of a text.
FirstAtC(s, at, b, c, d) ==
  at # 0 /\ at = Len(b) + 1 /\ Before(s, at) = b /\ From(s, at) = <<c>> \o d /\ From(s, at + 1) = d

\* The cut at the first c, if there is one ...
LEMMA FirstFound ==
  ASSUME NEW T, NEW b \in Seq(T), NEW d \in Seq(T), NEW c \in T, Lacks(b, c)
  PROVE  FirstAtC(b \o (<<c>> \o d), Find(b \o (<<c>> \o d), <<c>>, 1), b, c, d)
<1> PICK none, s, at : none = <<>> /\ s = b \o (<<c>> \o d) /\ at = Find(s, <<c>>, 1)
  OBVIOUS
<1>1. none \in Seq(T) /\ Len(none) = 0 /\ none \o b = b /\ 0 + 1 = 1 /\ Len(b) \in Nat
  BY EmptyFirst
<1>2. s = (none \o b) \o (<<c>> \o d) /\ at = Find(s, <<c>>, Len(none) + 1)
  BY <1>1, Zenon
<1>3. CutAt(s, at, none, b, c, d)
  BY <1>1, <1>2, CutFound, Zenon
<1>4. at = 0 + Len(b) + 1
  BY <1>1, <1>3, Zenon DEF CutAt
<1>5. at = Len(b) + 1
  BY <1>1, <1>4
<1> QED BY <1>1, <1>3, <1>5, Zenon DEF CutAt, FirstAtC

\* ... and if there is none.
LEMMA FirstMissing ==
  ASSUME NEW T, NEW s \in Seq(T), NEW c, Lacks(s, c)
  PROVE  Find(s, <<c>>, 1) = 0 /\ From(s, 1) = s
<1> PICK none : none = <<>>
  OBVIOUS
<1>1. none \in Seq(T) /\ Len(none) = 0 /\ s = none \o s /\ 1 = Len(none) + 1
  BY EmptyFirst
<1>2. NotAt(s, Find(s, <<c>>, Len(none) + 1), Len(none) + 1, s)
  BY <1>1, CutMissing, Zenon
<1>3. NotAt(s, Find(s, <<c>>, 1), 1, s)
  BY <1>1, <1>2, Zenon
<1> QED BY <1>3 DEF NotAt

\* t is the part of s behind place a up to place n.
Part(t, s, a, n, T) == t \in Seq(T) /\ Len(t) = n - a /\ \A i \in 1 .. n - a : t[i] = s[a + i]

\* SubSeq gives that part.
LEMMA PartIs ==
  ASSUME NEW T, NEW s \in Seq(T), NEW a \in Nat, NEW n \in a .. Len(s)
  PROVE  Part(SubSeq(s, a + 1, n), s, a, n, T)
<1>1. PICK l \in Nat : l = Len(s)
  OBVIOUS
<1> QED BY <1>1, PartReads DEF Part

\* Chained texts may be regrouped.
Regroups(a, b, c) == (a \o b) \o c = a \o (b \o c)

\* Concatenation is associative.
LEMMA Regroup ==
  ASSUME NEW T, NEW a \in Seq(T), NEW b \in Seq(T), NEW c \in Seq(T)
  PROVE  Regroups(a, b, c)
BY ConcatAssociative DEF Regroups

\* What is known of s, if it is a followed by b.
Chain(s, a, b, T) ==
  /\ s \in Seq(T) /\ Len(s) = Len(a) + Len(b) /\ Len(s) \in Nat /\ Len(a) \in Nat /\ Len(b) \in Nat
  /\ \A i \in 1 .. Len(a) : s[i] = a[i]
  /\ \A i \in 1 .. Len(b) : s[Len(a) + i] = b[i]

\* A concatenation is such a chain.
LEMMA Chained ==
  ASSUME NEW T, NEW a \in Seq(T), NEW b \in Seq(T)
  PROVE  Chain(a \o b, a, b, T)
BY ConcatParts DEF Chain

\* The first character of a text that was put together.
LEMMA FirstOf ==
  ASSUME NEW T, NEW host \in Seq(T), NEW port \in Seq(T), host \o port # <<>>
  PROVE  (host \o port)[1] = IF host = <<>> THEN Head(port) ELSE Head(host)
<1>1. CASE host = <<>>
  <2>1. host \o port = port
    BY <1>1, ConcatEmptySeq
  <2>2. port # <<>>
    BY <2>1, Zenon
  <2> QED BY <1>1, <2>1, <2>2, HeadFirst, Zenon
<1>2. CASE host # <<>>
  <2>1. Chain(host \o port, host, port, T)
    BY Chained, Zenon
  <2>2. 1 \in 1 .. Len(host)
    BY <1>2, EmptySeq
  <2>3. (host \o port)[1] = host[1]
    BY <2>1, <2>2, Zenon DEF Chain
  <2> QED BY <1>2, <2>3, HeadFirst, Zenon
<1> QED BY <1>1, <1>2, Zenon

\* One character in front of or behind a text.
LEMMA HeadLacks ==
  ASSUME NEW T, NEW s \in Seq(T), NEW c, s # <<>> => Head(s) # c /\ Lacks(Tail(s), c)
  PROVE  Lacks(s, c)
<1>1. CASE s = <<>>
  BY <1>1 DEF Lacks
<1>2. CASE s # <<>>
  <2> PICK d, one : d = Tail(s) /\ one = <<Head(s)>>
    OBVIOUS
  <2>1. d \in Seq(T) /\ Head(s) \in T /\ s = one \o d
    BY <1>2, HeadFirst, Zenon
  <2>2. one \in Seq(T) /\ Lacks(one, c)
    BY <1>2, <2>1 DEF Lacks
  <2>3. Lacks(one \o d, c) <=> Lacks(one, c) /\ Lacks(d, c)
    BY <2>1, <2>2, ConcatLacks, Zenon
  <2> QED BY <1>2, <2>1, <2>2, <2>3, Zenon
<1> QED BY <1>1, <1>2

\* The same for a character at the end.
LEMMA LastLacks ==
  ASSUME NEW T, NEW s \in Seq(T), NEW c, s # <<>> => Last(s) # c /\ Lacks(Front(s), c)
  PROVE  Lacks(s, c)
<1>1. CASE s = <<>>
  BY <1>1 DEF Lacks
<1>2. CASE s # <<>>
  <2> PICK f, one : f = Front(s) /\ one = <<Last(s)>>
    OBVIOUS
  <2>1. f \in Seq(T) /\ Last(s) \in T /\ s = f \o one
    BY <1>2, LastLast, Zenon
  <2>2. one \in Seq(T) /\ Lacks(one, c)
    BY <1>2, <2>1 DEF Lacks
  <2>3. Lacks(f \o one, c) <=> Lacks(f, c) /\ Lacks(one, c)
    BY <2>1, <2>2, ConcatLacks, Zenon
  <2> QED BY <1>2, <2>1, <2>2, <2>3, Zenon
<1> QED BY <1>1, <1>2

\* Texts make texts.
LEMMA ConcatType ==
  ASSUME NEW T, NEW a \in Seq(T), NEW b \in Seq(T)
  PROVE  a \o b \in Seq(T)
OBVIOUS

\* toString's text is made of them.
FiveRegroup(a, b, c, d, e) ==
  (((a \o b) \o c) \o d) \o e = a \o (((b \o c) \o d) \o e)

\* Chained texts regrouped behind the first of them.
LEMMA FiveParts ==
  ASSUME NEW T, NEW a \in Seq(T), NEW b \in Seq(T), NEW c \in Seq(T),
         NEW d \in Seq(T), NEW e \in Seq(T)
  PROVE  FiveRegroup(a, b, c, d, e)
<1> PICK bc, bcd : bc = b \o c /\ bcd = bc \o d
  OBVIOUS
<1>1. bc \in Seq(T)
  BY ConcatType, Zenon
<1>2. bcd \in Seq(T)
  BY <1>1, ConcatType, Zenon
<1>3. (a \o b) \o c = a \o bc
  <2>1. Regroups(a, b, c)
    BY Regroup, Zenon
  <2> QED BY <2>1, Zenon DEF Regroups
<1>4. (a \o bc) \o d = a \o bcd
  <2>1. Regroups(a, bc, d)
    BY <1>1, Regroup, Zenon
  <2> QED BY <2>1, Zenon DEF Regroups
<1>5. (a \o bcd) \o e = a \o (bcd \o e)
  <2>1. Regroups(a, bcd, e)
    BY <1>2, Regroup, Zenon
  <2> QED BY <2>1, Zenon DEF Regroups
<1> QED BY <1>3, <1>4, <1>5, Zenon DEF FiveRegroup

\* A text without a slash does not begin with one.
LEMMA SlashFirst ==
  ASSUME NEW T, NEW s \in Seq(T), Lacks(s, "/"), s # <<>>
  PROVE  Head(s) # "/"
BY HeadFirst, EmptySeq DEF Lacks

\* Only empty texts make an empty one.
LEMMA BothEmpty ==
  ASSUME NEW T, NEW s \in Seq(T), NEW t \in Seq(T), s \o t = <<>>
  PROVE  s = <<>> /\ t = <<>>
OBVIOUS

\* The first character of a chained text.
StartsAs(s, a, b) == s[1] = IF a = <<>> THEN Head(b) ELSE Head(a)

\* The lemma FirstOf once more, as a predicate.
LEMMA Starts ==
  ASSUME NEW T, NEW a \in Seq(T), NEW b \in Seq(T), a \o b # <<>>
  PROVE  StartsAs(a \o b, a, b)
BY FirstOf DEF StartsAs
================================================================================
