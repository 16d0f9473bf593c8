----------------------------- MODULE ExchangeProofs -----------------------------
(***************************************************************************)
(* The route table only grows, so answers are final and a search that runs *)
(* beside registrations finds what it would have found without them; every *)
(* request is answered once, whatever throws; its handler sees the parts   *)
(* of its path; and resources and groups are answered.  All for every set  *)
(* of requests, registrations and threads, and whatever regular            *)
(* expressions match.                                                      *)
(***************************************************************************)
EXTENDS Exchange, SequenceTheorems, Integers, FiniteSetTheorems, WellFoundedInduction, TLAPS

(***************************************************************************)
(* Numbers and sequences.                                                  *)
(***************************************************************************)
\* A non-empty set of natural numbers has a least element.
LEMMA LeastIndex ==
  ASSUME NEW S \in SUBSET Nat, S # {}
  PROVE  Min(S) \in S /\ \A n \in S : Min(S) <= n
<1>1. PICK m \in S : \A n \in S : <<n, m>> \notin OpToRel(<, Nat)
  BY WFMin, NatLessThanWellFounded, Zenon
<1>2. \A n \in S : ~ (n < m)
  BY <1>1, Zenon DEF OpToRel
<1>3. \A n \in S : m <= n
  BY <1>2
<1> QED BY <1>3 DEF Min

\* What holds of 0 and of every number behind one it holds of, up to n.
LEMMA InductionTo ==
  ASSUME NEW n \in Nat, NEW S, 0 \in S, \A i \in 1 .. n : i - 1 \in S => i \in S
  PROVE  \A i \in 0 .. n : i \in S
<1> DEFINE Missing == {i \in Nat : i <= n /\ i \notin S}
<1> SUFFICES ASSUME Missing # {} PROVE FALSE
  BY DEF Missing
<1>1. Missing \in SUBSET Nat
  OBVIOUS
<1>2. PICK m \in Missing : \A i \in Missing : m <= i
  <2> HIDE DEF Missing
  <2> QED BY <1>1, LeastIndex
<1>3. m \in 1 .. n /\ m \notin S
  BY <1>2
<1>4. m - 1 \in S
  BY <1>2, <1>3
<1> QED BY <1>3, <1>4

\* A bounded set of natural numbers has a greatest element.
LEMMA GreatestIndex ==
  ASSUME NEW n \in Nat, NEW S \in SUBSET (0 .. n), S # {}
  PROVE  Max(S) \in S /\ \A i \in S : i <= Max(S)
<1> DEFINE Below == {n - i : i \in S}
<1>1. Below \in SUBSET Nat /\ Below # {}
  <2>1. \A i \in S : i \in 0 .. n
    OBVIOUS
  <2>2. \A i \in S : n - i \in Nat
    BY <2>1
  <2> QED BY <2>2
<1>2. PICK m \in Below : \A i \in Below : m <= i
  <2> HIDE DEF Below
  <2> QED BY <1>1, LeastIndex
<1>3. PICK k \in S : m = n - k
  BY <1>2
<1>4. \A i \in S : i <= k
  <2> TAKE i \in S
  <2>1. n - i \in Below
    OBVIOUS
  <2> QED BY <1>2, <1>3, <2>1
<1> QED BY <1>4 DEF Max

LEMMA MaxOfInterval ==
  ASSUME NEW n \in Nat, n # 0
  PROVE  Max(1 .. n) = n /\ (1 .. n) \ {n} = 1 .. n - 1
<1>1. n \in 1 .. n /\ (1 .. n) \in SUBSET (0 .. n)
  OBVIOUS
<1>2. Max(1 .. n) \in 1 .. n /\ n <= Max(1 .. n)
  BY <1>1, GreatestIndex
<1> QED BY <1>2

LEMMA OneElement ==
  ASSUME NEW S, NEW a \in S
  PROVE  <<a>> \in Seq(S)
OBVIOUS

LEMMA FourElements ==
  ASSUME NEW S, NEW a \in S, NEW b \in S, NEW c \in S, NEW d \in S
  PROVE  <<a, b, c, d>> \in Seq(S)
OBVIOUS

LEMMA AppendToTuple ==
  ASSUME NEW a, NEW b, NEW c
  PROVE  /\ Append(<<>>, a) = <<a>> /\ <<a>> # <<>>
         /\ Append(<<a>>, b) = <<a, b>>
         /\ Append(<<a, b>>, c) = <<a, b, c>> /\ <<a, b, c>> # <<>>
<1> DEFINE S == {a, b, c}
<1>1. /\ Append(<<>>, a) = <<a>> /\ <<a>> # <<>>
      /\ <<a, b, c>> # <<>>
  OBVIOUS
<1>2. Append(<<a>>, b) = <<a, b>>
  <2>1. Append(<<a>>, b) \in Seq(S) /\ <<a, b>> \in Seq(S)
    OBVIOUS
  <2>2. Len(<<a, b>>) = 2 /\ Len(Append(<<a>>, b)) = 2
    OBVIOUS
  <2>3. \A i \in 1 .. 2 : Append(<<a>>, b)[i] = <<a, b>>[i]
    OBVIOUS
  <2> QED BY <2>1, <2>2, <2>3, SeqEqual
<1>3. Append(<<a, b>>, c) = <<a, b, c>>
  <2>1. Append(<<a, b>>, c) \in Seq(S) /\ <<a, b, c>> \in Seq(S)
    OBVIOUS
  <2>2. Len(<<a, b, c>>) = 3 /\ Len(Append(<<a, b>>, c)) = 3
    OBVIOUS
  <2>3. \A i \in 1 .. 3 : Append(<<a, b>>, c)[i] = <<a, b, c>>[i]
    OBVIOUS
  <2> QED BY <2>1, <2>2, <2>3, SeqEqual
<1> QED BY <1>1, <1>2, <1>3

\* IsSuffix is defined by turning both sequences round.
LEMMA ConcatHasSuffix ==
  ASSUME NEW S, NEW s \in Seq(S), NEW t \in Seq(S)
  PROVE  IsSuffix(t, s \o t)
<1>1. PICK m \in Nat, n \in Nat, u \in Seq(S) :
        /\ m = Len(s) /\ n = Len(t) /\ u = s \o t /\ Len(u) = m + n
        /\ \A i \in 1 .. n : u[m + i] = t[i]
  <2>1. /\ Len(s) \in Nat /\ Len(t) \in Nat /\ s \o t \in Seq(S)
        /\ Len(s \o t) = Len(s) + Len(t)
        /\ \A i \in 1 .. Len(t) : (s \o t)[Len(s) + i] = t[i]
    OBVIOUS
  <2> QED BY <2>1, Zenon
<1>2. PICK a \in Seq(S), b \in Seq(S) :
        /\ a = Reverse(t) /\ b = Reverse(u) /\ Len(a) = n /\ Len(b) = m + n
        /\ \A i \in 1 .. n : a[i] = t[(n - i) + 1]
        /\ \A i \in 1 .. m + n : b[i] = u[((m + n) - i) + 1]
  <2>1. Reverse(t) = [i \in 1 .. n |-> t[(n - i) + 1]]
    BY <1>1 DEF Reverse
  <2>2. Reverse(u) = [i \in 1 .. m + n |-> u[((m + n) - i) + 1]]
    BY <1>1 DEF Reverse
  <2>3. \A i \in 1 .. n : t[(n - i) + 1] \in S
    BY <1>1
  <2>4. \A i \in 1 .. m + n : u[((m + n) - i) + 1] \in S
    BY <1>1
  <2>5. Reverse(t) \in Seq(S) /\ Len(Reverse(t)) = n
    BY <1>1, <2>1, <2>3
  <2>6. Reverse(u) \in Seq(S) /\ Len(Reverse(u)) = m + n
    BY <1>1, <2>2, <2>4
  <2>7. PICK a \in Seq(S) :
          a = Reverse(t) /\ Len(a) = n /\ \A i \in 1 .. n : a[i] = t[(n - i) + 1]
    BY <2>1, <2>5
  <2>8. PICK b \in Seq(S) :
          b = Reverse(u) /\ Len(b) = m + n /\ \A i \in 1 .. m + n : b[i] = u[((m + n) - i) + 1]
    BY <2>2, <2>6
  <2> QED BY <2>7, <2>8
<1>3. \A i \in 1 .. n : a[i] = b[i]
  <2> SUFFICES ASSUME NEW i \in 1 .. n PROVE a[i] = b[i]
    OBVIOUS
  <2>1. /\ ((m + n) - i) + 1 = m + ((n - i) + 1) /\ (n - i) + 1 \in 1 .. n
        /\ i \in 1 .. m + n
    BY <1>1
  <2> QED BY <1>1, <1>2, <2>1
<1>4. SubSeq(a, 1, n) = SubSeq(b, 1, n)
  BY <1>1, <1>2, <1>3
<1> QED BY <1>1, <1>2, <1>4 DEF IsSuffix, IsPrefix

LEMMA ConcatAppend ==
  ASSUME NEW S, NEW s \in Seq(S), NEW t \in Seq(S), NEW e \in S
  PROVE  s \o Append(t, e) = Append(s \o t, e)
OBVIOUS

\* The function by which MapThenFoldSet defines FoldLeft ...
IsFold(f, T, base, step, seq) ==
  /\ f \in [SUBSET DOMAIN seq -> T]
  /\ \A s \in SUBSET DOMAIN seq :
       f[s] = IF s = {} THEN base ELSE step[<<f[s \ {Max(s)}], seq[Max(s)]>>]

\* ... exists.
LEMMA FoldExists ==
  ASSUME NEW T, NEW S, NEW base \in T, NEW step \in [T \X S -> T], NEW seq \in Seq(S)
  PROVE  \E f : IsFold(f, T, base, step, seq)
<1> DEFINE Folds(f, k) ==
             \A s \in SUBSET (1 .. k) :
               f[s] = IF s = {} THEN base ELSE step[<<f[s \ {Max(s)}], seq[Max(s)]>>]
           Good == {k \in 0 .. Len(seq) : \E f \in [SUBSET (1 .. k) -> T] : Folds(f, k)}
<1>1. 0 \in Good
  <2> DEFINE f == [s \in SUBSET (1 .. 0) |-> base]
  <2>1. f \in [SUBSET (1 .. 0) -> T] /\ Folds(f, 0)
    OBVIOUS
  <2>2. 0 \in 0 .. Len(seq)
    OBVIOUS
  <2> HIDE DEF f, Folds
  <2> QED BY <2>1, <2>2
<1>2. ASSUME NEW k \in 1 .. Len(seq), k - 1 \in Good PROVE k \in Good
  <2>0. k \in Nat /\ k \in 0 .. Len(seq)
    OBVIOUS
  <2>1. PICK f \in [SUBSET (1 .. (k - 1)) -> T] : Folds(f, k - 1)
    BY <1>2
  <2> DEFINE g == [s \in SUBSET (1 .. k) |->
                     IF k \in s THEN step[<<f[s \ {k}], seq[k]>>] ELSE f[s]]
  <2>2. \A s \in SUBSET (1 .. k) : IF k \in s THEN s \ {k} \in SUBSET (1 .. (k - 1))
                                    ELSE s \in SUBSET (1 .. (k - 1))
    OBVIOUS
  <2>3. g \in [SUBSET (1 .. k) -> T]
    <3> HIDE DEF Folds
    <3> SUFFICES ASSUME NEW s \in SUBSET (1 .. k)
                 PROVE  (IF k \in s THEN step[<<f[s \ {k}], seq[k]>>] ELSE f[s]) \in T
      OBVIOUS
    <3>1. CASE k \in s
      <4>1. f[s \ {k}] \in T
        BY <2>2, <3>1
      <4>2. seq[k] \in S
        OBVIOUS
      <4> QED BY <3>1, <4>1, <4>2
    <3>2. CASE k \notin s
      BY <2>2, <3>2
    <3> QED BY <3>1, <3>2
  <2>4. ASSUME NEW s \in SUBSET (1 .. k)
        PROVE  g[s] = IF s = {} THEN base ELSE step[<<g[s \ {Max(s)}], seq[Max(s)]>>]
    <3>1. CASE k \in s
      <4>1. Max(s) = k
        <5>1. s \in SUBSET (0 .. k)
          OBVIOUS
        <5>2. Max(s) \in s /\ \A i \in s : i <= Max(s)
          <6> HIDE DEF g, Folds
          <6> QED BY <2>0, <3>1, <5>1, GreatestIndex
        <5>3. Max(s) \in 1 .. k /\ k <= Max(s)
          <6> HIDE DEF g, Folds
          <6> QED BY <3>1, <5>2
        <5> QED BY <5>3
      <4>2. g[s \ {k}] = f[s \ {k}]
        BY <2>2
      <4>3. g[s] = step[<<f[s \ {k}], seq[k]>>]
        BY <3>1
      <4> QED BY <3>1, <4>1, <4>2, <4>3
    <3>2. CASE k \notin s /\ s # {}
      <4>1. Max(s) \in s
        <5>1. s \in SUBSET (0 .. k)
          OBVIOUS
        <5> HIDE DEF g, Folds
        <5> QED BY <2>0, <3>2, <5>1, GreatestIndex
      <4>2. g[s] = f[s] /\ g[s \ {Max(s)}] = f[s \ {Max(s)}]
        BY <2>2, <3>2
      <4>3. f[s] = step[<<f[s \ {Max(s)}], seq[Max(s)]>>]
        BY <2>1, <2>2, <3>2
      <4> QED BY <3>2, <4>2, <4>3
    <3>3. CASE s = {}
      <4>1. g[s] = f[s] /\ f[s] = base
        BY <2>1, <2>2, <3>3
      <4> QED BY <3>3, <4>1
    <3> QED BY <3>1, <3>2, <3>3
  <2>5. Folds(g, k)
    <3> HIDE DEF g
    <3> QED BY <2>4
  <2> QED
    <3> HIDE DEF g, Folds
    <3> QED BY <2>0, <2>3, <2>5
<1>3. Len(seq) \in Good
  <2> HIDE DEF Good, Folds
  <2>1. Len(seq) \in Nat
    OBVIOUS
  <2>2. \A k \in 0 .. Len(seq) : k \in Good
    BY <1>1, <1>2, <2>1, InductionTo
  <2> QED BY <2>1, <2>2
<1>4. DOMAIN seq = 1 .. Len(seq)
  OBVIOUS
<1>5. PICK f \in [SUBSET (1 .. Len(seq)) -> T] : Folds(f, Len(seq))
  <2> HIDE DEF Folds
  <2> QED BY <1>3
<1> QED BY <1>4, <1>5 DEF IsFold

-----------------------------------------------------------------------------
(***************************************************************************)
(* Registration.                                                           *)
(***************************************************************************)
\* The routes the application may register.
AllRoutes == UNION {Range(RoutesOf(call)) : call \in Calls}

LEMMA CallsAppendRoutes ==
  ASSUME NEW call \in Calls
  PROVE  RoutesOf(call) \in Seq(AllRoutes)
<1>1. RoutesOf(call) \in Seq(Range(RoutesOf(call)))
  <2>1. CASE call.op = "addRoute"
    <3>1. RoutesOf(call) = <<call.route>>
      BY <2>1 DEF RoutesOf
    <3>2. /\ <<call.route>> \in Seq({call.route})
          /\ Range(<<call.route>>) = {call.route}
      BY DEF Range
    <3> QED BY <3>1, <3>2
  <2>2. CASE call.op = "addResource"
    BY <2>2 DEF RoutesOf, ResourceRoutes, Range
  <2>3. CASE call.op = "addGroup"
    <3> DEFINE X(i) == [call.routes[i] EXCEPT !.pathPattern = call.prefix \o @,
                                              !.middleware = @ \o call.middleware]
    <3>1. RoutesOf(call) = [i \in DOMAIN call.routes |-> X(i)]
      BY <2>3 DEF RoutesOf, GroupRoutes
    <3> HIDE DEF X
    <3>2. PICK n \in Nat : DOMAIN call.routes = 1 .. n
      BY <2>3, RouterAssumption
    <3>3. RoutesOf(call) = [i \in 1 .. n |-> X(i)]
      BY <3>1, <3>2
    <3>4. \A i \in 1 .. n : X(i) \in Range(RoutesOf(call))
      BY <3>3 DEF Range
    <3> QED BY <3>3, <3>4
  <2> QED BY <2>1, <2>2, <2>3, RouterAssumption
<1>2. Range(RoutesOf(call)) \subseteq AllRoutes
  BY DEF AllRoutes
<1> QED BY <1>1, <1>2

\* The texts addResource is made of.
LEMMA CharactersOfResources ==
  /\ "/" \in STRING /\ ":" \in STRING /\ "i" \in STRING /\ "d" \in STRING
  /\ <<"/">> \in Seq(STRING)
  /\ <<"/", ":", "i", "d">> \in Seq(STRING)
<1>1. "/" \in STRING /\ ":" \in STRING /\ "i" \in STRING /\ "d" \in STRING
  BY RouterAssumption
<1> QED BY <1>1, OneElement, FourElements

\* What the application registers are routes, those of groups and resources included.
LEMMA RoutesAreTyped ==
  ASSUME NEW route \in AllRoutes
  PROVE  IsRoute(route)
<1>1. PICK call \in Calls : route \in Range(RoutesOf(call))
  BY DEF AllRoutes
<1>2. CASE call.op = "addRoute"
  <2>1. RoutesOf(call) = <<call.route>>
    BY <1>2 DEF RoutesOf
  <2>2. Range(<<call.route>>) = {call.route}
    BY DEF Range
  <2>3. route = call.route
    BY <1>1, <2>1, <2>2
  <2> QED BY <1>2, <2>3, RouterAssumption
<1>3. CASE call.op = "addResource"
  <2>1. RoutesOf(call) = ResourceRoutes(call.resource, call.handler, call.middleware)
    BY <1>3 DEF RoutesOf
  <2> DEFINE all == <<"/">> \o call.resource
             one == all \o <<"/", ":", "i", "d">>
  <2>2. all \in Seq(STRING) /\ one \in Seq(STRING) /\ call.middleware \in Seq(STRING)
    <3>1. call.resource \in Seq(STRING) /\ call.middleware \in Seq(STRING)
      BY <1>3, RouterAssumption
    <3>2. <<"/">> \in Seq(STRING) /\ <<"/", ":", "i", "d">> \in Seq(STRING)
      BY CharactersOfResources
    <3>4. all \in Seq(STRING)
      BY <3>1, <3>2
    <3> HIDE DEF all
    <3> QED BY <3>1, <3>2, <3>4
  <2> HIDE DEF all, one
  <2>3. \E pattern \in {all, one} : \E method :
          route = Route(pattern, method, call.handler, call.middleware)
    BY <1>1, <2>1 DEF ResourceRoutes, Range, all, one
  <2> QED BY <2>2, <2>3 DEF Route, IsRoute
<1>4. CASE call.op = "addGroup"
  <2>1. RoutesOf(call) = GroupRoutes(call.prefix, call.routes, call.middleware)
    BY <1>4 DEF RoutesOf
  <2>2. PICK i \in DOMAIN call.routes :
          route = [call.routes[i] EXCEPT !.pathPattern = call.prefix \o @,
                                         !.middleware = @ \o call.middleware]
    BY <1>1, <2>1 DEF GroupRoutes, Range
  <2>3. PICK own : own = call.routes[i] /\ IsRoute(own)
    BY <1>4, RouterAssumption
  <2>4. call.prefix \in Seq(STRING) /\ call.middleware \in Seq(STRING)
    BY <1>4, RouterAssumption
  <2>5. /\ route.pathPattern = call.prefix \o own.pathPattern
        /\ route.middleware = own.middleware \o call.middleware
        /\ route.isRegex = own.isRegex
        /\ DOMAIN route = DOMAIN own
    BY <2>2, <2>3 DEF IsRoute
  <2> QED BY <2>3, <2>4, <2>5 DEF IsRoute
<1> QED BY <1>2, <1>3, <1>4, RouterAssumption

-----------------------------------------------------------------------------
(***************************************************************************)
(* Answers.                                                                *)
(***************************************************************************)
Replies == {"none", "throws", "found"}

LEMMA TryReplies ==
  ASSUME NEW route, NEW path, NEW method
  PROVE  Try(route, path, method).reply \in Replies
BY DEF Try, NotFound, Throws, Found, Replies

LEMMA AnswerReplies ==
  ASSUME NEW table, NEW path, NEW method
  PROVE  Answer(table, path, method).reply \in Replies
BY TryReplies DEF Answer, NotFound, Replies

\* The first route that decides, found by looking at one after the other.
LEMMA FirstDecides ==
  ASSUME NEW S, NEW table \in Seq(S), NEW path, NEW method, NEW n \in 1 .. Len(table),
         \A j \in 1 .. n - 1 : Try(table[j], path, method) = NotFound,
         Try(table[n], path, method) # NotFound
  PROVE  Answer(table, path, method) = Try(table[n], path, method)
<1> DEFINE D == {i \in DOMAIN table : Try(table[i], path, method) # NotFound}
<1>1. n \in D /\ D \in SUBSET Nat
  OBVIOUS
<1>2. \A i \in D : n <= i
  OBVIOUS
<1>3. Answer(table, path, method) = Try(table[Min(D)], path, method)
  BY <1>1 DEF Answer
<1>4. Min(D) = n
  <2> HIDE DEF D
  <2>1. Min(D) \in D /\ Min(D) <= n /\ Min(D) \in Nat /\ n \in Nat
    BY <1>1, LeastIndex
  <2> QED BY <1>1, <1>2, <2>1
<1> QED BY <1>3, <1>4

LEMMA NobodyDecides ==
  ASSUME NEW table, NEW path, NEW method,
         \A j \in DOMAIN table : Try(table[j], path, method) = NotFound
  PROVE  Answer(table, path, method) = NotFound
BY DEF Answer

\* An appended route only answers what had no answer before.
LEMMA AppendedComesLast ==
  ASSUME NEW S, NEW table \in Seq(S), NEW route \in S, NEW path, NEW method,
         Answer(table, path, method) # NotFound
  PROVE  Answer(Append(table, route), path, method) = Answer(table, path, method)
<1> DEFINE longer == Append(table, route)
           D == {i \in DOMAIN table : Try(table[i], path, method) # NotFound}
           E == {i \in DOMAIN longer : Try(longer[i], path, method) # NotFound}
<1>1. D # {}
  BY DEF Answer
<1>2. \A i \in DOMAIN table : i \in Nat /\ i \in DOMAIN longer /\ longer[i] = table[i]
  OBVIOUS
<1>3. \A i \in DOMAIN longer : i \in Nat /\ (i \in DOMAIN table \/ i = Len(table) + 1)
  OBVIOUS
<1>4. D \subseteq E /\ D \in SUBSET Nat /\ E \in SUBSET Nat
  BY <1>2, <1>3
<1>5. /\ Min(D) \in D /\ Min(D) \in Nat
      /\ Min(E) \in E /\ Min(E) \in Nat
      /\ Min(E) <= Min(D)
      /\ Min(E) \in D => Min(D) <= Min(E)
  <2> HIDE DEF D, E
  <2> QED BY <1>1, <1>4, LeastIndex
<1>6. Min(E) \in DOMAIN longer /\ Min(D) \in DOMAIN table /\ Min(E) \in DOMAIN table
  <2>1. Min(D) \in DOMAIN table /\ Min(E) \in DOMAIN longer
    BY <1>5
  <2>2. Min(D) <= Len(table)
    BY <2>1
  <2> HIDE DEF D, E
  <2> QED BY <1>3, <1>5, <2>1, <2>2
<1>7. Min(E) \in D
  BY <1>2, <1>5, <1>6
<1>8. Min(E) = Min(D)
  <2> HIDE DEF D, E
  <2> QED BY <1>5, <1>7
<1>9. Answer(table, path, method) = Try(table[Min(D)], path, method)
  BY <1>1 DEF Answer
<1>10. Answer(longer, path, method) = Try(longer[Min(E)], path, method)
  BY <1>5 DEF Answer
<1> QED
  <2> HIDE DEF D, E
  <2> QED BY <1>2, <1>6, <1>8, <1>9, <1>10

\* An answer is what one of the table's routes says ...
LEMMA AnswerIsARoutes ==
  ASSUME NEW S, NEW table \in Seq(S), NEW path, NEW method,
         Answer(table, path, method) # NotFound
  PROVE  \E i \in DOMAIN table : Answer(table, path, method) = Try(table[i], path, method)
<1> DEFINE D == {i \in DOMAIN table : Try(table[i], path, method) # NotFound}
<1>1. D # {} /\ Answer(table, path, method) = Try(table[Min(D)], path, method)
  BY DEF Answer
<1>2. D \in SUBSET Nat
  OBVIOUS
<1>3. Min(D) \in D
  <2> HIDE DEF D
  <2> QED BY <1>1, <1>2, LeastIndex
<1> QED BY <1>1, <1>3

LEMMA AnswersComeFromRoutes ==
  ASSUME NEW S, NEW table \in Seq(S), NEW path, NEW method
  PROVE  LET result == Answer(table, path, method)
         IN  \/ result = NotFound
             \/ result = Throws
             \/ result.reply = "found" /\ result.route \in S
<1> DEFINE D == {i \in DOMAIN table : Try(table[i], path, method) # NotFound}
<1>1. CASE D = {}
  BY <1>1 DEF Answer
<1>2. CASE D # {}
  <2>1. D \in SUBSET Nat /\ \A i \in D : table[i] \in S
    OBVIOUS
  <2>2. Min(D) \in D
    <3> HIDE DEF D
    <3> QED BY <1>2, <2>1, LeastIndex
  <2>3. Answer(table, path, method) = Try(table[Min(D)], path, method)
    BY <1>2 DEF Answer
  <2>4. table[Min(D)] \in S
    BY <2>1, <2>2
  <2> HIDE DEF D
  <2> QED BY <2>3, <2>4 DEF Try, Found
<1> QED BY <1>1, <1>2

\* ... and one that is found names the route and, without a regular expression,
\* holds the parameters of a match.
LEMMA FoundMatches ==
  ASSUME NEW route, NEW path, NEW method, Try(route, path, method).reply = "found"
  PROVE  /\ Try(route, path, method).route = route
         /\ ~ route.isRegex =>
              /\ MatchPattern(route.pathPattern, path)
              /\ Try(route, path, method).params = PatternParams(route.pathPattern, path)
BY DEF Try, NotFound, Throws, Found

\* A route of the table that decides a request gives it an answer.
LEMMA TableAnswers ==
  ASSUME NEW S, NEW table \in Seq(S), NEW route \in Range(table), NEW path, NEW method,
         Try(route, path, method) # NotFound
  PROVE  Answer(table, path, method) # NotFound
<1> DEFINE D == {i \in DOMAIN table : Try(table[i], path, method) # NotFound}
<1>1. D # {} /\ D \in SUBSET Nat
  BY DEF Range
<1>2. Min(D) \in D
  <2> HIDE DEF D
  <2> QED BY <1>1, LeastIndex
<1>3. Answer(table, path, method) = Try(table[Min(D)], path, method)
  BY <1>1 DEF Answer
<1> QED BY <1>2, <1>3

LEMMA MatchDecides ==
  ASSUME NEW route, NEW path, ~ route.isRegex, MatchPattern(route.pathPattern, path)
  PROVE  Try(route, path, route.method) # NotFound
BY DEF Try, Found, NotFound

-----------------------------------------------------------------------------
(***************************************************************************)
(* Splitting a path.                                                       *)
(***************************************************************************)
Segment == Seq(STRING)

Splitting == [segments : Seq(Segment), current : Segment]

Unsplit == [segments |-> <<>>, current |-> <<>>]

\* One turn of splitPath's loop.
Split(acc, ch) ==
  IF ch = "/" THEN [segments |-> PushSegment(acc), current |-> <<>>]
  ELSE [acc EXCEPT !.current = Append(@, ch)]

LEMMA SplitType ==
  ASSUME NEW acc \in Splitting, NEW ch \in STRING
  PROVE  Split(acc, ch) \in Splitting /\ PushSegment(acc) \in Seq(Segment)
<1>1. PushSegment(acc) \in Seq(Segment)
  BY DEF PushSegment, Splitting
<1>2. Append(acc.current, ch) \in Segment
  BY DEF Splitting, Segment
<1>3. <<>> \in Segment
  BY DEF Segment
<1> QED BY <1>1, <1>2, <1>3 DEF Split, Splitting

\* The loop's variables, turn by turn.
IsRun(acc, path) ==
  /\ acc \in [0 .. Len(path) -> Splitting]
  /\ acc[0] = Unsplit
  /\ \A i \in 1 .. Len(path) : acc[i] = Split(acc[i - 1], path[i])
  /\ SplitPath(path) = PushSegment(acc[Len(path)])

LEMMA SplitPathRuns ==
  ASSUME NEW path \in Seq(STRING)
  PROVE  \E acc : IsRun(acc, path)
<1> DEFINE Turns(h) == h = [s \in SUBSET DOMAIN path |->
                              IF s = {} THEN Unsplit
                              ELSE Split(h[s \ {Max(s)}], path[Max(s)])]
           turn == [x \in Splitting \X STRING |-> Split(x[1], x[2])]
<1>1. \E h : Turns(h)
  <2>1. turn \in [Splitting \X STRING -> Splitting] /\ Unsplit \in Splitting
    <3>1. \A acc \in Splitting, ch \in STRING : Split(acc, ch) \in Splitting
      BY SplitType
    <3>2. turn \in [Splitting \X STRING -> Splitting]
      BY <3>1
    <3>3. Unsplit \in Splitting
      BY DEF Unsplit, Splitting, Segment
    <3> QED BY <3>2, <3>3
  <2>2. PICK f : IsFold(f, Splitting, Unsplit, turn, path)
    <3> HIDE DEF turn, Turns
    <3> QED BY <2>1, FoldExists
  <2>3. ASSUME NEW s \in SUBSET DOMAIN path, s # {}
        PROVE  turn[<<f[s \ {Max(s)}], path[Max(s)]>>] = Split(f[s \ {Max(s)}], path[Max(s)])
    <3>1. s \in SUBSET (0 .. Len(path)) /\ Len(path) \in Nat
      OBVIOUS
    <3>2. Max(s) \in s
      BY <2>3, <3>1, GreatestIndex
    <3>3. path[Max(s)] \in STRING /\ f[s \ {Max(s)}] \in Splitting
      BY <2>2, <3>2 DEF IsFold
    <3> QED BY <3>3
  <2>4. Turns(f)
    <3> HIDE DEF turn
    <3> QED BY <2>2, <2>3 DEF IsFold
  <2> QED BY <2>4
<1> DEFINE h == CHOOSE iter : Turns(iter)
<1>2. Turns(h)
  <2> HIDE DEF Turns
  <2> QED BY <1>1
<1>3. SplitPath(path) = PushSegment(h[DOMAIN path])
  BY DEF SplitPath, FoldLeft, MapThenFoldSet, Split, Unsplit
<1> HIDE DEF h
<1>4. h[{}] = Unsplit
  BY <1>2
<1>5. ASSUME NEW i \in 1 .. Len(path) PROVE h[1 .. i] = Split(h[1 .. (i - 1)], path[i])
  <2>1. (1 .. i) \in SUBSET DOMAIN path /\ i \in 1 .. i
    <3> HIDE DEF Turns
    <3> QED OBVIOUS
  <2>2. Max(1 .. i) = i /\ (1 .. i) \ {i} = 1 .. (i - 1)
    <3> HIDE DEF Turns
    <3> QED BY MaxOfInterval
  <2> QED BY <1>2, <2>1, <2>2
<1> DEFINE Typed == {i \in 0 .. Len(path) : h[1 .. i] \in Splitting}
<1>6. \A i \in 0 .. Len(path) : i \in Typed
  <2>1. 0 \in Typed
    <3>1. h[1 .. 0] = Unsplit /\ 0 \in 0 .. Len(path)
      BY <1>4
    <3>2. Unsplit \in Splitting
      BY DEF Unsplit, Splitting, Segment
    <3> QED BY <3>1, <3>2
  <2>2. ASSUME NEW i \in 1 .. Len(path), i - 1 \in Typed PROVE i \in Typed
    <3>1. path[i] \in STRING /\ i \in 0 .. Len(path)
      OBVIOUS
    <3> QED BY <1>5, <2>2, <3>1, SplitType
  <2>3. Len(path) \in Nat
    OBVIOUS
  <2> HIDE DEF Typed, Turns
  <2> QED BY <2>1, <2>2, <2>3, InductionTo
<1> DEFINE acc == [i \in 0 .. Len(path) |-> h[1 .. i]]
<1>7. acc \in [0 .. Len(path) -> Splitting]
  BY <1>6
<1>8. acc[0] = Unsplit
  BY <1>4
<1>9. \A i \in 1 .. Len(path) : acc[i] = Split(acc[i - 1], path[i])
  BY <1>5
<1>10. SplitPath(path) = PushSegment(acc[Len(path)])
  <2>1. DOMAIN path = 1 .. Len(path)
    OBVIOUS
  <2> QED BY <1>3, <2>1
<1> QED
  <2> HIDE DEF acc
  <2> QED BY <1>7, <1>8, <1>9, <1>10 DEF IsRun

\* What is cut off at a slash does not depend on what comes behind it.
LEMMA SplitPathConcatenates ==
  ASSUME NEW a \in Seq(STRING), NEW b \in Seq(STRING), b # <<>> => b[1] = "/"
  PROVE  SplitPath(a \o b) = SplitPath(a) \o SplitPath(b)
<1>1. PICK x : IsRun(x, a)
  BY SplitPathRuns
<1>2. PICK y : IsRun(y, b)
  BY SplitPathRuns
<1>3. /\ a \o b \in Seq(STRING)
      /\ Len(a) \in Nat /\ Len(b) \in Nat /\ Len(a \o b) = Len(a) + Len(b)
      /\ \A i \in 1 .. Len(a) : (a \o b)[i] = a[i]
      /\ \A i \in 1 .. Len(b) : (a \o b)[Len(a) + i] = b[i]
  OBVIOUS
<1>4. PICK z : IsRun(z, a \o b)
  BY <1>3, SplitPathRuns
<1>5. \A i \in 0 .. Len(a) : z[i] = x[i]
  <2> DEFINE Same == {i \in 0 .. Len(a) : z[i] = x[i]}
  <2>1. 0 \in Same
    BY <1>1, <1>3, <1>4 DEF IsRun
  <2>2. ASSUME NEW i \in 1 .. Len(a), i - 1 \in Same PROVE i \in Same
    <3>1. z[i] = Split(z[i - 1], a[i]) /\ x[i] = Split(x[i - 1], a[i])
      BY <1>1, <1>3, <1>4 DEF IsRun
    <3> QED BY <2>2, <3>1
  <2>3. \A i \in 0 .. Len(a) : i \in Same
    <3> HIDE DEF Same
    <3> QED BY <1>3, <2>1, <2>2, InductionTo
  <2> QED BY <2>3
<1> DEFINE front == SplitPath(a)
<1>6. /\ front \in Seq(Segment) /\ front = PushSegment(z[Len(a)])
      /\ \A i \in 0 .. Len(b) : y[i].segments \in Seq(Segment) /\ y[i].current \in Segment
  <2>1. x[Len(a)] \in Splitting /\ front = PushSegment(x[Len(a)]) /\ z[Len(a)] = x[Len(a)]
    BY <1>1, <1>3, <1>5 DEF IsRun
  <2>2. front \in Seq(Segment)
    BY <2>1 DEF PushSegment, Splitting
  <2> QED BY <1>2, <2>1, <2>2 DEF IsRun, Splitting
<1> HIDE DEF front
<1> DEFINE Joined(i) == [segments |-> front \o y[i].segments, current |-> y[i].current]
<1>7. b # <<>> => \A i \in 1 .. Len(b) : z[Len(a) + i] = Joined(i)
  <2> HAVE b # <<>>
  <2> DEFINE Good == {i \in 0 .. Len(b) : i = 0 \/ z[Len(a) + i] = Joined(i)}
  <2>1. ASSUME NEW i \in 1 .. Len(b), i - 1 \in Good PROVE z[Len(a) + i] = Joined(i)
    <3>1. z[Len(a) + i] = Split(z[Len(a) + i - 1], b[i]) /\ y[i] = Split(y[i - 1], b[i])
      <4>1. Len(a) + i \in 1 .. Len(a \o b)
        BY <1>3
      <4> QED BY <1>2, <1>3, <1>4, <4>1, SMTT(40) DEF IsRun
    <3>2. CASE i = 1
      <4>1. b[i] = "/" /\ y[0] = Unsplit /\ Len(a) + i - 1 = Len(a)
        BY <1>2, <1>3, <3>2 DEF IsRun
      <4>2. y[i] = Unsplit
        BY <3>1, <3>2, <4>1 DEF Split, Unsplit, PushSegment
      <4>3. z[Len(a) + i] = [segments |-> front, current |-> <<>>]
        BY <1>6, <3>1, <4>1 DEF Split
      <4>4. front \o <<>> = front
        BY <1>6
      <4> QED BY <4>2, <4>3, <4>4 DEF Unsplit
    <3>3. CASE i # 1
      <4>1. z[Len(a) + i - 1] = Joined(i - 1)
        <5>1. Len(a) + (i - 1) = Len(a) + i - 1 /\ i - 1 # 0
          BY <1>3, <3>3
        <5> QED BY <2>1, <5>1
      <4>2. y[i - 1].segments \in Seq(Segment) /\ y[i - 1].current \in Segment
        BY <1>6
      <4>3. y[i - 1] \in Splitting
        BY <1>2, SMTT(40) DEF IsRun
      <4>4. front \o Append(y[i - 1].segments, y[i - 1].current)
              = Append(front \o y[i - 1].segments, y[i - 1].current)
        <5>1. PICK v \in Seq(Segment), w \in Segment :
                v = y[i - 1].segments /\ w = y[i - 1].current
          BY <4>2
        <5>2. front \o Append(v, w) = Append(front \o v, w)
          BY <1>6, ConcatAppend
        <5> QED BY <5>1, <5>2
      <4>5. CASE b[i] = "/"
        <5>1. PushSegment(Joined(i - 1)) = front \o PushSegment(y[i - 1])
          BY <4>4 DEF PushSegment
        <5>2. y[i] = [segments |-> PushSegment(y[i - 1]), current |-> <<>>]
          BY <3>1, <4>5 DEF Split
        <5>3. z[Len(a) + i] = [segments |-> PushSegment(Joined(i - 1)), current |-> <<>>]
          BY <3>1, <4>1, <4>5 DEF Split
        <5>4. y[i].segments = PushSegment(y[i - 1]) /\ y[i].current = <<>>
          BY <5>2
        <5> QED BY <5>1, <5>3, <5>4
      <4>6. CASE b[i] # "/"
        <5> DEFINE longer == Append(y[i - 1].current, b[i])
        <5>1. y[i] = [segments |-> y[i - 1].segments, current |-> longer]
          BY <3>1, <4>3, <4>6 DEF Split, Splitting
        <5>2. z[Len(a) + i] = [segments |-> front \o y[i - 1].segments, current |-> longer]
          <6>1. Split(Joined(i - 1), b[i])
                  = [segments |-> front \o y[i - 1].segments, current |-> longer]
            BY <4>6 DEF Split
          <6> HIDE DEF Joined, longer
          <6> QED BY <3>1, <4>1, <6>1
        <5> QED BY <5>1, <5>2
      <4> QED BY <4>5, <4>6
    <3> QED BY <3>2, <3>3
  <2>2. 0 \in Good
    BY <1>3
  <2>3. \A i \in 0 .. Len(b) : i \in Good
    <3>1. \A i \in 1 .. Len(b) : i - 1 \in Good => i \in Good
      <4> HIDE DEF Joined
      <4> QED BY <1>3, <2>1
    <3> HIDE DEF Good
    <3> QED BY <1>3, <2>2, <3>1, InductionTo
  <2> SUFFICES ASSUME NEW i \in 1 .. Len(b) PROVE z[Len(a) + i] = Joined(i)
    OBVIOUS
  <2>4. i \in Good /\ i # 0
    <3> HIDE DEF Good
    <3> QED BY <1>3, <2>3
  <2> QED BY <2>4
<1>8. CASE b = <<>>
  <2>1. a \o b = a
    BY <1>8
  <2>2. SplitPath(b) = <<>>
    BY <1>2, <1>8 DEF IsRun, Unsplit, PushSegment
  <2> QED BY <1>6, <2>1, <2>2 DEF front
<1>9. CASE b # <<>>
  <2>1. z[Len(a) + Len(b)] = Joined(Len(b)) /\ Len(b) \in 0 .. Len(b)
    <3>1. Len(b) \in 1 .. Len(b) /\ Len(b) \in 0 .. Len(b)
      BY <1>3, <1>9
    <3> HIDE DEF Joined
    <3> QED BY <1>7, <1>9, <3>1
  <2>2. SplitPath(a \o b) = PushSegment(Joined(Len(b))) /\ SplitPath(b) = PushSegment(y[Len(b)])
    BY <1>2, <1>3, <1>4, <2>1 DEF IsRun
  <2>3. /\ y[Len(b)].segments \in Seq(Segment) /\ y[Len(b)].current \in Segment
        /\ front \in Seq(Segment)
    BY <1>6, <2>1
  <2>4. front \o Append(y[Len(b)].segments, y[Len(b)].current)
          = Append(front \o y[Len(b)].segments, y[Len(b)].current)
    <3>1. PICK v \in Seq(Segment), w \in Segment : v = y[Len(b)].segments /\ w = y[Len(b)].current
      BY <2>3
    <3>2. front \o Append(v, w) = Append(front \o v, w)
      BY <2>3, ConcatAppend
    <3> QED BY <3>1, <3>2
  <2> QED BY <2>2, <2>4 DEF PushSegment, front
<1> QED BY <1>8, <1>9

Begins(path, i) == path[i] # "/" /\ (i = 1 \/ path[i - 1] = "/")

Unbroken(path, i, j) == \A m \in i .. j : path[m] # "/"

Rank(path, k) == Cardinality({i \in 1 .. k : Begins(path, i)})

LEMMA Ranks ==
  ASSUME NEW path
  PROVE  /\ Rank(path, 0) = 0
         /\ \A k \in Nat : Rank(path, k) \in Nat
         /\ \A k \in Nat \ {0} :
              Rank(path, k) = Rank(path, k - 1) + (IF Begins(path, k) THEN 1 ELSE 0)
<1> DEFINE B(k) == {i \in 1 .. k : Begins(path, i)}
<1>1. ASSUME NEW k \in Nat PROVE IsFiniteSet(B(k))
  <2>1. IsFiniteSet(1 .. k) /\ B(k) \in SUBSET (1 .. k)
    BY FS_Interval
  <2> HIDE DEF B
  <2> QED BY <2>1, FS_Subset
<1>2. Rank(path, 0) = 0
  <2>1. B(0) = {}
    OBVIOUS
  <2> QED BY <2>1, FS_EmptySet DEF Rank
<1>3. ASSUME NEW k \in Nat PROVE Rank(path, k) \in Nat
  <2> HIDE DEF B
  <2>1. Cardinality(B(k)) \in Nat
    BY <1>1, FS_CardinalityType
  <2> QED BY <2>1 DEF Rank, B
<1>4. ASSUME NEW k \in Nat \ {0}
      PROVE  Rank(path, k) = Rank(path, k - 1) + (IF Begins(path, k) THEN 1 ELSE 0)
  <2>1. k - 1 \in Nat /\ k \notin B(k - 1)
    OBVIOUS
  <2>2. B(k) = IF Begins(path, k) THEN B(k - 1) \cup {k} ELSE B(k - 1)
    OBVIOUS
  <2>3. Rank(path, k) = Cardinality(B(k)) /\ Rank(path, k - 1) = Cardinality(B(k - 1))
    BY DEF Rank
  <2>4. Cardinality(B(k - 1) \cup {k}) = Cardinality(B(k - 1)) + 1
    <3> HIDE DEF B
    <3> QED BY <1>1, <2>1, FS_AddElement
  <2>5. Cardinality(B(k - 1)) \in Nat
    BY <1>3, <2>1, <2>3
  <2> HIDE DEF B
  <2> QED BY <2>2, <2>3, <2>4, <2>5
<1> QED BY <1>2, <1>3, <1>4

\* What the loop has found when it has passed the first k characters.
HasCut(acc, path, k) ==
  /\ acc.current = <<>> =>
       /\ Len(acc.segments) = Rank(path, k)
       /\ k = 0 \/ path[k] = "/"
  /\ acc.current # <<>> => 
       \E b \in 1 .. k :
         /\ Begins(path, b) /\ Unbroken(path, b, k)
         /\ acc.current = SubSeq(path, b, k)
         /\ Rank(path, b) = Rank(path, k)
         /\ Rank(path, k) = Len(acc.segments) + 1
  /\ \A i \in 1 .. k, e \in 1 .. k :
       Begins(path, i) /\ i < e /\ path[e] = "/" /\ Unbroken(path, i, e - 1) =>
         /\ Rank(path, i) \in 1 .. Len(acc.segments)
         /\ acc.segments[Rank(path, i)] = SubSeq(path, i, e - 1)

\* There is one run of characters without a slash up to a position.
LEMMA OneBeginning ==
  ASSUME NEW path, NEW k \in Nat, NEW b \in 1 .. k, NEW i \in 1 .. k,
         Begins(path, b), Unbroken(path, b, k), Begins(path, i), Unbroken(path, i, k)
  PROVE  i = b
<1>1. CASE i < b
  <2>1. path[b - 1] # "/"
    <3>1. b - 1 \in i .. k
      BY <1>1
    <3> QED BY <3>1 DEF Unbroken
  <2> QED BY <1>1, <2>1 DEF Begins
<1>2. CASE b < i
  <2>1. path[i - 1] # "/"
    <3>1. i - 1 \in b .. k
      BY <1>2
    <3> QED BY <3>1 DEF Unbroken
  <2> QED BY <1>2, <2>1 DEF Begins
<1> QED BY <1>1, <1>2

LEMMA SlashFinds ==
  ASSUME NEW path \in Seq(STRING), NEW k \in 1 .. Len(path), NEW acc \in Splitting,
         HasCut(acc, path, k - 1), path[k] = "/"
  PROVE  HasCut([segments |-> PushSegment(acc), current |-> <<>>], path, k)
<1> DEFINE n == Rank(path, k)
           segs == PushSegment(acc)
<1>0. k \in Nat \ {0} /\ k - 1 \in Nat
  OBVIOUS
<1>1. n = Rank(path, k - 1) /\ n \in Nat
  <2>1. /\ n \in Nat /\ Rank(path, k - 1) \in Nat
        /\ n = Rank(path, k - 1) + (IF Begins(path, k) THEN 1 ELSE 0)
    BY <1>0, Ranks
  <2>2. ~ Begins(path, k)
    BY DEF Begins
  <2> HIDE DEF n
  <2> QED BY <2>1, <2>2
<1>2. acc.segments \in Seq(Segment) /\ acc.current \in Segment
  BY DEF Splitting
<1>3. /\ Len(segs) = n
      /\ Len(acc.segments) <= n
      /\ \A j \in 1 .. Len(acc.segments) : segs[j] = acc.segments[j]
  <2>1. CASE acc.current = <<>>
    BY <1>1, <1>2, <2>1 DEF HasCut, PushSegment
  <2>2. CASE acc.current # <<>>
    <3>1. segs = Append(acc.segments, acc.current) /\ n = Len(acc.segments) + 1
      BY <1>1, <2>2 DEF HasCut, PushSegment
    <3> HIDE DEF segs
    <3> QED BY <1>2, <3>1
  <2> QED BY <2>1, <2>2
<1>4. ASSUME NEW i \in 1 .. k, NEW e \in 1 .. k,
             Begins(path, i), i < e, path[e] = "/", Unbroken(path, i, e - 1)
      PROVE  Rank(path, i) \in 1 .. n /\ segs[Rank(path, i)] = SubSeq(path, i, e - 1)
  <2>1. CASE e # k
    <3>1. i \in 1 .. (k - 1) /\ e \in 1 .. (k - 1)
      BY <1>4, <2>1
    <3>2. /\ Rank(path, i) \in 1 .. Len(acc.segments)
          /\ acc.segments[Rank(path, i)] = SubSeq(path, i, e - 1)
      BY <1>4, <3>1 DEF HasCut
    <3> HIDE DEF segs, n
    <3> QED BY <1>1, <1>2, <1>3, <3>2
  <2>2. CASE e = k
    <3>1. i \in 1 .. (k - 1) /\ Unbroken(path, i, k - 1)
      BY <1>4, <2>2
    <3>2. path[k - 1] # "/" /\ k - 1 # 0
      <4>1. k - 1 \in i .. (k - 1)
        BY <3>1
      <4> QED BY <3>1, <4>1 DEF Unbroken
    <3>3. acc.current # <<>>
      BY <3>2 DEF HasCut
    <3>4. PICK b \in 1 .. (k - 1) :
            /\ Begins(path, b) /\ Unbroken(path, b, k - 1)
            /\ acc.current = SubSeq(path, b, k - 1)
            /\ Rank(path, b) = Rank(path, k - 1)
            /\ Rank(path, k - 1) = Len(acc.segments) + 1
      BY <3>3 DEF HasCut
    <3>5. i = b
      BY <1>0, <1>4, <3>1, <3>4, OneBeginning
    <3>6. segs = Append(acc.segments, acc.current)
      BY <3>3 DEF PushSegment
    <3>7. segs[Len(acc.segments) + 1] = acc.current
      <4> HIDE DEF segs
      <4> QED BY <1>2, <3>6
    <3> HIDE DEF segs
    <3>8. Len(acc.segments) \in Nat
      BY <1>2
    <3> QED BY <1>1, <2>2, <3>4, <3>5, <3>7, <3>8
  <2> QED BY <2>1, <2>2
<1> HIDE DEF segs
<1>5. /\ [segments |-> segs, current |-> <<>>].segments = segs
      /\ [segments |-> segs, current |-> <<>>].current = <<>>
  OBVIOUS
<1> DEFINE new == [segments |-> segs, current |-> <<>>]
<1> HIDE DEF new
<1>6. new.segments = segs /\ new.current = <<>>
  BY DEF new
<1>7. HasCut(new, path, k)
  BY <1>3, <1>4, <1>6 DEF HasCut
<1> QED BY <1>7 DEF new, segs

LEMMA CharacterFinds ==
  ASSUME NEW path \in Seq(STRING), NEW k \in 1 .. Len(path), NEW acc \in Splitting,
         HasCut(acc, path, k - 1), path[k] # "/"
  PROVE  HasCut([acc EXCEPT !.current = Append(@, path[k])], path, k)
<1> DEFINE new == [acc EXCEPT !.current = Append(@, path[k])]
<1>0. k \in Nat \ {0} /\ k - 1 \in Nat
  OBVIOUS
<1>1. /\ Rank(path, k) \in Nat /\ Rank(path, k - 1) \in Nat
      /\ Rank(path, k) = Rank(path, k - 1) + (IF Begins(path, k) THEN 1 ELSE 0)
  BY <1>0, Ranks
<1>2. acc.segments \in Seq(Segment) /\ acc.current \in Segment
  BY DEF Splitting
<1>3. new.segments = acc.segments /\ new.current = Append(acc.current, path[k])
  BY DEF Splitting
<1>4. new.current # <<>>
  <2>1. \A s \in Seq(STRING) : Append(s, path[k]) # <<>>
    OBVIOUS
  <2> HIDE DEF new
  <2> QED BY <1>2, <1>3, <2>1 DEF Segment
<1>5. \E b \in 1 .. k :
         /\ Begins(path, b) /\ Unbroken(path, b, k)
         /\ new.current = SubSeq(path, b, k)
         /\ Rank(path, b) = Rank(path, k)
         /\ Rank(path, k) = Len(acc.segments) + 1
  <2>1. CASE acc.current = <<>>
    <3>1. Begins(path, k)
      BY <2>1 DEF HasCut, Begins
    <3>2. Rank(path, k) = Len(acc.segments) + 1
      BY <1>1, <2>1, <3>1 DEF HasCut
    <3>3. Unbroken(path, k, k)
      BY DEF Unbroken
    <3>4. Append(acc.current, path[k]) = SubSeq(path, k, k)
      <4> HIDE DEF new
      <4>1. Append(<<>>, path[k]) = <<path[k]>>
        OBVIOUS
      <4>2. SubSeq(path, k, k) = <<path[k]>>
        <5>1. /\ SubSeq(path, k, k) \in Seq(STRING) /\ Len(SubSeq(path, k, k)) = 1
              /\ SubSeq(path, k, k)[1] = path[k]
          OBVIOUS
        <5>2. /\ <<path[k]>> \in Seq(STRING) /\ Len(<<path[k]>>) = 1
              /\ <<path[k]>>[1] = path[k]
          OBVIOUS
        <5>3. \A j \in 1 .. 1 : SubSeq(path, k, k)[j] = <<path[k]>>[j]
          BY <5>1, <5>2
        <5> QED BY <5>1, <5>2, <5>3, SeqEqual
      <4> QED BY <2>1, <4>1, <4>2
    <3>5. k \in 1 .. k
      OBVIOUS
    <3> HIDE DEF new
    <3> QED BY <1>3, <3>1, <3>2, <3>3, <3>4, <3>5
  <2>2. CASE acc.current # <<>>
    <3>1. PICK b \in 1 .. (k - 1) :
            /\ Begins(path, b) /\ Unbroken(path, b, k - 1)
            /\ acc.current = SubSeq(path, b, k - 1)
            /\ Rank(path, b) = Rank(path, k - 1)
            /\ Rank(path, k - 1) = Len(acc.segments) + 1
      BY <2>2 DEF HasCut
    <3>2. path[k - 1] # "/" /\ k # 1
      BY <3>1 DEF Unbroken
    <3>3. Rank(path, k) = Rank(path, k - 1)
      <4>1. ~ Begins(path, k)
        BY <3>2 DEF Begins
      <4> HIDE DEF new
      <4> QED BY <1>1, <4>1
    <3>4. Unbroken(path, b, k) /\ b \in 1 .. k
      <4>1. \A m \in b .. k : m \in b .. (k - 1) \/ m = k
        OBVIOUS
      <4> QED BY <3>1, <4>1 DEF Unbroken
    <3>5. Append(acc.current, path[k]) = SubSeq(path, b, k)
      BY <3>1
    <3> HIDE DEF new
    <3> QED BY <1>3, <3>1, <3>3, <3>4, <3>5
  <2> QED BY <2>1, <2>2
<1> HIDE DEF new
<1>6. ASSUME NEW i \in 1 .. k, NEW e \in 1 .. k,
             Begins(path, i), i < e, path[e] = "/", Unbroken(path, i, e - 1)
      PROVE  /\ Rank(path, i) \in 1 .. Len(acc.segments)
             /\ acc.segments[Rank(path, i)] = SubSeq(path, i, e - 1)
  <2>1. i \in 1 .. (k - 1) /\ e \in 1 .. (k - 1)
    BY <1>6
  <2> QED BY <1>6, <2>1 DEF HasCut
<1>7. HasCut(new, path, k)
  BY <1>3, <1>4, <1>5, <1>6 DEF HasCut
<1> QED BY <1>7 DEF new

LEMMA Cutting ==
  ASSUME NEW path \in Seq(STRING), NEW x, IsRun(x, path)
  PROVE  HasCut(x[Len(path)], path, Len(path))
<1>1. Len(path) \in Nat
  OBVIOUS
<1>2. \A k \in 0 .. Len(path) : x[k] \in Splitting
  BY DEF IsRun
<1> DEFINE Good == {k \in 0 .. Len(path) : HasCut(x[k], path, k)}
<1>3. 0 \in Good
  <2>1. x[0].segments = <<>> /\ x[0].current = <<>> /\ Len(<<>>) = 0
    BY DEF IsRun, Unsplit
  <2>2. Rank(path, 0) = 0
    BY Ranks
  <2>3. 1 .. 0 = {}
    OBVIOUS
  <2>4. HasCut(x[0], path, 0)
    BY <2>1, <2>2, <2>3 DEF HasCut
  <2> QED BY <1>1, <2>4
<1>4. ASSUME NEW k \in 1 .. Len(path), k - 1 \in Good PROVE k \in Good
  <2>1. /\ x[k - 1] \in Splitting /\ x[k] = Split(x[k - 1], path[k])
        /\ HasCut(x[k - 1], path, k - 1) /\ k \in 0 .. Len(path)
    BY <1>2, <1>4 DEF IsRun
  <2>2. CASE path[k] = "/"
    <3>1. HasCut([segments |-> PushSegment(x[k - 1]), current |-> <<>>], path, k)
      BY <2>1, <2>2, SlashFinds
    <3> QED BY <2>1, <2>2, <3>1 DEF Split
  <2>3. CASE path[k] # "/"
    <3>1. HasCut([x[k - 1] EXCEPT !.current = Append(@, path[k])], path, k)
      BY <2>1, <2>3, CharacterFinds
    <3> QED BY <2>1, <2>3, <3>1 DEF Split
  <2> QED BY <2>2, <2>3
<1>5. Len(path) \in Good
  <2> HIDE DEF Good
  <2>1. \A k \in 0 .. Len(path) : k \in Good
    BY <1>1, <1>3, <1>4, InductionTo
  <2> QED BY <1>1, <2>1
<1> QED BY <1>5

\* splitPath returns the maximal runs of characters between slashes, in order.
LEMMA SplitPathSplits ==
  ASSUME NEW path \in Seq(STRING)
  PROVE  IsSplitOf(SplitPath(path), path)
<1> DEFINE n == Len(path)
           starts == {i \in DOMAIN path : path[i] # "/" /\ (i = 1 \/ path[i - 1] = "/")}
           ends(i) == {j \in i .. n + 1 : j = n + 1 \/ path[j] = "/"}
           segs == SplitPath(path)
<1>1. n \in Nat /\ DOMAIN path = 1 .. n
  OBVIOUS
<1>2. PICK x : IsRun(x, path)
  BY SplitPathRuns
<1>3. PICK acc \in Splitting : acc = x[n] /\ HasCut(acc, path, n) /\ segs = PushSegment(acc)
  <2>1. x[n] \in Splitting /\ segs = PushSegment(x[n])
    BY <1>1, <1>2 DEF IsRun
  <2>2. HasCut(x[n], path, n)
    BY <1>2, Cutting
  <2> HIDE DEF segs
  <2> QED BY <2>1, <2>2
<1>4. acc.segments \in Seq(Segment) /\ acc.current \in Segment
  BY DEF Splitting
<1>5. Rank(path, n) \in Nat
  BY <1>1, Ranks
<1> HIDE DEF segs
<1>6. /\ Len(segs) = Rank(path, n)
      /\ \A j \in 1 .. Len(acc.segments) : segs[j] = acc.segments[j]
      /\ acc.current # <<>> => segs[Len(acc.segments) + 1] = acc.current
  <2>1. CASE acc.current = <<>>
    BY <1>3, <1>4, <2>1 DEF PushSegment, HasCut
  <2>2. CASE acc.current # <<>>
    <3>1. segs = Append(acc.segments, acc.current) /\ Rank(path, n) = Len(acc.segments) + 1
      BY <1>3, <2>2 DEF PushSegment, HasCut
    <3> QED BY <1>4, <3>1
  <2> QED BY <2>1, <2>2
<1>7. Len(segs) = Cardinality(starts)
  <2>1. starts = {i \in 1 .. n : Begins(path, i)}
    BY <1>1 DEF Begins
  <2> QED BY <1>6, <2>1 DEF Rank
<1>8. ASSUME NEW i \in starts
      PROVE  segs[Cardinality({j \in starts : j <= i})] = SubSeq(path, i, Min(ends(i)) - 1)
  <2>1. i \in 1 .. n /\ Begins(path, i)
    BY <1>1, <1>8 DEF Begins
  <2>2. Cardinality({j \in starts : j <= i}) = Rank(path, i)
    <3>1. {j \in starts : j <= i} = {j \in 1 .. i : Begins(path, j)}
      BY <1>1, <2>1 DEF Begins
    <3> QED BY <3>1 DEF Rank
  <2>3. PICK e \in i .. n + 1 :
          /\ e = Min(ends(i)) /\ i < e
          /\ e = n + 1 \/ path[e] = "/"
          /\ Unbroken(path, i, e - 1)
    <3>1. ends(i) \in SUBSET Nat /\ n + 1 \in ends(i)
      BY <1>1, <2>1
    <3>2. Min(ends(i)) \in ends(i) /\ \A j \in ends(i) : Min(ends(i)) <= j
      <4> HIDE DEF ends
      <4> QED BY <3>1, LeastIndex
    <3>3. PICK e \in ends(i) : e = Min(ends(i)) /\ \A j \in ends(i) : e <= j
      BY <3>2
    <3>4. e \in i .. n + 1 /\ (e = n + 1 \/ path[e] = "/")
      BY <3>3
    <3>5. i # e
      BY <1>1, <2>1, <3>4 DEF Begins
    <3>6. Unbroken(path, i, e - 1)
      <4> SUFFICES ASSUME NEW m \in i .. e - 1 PROVE path[m] # "/"
        BY DEF Unbroken
      <4>1. m \in i .. n + 1 /\ m < e
        BY <1>1, <2>1, <3>4
      <4> QED BY <1>1, <2>1, <3>3, <3>4, <4>1
    <3>7. i < e /\ e \in i .. n + 1
      BY <1>1, <2>1, <3>4, <3>5
    <3> HIDE DEF ends, starts
    <3> QED BY <3>3, <3>4, <3>6, <3>7
  <2>4. CASE e # n + 1
    <3>1. e \in 1 .. n /\ path[e] = "/"
      BY <1>1, <2>1, <2>3, <2>4
    <3>2. /\ Rank(path, i) \in 1 .. Len(acc.segments)
          /\ acc.segments[Rank(path, i)] = SubSeq(path, i, e - 1)
      BY <1>3, <2>1, <2>3, <3>1 DEF HasCut
    <3> HIDE DEF ends, starts
    <3> QED BY <1>6, <2>2, <2>3, <3>2
  <2>5. CASE e = n + 1
    <3>1. Unbroken(path, i, n)
      BY <1>1, <2>3, <2>5
    <3>2. n \in i .. n /\ path[n] # "/" /\ n # 0
      BY <1>1, <2>1, <3>1 DEF Unbroken
    <3>3. acc.current # <<>>
      BY <1>3, <3>2 DEF HasCut
    <3>4. PICK b \in 1 .. n :
            /\ Begins(path, b) /\ Unbroken(path, b, n)
            /\ acc.current = SubSeq(path, b, n)
            /\ Rank(path, b) = Rank(path, n)
            /\ Rank(path, n) = Len(acc.segments) + 1
      BY <1>3, <3>3 DEF HasCut
    <3>5. i = b
      BY <1>1, <2>1, <3>1, <3>4, OneBeginning
    <3>6. e - 1 = n
      BY <1>1, <2>5
    <3> HIDE DEF ends, starts
    <3> QED BY <1>6, <2>2, <2>3, <3>3, <3>4, <3>5, <3>6
  <2> QED BY <2>4, <2>5
<1>9. IsSplitOf(segs, path)
  BY <1>7, <1>8 DEF IsSplitOf
<1> QED BY <1>9 DEF segs

\* splitPath returns no empty segment.
LEMMA SegmentsAreFull ==
  ASSUME NEW path \in Seq(STRING)
  PROVE  /\ SplitPath(path) \in Seq(Segment)
         /\ \A i \in DOMAIN SplitPath(path) : SplitPath(path)[i] # <<>>
<1> DEFINE Full(s) == \A i \in DOMAIN s : s[i] # <<>>
<1>1. PICK x : IsRun(x, path)
  BY SplitPathRuns
<1>2. Len(path) \in Nat
  OBVIOUS
<1>3. ASSUME NEW acc \in Splitting, Full(acc.segments)
      PROVE  PushSegment(acc) \in Seq(Segment) /\ Full(PushSegment(acc))
  <2>1. acc.segments \in Seq(Segment) /\ acc.current \in Segment
    BY DEF Splitting
  <2>2. CASE acc.current = <<>>
    BY <1>3, <2>1, <2>2 DEF PushSegment
  <2>3. CASE acc.current # <<>>
    <3>1. PICK s \in Seq(Segment), e \in Segment : s = acc.segments /\ e = acc.current
      BY <2>1
    <3>2. PushSegment(acc) = Append(s, e)
      BY <2>3, <3>1 DEF PushSegment
    <3>3. \A i \in DOMAIN Append(s, e) : Append(s, e)[i] # <<>>
      BY <1>3, <2>3, <3>1
    <3> QED BY <3>2, <3>3
  <2> QED BY <2>2, <2>3
<1> DEFINE Good == {k \in 0 .. Len(path) : Full(x[k].segments)}
<1>4. 0 \in Good
  BY <1>1, <1>2 DEF IsRun, Unsplit
<1>5. ASSUME NEW k \in 1 .. Len(path), k - 1 \in Good PROVE k \in Good
  <2>1. x[k - 1] \in Splitting /\ x[k] = Split(x[k - 1], path[k]) /\ k \in 0 .. Len(path)
    BY <1>1 DEF IsRun
  <2>2. x[k].segments \in {x[k - 1].segments, PushSegment(x[k - 1])}
    BY <2>1 DEF Split, Splitting
  <2>3. Full(x[k - 1].segments) /\ Full(PushSegment(x[k - 1]))
    <3>1. Full(x[k - 1].segments)
      BY <1>5
    <3> HIDE DEF Full
    <3> QED BY <1>3, <2>1, <3>1
  <2> HIDE DEF Full
  <2> QED BY <2>1, <2>2, <2>3
<1>6. Len(path) \in Good
  <2> HIDE DEF Good
  <2>1. \A k \in 0 .. Len(path) : k \in Good
    BY <1>2, <1>4, <1>5, InductionTo
  <2> QED BY <1>2, <2>1
<1>7. x[Len(path)] \in Splitting /\ SplitPath(path) = PushSegment(x[Len(path)])
  BY <1>1, <1>2 DEF IsRun
<1>8. Full(x[Len(path)].segments)
  BY <1>6
<1>9. Full(SplitPath(path)) /\ SplitPath(path) \in Seq(Segment)
  <2> HIDE DEF Full
  <2> QED BY <1>3, <1>7, <1>8
<1> QED BY <1>9

-----------------------------------------------------------------------------
(***************************************************************************)
(* Matching.                                                               *)
(***************************************************************************)
\* A segment is its first character and the rest of it.
LEMMA SameParameter ==
  ASSUME NEW u \in Segment, NEW v \in Segment, u # <<>>, v # <<>>,
         u[1] = v[1], Tail(u) = Tail(v)
  PROVE  u = v
<1>1. u \in Seq(STRING) /\ v \in Seq(STRING) /\ Len(u) \in Nat \ {0} /\ Len(v) \in Nat \ {0}
  BY DEF Segment
<1>2. Len(u) = Len(v)
  <2>1. Len(Tail(u)) = Len(u) - 1 /\ Len(Tail(v)) = Len(v) - 1
    BY <1>1
  <2>2. Len(u) - 1 = Len(v) - 1
    BY <2>1
  <2> QED BY <1>1, <2>2
<1>3. ASSUME NEW i \in 1 .. Len(u) PROVE u[i] = v[i]
  <2>1. CASE i # 1
    <3>1. i - 1 \in 1 .. Len(u) - 1
      BY <1>1, <2>1
    <3>2. Tail(u)[i - 1] = u[i] /\ Tail(v)[i - 1] = v[i]
      BY <1>1, <1>2, <3>1
    <3> QED BY <3>2
  <2> QED BY <2>1
<1> QED BY <1>1, <1>2, <1>3, SeqEqual

\* A pattern that matches a path can be filled in with the parameters it extracts.
LEMMA MatchRebuilds ==
  ASSUME NEW pattern \in Seq(STRING), NEW path \in Seq(STRING), NEW headers,
         MatchPattern(pattern, path),
         \A key \in DOMAIN PatternParams(pattern, path) :
           headers[key] = PatternParams(pattern, path)[key]
  PROVE  Rebuilds(pattern, headers, path)
<1> DEFINE pat == SplitPath(pattern)
           segs == SplitPath(path)
           at(key) == {i \in DOMAIN pat : IsParameter(pat[i]) /\ Tail(pat[i]) = key}
           overridden(k) == \E j \in DOMAIN pat : j > k /\ pat[j] = pat[k]
<1>1. /\ pat \in Seq(Segment)
      /\ \A i \in DOMAIN pat : pat[i] # <<>> /\ pat[i] \in Segment
      /\ Len(pat) \in Nat /\ DOMAIN pat = 1 .. Len(pat)
  <2>1. pat \in Seq(Segment) /\ \A i \in DOMAIN pat : pat[i] # <<>>
    BY SegmentsAreFull
  <2> HIDE DEF pat
  <2> QED BY <2>1
<1>2. /\ IsSplitOf(segs, path)
      /\ Len(pat) = Len(segs)
      /\ \A i \in DOMAIN pat : IsParameter(pat[i]) \/ pat[i] = segs[i]
  BY SplitPathSplits DEF MatchPattern
<1>3. ASSUME NEW k \in DOMAIN pat, IsParameter(pat[k]), ~ overridden(k)
      PROVE  headers[Tail(pat[k])] = segs[k]
  <2>1. PatternParams(pattern, path)
          = [key \in {Tail(pat[i]) : i \in {j \in DOMAIN pat : IsParameter(pat[j])}} |->
               segs[Max(at(key))]]
    BY DEF PatternParams
  <2>2. Max(at(Tail(pat[k]))) = k
    <3> HIDE DEF pat
    <3>1. PICK key : key = Tail(pat[k])
      OBVIOUS
    <3>2. at(key) \in SUBSET (0 .. Len(pat)) /\ k \in at(key)
      BY <1>1, <1>3, <3>1
    <3>3. Max(at(key)) \in at(key) /\ \A i \in at(key) : i <= Max(at(key))
      <4> HIDE DEF at
      <4> QED BY <1>1, <3>2, GreatestIndex
    <3>4. PICK m \in at(key) : m = Max(at(key)) /\ k <= m
      BY <3>2, <3>3
    <3>5. m \in DOMAIN pat /\ pat[m] = pat[k]
      <4>1. m \in DOMAIN pat /\ IsParameter(pat[m]) /\ Tail(pat[m]) = Tail(pat[k])
        BY <3>1, <3>4
      <4>2. PICK u \in Segment, v \in Segment : u = pat[m] /\ v = pat[k] /\ u # <<>> /\ v # <<>>
        BY <1>1, <4>1
      <4>3. u[1] = v[1] /\ Tail(u) = Tail(v)
        BY <1>3, <4>1, <4>2 DEF IsParameter
      <4>4. u = v
        BY <4>2, <4>3, SameParameter
      <4> QED BY <4>1, <4>2, <4>4
    <3>6. ~ (m > k)
      BY <1>3, <3>5
    <3>7. m \in Nat /\ k \in Nat
      BY <1>1, <3>5
    <3> HIDE DEF at
    <3> QED BY <3>1, <3>4, <3>6, <3>7
  <2>3. Tail(pat[k]) \in DOMAIN PatternParams(pattern, path)
    <3> HIDE DEF pat
    <3> QED BY <1>3, <2>1
  <2>4. PatternParams(pattern, path)[Tail(pat[k])] = segs[Max(at(Tail(pat[k])))]
    <3> HIDE DEF pat, at, segs
    <3> QED BY <1>3, <2>1
  <2> QED BY <2>2, <2>3, <2>4
<1>4. ASSUME NEW k \in DOMAIN pat, ~ IsParameter(pat[k]) PROVE pat[k] = segs[k]
  BY <1>2, <1>4
<1> QED BY <1>2, <1>3, <1>4 DEF Rebuilds

\* What matches behind a prefix matches with it.
LEMMA PrefixedMatch ==
  ASSUME NEW prefix \in Seq(STRING), NEW pattern, NEW path, Rooted(pattern), Rooted(path),
         MatchPattern(pattern, path)
  PROVE  MatchPattern(prefix \o pattern, prefix \o path)
<1>1. PICK before \in Seq(Segment), pat \in Seq(Segment), segs \in Seq(Segment) :
        /\ before = SplitPath(prefix) /\ pat = SplitPath(pattern) /\ segs = SplitPath(path)
        /\ SplitPath(prefix \o pattern) = before \o pat
        /\ SplitPath(prefix \o path) = before \o segs
  BY SegmentsAreFull, SplitPathConcatenates DEF Rooted
<1>2. Len(pat) = Len(segs) /\ \A i \in DOMAIN pat : IsParameter(pat[i]) \/ pat[i] = segs[i]
  BY <1>1 DEF MatchPattern
<1>3. Len(before \o pat) = Len(before \o segs)
  <2>1. /\ Len(before \o pat) = Len(before) + Len(pat)
        /\ Len(before \o segs) = Len(before) + Len(segs)
    OBVIOUS
  <2> QED BY <1>2, <2>1
<1>4. ASSUME NEW i \in DOMAIN (before \o pat)
      PROVE  IsParameter((before \o pat)[i]) \/ (before \o pat)[i] = (before \o segs)[i]
  <2>1. CASE i \in 1 .. Len(before)
    BY <1>1, <2>1
  <2>2. CASE i \notin 1 .. Len(before)
    <3>1. i - Len(before) \in DOMAIN pat
      BY <1>1, <1>4, <2>2
    <3>2. /\ (before \o pat)[i] = pat[i - Len(before)]
          /\ (before \o segs)[i] = segs[i - Len(before)]
      BY <1>1, <1>2, <1>4, <2>2
    <3> QED BY <1>2, <3>1, <3>2
  <2> QED BY <2>1, <2>2
<1> QED BY <1>1, <1>3, <1>4 DEF MatchPattern

Id == <<"/", ":", "i", "d">>

LEMMA SplitCharacter ==
  ASSUME NEW segs, NEW current, NEW ch, ch # "/"
  PROVE  Split([segments |-> segs, current |-> current], ch)
           = [segments |-> segs, current |-> Append(current, ch)]
BY DEF Split

\* The segment addResource puts behind the collection.
LEMMA IdSplits ==
  /\ Id \in Seq(STRING)
  /\ SplitPath(Id) = << <<":", "i", "d">> >>
<1>1. Id \in Seq(STRING)
  BY CharactersOfResources DEF Id
<1>2. Split(Unsplit, "/") = Unsplit
  BY DEF Split, Unsplit, PushSegment
<1>3. SplitPath(Id) = << <<":", "i", "d">> >>
  <2>1. PICK x : IsRun(x, Id)
    BY <1>1, SplitPathRuns
  <2>2. /\ Len(Id) = 4 /\ Id[1] = "/" /\ Id[2] = ":" /\ Id[3] = "i" /\ Id[4] = "d"
    BY DEF Id
  <2>3. /\ x[0] = Unsplit /\ x[1] = Split(x[0], "/") /\ x[2] = Split(x[1], ":")
        /\ x[3] = Split(x[2], "i") /\ x[4] = Split(x[3], "d")
        /\ SplitPath(Id) = PushSegment(x[4])
    BY <2>1, <2>2 DEF IsRun
  <2>4. PICK c1, c2, c3 :
          /\ c3 = <<":", "i", "d">> /\ c3 # <<>>
          /\ Append(<<>>, ":") = c1 /\ Append(c1, "i") = c2 /\ Append(c2, "d") = c3
    <3>1. /\ Append(<<>>, ":") = <<":">> /\ Append(<<":">>, "i") = <<":", "i">>
          /\ Append(<<":", "i">>, "d") = <<":", "i", "d">> /\ <<":", "i", "d">> # <<>>
      BY AppendToTuple
    <3> QED BY <3>1, Zenon
  <2>5. x[2] = [segments |-> <<>>, current |-> c1]
    BY <1>2, <2>3, <2>4 DEF Split, Unsplit
  <2>6. x[3] = [segments |-> <<>>, current |-> c2]
    <3>1. "i" # "/"
      OBVIOUS
    <3>2. Split([segments |-> <<>>, current |-> c1], "i")
            = [segments |-> <<>>, current |-> Append(c1, "i")]
      BY <3>1, SplitCharacter
    <3> QED BY <2>3, <2>4, <2>5, <3>2, Zenon
  <2>7. x[4] = [segments |-> <<>>, current |-> c3]
    <3>1. "d" # "/"
      OBVIOUS
    <3>2. Split([segments |-> <<>>, current |-> c2], "d")
            = [segments |-> <<>>, current |-> Append(c2, "d")]
      BY <3>1, SplitCharacter
    <3> QED BY <2>3, <2>4, <2>6, <3>2, Zenon
  <2>8. SplitPath(Id) = Append(<<>>, c3)
    <3>1. x[4].segments = <<>> /\ x[4].current = c3
      BY <2>7
    <3> QED BY <2>3, <2>4, <3>1 DEF PushSegment
  <2>9. Append(<<>>, c3) = <<c3>>
    BY AppendToTuple
  <2> QED BY <2>4, <2>8, <2>9
<1> QED BY <1>1, <1>3

\* A slash put before a path cuts nothing.
LEMMA SlashedSplit ==
  ASSUME NEW path \in Seq(STRING)
  PROVE  SplitPath(<<"/">> \o path) = SplitPath(path)
<1> DEFINE slashed == <<"/">> \o path
<1>1. /\ slashed \in Seq(STRING) /\ Len(path) \in Nat /\ Len(slashed) = Len(path) + 1
      /\ slashed[1] = "/"
      /\ \A i \in 1 .. Len(path) : slashed[i + 1] = path[i]
  BY CharactersOfResources
<1> HIDE DEF slashed
<1>2. PICK x : IsRun(x, path)
  BY SplitPathRuns
<1>3. PICK z : IsRun(z, slashed)
  BY <1>1, SplitPathRuns
<1> DEFINE Same == {i \in 0 .. Len(path) : z[i + 1] = x[i]}
<1>4. 0 \in Same
  <2>1. z[1] = Split(z[0], slashed[1]) /\ z[0] = Unsplit /\ x[0] = Unsplit
    <3>1. 1 \in 1 .. Len(slashed) /\ 1 - 1 = 0
      BY <1>1
    <3> QED BY <1>2, <1>3, <3>1 DEF IsRun
  <2>2. Split(Unsplit, "/") = Unsplit
    BY DEF Split, Unsplit, PushSegment
  <2> QED BY <1>1, <2>1, <2>2
<1>5. ASSUME NEW i \in 1 .. Len(path), i - 1 \in Same PROVE i \in Same
  <2>1. i + 1 \in 1 .. Len(slashed) /\ i + 1 - 1 = i /\ (i - 1) + 1 = i
    BY <1>1
  <2>2. z[i + 1] = Split(z[i], slashed[i + 1]) /\ x[i] = Split(x[i - 1], path[i])
    BY <1>2, <1>3, <2>1 DEF IsRun
  <2>3. z[i] = x[i - 1]
    BY <1>5, <2>1
  <2> QED BY <1>1, <2>2, <2>3
<1>6. Len(path) \in Same
  <2>1. \A i \in 0 .. Len(path) : i \in Same
    <3> HIDE DEF Same
    <3> QED BY <1>1, <1>4, <1>5, InductionTo
  <2> QED BY <1>1, <2>1
<1>7. SplitPath(slashed) = PushSegment(z[Len(path) + 1]) /\ SplitPath(path) = PushSegment(x[Len(path)])
  BY <1>1, <1>2, <1>3 DEF IsRun
<1>8. SplitPath(slashed) = SplitPath(path)
  BY <1>6, <1>7
<1> QED BY <1>8 DEF slashed

\* A member's path matches the member's pattern, not the collection's, and is
\* handed to the handler by its last segment.
LEMMA MemberMatches ==
  ASSUME NEW all \in Seq(STRING), NEW path \in Seq(STRING),
         SplitPath(path) # <<>>, Front(SplitPath(path)) = SplitPath(all)
  PROVE  /\ ~ MatchPattern(all, path)
         /\ MatchPattern(all \o Id, path)
         /\ PatternParams(all \o Id, path)[<<"i", "d">>] = Last(SplitPath(path))
<1>1. PICK before \in Seq(Segment), n \in Nat :
        before = SplitPath(all) /\ n = Len(before)
  BY SegmentsAreFull
<1>2. Id \in Seq(STRING) /\ Id[1] = "/"
  BY IdSplits DEF Id
<1> DEFINE id == <<":", "i", "d">>
           pat == before \o <<id>>
<1>3. SplitPath(all \o Id) = pat
  BY <1>1, <1>2, SplitPathConcatenates, IdSplits
<1>4. IsParameter(id) /\ Tail(id) = <<"i", "d">>
  BY DEF IsParameter
<1> HIDE DEF id
<1>5. /\ Len(pat) = n + 1 /\ DOMAIN pat = 1 .. n + 1 /\ pat[n + 1] = id
      /\ \A i \in 1 .. n : pat[i] = before[i]
  BY <1>1
<1>6. PICK segs \in Seq(Segment) :
        /\ segs = SplitPath(path) /\ Len(segs) = n + 1 /\ Last(segs) = segs[n + 1]
        /\ \A i \in 1 .. n : segs[i] = before[i]
  <2>1. PICK segs \in Seq(Segment) : segs = SplitPath(path)
    BY SegmentsAreFull
  <2>2. segs # <<>> /\ before = SubSeq(segs, 1, Len(segs) - 1) /\ n = Len(before)
    BY <1>1, <2>1 DEF Front
  <2>3. Len(segs) \in Nat /\ Len(segs) > 0
    BY <2>2
  <2>4. /\ Len(SubSeq(segs, 1, Len(segs) - 1)) = Len(segs) - 1
        /\ \A i \in 1 .. Len(segs) - 1 : SubSeq(segs, 1, Len(segs) - 1)[i] = segs[i]
    <3>1. PICK m \in Nat : m = Len(segs) - 1 /\ m < Len(segs)
      <4>1. \A l \in Nat : l > 0 => l - 1 \in Nat /\ l - 1 < l
        OBVIOUS
      <4> QED BY <2>3, <4>1, Zenon
    <3>2. Len(SubSeq(segs, 1, m)) = m /\ \A i \in 1 .. m : SubSeq(segs, 1, m)[i] = segs[i]
      <4>1. \A i \in 1 .. m : segs[i] \in Segment /\ 1 + i - 1 = i
        BY <3>1
      <4>2. /\ Len(SubSeq(segs, 1, m)) = IF 1 <= m THEN m - 1 + 1 ELSE 0
            /\ \A i \in 1 .. m - 1 + 1 : SubSeq(segs, 1, m)[i] = segs[1 + i - 1]
        BY <4>1, SubSeqProperties, SMT
      <4> QED BY <4>1, <4>2
    <3> QED BY <3>1, <3>2
  <2>5. n = Len(segs) - 1 /\ \A i \in 1 .. n : segs[i] = before[i]
    BY <2>2, <2>4
  <2> QED BY <2>1, <2>3, <2>5 DEF Last
<1>7. ~ MatchPattern(all, path)
  BY <1>1, <1>6 DEF MatchPattern
<1> HIDE DEF pat
<1>8. MatchPattern(all \o Id, path)
  <2>1. \A i \in DOMAIN pat : IsParameter(pat[i]) \/ pat[i] = segs[i]
    <3> SUFFICES ASSUME NEW i \in DOMAIN pat, i # n + 1 PROVE pat[i] = segs[i]
      BY <1>4, <1>5
    <3>1. i \in 1 .. n
      BY <1>5
    <3> QED BY <1>5, <1>6, <3>1
  <2> QED BY <1>3, <1>5, <1>6, <2>1 DEF MatchPattern
<1> DEFINE at(key) == {i \in DOMAIN pat : IsParameter(pat[i]) /\ Tail(pat[i]) = key}
           keys == {Tail(pat[i]) : i \in {j \in DOMAIN pat : IsParameter(pat[j])}}
<1>9. PatternParams(all \o Id, path) = [key \in keys |-> segs[Max(at(key))]]
  BY <1>3, <1>6 DEF PatternParams
<1>10. PICK key : key = <<"i", "d">>
  OBVIOUS
<1>11. n + 1 \in at(key) /\ key \in keys /\ at(key) \in SUBSET (0 .. n + 1)
  <2>1. n + 1 \in DOMAIN pat /\ IsParameter(pat[n + 1]) /\ Tail(pat[n + 1]) = key
    <3>1. n + 1 \in 1 .. n + 1
      OBVIOUS
    <3>2. pat[n + 1] = id /\ Tail(id) = key
      BY <1>4, <1>5, <1>10, Zenon
    <3> QED BY <1>4, <1>5, <3>1, <3>2, Zenon
  <2>2. at(key) \in SUBSET (1 .. n + 1) /\ (1 .. n + 1) \subseteq (0 .. n + 1)
    BY <1>5
  <2> QED BY <2>1, <2>2
<1> HIDE DEF at, keys
<1>12. Max(at(key)) = n + 1
  <2>1. Max(at(key)) \in at(key) /\ \A i \in at(key) : i <= Max(at(key))
    <3>1. n + 1 \in Nat /\ at(key) # {}
      BY <1>11
    <3> QED BY <1>11, <3>1, GreatestIndex
  <2>2. Max(at(key)) \in 0 .. n + 1 /\ n + 1 <= Max(at(key))
    BY <1>11, <2>1
  <2> QED BY <2>2
<1>13. PatternParams(all \o Id, path)[key] = Last(SplitPath(path))
  BY <1>6, <1>9, <1>11, <1>12
<1> QED BY <1>7, <1>8, <1>10, <1>13

TableOK == routes \in Seq(AllRoutes) /\ pending \in Seq(AllRoutes)

LEMMA TableIsWellFormed == TableOK /\ [Next]_vars => TableOK'
<1> SUFFICES ASSUME TableOK, [Next]_vars PROVE TableOK'
  OBVIOUS
<1>1. CASE PushBack
  BY <1>1 DEF PushBack, TableOK
<1>2. ASSUME NEW call \in Calls, Register(call) PROVE TableOK'
  BY <1>2, CallsAppendRoutes DEF Register, TableOK, tableVars
<1>3. CASE UNCHANGED routerVars
  BY <1>3 DEF TableOK, routerVars, tableVars
<1>4. ASSUME NEW t \in Threads, ProcessRequest(t) PROVE UNCHANGED routerVars
  BY <1>4
  DEF ProcessRequest, Parse, FindRoute, Examine, ExamineFreed, FoundRoute, RunMiddleware, Handle,
      Prepare, Written
<1> QED BY <1>1, <1>2, <1>3, <1>4 DEF Next, Registration, vars

\* A step leaves the table alone or appends a route.
LEMMA TableGrows ==
  ASSUME TableOK, [Next]_vars
  PROVE  \/ routes' = routes
         \/ \E route \in AllRoutes : routes' = Append(routes, route)
<1>1. CASE PushBack
  BY <1>1 DEF PushBack, TableOK
<1>2. ASSUME NEW t \in Threads, ProcessRequest(t) PROVE routes' = routes
  BY <1>2
  DEF ProcessRequest, Parse, FindRoute, Examine, ExamineFreed, FoundRoute, RunMiddleware, Handle,
      Prepare, Written, routerVars, tableVars
<1> QED BY <1>1, <1>2 DEF Next, Registration, Register, vars, routerVars, tableVars

LEMMA TableHolds == Spec => []TableOK
<1>1. Init => TableOK
  BY DEF Init, RouterInit, TableOK
<1> QED BY <1>1, TableIsWellFormed, PTL DEF Spec

\* Router::addRoute appends, and findRoute takes the first route that decides.
THEOREM AnswersStand == Spec => AnswersAreFinal
<1>1. TableOK /\ [Next]_vars =>
        [\A path \in Paths, method \in Methods :
           Answer(routes, path, method) # NotFound =>
             Answer(routes', path, method) = Answer(routes, path, method)]_routerVars
  <2> SUFFICES ASSUME TableOK, [Next]_vars, NEW path \in Paths, NEW method \in Methods,
                      Answer(routes, path, method) # NotFound
               PROVE  Answer(routes', path, method) = Answer(routes, path, method)
    OBVIOUS
  <2>1. CASE routes' = routes
    BY <2>1
  <2>2. ASSUME NEW route \in AllRoutes, routes' = Append(routes, route)
        PROVE  Answer(routes', path, method) = Answer(routes, path, method)
    BY <2>2, AppendedComesLast DEF TableOK
  <2> QED BY <2>1, <2>2, TableGrows
<1> QED BY <1>1, TableHolds, PTL DEF Spec, AnswersAreFinal

-----------------------------------------------------------------------------
(***************************************************************************)
(* The search.                                                             *)
(***************************************************************************)
\* What the loop has established after it has passed some of the routes.
Passed(x, table) ==
  /\ {"pc", "request", "result", "at", "end"} \subseteq DOMAIN x
  /\ x.result = NotFound
  /\ x.end \in 0 .. Len(table)
  /\ x.at \in 1 .. x.end + 1
  /\ \A j \in 1 .. x.at - 1 :
       Try(table[j], x.request.path, RoutingMethod(x.request.method)) = NotFound

Decided(x, table) ==
  /\ x.end \in 0 .. Len(table)
  /\ x.result = Answer(SubSeq(table, 1, x.end), x.request.path, RoutingMethod(x.request.method))

\* How far process_request has come with a request.
SearchOK(x, table) ==
  /\ "pc" \in DOMAIN x
  /\ x.pc = "route" =>
       /\ {"request", "result", "at", "end", "storage"} \subseteq DOMAIN x
       /\ x.result = NotFound
  /\ x.pc = "loop" => Passed(x, table)
  /\ x.pc = "found" => Decided(x, table)

SearchInv ==
  /\ DOMAIN exchange = Threads
  /\ \A t \in Threads : SearchOK(exchange[t], routes)

\* Appending a route disturbs no search.
LEMMA GrowingKeepsSearch ==
  ASSUME NEW S, NEW table \in Seq(S), NEW route \in S, NEW x, SearchOK(x, table)
  PROVE  SearchOK(x, Append(table, route))
<1> DEFINE longer == Append(table, route)
<1>1. /\ longer \in Seq(S) /\ Len(longer) = Len(table) + 1
      /\ \A j \in 1 .. Len(table) : longer[j] = table[j]
  OBVIOUS
<1>2. \A n \in 0 .. Len(table) : SubSeq(longer, 1, n) = SubSeq(table, 1, n)
  OBVIOUS
<1> HIDE DEF longer
<1>3. x.pc = "loop" => Passed(x, longer)
  BY <1>1 DEF SearchOK, Passed
<1>4. x.pc = "found" => Decided(x, longer)
  <2> SUFFICES ASSUME x.pc = "found" PROVE Decided(x, longer)
    OBVIOUS
  <2>1. Decided(x, table)
    BY DEF SearchOK
  <2>2. SubSeq(longer, 1, x.end) = SubSeq(table, 1, x.end)
    BY <1>2, <2>1 DEF Decided
  <2>3. x.end \in 0 .. Len(longer)
    BY <1>1, <2>1 DEF Decided
  <2> QED BY <2>1, <2>2, <2>3 DEF Decided
<1> QED BY <1>3, <1>4 DEF SearchOK, longer

LEMMA ExamineKeepsSearch ==
  ASSUME TableOK, SearchInv, NEW t \in Threads, Examine(t)
  PROVE  SearchOK(exchange'[t], routes)
<1> DEFINE x == exchange[t]
           reply(j) == Try(routes[j], x.request.path, RoutingMethod(x.request.method))
<1>1. x.pc = "loop" /\ Passed(x, routes)
  BY DEF Examine, SearchInv, SearchOK
<1>2. exchange'[t] = IF x.at > x.end THEN [x EXCEPT !.pc = "found"]
                     ELSE IF reply(x.at) = NotFound THEN [x EXCEPT !.at = @ + 1]
                     ELSE [x EXCEPT !.pc = "found", !.result = reply(x.at)]
  BY DEF Examine, Goes, TryNext, SearchInv
<1>3. routes \in Seq(AllRoutes) /\ Len(routes) \in Nat
  BY DEF TableOK
<1>4. PICK part \in Seq(AllRoutes) :
        /\ part = SubSeq(routes, 1, x.end)
        /\ Len(part) = x.end
        /\ \A j \in 1 .. x.end : part[j] = routes[j]
  <2>1. /\ SubSeq(routes, 1, x.end) \in Seq(AllRoutes)
        /\ Len(SubSeq(routes, 1, x.end)) = x.end
        /\ \A j \in 1 .. x.end : SubSeq(routes, 1, x.end)[j] = routes[j]
    BY <1>1, <1>3 DEF Passed
  <2> QED BY <2>1
<1> HIDE DEF x
<1>5. CASE x.at > x.end
  <2>1. exchange'[t] = [x EXCEPT !.pc = "found"]
    BY <1>2, <1>5
  <2>2. \A j \in DOMAIN part : reply(j) = NotFound /\ part[j] = routes[j]
    BY <1>1, <1>3, <1>4, <1>5 DEF Passed
  <2>3. Answer(part, x.request.path, RoutingMethod(x.request.method)) = NotFound
    BY <2>2, NobodyDecides
  <2> QED BY <1>1, <1>4, <2>1, <2>3 DEF Passed, Decided, SearchOK
<1>6. CASE x.at <= x.end /\ reply(x.at) = NotFound
  <2>1. exchange'[t] = [x EXCEPT !.at = @ + 1]
    BY <1>1, <1>2, <1>6 DEF Passed
  <2> QED BY <1>1, <1>3, <1>6, <2>1 DEF Passed, SearchOK
<1>7. CASE x.at <= x.end /\ reply(x.at) # NotFound
  <2>1. exchange'[t] = [x EXCEPT !.pc = "found", !.result = reply(x.at)]
    BY <1>1, <1>2, <1>7 DEF Passed
  <2>2. /\ x.at \in 1 .. Len(part) /\ part[x.at] = routes[x.at]
        /\ \A j \in 1 .. x.at - 1 : reply(j) = NotFound /\ part[j] = routes[j]
    BY <1>1, <1>3, <1>4, <1>7 DEF Passed
  <2>3. Answer(part, x.request.path, RoutingMethod(x.request.method)) = reply(x.at)
    BY <1>7, <2>2, FirstDecides
  <2> QED BY <1>1, <1>4, <2>1, <2>3 DEF Passed, Decided, SearchOK
<1> QED BY <1>1, <1>3, <1>5, <1>6, <1>7 DEF Passed

LEMMA ProcessingKeepsSearch ==
  ASSUME TableOK, SearchInv, NEW t \in Threads, ProcessRequest(t)
  PROVE  SearchInv'
<1>1. UNCHANGED routerVars /\ \E to : exchange' = [exchange EXCEPT ![t] = to]
  BY DEF ProcessRequest, Parse, FindRoute, Examine, ExamineFreed, FoundRoute, RunMiddleware, Handle,
         Prepare, Written, Goes
<1>2. /\ DOMAIN exchange' = Threads
      /\ routes' = routes
      /\ \A u \in Threads : u # t => exchange'[u] = exchange[u]
  BY <1>1 DEF SearchInv, routerVars, tableVars
<1> SUFFICES SearchOK(exchange'[t], routes)
  BY <1>2 DEF SearchInv
<1> DEFINE x == exchange[t]
<1>3. SearchOK(x, routes)
  BY DEF SearchInv
<1>4. ASSUME NEW to, Goes(t, to) PROVE exchange'[t] = to
  BY <1>4 DEF Goes, SearchInv
<1>5. CASE Parse(t)
  <2>1. PICK request \in Requests :
          LET fresh == [pc |-> "route", request |-> request, headers |-> request.headers,
                        at |-> 0, end |-> 0, storage |-> 0, result |-> NotFound,
                        ran |-> <<>>, status |-> "", prepared |-> 0]
          IN  exchange'[t] = IF WellFormed(request) THEN fresh ELSE Caught(fresh)
    BY <1>4, <1>5 DEF Parse
  <2> HIDE DEF x
  <2> DEFINE to == exchange'[t]
  <2>2. CASE WellFormed(request)
    <3>1. to = [pc |-> "route", request |-> request, headers |-> request.headers,
                at |-> 0, end |-> 0, storage |-> 0, result |-> NotFound,
                ran |-> <<>>, status |-> "", prepared |-> 0]
      BY <2>1, <2>2
    <3> HIDE DEF to
    <3>2. /\ to.pc = "route" /\ to.result = NotFound
          /\ {"pc", "request", "result", "at", "end", "storage"} \subseteq DOMAIN to
      BY <3>1
    <3> QED BY <3>2 DEF SearchOK, to
  <2>3. CASE ~ WellFormed(request)
    <3>1. to = Caught([pc |-> "route", request |-> request, headers |-> request.headers,
                       at |-> 0, end |-> 0, storage |-> 0, result |-> NotFound,
                       ran |-> <<>>, status |-> "", prepared |-> 0])
      BY <2>1, <2>3
    <3> HIDE DEF to
    <3>2. to.pc = "done" /\ "pc" \in DOMAIN to
      BY <3>1 DEF Caught
    <3> QED BY <3>2 DEF SearchOK, to
  <2> QED BY <2>2, <2>3
<1>6. CASE FindRoute(t)
  <2>1. /\ x.pc = "route"
        /\ exchange'[t] = [x EXCEPT !.pc = "loop", !.at = 1, !.end = Len(routes),
                                    !.storage = storage]
    BY <1>4, <1>6 DEF FindRoute
  <2>2. Len(routes) \in Nat
    BY DEF TableOK
  <2> HIDE DEF x
  <2>3. /\ exchange'[t].pc = "loop" /\ exchange'[t].request = x.request
        /\ exchange'[t].result = NotFound
        /\ exchange'[t].at = 1 /\ exchange'[t].end = Len(routes)
        /\ {"pc", "request", "result", "at", "end"} \subseteq DOMAIN exchange'[t]
    BY <1>3, <2>1 DEF SearchOK
  <2> QED BY <2>2, <2>3 DEF SearchOK, Passed
<1>7. CASE Examine(t)
  BY <1>7, ExamineKeepsSearch
<1>8. CASE FoundRoute(t)
  <2>1. x.pc = "found" /\ x.result.reply \in Replies
    BY <1>3, <1>8, AnswerReplies DEF FoundRoute, SearchOK, Decided
  <2>2. \/ exchange'[t] = [x EXCEPT !.pc = "done", !.status = "404", !.prepared = @ + 1]
        \/ exchange'[t] = Caught(x)
        \/ exchange'[t] = [x EXCEPT !.pc = "run", !.headers = WithParams(@, x.result.params)]
    BY <1>4, <1>8, <2>1 DEF FoundRoute, Replies
  <2> HIDE DEF x
  <2> QED BY <1>3, <2>2 DEF Caught, SearchOK
<1>9. CASE RunMiddleware(t) \/ Handle(t)
  <2>1. x.pc = "run"
    BY <1>9 DEF RunMiddleware, Handle
  <2>2. \/ exchange'[t] = Caught(Ran(t))
        \/ exchange'[t] = Ran(t)
        \/ exchange'[t] = [Ran(t) EXCEPT !.pc = "prepare"]
    BY <1>4, <1>9 DEF RunMiddleware, Handle
  <2>3. Ran(t) = [x EXCEPT !.ran = Append(@, Chain(x.result.route)[Len(@) + 1])]
    BY DEF Ran
  <2> HIDE DEF x
  <2> QED BY <1>3, <2>1, <2>2, <2>3 DEF Caught, SearchOK
<1>10. CASE Prepare(t)
  <2>1. \/ exchange'[t] = [x EXCEPT !.pc = "done", !.status = "handler", !.prepared = @ + 1]
        \/ exchange'[t] = Caught(x)
    BY <1>4, <1>10 DEF Prepare
  <2> HIDE DEF x
  <2> QED BY <1>3, <2>1 DEF Caught, SearchOK
<1>11. CASE ExamineFreed(t)
  <2>1. exchange'[t] = [x EXCEPT !.pc = "done", !.result = Undefined]
    BY <1>4, <1>11 DEF ExamineFreed
  <2> HIDE DEF x
  <2> QED BY <1>3, <2>1 DEF SearchOK
<1>12. CASE Written(t)
  BY <1>4, <1>12 DEF Written, SearchOK, Idle
<1> QED
  BY <1>5, <1>6, <1>7, <1>8, <1>9, <1>10, <1>11, <1>12 DEF ProcessRequest

LEMMA SearchInvHolds == Spec => [](TableOK /\ SearchInv)
<1>1. Init => SearchInv
  BY DEF Init, SearchInv, SearchOK, Idle
<1>2. TableOK /\ SearchInv /\ [Next]_vars => SearchInv'
  <2> SUFFICES ASSUME TableOK, SearchInv, [Next]_vars PROVE SearchInv'
    OBVIOUS
  <2>1. ASSUME NEW t \in Threads, ProcessRequest(t) PROVE SearchInv'
    BY <2>1, ProcessingKeepsSearch
  <2>2. CASE UNCHANGED exchange
    <3>1. CASE routes' = routes
      BY <2>2, <3>1 DEF SearchInv
    <3>2. ASSUME NEW route \in AllRoutes, routes' = Append(routes, route) PROVE SearchInv'
      BY <2>2, <3>2, GrowingKeepsSearch DEF SearchInv, TableOK
    <3> QED BY <3>1, <3>2, TableGrows
  <2> QED BY <2>1, <2>2 DEF Next, vars
<1> QED BY <1>1, <1>2, TableHolds, PTL DEF Spec

\* findRoute returns the first route of the table it began with that decides the
\* request, although routes are appended behind its end() in the meantime.
THEOREM FirstRouteIsFound == Spec => []SearchFindsFirst
<1>1. SearchInv => SearchFindsFirst
  BY DEF SearchInv, SearchOK, Decided, SearchFindsFirst
<1> QED BY <1>1, SearchInvHolds, PTL

-----------------------------------------------------------------------------
(***************************************************************************)
(* The response.                                                           *)
(***************************************************************************)
Fields == {"pc", "request", "result", "ran", "status", "prepared"}

\* Nothing has been put into the client's buffer yet.
Unanswered(x) ==
  /\ Fields \subseteq DOMAIN x
  /\ WellFormed(x.request)
  /\ x.status = ""
  /\ x.prepared = 0

\* What has run is a part of the route's chain, from its beginning.
Running(x) ==
  LET chain == Chain(x.result.route)
  IN  /\ x.result.reply = "found" /\ ~ Unhandled(x.result)
      /\ x.result.route.middleware \in Seq(STRING)
      /\ x.ran \in Seq(STRING \cup {x.result.route.handler})
      /\ Len(x.ran) <= Len(chain)
      /\ \A i \in 1 .. Len(x.ran) : x.ran[i] = chain[i]

Answered(x) ==
  /\ x.prepared = 1
  /\ x.status = "handler" => x.ran = Chain(x.result.route)
  /\ x.status = "404" <=> WellFormed(x.request) /\ Unhandled(x.result)
  /\ x.status = "404" => x.ran = <<>>
  /\ x.status \in {"handler", "404", "500"}

ResponseOK(x) ==
  /\ "pc" \in DOMAIN x
  /\ x.pc \in {"route", "loop", "found"} => Unanswered(x) /\ x.ran = <<>>
  /\ x.pc = "run" => Unanswered(x) /\ Running(x) /\ Len(x.ran) < Len(Chain(x.result.route))
  /\ x.pc = "prepare" => Unanswered(x) /\ Running(x) /\ x.ran = Chain(x.result.route)
  /\ x.pc = "done" /\ x.result # Undefined => Answered(x)

ResponseInv == \A t \in Threads : ResponseOK(exchange[t])

\* The catch block answers whatever did not get an answer.
LEMMA CaughtIsAnswered ==
  ASSUME NEW x, Fields \subseteq DOMAIN x, x.prepared = 0,
         ~ WellFormed(x.request) \/ ~ Unhandled(x.result)
  PROVE  ResponseOK(Caught(x))
<1> DEFINE to == Caught(x)
<1>1. /\ to.pc = "done" /\ to.status = "500" /\ to.prepared = 1
      /\ to.request = x.request /\ to.result = x.result
      /\ "pc" \in DOMAIN to
  BY DEF Caught, Fields
<1> HIDE DEF to
<1> QED BY <1>1 DEF ResponseOK, Answered, to

\* Running the next element keeps what has run a part of the chain.
LEMMA RanKeepsRunning ==
  ASSUME NEW t \in Threads, exchange[t].pc = "run", ResponseOK(exchange[t])
  PROVE  /\ Unanswered(Ran(t)) /\ Running(Ran(t))
         /\ Ran(t).pc = "run" /\ Ran(t).result = exchange[t].result
         /\ ~ Unhandled(Ran(t).result)
         /\ Len(Ran(t).ran) = Len(exchange[t].ran) + 1
<1> DEFINE x == exchange[t]
           S == STRING \cup {x.result.route.handler}
           chain == Chain(x.result.route)
<1>1. Unanswered(x) /\ Running(x) /\ Len(x.ran) < Len(chain)
  BY DEF ResponseOK
<1>2. chain \in Seq(S) /\ Len(chain) \in Nat
  BY <1>1 DEF Running, Chain
<1> DEFINE to == Ran(t)
<1>3. to = [x EXCEPT !.ran = Append(@, chain[Len(@) + 1])]
  BY DEF Ran
<1>4. x.ran \in Seq(S)
  BY <1>1 DEF Running
<1>5. chain[Len(x.ran) + 1] \in S
  BY <1>1, <1>2, <1>4
<1> HIDE DEF to, x
<1>6. /\ to.pc = x.pc /\ to.request = x.request /\ to.result = x.result
      /\ to.status = x.status /\ to.prepared = x.prepared
      /\ to.ran = Append(x.ran, chain[Len(x.ran) + 1])
      /\ Fields \subseteq DOMAIN to
  BY <1>1, <1>3 DEF Unanswered, Fields
<1> HIDE DEF S
<1>7. /\ to.ran \in Seq(S) /\ Len(to.ran) = Len(x.ran) + 1
      /\ to.ran[Len(x.ran) + 1] = chain[Len(x.ran) + 1]
      /\ \A i \in 1 .. Len(x.ran) : to.ran[i] = x.ran[i]
  BY <1>4, <1>5, <1>6
<1>8. \A i \in 1 .. Len(to.ran) : to.ran[i] = chain[i]
  BY <1>1, <1>4, <1>7 DEF Running
<1>9. Running(to)
  BY <1>1, <1>2, <1>4, <1>6, <1>7, <1>8 DEF Running, S
<1>10. ~ Unhandled(x.result)
  BY <1>1 DEF Running
<1> QED BY <1>1, <1>6, <1>7, <1>9, <1>10 DEF Unanswered, to, x

\* What has run to the end is the chain.
LEMMA AllRan ==
  ASSUME NEW x, Running(x), Len(x.ran) = Len(Chain(x.result.route))
  PROVE  x.ran = Chain(x.result.route)
<1> DEFINE S == STRING \cup {x.result.route.handler}
           chain == Chain(x.result.route)
<1>1. chain \in Seq(S) /\ x.ran \in Seq(S)
  BY DEF Running, Chain
<1>2. \A i \in 1 .. Len(x.ran) : x.ran[i] = chain[i]
  BY DEF Running
<1> HIDE DEF S, chain
<1>3. Len(x.ran) = Len(chain)
  BY DEF chain
<1>4. x.ran = chain
  BY <1>1, <1>2, <1>3
<1> QED BY <1>4 DEF chain

LEMMA ProcessingKeepsResponse ==
  ASSUME TableOK, SearchInv, ResponseInv, NEW t \in Threads, ProcessRequest(t)
  PROVE  ResponseInv'
<1>1. \E to : exchange' = [exchange EXCEPT ![t] = to]
  BY DEF ProcessRequest, Parse, FindRoute, Examine, ExamineFreed, FoundRoute, RunMiddleware, Handle,
         Prepare, Written, Goes
<1>2. \A u \in Threads : u # t => exchange'[u] = exchange[u]
  BY <1>1 DEF SearchInv
<1> SUFFICES ResponseOK(exchange'[t])
  BY <1>2 DEF ResponseInv
<1> DEFINE x == exchange[t]
<1>3. ResponseOK(x) /\ SearchOK(x, routes)
  BY DEF ResponseInv, SearchInv
<1>4. ASSUME NEW to, Goes(t, to) PROVE exchange'[t] = to
  BY <1>4 DEF Goes, SearchInv
<1>5. CASE Parse(t)
  <2>1. PICK request \in Requests :
          LET fresh == [pc |-> "route", request |-> request, headers |-> request.headers,
                        at |-> 0, end |-> 0, storage |-> 0, result |-> NotFound,
                        ran |-> <<>>, status |-> "", prepared |-> 0]
          IN  exchange'[t] = IF WellFormed(request) THEN fresh ELSE Caught(fresh)
    BY <1>4, <1>5 DEF Parse
  <2> HIDE DEF x
  <2>2. PICK fresh :
          /\ Fields \subseteq DOMAIN fresh
          /\ fresh.pc = "route" /\ fresh.request = request /\ fresh.ran = <<>>
          /\ fresh.status = "" /\ fresh.prepared = 0
          /\ exchange'[t] = IF WellFormed(request) THEN fresh ELSE Caught(fresh)
    BY <2>1 DEF Fields
  <2>3. CASE WellFormed(request)
    BY <2>2, <2>3 DEF ResponseOK, Unanswered, Fields
  <2>4. CASE ~ WellFormed(request)
    BY <2>2, <2>4, CaughtIsAnswered
  <2> QED BY <2>3, <2>4
<1>6. CASE FindRoute(t)
  <2>1. /\ x.pc = "route"
        /\ exchange'[t] = [x EXCEPT !.pc = "loop", !.at = 1, !.end = Len(routes),
                                    !.storage = storage]
    BY <1>4, <1>6 DEF FindRoute
  <2> HIDE DEF x
  <2> QED BY <1>3, <2>1 DEF ResponseOK, Unanswered, Fields
<1>7. CASE Examine(t)
  <2>1. /\ x.pc = "loop"
        /\ \/ exchange'[t] = [x EXCEPT !.pc = "found"]
           \/ exchange'[t] = [x EXCEPT !.at = @ + 1]
           \/ exchange'[t] = [x EXCEPT !.pc = "found", !.result = TryNext(t)]
    BY <1>4, <1>7 DEF Examine
  <2> HIDE DEF x
  <2> QED BY <1>3, <2>1 DEF ResponseOK, Unanswered, Fields
<1>8. CASE FoundRoute(t)
  <2>1. x.pc = "found" /\ Unanswered(x) /\ x.ran = <<>>
    BY <1>3, <1>8 DEF FoundRoute, ResponseOK
  <2>2. \/ x.result = NotFound
        \/ x.result = Throws
        \/ x.result.reply = "found" /\ x.result.route \in AllRoutes
    <3>1. x.end \in 0 .. Len(routes) /\ routes \in Seq(AllRoutes)
      BY <1>3, <2>1 DEF SearchOK, Decided, TableOK
    <3>2. SubSeq(routes, 1, x.end) \in Seq(AllRoutes)
      BY <3>1
    <3> QED BY <1>3, <2>1, <3>2, AnswersComeFromRoutes DEF SearchOK, Decided
  <2>3. CASE Unhandled(x.result)
    <3>1. exchange'[t] = [x EXCEPT !.pc = "done", !.status = "404", !.prepared = @ + 1]
      BY <1>4, <1>8, <2>3 DEF FoundRoute, Unhandled
    <3> DEFINE to == exchange'[t]
    <3> HIDE DEF x, to
    <3>0. Fields \subseteq DOMAIN x /\ x.prepared = 0
      BY <2>1 DEF Unanswered
    <3>2. /\ to.pc = "done" /\ to.status = "404" /\ to.prepared = 1 /\ "pc" \in DOMAIN to
          /\ to.request = x.request /\ to.result = x.result /\ to.ran = x.ran
      BY <3>0, <3>1 DEF Fields, to
    <3>3. WellFormed(to.request) /\ Unhandled(to.result) /\ to.ran = <<>>
      BY <2>1, <2>3, <3>2 DEF Unanswered
    <3> QED BY <3>2, <3>3 DEF ResponseOK, Answered, to
  <2>4. CASE x.result = Throws
    <3>1. ~ Unhandled(x.result)
      BY <2>4 DEF Unhandled, Throws, NotFound
    <3>2. exchange'[t] = Caught(x)
      BY <1>4, <1>8, <2>4, <3>1 DEF FoundRoute, Throws
    <3> QED BY <2>1, <3>1, <3>2, CaughtIsAnswered DEF Unanswered
  <2>5. CASE /\ x.result.reply = "found" /\ x.result.route \in AllRoutes
             /\ ~ Unhandled(x.result)
    <3>1. exchange'[t] = [x EXCEPT !.pc = "run", !.headers = WithParams(@, x.result.params)]
      BY <1>4, <1>8, <2>5 DEF FoundRoute
    <3>2. x.result.route.middleware \in Seq(STRING)
      BY <2>5, RoutesAreTyped DEF IsRoute
    <3> DEFINE route == x.result.route
    <3>3. Len(Chain(route)) = Len(route.middleware) + 1 /\ Len(route.middleware) \in Nat
      BY <3>2 DEF Chain
    <3> DEFINE to == exchange'[t]
    <3> HIDE DEF x, to
    <3>4. /\ to.pc = "run" /\ to.request = x.request /\ to.result = x.result
          /\ to.ran = <<>> /\ to.status = x.status /\ to.prepared = x.prepared
          /\ Fields \subseteq DOMAIN to
      BY <2>1, <3>1 DEF Unanswered, Fields, to
    <3>5. Unanswered(to)
      BY <2>1, <3>4 DEF Unanswered
    <3>6. Len(to.ran) = 0 /\ to.ran \in Seq(STRING \cup {to.result.route.handler})
      BY <3>4
    <3>7. Running(to) /\ Len(to.ran) < Len(Chain(to.result.route))
      BY <2>5, <3>2, <3>3, <3>4, <3>6 DEF Running
    <3> QED BY <3>4, <3>5, <3>7 DEF ResponseOK, Fields, to
  <2>6. x.result = NotFound => Unhandled(x.result)
    BY DEF Unhandled, NotFound
  <2> QED BY <2>2, <2>3, <2>4, <2>5, <2>6
<1>9. CASE RunMiddleware(t) \/ Handle(t)
  <2>1. x.pc = "run" /\ Unanswered(x) /\ Running(x)
    BY <1>3, <1>9 DEF RunMiddleware, Handle, ResponseOK
  <2>2. /\ Unanswered(Ran(t)) /\ Running(Ran(t))
        /\ Ran(t).pc = "run" /\ Ran(t).result = x.result /\ ~ Unhandled(Ran(t).result)
        /\ Len(Ran(t).ran) = Len(x.ran) + 1
    BY <1>3, <2>1, RanKeepsRunning
  <2>3. /\ Len(Chain(x.result.route)) = Len(x.result.route.middleware) + 1
        /\ Len(x.result.route.middleware) \in Nat /\ Len(x.ran) \in Nat
    BY <2>1 DEF Running, Chain
  <2>4. CASE exchange'[t] = Caught(Ran(t))
    BY <2>2, <2>4, CaughtIsAnswered DEF Unanswered
  <2>5. CASE exchange'[t] = Ran(t) /\ Len(x.ran) < Len(x.result.route.middleware)
    <3>1. Len(Ran(t).ran) < Len(Chain(Ran(t).result.route))
      BY <2>2, <2>3, <2>5
    <3> QED BY <2>2, <2>5, <3>1 DEF ResponseOK, Unanswered, Fields
  <2>6. CASE /\ exchange'[t] = [Ran(t) EXCEPT !.pc = "prepare"]
             /\ Len(x.ran) = Len(x.result.route.middleware)
    <3>1. Len(Ran(t).ran) = Len(Chain(Ran(t).result.route))
      BY <2>2, <2>3, <2>6
    <3>2. Ran(t).ran = Chain(Ran(t).result.route)
      BY <2>2, <3>1, AllRan
    <3> HIDE DEF x
    <3> QED BY <2>2, <2>6, <3>2 DEF ResponseOK, Unanswered, Running, Fields
  <2> QED BY <1>4, <1>9, <2>4, <2>5, <2>6 DEF RunMiddleware, Handle
<1>10. CASE Prepare(t)
  <2>1. x.pc = "prepare" /\ Unanswered(x) /\ Running(x) /\ x.ran = Chain(x.result.route)
    BY <1>3, <1>10 DEF Prepare, ResponseOK
  <2>2. ~ Unhandled(x.result)
    BY <2>1 DEF Running
  <2>3. CASE exchange'[t] = [x EXCEPT !.pc = "done", !.status = "handler", !.prepared = @ + 1]
    <3> DEFINE to == exchange'[t]
    <3> HIDE DEF x, to
    <3>0. Fields \subseteq DOMAIN x /\ x.prepared = 0
      BY <2>1 DEF Unanswered
    <3>1. /\ to.pc = "done" /\ to.status = "handler" /\ to.prepared = 1 /\ "pc" \in DOMAIN to
          /\ to.ran = x.ran /\ to.result = x.result
      BY <2>3, <3>0 DEF Fields, to
    <3>2. to.ran = Chain(to.result.route) /\ ~ Unhandled(to.result)
      BY <2>1, <2>2, <3>1
    <3> QED BY <3>1, <3>2 DEF ResponseOK, Answered, to
  <2>4. CASE exchange'[t] = Caught(x)
    BY <2>1, <2>2, <2>4, CaughtIsAnswered DEF Unanswered
  <2> QED BY <1>4, <1>10, <2>3, <2>4 DEF Prepare
<1>11. CASE ExamineFreed(t)
  <2>1. exchange'[t] = [x EXCEPT !.pc = "done", !.result = Undefined]
    BY <1>4, <1>11 DEF ExamineFreed
  <2>2. x.pc = "loop" /\ Unanswered(x)
    BY <1>3, <1>11 DEF ExamineFreed, Stale, ResponseOK
  <2> HIDE DEF x
  <2> QED BY <2>1, <2>2 DEF ResponseOK, Unanswered, Fields
<1>12. CASE Written(t)
  BY <1>4, <1>12 DEF Written, ResponseOK, Idle
<1> QED
  BY <1>5, <1>6, <1>7, <1>8, <1>9, <1>10, <1>11, <1>12 DEF ProcessRequest

LEMMA ResponseInvHolds == Spec => []ResponseInv
<1>1. Init => ResponseInv
  BY DEF Init, ResponseInv, ResponseOK, Idle
<1>2. TableOK /\ SearchInv /\ ResponseInv /\ [Next]_vars => ResponseInv'
  BY ProcessingKeepsResponse DEF Next, vars, ResponseInv
<1> QED BY <1>1, <1>2, SearchInvHolds, PTL DEF Spec

\* Whatever throws in process_request and whenever, exactly one response is left in
\* the client's buffer: the handler's, behind all middleware, or 404, or 500.
THEOREM EveryRequestHasOneResponse == Spec => []OneResponse
<1>1. ResponseInv => OneResponse
  BY DEF ResponseInv, ResponseOK, Answered, OneResponse
<1> QED BY <1>1, ResponseInvHolds, PTL

\* Middleware runs in the order of the route and before its handler, and nothing
\* runs behind one that has thrown.
THEOREM MiddlewareComesFirst == Spec => []MiddlewareFirst
<1>1. ASSUME NEW x, Running(x) PROVE IsPrefix(x.ran, Chain(x.result.route))
  <2> DEFINE S == STRING \cup {x.result.route.handler}
             chain == Chain(x.result.route)
  <2>1. chain \in Seq(S) /\ x.ran \in Seq(S) /\ Len(x.ran) <= Len(chain)
    BY <1>1 DEF Running, Chain
  <2>2. \A i \in 1 .. Len(x.ran) : x.ran[i] = chain[i]
    BY <1>1 DEF Running
  <2> HIDE DEF S, chain
  <2>3. SubSeq(x.ran, 1, Len(x.ran)) = SubSeq(chain, 1, Len(x.ran))
    BY <2>1, <2>2
  <2> QED BY <2>1, <2>3 DEF IsPrefix, chain
<1>2. ResponseInv => MiddlewareFirst
  BY <1>1 DEF ResponseInv, ResponseOK, Unanswered, MiddlewareFirst
<1> QED BY <1>2, ResponseInvHolds, PTL

-----------------------------------------------------------------------------
(***************************************************************************)
(* The parameters of a match.                                              *)
(***************************************************************************)
\* A handler's request holds the parameters of the route that was found.
Seen(x) ==
  ~ x.result.route.isRegex =>
    Rebuilds(x.result.route.pathPattern, x.headers, x.request.path)

Known == {"pc", "request", "headers", "result", "ran"}

ParamsOK(x) ==
  /\ "pc" \in DOMAIN x
  /\ x.pc \in {"route", "loop", "found", "run"} =>
       Known \subseteq DOMAIN x /\ x.request \in Requests
  /\ x.pc = "run" => Seen(x)

ParamsInv == \A t \in Threads : ParamsOK(exchange[t])

LEMMA ParamsAreSeen ==
  ASSUME NEW table \in Seq(AllRoutes), NEW path \in Seq(STRING), NEW method, NEW headers,
         NEW result, result = Answer(table, path, method), result.reply = "found"
  PROVE  ~ result.route.isRegex =>
           Rebuilds(result.route.pathPattern, WithParams(headers, result.params), path)
<1> SUFFICES ASSUME ~ result.route.isRegex
             PROVE  Rebuilds(result.route.pathPattern, WithParams(headers, result.params), path)
  OBVIOUS
<1>1. result # NotFound
  BY DEF NotFound
<1>2. PICK route \in AllRoutes : result = Try(route, path, method)
  <2>1. PICK i \in DOMAIN table : Answer(table, path, method) = Try(table[i], path, method)
    BY <1>1, AnswerIsARoutes
  <2>2. table[i] \in AllRoutes
    OBVIOUS
  <2> QED BY <2>1, <2>2
<1>3. /\ result.route = route
      /\ MatchPattern(route.pathPattern, path)
      /\ result.params = PatternParams(route.pathPattern, path)
  BY <1>2, FoundMatches
<1>4. PICK pattern \in Seq(STRING) : pattern = route.pathPattern
  BY RoutesAreTyped DEF IsRoute
<1>5. PICK params : params = PatternParams(pattern, path)
  OBVIOUS
<1>6. \A key \in DOMAIN params : WithParams(headers, params)[key] = params[key]
  BY DEF WithParams
<1>7. Rebuilds(pattern, WithParams(headers, params), path)
  BY <1>3, <1>4, <1>5, <1>6, MatchRebuilds
<1> QED BY <1>3, <1>4, <1>5, <1>7

LEMMA ProcessingKeepsParams ==
  ASSUME TableOK, SearchInv, ParamsInv, NEW t \in Threads, ProcessRequest(t)
  PROVE  ParamsInv'
<1>1. \E to : exchange' = [exchange EXCEPT ![t] = to]
  BY DEF ProcessRequest, Parse, FindRoute, Examine, ExamineFreed, FoundRoute, RunMiddleware, Handle,
         Prepare, Written, Goes
<1>2. \A u \in Threads : u # t => exchange'[u] = exchange[u]
  BY <1>1 DEF SearchInv
<1> SUFFICES ParamsOK(exchange'[t])
  BY <1>2 DEF ParamsInv
<1> DEFINE x == exchange[t]
<1>3. ParamsOK(x) /\ SearchOK(x, routes)
  BY DEF ParamsInv, SearchInv
<1>4. ASSUME NEW to, Goes(t, to) PROVE exchange'[t] = to
  BY <1>4 DEF Goes, SearchInv
<1>5. CASE Parse(t)
  <2>1. PICK request \in Requests :
          LET fresh == [pc |-> "route", request |-> request, headers |-> request.headers,
                        at |-> 0, end |-> 0, storage |-> 0, result |-> NotFound,
                        ran |-> <<>>, status |-> "", prepared |-> 0]
          IN  exchange'[t] = IF WellFormed(request) THEN fresh ELSE Caught(fresh)
    BY <1>4, <1>5 DEF Parse
  <2> HIDE DEF x
  <2>2. PICK fresh :
          /\ Known \subseteq DOMAIN fresh /\ fresh.pc = "route" /\ fresh.request = request
          /\ exchange'[t] = IF WellFormed(request) THEN fresh ELSE Caught(fresh)
    BY <2>1 DEF Known
  <2>3. Caught(fresh).pc = "done" /\ "pc" \in DOMAIN Caught(fresh)
    BY <2>2 DEF Caught, Known
  <2> QED BY <2>2, <2>3 DEF ParamsOK, Known
<1>6. CASE FindRoute(t) \/ Examine(t)
  <2>1. /\ x.pc \in {"route", "loop"}
        /\ \/ exchange'[t] = [x EXCEPT !.pc = "loop", !.at = 1, !.end = Len(routes),
                                       !.storage = storage]
           \/ exchange'[t] = [x EXCEPT !.pc = "found"]
           \/ exchange'[t] = [x EXCEPT !.at = @ + 1]
           \/ exchange'[t] = [x EXCEPT !.pc = "found", !.result = TryNext(t)]
    BY <1>4, <1>6 DEF FindRoute, Examine
  <2>2. x.pc # "run" /\ Known \subseteq DOMAIN x /\ x.request \in Requests
    BY <1>3, <2>1 DEF ParamsOK
  <2> HIDE DEF x
  <2>3. /\ exchange'[t].pc # "run" /\ exchange'[t].request = x.request
        /\ DOMAIN exchange'[t] = DOMAIN x
    BY <2>1, <2>2 DEF Known
  <2> QED BY <2>2, <2>3 DEF ParamsOK, Known
<1>7. CASE FoundRoute(t)
  <2>1. x.pc = "found" /\ x.result.reply \in Replies
    BY <1>3, <1>7, AnswerReplies DEF FoundRoute, SearchOK, Decided
  <2>2. Known \subseteq DOMAIN x /\ x.request \in Requests
    BY <1>3, <2>1 DEF ParamsOK
  <2>3. CASE x.result.reply = "found" /\ ~ Unhandled(x.result)
    <3>1. exchange'[t] = [x EXCEPT !.pc = "run", !.headers = WithParams(@, x.result.params)]
      BY <1>4, <1>7, <2>3 DEF FoundRoute
    <3>2. PICK table \in Seq(AllRoutes), path \in Seq(STRING),
               method \in {RoutingMethod(x.request.method)} :
            /\ path = x.request.path
            /\ x.result = Answer(table, path, method)
      <4>1. /\ x.end \in 0 .. Len(routes) /\ routes \in Seq(AllRoutes)
            /\ x.result = Answer(SubSeq(routes, 1, x.end), x.request.path,
                                 RoutingMethod(x.request.method))
        BY <1>3, <2>1 DEF SearchOK, Decided, TableOK
      <4>2. SubSeq(routes, 1, x.end) \in Seq(AllRoutes) /\ x.request.path \in Seq(STRING)
        BY <2>2, <4>1, ExchangeAssumption
      <4> QED BY <4>1, <4>2
    <3>3. PICK result, headers : result = x.result /\ headers = x.headers
      OBVIOUS
    <3>4. ~ result.route.isRegex =>
            Rebuilds(result.route.pathPattern, WithParams(headers, result.params), path)
      BY <2>3, <3>2, <3>3, ParamsAreSeen
    <3> DEFINE to == exchange'[t]
    <3> HIDE DEF x, to
    <3>5. /\ to.pc = "run" /\ to.request = x.request /\ to.result = x.result
          /\ to.headers = WithParams(x.headers, x.result.params)
          /\ Known \subseteq DOMAIN to
      BY <2>2, <3>1 DEF Known, to
    <3>6. Seen(to)
      BY <3>2, <3>3, <3>4, <3>5 DEF Seen
    <3> QED BY <2>2, <3>5, <3>6 DEF ParamsOK, Known, to
  <2>4. CASE x.result.reply # "found" \/ Unhandled(x.result)
    <3>1. \/ exchange'[t] = [x EXCEPT !.pc = "done", !.status = "404", !.prepared = @ + 1]
          \/ exchange'[t] = Caught(x)
      <4>1. Unhandled(x.result) \/ x.result.reply = "throws"
        BY <2>1, <2>4 DEF Replies, Unhandled
      <4>2. CASE Unhandled(x.result)
        BY <1>4, <1>7, <4>2 DEF FoundRoute, Unhandled
      <4>3. CASE ~ Unhandled(x.result)
        BY <1>4, <1>7, <4>1, <4>3 DEF FoundRoute
      <4> QED BY <4>2, <4>3
    <3> HIDE DEF x
    <3>2. exchange'[t].pc = "done" /\ "pc" \in DOMAIN exchange'[t]
      BY <2>2, <3>1 DEF Caught, Known
    <3> QED BY <3>2 DEF ParamsOK
  <2> QED BY <2>3, <2>4
<1>8. CASE RunMiddleware(t) \/ Handle(t)
  <2>1. x.pc = "run"
    BY <1>8 DEF RunMiddleware, Handle
  <2>2. \/ exchange'[t] = Caught(Ran(t))
        \/ exchange'[t] = Ran(t)
        \/ exchange'[t] = [Ran(t) EXCEPT !.pc = "prepare"]
    BY <1>4, <1>8 DEF RunMiddleware, Handle
  <2>3. Known \subseteq DOMAIN x /\ x.request \in Requests /\ Seen(x)
    BY <1>3, <2>1 DEF ParamsOK
  <2>4. Ran(t) = [x EXCEPT !.ran = Append(@, Chain(x.result.route)[Len(@) + 1])]
    BY DEF Ran
  <2> HIDE DEF x
  <2>5. /\ Ran(t).pc = "run" /\ Ran(t).request = x.request /\ Ran(t).result = x.result
        /\ Ran(t).headers = x.headers /\ Known \subseteq DOMAIN Ran(t)
    BY <2>1, <2>3, <2>4 DEF Known
  <2>6. ParamsOK(Ran(t))
    BY <2>3, <2>5 DEF ParamsOK, Seen, Known
  <2>7. CASE exchange'[t] # Ran(t)
    <3>1. exchange'[t].pc \in {"done", "prepare"} /\ "pc" \in DOMAIN exchange'[t]
      BY <2>2, <2>5, <2>7 DEF Caught, Known
    <3> QED BY <3>1 DEF ParamsOK
  <2> QED BY <2>6, <2>7
<1>9. CASE Prepare(t) \/ ExamineFreed(t)
  <2>1. \/ exchange'[t] = [x EXCEPT !.pc = "done", !.status = "handler", !.prepared = @ + 1]
        \/ exchange'[t] = Caught(x)
        \/ exchange'[t] = [x EXCEPT !.pc = "done", !.result = Undefined]
    BY <1>4, <1>9 DEF Prepare, ExamineFreed
  <2> HIDE DEF x
  <2>2. exchange'[t].pc = "done" /\ "pc" \in DOMAIN exchange'[t]
    BY <1>3, <2>1 DEF Caught, ParamsOK
  <2> QED BY <2>2 DEF ParamsOK
<1>10. CASE Written(t)
  BY <1>4, <1>10 DEF Written, ParamsOK, Idle
<1> QED
  BY <1>5, <1>6, <1>7, <1>8, <1>9, <1>10 DEF ProcessRequest

\* Whatever headers a request brings: the handler and the middleware find the parts
\* of its path under the keys of the route's pattern.
THEOREM HandlersSeeTheirPath == Spec => []HandlerSeesParams
<1>1. Init => ParamsInv
  BY DEF Init, ParamsInv, ParamsOK, Idle
<1>2. TableOK /\ SearchInv /\ ParamsInv /\ [Next]_vars => ParamsInv'
  BY ProcessingKeepsParams DEF Next, vars, ParamsInv
<1>3. ParamsInv => HandlerSeesParams
  BY DEF ParamsInv, ParamsOK, Seen, HandlerSeesParams
<1> QED BY <1>1, <1>2, <1>3, SearchInvHolds, PTL DEF Spec

-----------------------------------------------------------------------------
(***************************************************************************)
(* Resources and groups.                                                   *)
(***************************************************************************)
\* The routes of a registration are in the table or about to be appended.
CallsOK ==
  /\ calls \in Seq(Calls)
  /\ \A i \in DOMAIN calls :
       Range(RoutesOf(calls[i]))
         \subseteq Range(routes) \cup (IF i = Len(calls) THEN Range(pending) ELSE {})

LEMMA CallsOKHolds == Spec => [](TableOK /\ CallsOK)
<1>1. Init => CallsOK
  BY DEF Init, RouterInit, CallsOK
<1>2. TableOK /\ CallsOK /\ [Next]_vars => CallsOK'
  <2> SUFFICES ASSUME TableOK, CallsOK, [Next]_vars PROVE CallsOK'
    OBVIOUS
  <2>1. CASE PushBack
    <3>1. /\ pending \in Seq(AllRoutes) /\ pending # <<>> /\ routes \in Seq(AllRoutes)
          /\ routes' = Append(routes, Head(pending)) /\ pending' = Tail(pending)
          /\ calls' = calls
      BY <2>1 DEF PushBack, TableOK
    <3>2. Range(routes) \cup Range(pending) \subseteq Range(routes') \cup Range(pending')
      <4>1. ASSUME NEW i \in DOMAIN pending PROVE pending[i] \in Range(routes') \cup Range(pending')
        <5>1. CASE i = 1
          <6>1. Append(routes, Head(pending))[Len(routes) + 1] = pending[i]
            BY <3>1, <5>1
          <6>2. Len(routes) + 1 \in DOMAIN Append(routes, Head(pending))
            BY <3>1
          <6> QED BY <3>1, <6>1, <6>2 DEF Range
        <5>2. CASE i # 1
          <6>1. i - 1 \in DOMAIN Tail(pending) /\ Tail(pending)[i - 1] = pending[i]
            BY <3>1, <5>2
          <6> QED BY <3>1, <6>1 DEF Range
        <5> QED BY <5>1, <5>2
      <4>2. ASSUME NEW i \in DOMAIN routes PROVE routes[i] \in Range(routes')
        <5>1. /\ i \in DOMAIN Append(routes, Head(pending))
              /\ Append(routes, Head(pending))[i] = routes[i]
          BY <3>1
        <5> QED BY <3>1, <5>1 DEF Range
      <4> QED BY <4>1, <4>2 DEF Range
    <3>3. Range(routes) \subseteq Range(routes')
      <4>1. ASSUME NEW i \in DOMAIN routes PROVE routes[i] \in Range(routes')
        <5>1. /\ i \in DOMAIN Append(routes, Head(pending))
              /\ Append(routes, Head(pending))[i] = routes[i]
          BY <3>1
        <5> QED BY <3>1, <5>1 DEF Range
      <4> QED BY <4>1 DEF Range
    <3> QED BY <3>1, <3>2, <3>3 DEF CallsOK
  <2>2. ASSUME NEW call \in Calls, Register(call) PROVE CallsOK'
    <3>1. /\ pending = <<>> /\ calls' = Append(calls, call) /\ pending' = RoutesOf(call)
          /\ routes' = routes /\ calls \in Seq(Calls)
      BY <2>2 DEF Register, tableVars, CallsOK
    <3>2. Range(pending) = {}
      BY <3>1 DEF Range
    <3>3. \A i \in DOMAIN calls : Range(RoutesOf(calls[i])) \subseteq Range(routes)
      BY <3>2 DEF CallsOK
    <3>4. /\ calls' \in Seq(Calls) /\ Len(calls') = Len(calls) + 1
          /\ calls'[Len(calls) + 1] = call
          /\ \A i \in DOMAIN calls' :
               i = Len(calls) + 1 \/ (i \in DOMAIN calls /\ calls'[i] = calls[i])
      BY <3>1
    <3>5. ASSUME NEW i \in DOMAIN calls'
          PROVE  Range(RoutesOf(calls'[i])) \subseteq
                   Range(routes') \cup (IF i = Len(calls') THEN Range(pending') ELSE {})
      <4>1. CASE i = Len(calls) + 1
        BY <3>1, <3>4, <4>1
      <4>2. CASE i # Len(calls) + 1
        BY <3>1, <3>3, <3>4, <4>2
      <4> QED BY <4>1, <4>2
    <3> QED BY <3>4, <3>5 DEF CallsOK
  <2>3. CASE UNCHANGED routerVars
    BY <2>3 DEF CallsOK, routerVars, tableVars
  <2>4. ASSUME NEW t \in Threads, ProcessRequest(t) PROVE UNCHANGED routerVars
    BY <2>4
    DEF ProcessRequest, Parse, FindRoute, Examine, ExamineFreed, FoundRoute, RunMiddleware, Handle,
        Prepare, Written
  <2> QED BY <2>1, <2>2, <2>3, <2>4 DEF Next, Registration, vars
<1> QED BY <1>1, <1>2, TableHolds, PTL DEF Spec

LEMMA RegisteredRoutes ==
  ASSUME CallsOK, NEW call, Registered(call)
  PROVE  Range(RoutesOf(call)) \subseteq Range(routes)
<1>1. PICK i \in DOMAIN calls : calls[i] = call /\ (i < Len(calls) \/ pending = <<>>)
  BY DEF Registered
<1>2. Len(calls) \in Nat /\ i \in Nat
  BY DEF CallsOK
<1>3. CASE i < Len(calls)
  BY <1>1, <1>2, <1>3 DEF CallsOK
<1>4. CASE pending = <<>>
  <2>1. Range(pending) = {}
    BY <1>4 DEF Range
  <2> QED BY <1>1, <2>1 DEF CallsOK
<1> QED BY <1>1, <1>3, <1>4

\* Every answer that is found comes from a route that matches.
LEMMA FoundInTable ==
  ASSUME TableOK, NEW path, NEW method, NEW answer,
         answer = Answer(routes, path, method), answer.reply = "found"
  PROVE  /\ answer.route \in Range(routes) /\ answer.route \in AllRoutes
         /\ ~ answer.route.isRegex =>
              /\ MatchPattern(answer.route.pathPattern, path)
              /\ answer.params = PatternParams(answer.route.pathPattern, path)
<1>1. answer # NotFound
  BY DEF NotFound
<1>2. PICK i \in DOMAIN routes : answer = Try(routes[i], path, method)
  BY <1>1, AnswerIsARoutes DEF TableOK
<1>3. routes[i] \in AllRoutes /\ routes[i] \in Range(routes)
  BY DEF TableOK, Range
<1> QED BY <1>2, <1>3, FoundMatches

\* The five routes of a resource are there, and find what they are for.
LEMMA ResourceIsAnswered ==
  ASSUME TableOK, CallsOK, NEW call \in Calls, call.op = "addResource", Registered(call),
         NEW path \in Paths,
         NEW collection, collection = SplitPath(call.resource),
         NEW segs, segs = SplitPath(path)
  PROVE  /\ segs = collection =>
              \A method \in {"GET", "POST"} : Answer(routes, path, method) # NotFound
         /\ segs # <<>> /\ Front(segs) = collection =>
              \A method \in {"GET", "PUT", "DELETE"} :
                LET answer == Answer(routes, path, method)
                IN  /\ answer # NotFound
                    /\ answer.reply = "found" /\ answer.route \in Range(RoutesOf(call)) =>
                         answer.params[<<"i", "d">>] = Last(segs)
<1>1. PICK all \in Seq(STRING) :
        all = <<"/">> \o call.resource /\ SplitPath(all) = collection
  <2>1. call.resource \in Seq(STRING)
    BY RouterAssumption
  <2>2. <<"/">> \o call.resource \in Seq(STRING)
    BY <2>1, CharactersOfResources
  <2> QED BY <2>1, <2>2, SlashedSplit
<1>2. segs # <<>> /\ Front(segs) = collection =>
        /\ ~ MatchPattern(all, path)
        /\ MatchPattern(all \o Id, path)
        /\ PatternParams(all \o Id, path)[<<"i", "d">>] = Last(segs)
  <2>1. path \in Seq(STRING)
    BY RouterAssumption
  <2> QED BY <1>1, <2>1, MemberMatches
<1>3. RoutesOf(call) =
        << Route(all, "GET", call.handler, call.middleware),
           Route(all, "POST", call.handler, call.middleware),
           Route(all \o Id, "GET", call.handler, call.middleware),
           Route(all \o Id, "PUT", call.handler, call.middleware),
           Route(all \o Id, "DELETE", call.handler, call.middleware) >>
  BY <1>1 DEF RoutesOf, ResourceRoutes, Id
<1> DEFINE R(pattern, method) == Route(pattern, method, call.handler, call.middleware)
<1>4. Range(RoutesOf(call)) = {R(all, "GET"), R(all, "POST"), R(all \o Id, "GET"),
                               R(all \o Id, "PUT"), R(all \o Id, "DELETE")}
  <2>1. \A a, b, c, d, e : Range(<<a, b, c, d, e>>) = {a, b, c, d, e}
    BY DEF Range
  <2> QED BY <1>3, <2>1
<1>5. ASSUME NEW pattern, NEW method
      PROVE  /\ R(pattern, method).pathPattern = pattern
             /\ R(pattern, method).method = method
             /\ R(pattern, method).isRegex = FALSE
  BY DEF Route
<1> HIDE DEF R
<1>6. Range(RoutesOf(call)) \subseteq Range(routes)
  BY RegisteredRoutes
<1>7. ASSUME NEW pattern, NEW method, MatchPattern(pattern, path),
             R(pattern, method) \in Range(routes)
      PROVE  Answer(routes, path, method) # NotFound
  <2>1. PICK route \in Range(routes) : route = R(pattern, method)
    BY <1>7
  <2>2. ~ route.isRegex /\ route.pathPattern = pattern /\ route.method = method
    BY <1>5, <2>1
  <2>3. Try(route, path, method) # NotFound
    BY <1>7, <2>2, MatchDecides
  <2> QED BY <2>3, TableAnswers DEF TableOK
<1>8. ASSUME segs = collection, NEW method \in {"GET", "POST"}
      PROVE  Answer(routes, path, method) # NotFound
  <2>1. MatchPattern(all, path)
    BY <1>1, <1>8 DEF MatchPattern
  <2> QED BY <1>4, <1>6, <1>7, <1>8, <2>1
<1>9. ASSUME segs # <<>>, Front(segs) = collection, NEW method \in {"GET", "PUT", "DELETE"}
      PROVE  Answer(routes, path, method) # NotFound
  BY <1>2, <1>4, <1>6, <1>7, <1>9
<1>10. ASSUME segs # <<>>, Front(segs) = collection,
              NEW method, NEW answer, answer = Answer(routes, path, method),
              answer.reply = "found", answer.route \in Range(RoutesOf(call))
       PROVE  answer.params[<<"i", "d">>] = Last(segs)
  <2>1. PICK pattern \in {all, all \o Id} :
          answer.route.pathPattern = pattern /\ ~ answer.route.isRegex
    <3>1. PICK route : route = answer.route
      OBVIOUS
    <3>2. PICK pattern \in {all, all \o Id} : \E verb : route = R(pattern, verb)
      BY <1>4, <1>10, <3>1
    <3>3. route.pathPattern = pattern /\ ~ route.isRegex
      <4>1. PICK verb : route = R(pattern, verb)
        BY <3>2, Zenon
      <4>2. R(pattern, verb).pathPattern = pattern /\ R(pattern, verb).isRegex = FALSE
        BY <1>5, Zenon
      <4> QED BY <4>1, <4>2
    <3> QED BY <3>1, <3>3, Zenon
  <2>2. MatchPattern(pattern, path) /\ answer.params = PatternParams(pattern, path)
    BY <1>10, <2>1, FoundInTable
  <2> QED BY <1>2, <1>10, <2>1, <2>2
<1> QED BY <1>8, <1>9, <1>10

\* A resource that is registered answers every path that names its collection or one of
\* its members, unless an earlier route does, and its handler learns the member's name.
THEOREM ResourcesAreServed == Spec => []ResourcesAnswer
<1>1. TableOK /\ CallsOK => ResourcesAnswer
  BY ResourceIsAnswered DEF ResourcesAnswer
<1> QED BY <1>1, CallsOKHolds, PTL

\* A group's route matches below the prefix what it matches by itself.
LEMMA GroupIsNested ==
  ASSUME TableOK, CallsOK, GroupsAreRooted, HandlersAreOwn,
         NEW call \in Calls, call.op = "addGroup", Registered(call),
         NEW i \in DOMAIN call.routes, NEW path \in Paths,
         ~ call.routes[i].isRegex, MatchPattern(call.routes[i].pathPattern, path),
         NEW answer, answer = Answer(routes, call.prefix \o path, call.routes[i].method)
  PROVE  \/ answer.reply = "throws"
         \/ /\ answer.reply = "found"
            /\ \/ answer.route.handler # call.routes[i].handler
               \/ IsSuffix(call.middleware, answer.route.middleware)
<1>1. PICK own : own = call.routes[i] /\ IsRoute(own) /\ Rooted(own.pathPattern)
  BY RouterAssumption DEF GroupsAreRooted
<1>2. call.prefix \in Seq(STRING) /\ call.middleware \in Seq(STRING)
  BY RouterAssumption
<1>3. Rooted(path)
  BY RouterAssumption DEF Rooted
<1>4. RoutesOf(call) = GroupRoutes(call.prefix, call.routes, call.middleware)
  BY DEF RoutesOf
<1>5. PICK route \in Range(RoutesOf(call)) :
        route = [own EXCEPT !.pathPattern = call.prefix \o @,
                            !.middleware = @ \o call.middleware]
  <2>1. /\ i \in DOMAIN RoutesOf(call)
        /\ RoutesOf(call)[i] = [own EXCEPT !.pathPattern = call.prefix \o @,
                                           !.middleware = @ \o call.middleware]
    BY <1>1, <1>4 DEF GroupRoutes
  <2> QED BY <2>1 DEF Range
<1>6. /\ route.pathPattern = call.prefix \o own.pathPattern
      /\ route.method = own.method /\ route.handler = own.handler
      /\ route.isRegex = own.isRegex
  BY <1>1, <1>5 DEF IsRoute
<1>7. MatchPattern(call.prefix \o own.pathPattern, call.prefix \o path)
  BY <1>1, <1>2, <1>3, PrefixedMatch
<1>8. Try(route, call.prefix \o path, route.method) # NotFound
  BY <1>1, <1>6, <1>7, MatchDecides
<1>9. answer # NotFound
  <2>1. route \in Range(routes)
    BY RegisteredRoutes
  <2>2. answer = Answer(routes, call.prefix \o path, route.method)
    BY <1>1, <1>6
  <2> QED BY <1>8, <2>1, <2>2, TableAnswers DEF TableOK
<1>10. \/ answer = Throws
       \/ answer.reply = "found" /\ answer.route \in AllRoutes
  BY <1>9, AnswersComeFromRoutes DEF TableOK
<1>11. ASSUME answer.reply = "found", answer.route \in AllRoutes,
              answer.route.handler = own.handler
       PROVE  IsSuffix(call.middleware, answer.route.middleware)
  <2>1. PICK other \in Calls : answer.route \in Range(RoutesOf(other))
    BY <1>11 DEF AllRoutes
  <2>2. other = call
    BY <1>6, <1>11, <2>1 DEF HandlersAreOwn
  <2>3. PICK j \in DOMAIN call.routes :
          answer.route = [call.routes[j] EXCEPT !.pathPattern = call.prefix \o @,
                                                !.middleware = @ \o call.middleware]
    BY <1>4, <2>1, <2>2, ZenonT(40) DEF GroupRoutes, Range
  <2>4. PICK before \in Seq(STRING) : answer.route.middleware = before \o call.middleware
    <3>1. PICK r : r = call.routes[j] /\ IsRoute(r)
      BY RouterAssumption
    <3> QED BY <2>3, <3>1 DEF IsRoute
  <2> QED BY <1>2, <2>4, ConcatHasSuffix
<1> QED BY <1>1, <1>10, <1>11 DEF Throws

\* If group patterns begin with a slash and a handler is registered by one call:
\* what a group's route matches by itself is answered below the group's prefix, and
\* never by the group's handler without the group's middleware.
THEOREM GroupsNest == ASSUME GroupsAreRooted, HandlersAreOwn PROVE Spec => []GroupsAreNested
<1>1. TableOK /\ CallsOK => GroupsAreNested
  BY GroupIsNested DEF GroupsAreNested
<1> QED BY <1>1, CallsOKHolds, PTL
================================================================================
