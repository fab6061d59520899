------------------------- MODULE InductionTheorems -------------------------
(***************************************************************************)
(* Induction and recursion over the natural numbers with sets in place of  *)
(* predicates and functions in place of operators, so that every theorem   *)
(* here is first-order: what is to be shown of all numbers is the set of   *)
(* the numbers that it holds of.  The source is WellFoundedInduction.      *)
(***************************************************************************)
EXTENDS Integers, Sequences, WellFoundedInduction, SequenceTheorems, TLAPS

\* A set of natural numbers has a least element.
LEMMA NatHasLeast ==
  ASSUME NEW T \in SUBSET Nat, T # {}
  PROVE  \E x \in T : \A y \in T : x <= y
<1> DEFINE R == OpToRel(<, Nat)
<1>1. IsWellFoundedOn(R, Nat)
  BY NatLessThanWellFounded
<1>2. \A y, z \in Nat : y < z => <<y, z>> \in R
  BY DEF OpToRel
<1> HIDE DEF R
<1>3. PICK x \in T : \A y \in T : <<y, x>> \notin R
  BY <1>1, WFMin
<1>4. ASSUME NEW y \in T PROVE x <= y
  <2>1. x \in Nat /\ y \in Nat
    OBVIOUS
  <2>2. ~(y < x)
    BY <1>2, <1>3, <2>1
  <2> QED
    BY <2>1, <2>2
<1> QED
  BY <1>4

\* Induction.
LEMMA SetInduction ==
  ASSUME NEW S, 0 \in S, \A n \in Nat : n \in S => n + 1 \in S
  PROVE  Nat \subseteq S
<1> SUFFICES ASSUME Nat \ S # {} PROVE FALSE
  OBVIOUS
<1>1. PICK x \in Nat \ S : \A y \in Nat \ S : x <= y
  BY NatHasLeast
<1>2. x - 1 \in Nat /\ x - 1 \notin Nat \ S
  BY <1>1
<1> QED
  BY <1>1, <1>2

\* Induction up to a bound.
LEMMA IntervalInduction ==
  ASSUME NEW m \in Nat, NEW S, 0 \in S, \A n \in 0..(m - 1) : n \in S => n + 1 \in S
  PROVE  0..m \subseteq S
<1> DEFINE N == {n \in Nat : n <= m => n \in S}
<1>1. 0 \in N
  OBVIOUS
<1>2. \A n \in Nat : n \in N => n + 1 \in N
  OBVIOUS
<1> HIDE DEF N
<1>3. Nat \subseteq N
  BY <1>1, <1>2, SetInduction
<1> QED
  BY <1>3 DEF N

\* Every value of g is computed by s from the earlier ones.
ByCourse(g, m, s) == g = [n \in 1..m |-> s[[j \in 1..(n - 1) |-> g[j]]]]

\* There is a function whose every value is computed from its earlier values.
LEMMA CourseOfValues ==
  ASSUME NEW m \in Nat, NEW s
  PROVE  \E g : ByCourse(g, m, s)
<1> DEFINE From(g, n) == \A i \in 1..n : g[i] = s[[j \in 1..(i - 1) |-> g[j]]]
           S    == {n \in Nat : \E g : From(g, n)}
           h(n) == CHOOSE g : From(g, n)
           k    == [n \in 1..m |-> h(n)[n]]
<1>1. Nat \subseteq S
  <2>1. 0 \in S
    OBVIOUS
  <2>2. ASSUME NEW n \in Nat, n \in S PROVE n + 1 \in S
    <3>1. PICK g : From(g, n)
      BY <2>2
    <3> DEFINE e == [i \in 1..(n + 1) |-> IF i = n + 1 THEN s[[j \in 1..n |-> g[j]]] ELSE g[i]]
    <3>2. \A i \in 1..(n + 1) : [j \in 1..(i - 1) |-> e[j]] = [j \in 1..(i - 1) |-> g[j]]
      OBVIOUS
    <3>3. From(e, n + 1)
      <4> SUFFICES ASSUME NEW i \in 1..(n + 1)
                   PROVE  e[i] = s[[j \in 1..(i - 1) |-> g[j]]]
        BY <3>2
      <4>1. CASE i = n + 1
        BY <4>1
      <4>2. CASE i # n + 1
        BY <3>1, <4>2
      <4> QED
        BY <4>1, <4>2
    <3> HIDE DEF From, e
    <3> QED
      BY <3>3
  <2> QED
    <3> HIDE DEF S
    <3> QED
      BY <2>1, <2>2, SetInduction
<1>2. \A n \in Nat : From(h(n), n)
  <2> HIDE DEF From
  <2> QED
    BY <1>1
<1> HIDE DEF h
\* Two of them agree as far as both go.
<1>3. ASSUME NEW n \in Nat, NEW p \in Nat, p <= n PROVE \A i \in 1..p : h(n)[i] = h(p)[i]
  <2> DEFINE E == {q \in Nat : q <= p => \A i \in 1..q : h(n)[i] = h(p)[i]}
  <2>1. 0 \in E
    OBVIOUS
  <2>2. ASSUME NEW q \in Nat, q \in E, q + 1 <= p PROVE h(n)[q + 1] = h(p)[q + 1]
    <3>1. [j \in 1..q |-> h(n)[j]] = [j \in 1..q |-> h(p)[j]]
      BY <2>2
    <3>2. From(h(n), n) /\ From(h(p), p)
      BY <1>2
    <3>3. q + 1 \in 1..n /\ q + 1 \in 1..p /\ (q + 1) - 1 = q
      BY <1>3, <2>2
    <3>4. h(n)[q + 1] = s[[j \in 1..q |-> h(n)[j]]]
      BY <3>2, <3>3
    <3>5. h(p)[q + 1] = s[[j \in 1..q |-> h(p)[j]]]
      BY <3>2, <3>3
    <3> QED
      BY <3>1, <3>4, <3>5
  <2>3. \A q \in Nat : q \in E => q + 1 \in E
    BY <2>2
  <2> HIDE DEF E
  <2>4. Nat \subseteq E
    BY <2>1, <2>3, SetInduction
  <2> QED
    BY <2>4 DEF E
<1>4. ASSUME NEW n \in 1..m PROVE k[n] = s[[j \in 1..(n - 1) |-> k[j]]]
  <2>1. [j \in 1..(n - 1) |-> k[j]] = [j \in 1..(n - 1) |-> h(n)[j]]
    BY <1>3
  <2>2. h(n)[n] = s[[j \in 1..(n - 1) |-> h(n)[j]]]
    <3>1. n \in Nat /\ n \in 1..n
      OBVIOUS
    <3>2. From(h(n), n)
      BY <1>2, <3>1
    <3> QED
      BY <3>1, <3>2
  <2>3. k[n] = h(n)[n]
    OBVIOUS
  <2> QED
    BY <2>1, <2>2, <2>3
<1> HIDE DEF k
<1>5. k = [n \in 1..m |-> s[[j \in 1..(n - 1) |-> k[j]]]]
  BY <1>4 DEF k
<1> QED
  BY <1>5 DEF ByCourse

\* The same for values of one type, which makes the earlier values a sequence.
LEMMA TypedCourseOfValues ==
  ASSUME NEW T, NEW m \in Nat, NEW s \in [Seq(T) -> T]
  PROVE  \E g \in [1..m -> T] : ByCourse(g, m, s)
<1>1. PICK g : ByCourse(g, m, s)
  BY CourseOfValues
<1> DEFINE S == {n \in Nat : n <= m => \A i \in 1..n : g[i] \in T}
<1>2. 0 \in S
  OBVIOUS
<1>3. ASSUME NEW n \in Nat, n \in S, n + 1 <= m PROVE g[n + 1] \in T
  <2>1. [j \in 1..n |-> g[j]] \in [1..n -> T]
    BY <1>3
  <2>2. [j \in 1..n |-> g[j]] \in Seq(T)
    BY <2>1, SeqDef
  <2>3. g[n + 1] = s[[j \in 1..n |-> g[j]]]
    <3>1. n + 1 \in 1..m /\ (n + 1) - 1 = n
      BY <1>3
    <3> QED
      BY <1>1, <3>1 DEF ByCourse
  <2> QED
    BY <2>2, <2>3
<1>4. ASSUME NEW n \in Nat, n \in S PROVE n + 1 \in S
  <2> SUFFICES ASSUME n + 1 <= m, NEW i \in 1..(n + 1) PROVE g[i] \in T
    OBVIOUS
  <2> QED
    BY <1>3, <1>4
<1> HIDE DEF S
<1>5. Nat \subseteq S
  BY <1>2, <1>4, SetInduction
<1>6. \A i \in 1..m : g[i] \in T
  BY <1>5 DEF S
<1>7. g \in [1..m -> T]
  BY <1>1, <1>6 DEF ByCourse
<1> QED
  BY <1>1, <1>7

\* From b, by the step s.
ByStep(g, b, s) == g = [n \in Nat |-> IF n = 0 THEN b ELSE s[<<n, g[n - 1]>>]]

\* Primitive recursion.
LEMMA PrimitiveRecursion ==
  ASSUME NEW T, NEW b \in T, NEW s \in [Nat \X T -> T]
  PROVE  \E g \in [Nat -> T] : ByStep(g, b, s)
<1> DEFINE From(g, n) == g[0] = b /\ \A i \in 1..n : g[i] = s[<<i, g[i - 1]>>]
           S    == {n \in Nat : \E g \in [Nat -> T] : From(g, n)}
           h(n) == CHOOSE g \in [Nat -> T] : From(g, n)
           k    == [n \in Nat |-> h(n)[n]]
<1>1. Nat \subseteq S
  <2>1. 0 \in S
    <3>1. From([i \in Nat |-> b], 0)
      OBVIOUS
    <3> QED
      BY <3>1
  <2>2. ASSUME NEW n \in Nat, n \in S PROVE n + 1 \in S
    <3>1. PICK g \in [Nat -> T] : From(g, n)
      BY <2>2
    <3> DEFINE e == [i \in Nat |-> IF i = n + 1 THEN s[<<n + 1, g[n]>>] ELSE g[i]]
    <3>2. e \in [Nat -> T] /\ From(e, n + 1)
      BY <3>1
    <3> HIDE DEF From, e
    <3> QED
      BY <3>2
  <2> QED
    <3> HIDE DEF S
    <3> QED
      BY <2>1, <2>2, SetInduction
<1>2. \A n \in Nat : h(n) \in [Nat -> T] /\ From(h(n), n)
  <2> HIDE DEF From
  <2> QED
    BY <1>1
<1> HIDE DEF h
<1>3. ASSUME NEW n \in Nat PROVE h(n + 1)[n] = h(n)[n]
  <2> DEFINE E == {i \in Nat : i <= n => h(n + 1)[i] = h(n)[i]}
  <2>1. 0 \in E
    BY <1>2
  <2>2. ASSUME NEW i \in Nat, i \in E PROVE i + 1 \in E
    <3> SUFFICES ASSUME i + 1 <= n PROVE h(n + 1)[i + 1] = h(n)[i + 1]
      OBVIOUS
    <3>1. h(n + 1)[i] = h(n)[i]
      BY <2>2
    <3>2. i + 1 \in 1..n /\ i + 1 \in 1..(n + 1) /\ (i + 1) - 1 = i
      OBVIOUS
    <3>3. h(n + 1)[i + 1] = s[<<i + 1, h(n + 1)[i]>>]
      BY <1>2, <3>2
    <3>4. h(n)[i + 1] = s[<<i + 1, h(n)[i]>>]
      BY <1>2, <3>2
    <3> QED
      BY <3>1, <3>3, <3>4
  <2> HIDE DEF E
  <2>3. Nat \subseteq E
    BY <2>1, <2>2, SetInduction
  <2> QED
    BY <2>3 DEF E
<1>4. k \in [Nat -> T] /\ k[0] = b
  BY <1>2
<1>5. ASSUME NEW n \in Nat \ {0} PROVE k[n] = s[<<n, k[n - 1]>>]
  <2>1. n - 1 \in Nat
    OBVIOUS
  <2>2. h(n)[n] = s[<<n, h(n)[n - 1]>>]
    BY <1>2
  <2>3. h(n)[n - 1] = h(n - 1)[n - 1]
    BY <1>3, <2>1
  <2> QED
    BY <2>1, <2>2, <2>3
<1> HIDE DEF k
<1>6. k = [n \in Nat |-> IF n = 0 THEN b ELSE s[<<n, k[n - 1]>>]]
  BY <1>4, <1>5
<1> QED
  BY <1>4, <1>6 DEF ByStep

\* Of finitely many numbers one is the greatest.
LEMMA SomeIsGreatest ==
  ASSUME NEW m \in Nat, NEW f \in [1..m -> Nat], NEW J \in SUBSET (1..m), J # {}
  PROVE  \E i \in J : \A j \in J : f[j] <= f[i]
<1> DEFINE S == {n \in Nat : \A K \in SUBSET (1..m) :
                     K # {} /\ (\A j \in K : j <= n) => \E i \in K : \A j \in K : f[j] <= f[i]}
<1>1. 0 \in S
  <2>1. ASSUME NEW K \in SUBSET (1..m), \A j \in K : j <= 0 PROVE K = {}
    BY <2>1
  <2> QED
    BY <2>1
<1>2. ASSUME NEW n \in Nat, n \in S PROVE n + 1 \in S
  <2> SUFFICES ASSUME NEW K \in SUBSET (1..m), K # {}, \A j \in K : j <= n + 1
               PROVE  \E i \in K : \A j \in K : f[j] <= f[i]
    OBVIOUS
  <2> DEFINE L == K \ {n + 1}
  <2>1. CASE L = {}
    <3>1. n + 1 \in K /\ \A j \in K : j = n + 1
      BY <2>1
    <3> QED
      BY <3>1
  <2>2. CASE L # {}
    <3>1. L \in SUBSET (1..m) /\ \A j \in L : j <= n
      OBVIOUS
    <3>2. PICK i \in L : \A j \in L : f[j] <= f[i]
      BY <1>2, <2>2, <3>1
    <3>3. CASE n + 1 \in K /\ f[i] <= f[n + 1]
      <4>1. \A j \in K : f[j] <= f[n + 1]
        BY <3>2, <3>3
      <4> QED
        BY <3>3, <4>1
    <3>4. CASE n + 1 \in K => ~(f[i] <= f[n + 1])
      <4>1. \A j \in K : f[j] <= f[i]
        BY <3>2, <3>4
      <4> QED
        BY <3>2, <4>1
    <3> QED
      BY <3>3, <3>4
  <2> QED
    BY <2>1, <2>2
<1> HIDE DEF S
<1>3. Nat \subseteq S
  BY <1>1, <1>2, SetInduction
<1>4. m \in S
  BY <1>3
<1> QED
  BY <1>4 DEF S
-----------------------------------------------------------------------------
(* Sequences. *)

\* What Append, \o, Head and Tail do to the elements.
LEMMA RangeOf ==
  ASSUME NEW T, NEW s \in Seq(T)
  PROVE  /\ Range(s) \subseteq T
         /\ \A e \in T : Range(Append(s, e)) = Range(s) \cup {e}
         /\ \A t \in Seq(T) : Range(s \o t) = Range(s) \cup Range(t)
         /\ s # <<>> => Head(s) \in T /\ Tail(s) \in Seq(T) /\ Range(s) = {Head(s)} \cup Range(Tail(s))
<1>1. /\ DOMAIN s = 1..Len(s) /\ Len(s) \in Nat /\ \A k \in 1..Len(s) : s[k] \in T
  BY LenProperties, ElementOfSeq
<1>2. Range(s) \subseteq T
  BY <1>1 DEF Range
<1>3. ASSUME NEW e \in T PROVE Range(Append(s, e)) = Range(s) \cup {e}
  <2>1. /\ DOMAIN Append(s, e) = 1..(Len(s) + 1) /\ Append(s, e)[Len(s) + 1] = e
        /\ \A k \in 1..Len(s) : Append(s, e)[k] = s[k]
    BY <1>1, AppendProperties, LenProperties
  <2>2. \A k : k \in 1..(Len(s) + 1) <=> k \in 1..Len(s) \/ k = Len(s) + 1
    BY <1>1
  <2> QED
    BY <1>1, <2>1, <2>2 DEF Range
<1>4. ASSUME NEW t \in Seq(T) PROVE Range(s \o t) = Range(s) \cup Range(t)
  <2>1. /\ DOMAIN t = 1..Len(t) /\ Len(t) \in Nat
        /\ s \o t \in Seq(T) /\ Len(s \o t) = Len(s) + Len(t)
        /\ \A k \in 1..(Len(s) + Len(t)) : (s \o t)[k] = IF k <= Len(s) THEN s[k] ELSE t[k - Len(s)]
    BY <1>1, LenProperties, ConcatProperties
  <2>2. DOMAIN (s \o t) = 1..(Len(s) + Len(t))
    BY <2>1, LenProperties
  <2>3. ASSUME NEW x \in Range(s \o t) PROVE x \in Range(s) \cup Range(t)
    <3>1. PICK k \in 1..(Len(s) + Len(t)) : x = (s \o t)[k]
      BY <2>2 DEF Range
    <3>2. CASE k <= Len(s)
      <4>1. k \in 1..Len(s) /\ x = s[k]
        BY <1>1, <2>1, <3>1, <3>2
      <4> QED
        BY <1>1, <4>1 DEF Range
    <3>3. CASE ~(k <= Len(s))
      <4>1. k - Len(s) \in 1..Len(t) /\ x = t[k - Len(s)]
        BY <1>1, <2>1, <3>1, <3>3
      <4> QED
        BY <2>1, <4>1 DEF Range
    <3> QED
      BY <3>2, <3>3
  <2>4. ASSUME NEW k \in 1..Len(s) PROVE s[k] \in Range(s \o t)
    <3>1. k \in 1..(Len(s) + Len(t)) /\ k <= Len(s)
      BY <1>1, <2>1
    <3> QED
      BY <2>1, <2>2, <3>1 DEF Range
  <2>5. ASSUME NEW k \in 1..Len(t) PROVE t[k] \in Range(s \o t)
    <3>1. k + Len(s) \in 1..(Len(s) + Len(t)) /\ ~(k + Len(s) <= Len(s)) /\ (k + Len(s)) - Len(s) = k
      BY <1>1, <2>1
    <3>2. (s \o t)[k + Len(s)] = t[k]
      BY <2>1, <3>1
    <3> QED
      BY <2>2, <3>1, <3>2 DEF Range
  <2> QED
    BY <1>1, <2>1, <2>3, <2>4, <2>5 DEF Range
<1>5. ASSUME s # <<>>
      PROVE  Head(s) \in T /\ Tail(s) \in Seq(T) /\ Range(s) = {Head(s)} \cup Range(Tail(s))
  <2>1. /\ Head(s) = s[1] /\ Head(s) \in T /\ Tail(s) \in Seq(T)
        /\ Len(Tail(s)) = Len(s) - 1 /\ \A k \in 1..Len(Tail(s)) : Tail(s)[k] = s[k + 1]
    BY <1>5, HeadTailProperties
  <2>2. Len(s) # 0
    BY <1>5, EmptySeq
  <2>3. DOMAIN Tail(s) = 1..(Len(s) - 1)
    BY <2>1, LenProperties
  <2>4. \A k : k \in 1..Len(s) <=> k = 1 \/ (k - 1 \in 1..(Len(s) - 1) /\ k \in Int)
    BY <1>1, <2>2
  <2>5. ASSUME NEW x \in Range(s) PROVE x \in {Head(s)} \cup Range(Tail(s))
    <3>1. PICK k \in 1..Len(s) : x = s[k]
      BY <1>1 DEF Range
    <3>2. CASE k = 1
      BY <2>1, <3>1, <3>2
    <3>3. CASE k # 1
      <4>1. k - 1 \in 1..(Len(s) - 1) /\ (k - 1) + 1 = k
        BY <1>1, <3>1, <3>3
      <4> QED
        BY <2>1, <2>3, <3>1, <4>1 DEF Range
    <3> QED
      BY <3>2, <3>3
  <2>6. ASSUME NEW k \in 1..(Len(s) - 1) PROVE Tail(s)[k] \in Range(s)
    <3>1. k + 1 \in 1..Len(s)
      BY <1>1, <2>6
    <3> QED
      BY <1>1, <2>1, <3>1 DEF Range
  <2>7. s[1] \in Range(s)
    <3>1. 1 \in 1..Len(s)
      BY <1>1, <2>2
    <3> QED
      BY <1>1, <3>1 DEF Range
  <2>8. Range(Tail(s)) \subseteq Range(s)
    BY <2>3, <2>6 DEF Range
  <2> QED
    BY <2>1, <2>5, <2>7, <2>8
<1> QED
  BY <1>2, <1>3, <1>4, <1>5

LEMMA NonEmptyRange ==
  ASSUME NEW T, NEW s \in Seq(T), s # <<>>
  PROVE  Range(s) # {}
<1>1. Range(s) = {Head(s)} \cup Range(Tail(s))
  BY RangeOf
<1> QED
  BY <1>1

\* The same on 0..m.
ByStepTo(g, m, b, s) == g = [n \in 0..m |-> IF n = 0 THEN b ELSE s[<<n, g[n - 1]>>]]

LEMMA BoundedRecursion ==
  ASSUME NEW T, NEW m \in Nat, NEW b \in T, NEW s \in [(1..m) \X T -> T]
  PROVE  \E g \in [0..m -> T] : ByStepTo(g, m, b, s)
<1> DEFINE t == [p \in Nat \X T |-> IF p[1] \in 1..m THEN s[<<p[1], p[2]>>] ELSE b]
<1>1. t \in [Nat \X T -> T]
  OBVIOUS
<1>2. \A n \in 1..m, x \in T : t[<<n, x>>] = s[<<n, x>>]
  OBVIOUS
<1> HIDE DEF t
<1>3. PICK h \in [Nat -> T] : ByStep(h, b, t)
  BY <1>1, PrimitiveRecursion
<1> DEFINE g == [n \in 0..m |-> h[n]]
<1>4. ASSUME NEW n \in 0..m PROVE g[n] = IF n = 0 THEN b ELSE s[<<n, g[n - 1]>>]
  <2>1. CASE n = 0
    BY <1>3, <2>1 DEF ByStep
  <2>2. CASE n # 0
    <3>1. n \in 1..m /\ n - 1 \in 0..m /\ n \in Nat /\ n - 1 \in Nat
      BY <2>2
    <3>2. g[n] = t[<<n, h[n - 1]>>]
      BY <1>3, <2>2, <3>1 DEF ByStep
    <3>3. h[n - 1] \in T /\ g[n - 1] = h[n - 1]
      BY <3>1
    <3> QED
      BY <1>2, <2>2, <3>1, <3>2, <3>3
  <2> QED
    BY <2>1, <2>2
<1>5. g \in [0..m -> T]
  OBVIOUS
<1> HIDE DEF g
<1>6. ByStepTo(g, m, b, s)
  BY <1>4, <1>5 DEF ByStepTo
<1> QED
  BY <1>5, <1>6

LEMMA InjectiveAppend ==
  ASSUME NEW T, NEW s \in Seq(T), NEW e \in T, IsInjective(s), e \notin Range(s)
  PROVE  IsInjective(Append(s, e))
<1>1. /\ DOMAIN s = 1..Len(s) /\ Len(s) \in Nat
  BY LenProperties
<1>2. /\ DOMAIN Append(s, e) = 1..(Len(s) + 1) /\ Append(s, e)[Len(s) + 1] = e
      /\ \A k \in 1..Len(s) : Append(s, e)[k] = s[k]
  BY <1>1, AppendProperties, LenProperties
<1>3. \A k : k \in 1..(Len(s) + 1) <=> k \in 1..Len(s) \/ k = Len(s) + 1
  BY <1>1
<1>4. \A k \in 1..Len(s) : s[k] # e
  BY <1>1 DEF Range
<1> QED
  BY <1>1, <1>2, <1>3, <1>4 DEF IsInjective

LEMMA InjectiveConcat ==
  ASSUME NEW T, NEW s \in Seq(T), NEW t \in Seq(T), IsInjective(s), IsInjective(t),
         Range(s) \cap Range(t) = {}
  PROVE  IsInjective(s \o t)
<1>1. /\ DOMAIN s = 1..Len(s) /\ Len(s) \in Nat /\ DOMAIN t = 1..Len(t) /\ Len(t) \in Nat
      /\ s \o t \in Seq(T) /\ Len(s \o t) = Len(s) + Len(t)
      /\ \A k \in 1..(Len(s) + Len(t)) : (s \o t)[k] = IF k <= Len(s) THEN s[k] ELSE t[k - Len(s)]
  BY LenProperties, ConcatProperties
<1>2. DOMAIN (s \o t) = 1..(Len(s) + Len(t))
  BY <1>1, LenProperties
<1>3. \A k \in 1..Len(s), l \in 1..Len(t) : s[k] # t[l]
  BY <1>1 DEF Range
<1> SUFFICES ASSUME NEW k \in 1..(Len(s) + Len(t)), NEW l \in 1..(Len(s) + Len(t)),
                    (s \o t)[k] = (s \o t)[l]
             PROVE  k = l
  BY <1>2 DEF IsInjective
<1>4. CASE k <= Len(s) /\ l <= Len(s)
  <2>1. k \in 1..Len(s) /\ l \in 1..Len(s) /\ s[k] = s[l]
    BY <1>1, <1>4
  <2> QED
    BY <1>1, <2>1 DEF IsInjective
<1>5. CASE ~(k <= Len(s)) /\ ~(l <= Len(s))
  <2>1. k - Len(s) \in 1..Len(t) /\ l - Len(s) \in 1..Len(t) /\ t[k - Len(s)] = t[l - Len(s)]
    BY <1>1, <1>5
  <2>2. k - Len(s) = l - Len(s)
    BY <1>1, <2>1 DEF IsInjective
  <2> QED
    BY <1>1, <2>2
<1>6. CASE k <= Len(s) /\ ~(l <= Len(s))
  <2>1. k \in 1..Len(s) /\ l - Len(s) \in 1..Len(t) /\ s[k] = t[l - Len(s)]
    BY <1>1, <1>6
  <2> QED
    BY <1>3, <2>1
<1>7. CASE ~(k <= Len(s)) /\ l <= Len(s)
  <2>1. l \in 1..Len(s) /\ k - Len(s) \in 1..Len(t) /\ s[l] = t[k - Len(s)]
    BY <1>1, <1>7
  <2> QED
    BY <1>3, <2>1
<1> QED
  BY <1>4, <1>5, <1>6, <1>7
=============================================================================
