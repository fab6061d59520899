--------------------------- MODULE DepDag_proofs ----------------------------
(***************************************************************************)
(* Proofs about DepDag, for lists of any length over any names, with any   *)
(* files that refs name.                                                   *)
(***************************************************************************)
EXTENDS DepDag, InductionTheorems, FiniteSetTheorems, FunctionTheorems

\* Types, as far as the order of the sort needs them.
DagTyped ==
    /\ pc \in {"resolve", "bad ref", "unknown", "sort", "cycle", "batched"}
    /\ todo \in Seq([entry : Entry, depth : Nat])
    /\ deps \in Seq(Entry) /\ (Distinct => sorted \in Seq(DOMAIN deps))
    /\ pc \in {"resolve", "bad ref"} => sorted = <<>>
    /\ pc = "sort" => ready \subseteq Names

\* What has been emitted, and which mentions still wait.
Emitted    == {deps[sorted[i]].name : i \in DOMAIN sorted}
Pending(m) == {j \in DOMAIN deps[Last(m)].after : deps[Last(m)].after[j] \notin Emitted}

\* The in-degree of a dep counts the mentions that still wait, and what is ready
\* or emitted waits for nothing.
Counting ==
    pc = "sort" /\ Distinct =>
        /\ \A k \in DOMAIN deps : \A j \in DOMAIN deps[k].after : deps[k].after[j] \in Names
        /\ \A m \in Names : degree[m] = Cardinality(Pending(m))
        /\ \A m \in ready \cup Emitted : Pending(m) = {}
        /\ ready \cap Emitted = {}

DagInv == DagTyped /\ Counting /\ PrerequisitesFirst

-----------------------------------------------------------------------------
LEMMA DepsType ==
  ASSUME deps \in Seq(Entry)
  PROVE  /\ DOMAIN deps = 1..Len(deps) /\ Len(deps) \in Nat
         /\ \A k \in DOMAIN deps : /\ deps[k] \in Entry /\ deps[k].after \in Seq(Name)
                                   /\ deps[k].name \in Names
                                   /\ IsFiniteSet(DOMAIN deps[k].after)
<1>1. DOMAIN deps = 1..Len(deps) /\ Len(deps) \in Nat
  BY LenProperties
<1>2. ASSUME NEW k \in DOMAIN deps
      PROVE  /\ deps[k] \in Entry /\ deps[k].after \in Seq(Name)
             /\ deps[k].name \in Names /\ IsFiniteSet(DOMAIN deps[k].after)
  <2>1. deps[k] \in Entry
    BY <1>1, ElementOfSeq
  <2>2. deps[k].after \in Seq(Name)
    BY <2>1 DEF Entry
  <2>3. DOMAIN deps[k].after = 1..Len(deps[k].after) /\ Len(deps[k].after) \in Nat
    BY <2>2, LenProperties
  <2>4. IsFiniteSet(DOMAIN deps[k].after)
    BY <2>3, FS_Interval
  <2> QED
    BY <2>1, <2>2, <2>4 DEF Names
<1> QED
  BY <1>1, <1>2

\* Where names are not used twice, a name's last position is its only one.
LEMMA LastOnly ==
  ASSUME deps \in Seq(Entry), Distinct, NEW k \in DOMAIN deps
  PROVE  Last(deps[k].name) = k
<1> DEFINE P(i) == i \in DOMAIN deps /\ deps[i].name = deps[k].name
                      /\ \A j \in DOMAIN deps : deps[j].name = deps[k].name => j <= i
<1>1. P(k)
  <2>1. k \in Nat
    BY DepsType
  <2> QED
    BY <2>1 DEF Distinct
<1>2. \A i : P(i) => i = k
  BY DEF Distinct
<1>3. Last(deps[k].name) = CHOOSE i : P(i)
  BY DEF Last
<1> HIDE DEF P
<1> QED
  BY <1>1, <1>2, <1>3

LEMMA LastOf ==
  ASSUME deps \in Seq(Entry), Distinct, NEW n \in Names
  PROVE  Last(n) \in DOMAIN deps /\ deps[Last(n)].name = n
<1>1. PICK k \in DOMAIN deps : deps[k].name = n
  BY DEF Names
<1> QED
  BY <1>1, LastOnly

\* The dependents that the sort counts down are the mentions in the one entry of that name.
LEMMA MentionsCount ==
  ASSUME deps \in Seq(Entry), Distinct, NEW m \in Names, NEW n \in Names
  PROVE  Mentions(m, n) = Cardinality({j \in DOMAIN deps[Last(m)].after : deps[Last(m)].after[j] = n})
<1> DEFINE J == {j \in DOMAIN deps[Last(m)].after : deps[Last(m)].after[j] = n}
           P == {p \in UNION {{k} \X DOMAIN deps[k].after : k \in DOMAIN deps} :
                    deps[p[1]].name = m /\ deps[p[1]].after[p[2]] = n}
           g == [j \in J |-> <<Last(m), j>>]
<1>1. Last(m) \in DOMAIN deps /\ deps[Last(m)].name = m
  BY LastOf
<1>2. IsFiniteSet(J)
  BY <1>1, DepsType, FS_Subset
<1>3. P = {<<Last(m), j>> : j \in J}
  <2>1. ASSUME NEW p \in P PROVE p \in {<<Last(m), j>> : j \in J}
    <3>1. PICK k \in DOMAIN deps : p \in {k} \X DOMAIN deps[k].after
      OBVIOUS
    <3>2. PICK j \in DOMAIN deps[k].after : p = <<k, j>>
      BY <3>1
    <3>3. k = Last(m)
      BY <3>2, LastOnly
    <3> QED
      BY <3>2, <3>3
  <2>2. ASSUME NEW j \in J PROVE <<Last(m), j>> \in P
    BY <1>1
  <2> QED
    BY <2>1, <2>2
<1>4. g \in Bijection(J, P)
  <2>1. g \in [J -> P]
    BY <1>3
  <2>2. \A i, j \in J : g[i] = g[j] => i = j
    OBVIOUS
  <2>3. \A p \in P : \E j \in J : g[j] = p
    BY <1>3
  <2> HIDE DEF g, J, P
  <2> QED
    BY <2>1, <2>2, <2>3, Fun_IsBij
<1>5. Cardinality(P) = Cardinality(J)
  BY <1>2, <1>4, FS_Bijection DEF ExistsBijection
<1> QED
  BY <1>5 DEF Mentions

\* What is counted depends on the list and on what was emitted.
LEMMA PendingFinite ==
  ASSUME deps \in Seq(Entry), Distinct, NEW m \in Names
  PROVE  IsFiniteSet(Pending(m)) /\ Cardinality(Pending(m)) \in Nat
<1>1. IsFiniteSet(DOMAIN deps[Last(m)].after)
  BY LastOf, DepsType
<1>2. IsFiniteSet(Pending(m))
  BY <1>1, FS_Subset DEF Pending
<1> QED
  BY <1>2, FS_CardinalityType

\* While one list is sorted the definitions about it do not move.
LEMMA ListSame ==
  ASSUME UNCHANGED deps
  PROVE  /\ Names' = Names /\ Distinct' = Distinct
         /\ \A k : Waits(k)' = Waits(k)
         /\ \A n : Last(n)' = Last(n)
  BY DEF Names, Distinct, Waits, Last

-----------------------------------------------------------------------------
(* One turn of the sort. *)

\* The next dep has a place in the list, nothing it waits for and no earlier turn.
LEMMA PopFacts ==
  ASSUME DagInv, Distinct, NEW n \in Name, Pop(n)
  PROVE  /\ deps \in Seq(Entry) /\ UNCHANGED <<deps, pc, todo>> /\ pc = "sort"
         /\ n \in Names /\ Pending(n) = {} /\ n \notin Emitted
         /\ Last(n) \in DOMAIN deps /\ deps[Last(n)].name = n
         /\ sorted \in Seq(DOMAIN deps) /\ sorted' \in Seq(DOMAIN deps)
         /\ Len(sorted) \in Nat /\ DOMAIN sorted = 1..Len(sorted)
         /\ DOMAIN sorted' = 1..(Len(sorted) + 1) /\ sorted'[Len(sorted) + 1] = Last(n)
         /\ \A i \in 1..Len(sorted) : sorted'[i] = sorted[i] /\ sorted[i] \in DOMAIN deps
         /\ Emitted' = Emitted \cup {n}
<1>1. /\ deps \in Seq(Entry) /\ UNCHANGED <<deps, pc, todo>> /\ pc = "sort"
      /\ sorted \in Seq(DOMAIN deps) /\ ready \subseteq Names /\ n \in ready
      /\ sorted' = Append(sorted, Last(n))
  BY DEF DagInv, DagTyped, Pop
<1>2. n \in Names /\ Pending(n) = {} /\ n \notin Emitted
  BY <1>1 DEF DagInv, Counting
<1>3. Last(n) \in DOMAIN deps /\ deps[Last(n)].name = n
  BY <1>1, <1>2, LastOf
<1>4. Len(sorted) \in Nat /\ DOMAIN sorted = 1..Len(sorted) /\ \A i \in 1..Len(sorted) : sorted[i] \in DOMAIN deps
  BY <1>1, LenProperties, ElementOfSeq
<1>5. /\ sorted' \in Seq(DOMAIN deps)
      /\ DOMAIN sorted' = 1..(Len(sorted) + 1) /\ sorted'[Len(sorted) + 1] = Last(n)
      /\ \A i \in 1..Len(sorted) : sorted'[i] = sorted[i]
  BY <1>1, <1>3, <1>4, AppendProperties, LenProperties
<1>6. Emitted' = Emitted \cup {n}
  <2>1. ASSUME NEW e \in Emitted' PROVE e \in Emitted \cup {n}
    <3>1. PICK i \in DOMAIN sorted' : e = deps[sorted'[i]].name
      BY <1>1, <2>1 DEF Emitted
    <3>2. i \in 1..Len(sorted) \/ i = Len(sorted) + 1
      BY <1>4, <1>5
    <3> QED
      BY <1>3, <1>4, <1>5, <3>1, <3>2 DEF Emitted
  <2>2. ASSUME NEW e \in Emitted PROVE e \in Emitted'
    <3>1. PICK i \in 1..Len(sorted) : e = deps[sorted[i]].name
      BY <1>4 DEF Emitted
    <3>2. i \in DOMAIN sorted'
      BY <1>4, <1>5
    <3> QED
      BY <1>1, <1>5, <3>1, <3>2 DEF Emitted
  <2>3. n \in Emitted'
    <3>1. Len(sorted) + 1 \in DOMAIN sorted'
      BY <1>4, <1>5
    <3> QED
      BY <1>1, <1>3, <1>5, <3>1 DEF Emitted
  <2> QED
    BY <2>1, <2>2, <2>3
<1> QED
  BY <1>1, <1>2, <1>3, <1>4, <1>5, <1>6

LEMMA PopCounting ==
  ASSUME DagInv, Distinct, NEW n \in Name, Pop(n)
  PROVE  Counting'
<1> DEFINE J(m) == {j \in DOMAIN deps[Last(m)].after : deps[Last(m)].after[j] = n}
<1>1. /\ deps \in Seq(Entry) /\ UNCHANGED <<deps, pc>> /\ pc = "sort" /\ n \in Names
      /\ Names' = Names /\ \A m : Last(m)' = Last(m)
      /\ n \notin Emitted /\ Emitted' = Emitted \cup {n} /\ Pending(n) = {}
  BY PopFacts, ListSame
<1>2. /\ \A k \in DOMAIN deps : \A j \in DOMAIN deps[k].after : deps[k].after[j] \in Names
      /\ \A m \in Names : degree[m] = Cardinality(Pending(m))
      /\ \A m \in ready \cup Emitted : Pending(m) = {}
      /\ ready \cap Emitted = {} /\ n \in ready /\ ready \subseteq Names
  BY <1>1 DEF DagInv, DagTyped, Counting, Pop
<1>3. ASSUME NEW m PROVE Pending(m)' = Pending(m) \ J(m) /\ J(m) \subseteq Pending(m)
  BY <1>1 DEF Pending
<1>4. ASSUME NEW m \in Names
      PROVE  degree'[m] = Cardinality(Pending(m)') /\ degree'[m] \in Nat /\ IsFiniteSet(Pending(m)')
  <2>1. IsFiniteSet(Pending(m))
    BY <1>1, PendingFinite
  <2>2. Mentions(m, n) = Cardinality(J(m))
    BY <1>1, MentionsCount
  <2>3. Pending(m) \cap J(m) = J(m)
    BY <1>3
  <2>4. /\ IsFiniteSet(Pending(m) \ J(m))
        /\ Cardinality(Pending(m) \ J(m)) = Cardinality(Pending(m)) - Cardinality(J(m))
    BY <2>1, <2>3, FS_Difference
  <2>5. degree'[m] = degree[m] - Mentions(m, n)
    BY <1>1 DEF Pop
  <2>6. degree'[m] = Cardinality(Pending(m)') /\ IsFiniteSet(Pending(m)')
    BY <1>2, <1>3, <2>2, <2>4, <2>5
  <2>7. Cardinality(Pending(m)') \in Nat
    BY <2>6, FS_CardinalityType
  <2> QED
    BY <2>6, <2>7
<1>5. ready' = (ready \ {n}) \cup {m \in Names : degree[m] > 0 /\ degree'[m] <= 0}
  BY DEF Pop
<1>6. ASSUME NEW m \in ready' \cup Emitted' PROVE Pending(m)' = {}
  <2>1. CASE Pending(m) = {}
    BY <1>3, <2>1
  <2>2. CASE m \in Names /\ degree'[m] <= 0
    <3>1. Cardinality(Pending(m)') = 0
      BY <1>4, <2>2
    <3> QED
      BY <1>4, <2>2, <3>1, FS_EmptySet
  <2> QED
    BY <1>1, <1>2, <1>5, <2>1, <2>2
<1>7. ASSUME NEW m \in ready' PROVE m \notin Emitted'
  <2>1. CASE m \in ready \ {n}
    BY <1>1, <1>2, <2>1
  <2>2. CASE m \in Names /\ degree[m] > 0
    <3>1. Pending(m) # {}
      BY <1>2, <2>2, FS_EmptySet
    <3> QED
      BY <1>1, <1>2, <3>1
  <2> QED
    BY <1>5, <2>1, <2>2
<1> HIDE DEF J
<1>8. \A k \in DOMAIN deps' : \A j \in DOMAIN deps'[k].after : deps'[k].after[j] \in Names'
  BY <1>1, <1>2
<1>9. \A m \in Names' : degree'[m] = Cardinality(Pending(m)')
  BY <1>1, <1>4
<1> QED
  BY <1>6, <1>7, <1>8, <1>9 DEF Counting

LEMMA PopOrder ==
  ASSUME DagInv, Distinct, NEW n \in Name, Pop(n)
  PROVE  PrerequisitesFirst'
<1>1. /\ deps \in Seq(Entry) /\ UNCHANGED <<deps, pc>> /\ n \in Names /\ Pending(n) = {} /\ n \notin Emitted
      /\ Last(n) \in DOMAIN deps /\ deps[Last(n)].name = n
      /\ Len(sorted) \in Nat /\ DOMAIN sorted = 1..Len(sorted)
      /\ DOMAIN sorted' = 1..(Len(sorted) + 1) /\ sorted'[Len(sorted) + 1] = Last(n)
      /\ \A i \in 1..Len(sorted) : sorted'[i] = sorted[i] /\ sorted[i] \in DOMAIN deps
      /\ \A k : Waits(k)' = Waits(k)
  BY PopFacts, ListSame
<1>2. \A i \in 1..Len(sorted) : sorted[i] # Last(n)
  BY <1>1 DEF Emitted
<1>3. \A i \in DOMAIN sorted : /\ \A j \in DOMAIN sorted : sorted[i] = sorted[j] => i = j
                               /\ \A k \in Waits(sorted[i]) : \E h \in 1..(i - 1) : sorted[h] = k
  BY DEF DagInv, PrerequisitesFirst
<1>4. ASSUME NEW k \in Waits(Last(n)) PROVE \E h \in 1..Len(sorted) : sorted[h] = k
  <2>1. PICK j \in DOMAIN deps[Last(n)].after : deps[Last(n)].after[j] = deps[k].name
    BY DEF Waits
  <2>2. deps[k].name \in Emitted /\ k \in DOMAIN deps
    BY <1>1, <2>1 DEF Pending, Waits
  <2>3. PICK h \in 1..Len(sorted) : deps[sorted[h]].name = deps[k].name
    BY <1>1, <2>2 DEF Emitted
  <2> QED
    BY <1>1, <2>2, <2>3 DEF Distinct
<1>5. ASSUME NEW i \in DOMAIN sorted'
      PROVE  /\ \A j \in DOMAIN sorted' : sorted'[i] = sorted'[j] => i = j
             /\ \A k \in Waits(sorted'[i]) : \E h \in 1..(i - 1) : sorted'[h] = k
  <2>1. i \in 1..Len(sorted) \/ i = Len(sorted) + 1
    BY <1>1
  <2>2. \A j \in DOMAIN sorted' : sorted'[i] = sorted'[j] => i = j
    <3> TAKE j \in DOMAIN sorted'
    <3>1. j \in 1..Len(sorted) \/ j = Len(sorted) + 1
      BY <1>1
    <3> QED
      BY <1>1, <1>2, <1>3, <2>1, <3>1
  <2>3. ASSUME NEW k \in Waits(sorted'[i]) PROVE \E h \in 1..(i - 1) : sorted'[h] = k
    <3>1. CASE i = Len(sorted) + 1
      <4>1. PICK h \in 1..Len(sorted) : sorted[h] = k
        BY <1>1, <1>4, <2>3, <3>1
      <4>2. h \in 1..(i - 1)
        BY <1>1, <3>1
      <4> QED
        BY <1>1, <4>1, <4>2
    <3>2. CASE i \in 1..Len(sorted)
      <4>1. PICK h \in 1..(i - 1) : sorted[h] = k
        BY <1>1, <1>3, <2>3, <3>2
      <4>2. h \in 1..Len(sorted)
        BY <1>1, <3>2
      <4> QED
        BY <1>1, <4>1, <4>2
    <3> QED
      BY <2>1, <3>1, <3>2
  <2> QED
    BY <2>2, <2>3
<1> QED
  BY <1>1, <1>5 DEF PrerequisitesFirst, Waits

-----------------------------------------------------------------------------
(* The other steps. *)

LEMMA TypedStep ==
  ASSUME DagInv, [Next]_vars
  PROVE  DagTyped'
<1>1. DagTyped
  BY DEF DagInv
<1>2. CASE ResolveEntry
  <2>1. sorted = <<>> /\ sorted' = <<>> /\ pc' \in {"resolve", "bad ref"}
    BY <1>1, <1>2 DEF DagTyped, ResolveEntry
  <2>2. /\ Head(todo) \in [entry : Entry, depth : Nat]
        /\ Tail(todo) \in Seq([entry : Entry, depth : Nat])
    BY <1>1, <1>2, HeadTailProperties DEF DagTyped, ResolveEntry
  <2>3. ASSUME NEW f \in DOMAIN Content
        PROVE  At(Content[f], FoundAt(Head(todo).depth)) \in Seq([entry : Entry, depth : Nat])
    <3>1. Content[f] \in Seq(Entry) /\ FoundAt(Head(todo).depth) \in Nat
      BY <2>2, ContentAssumption DEF FoundAt
    <3>2. /\ DOMAIN Content[f] = 1..Len(Content[f]) /\ Len(Content[f]) \in Nat
          /\ \A k \in 1..Len(Content[f]) : Content[f][k] \in Entry
      BY <3>1, LenProperties, ElementOfSeq
    <3> QED
      BY <3>1, <3>2 DEF At
  <2>4. todo' \in Seq([entry : Entry, depth : Nat])
    <3> DEFINE file  == Head(todo).entry.ref
               below == IF file \in DOMAIN Content THEN At(Content[file], FoundAt(Head(todo).depth)) ELSE <<>>
    <3>1. below \in Seq([entry : Entry, depth : Nat])
      BY <2>3, EmptySeq
    <3>2. below \o Tail(todo) \in Seq([entry : Entry, depth : Nat])
      BY <2>2, <3>1, ConcatProperties
    <3>3. todo' \in {todo, Tail(todo), below \o Tail(todo)}
      BY <1>2 DEF ResolveEntry
    <3> QED
      BY <1>1, <2>2, <3>2, <3>3 DEF DagTyped
  <2>5. deps' \in Seq(Entry)
    <3>1. deps' \in {deps, Append(deps, Head(todo).entry)}
      BY <1>2 DEF ResolveEntry
    <3>2. Append(deps, Head(todo).entry) \in Seq(Entry)
      BY <1>1, <2>2, AppendProperties DEF DagTyped
    <3> QED
      BY <1>1, <3>1, <3>2 DEF DagTyped
  <2>6. sorted' \in Seq(DOMAIN deps')
    BY <2>1, EmptySeq
  <2> QED
    BY <2>1, <2>4, <2>5, <2>6 DEF DagTyped
<1>3. CASE Validate
  <2>1. UNCHANGED <<deps, todo, sorted>> /\ Names' = Names /\ Distinct' = Distinct
    BY <1>3, ListSame DEF Validate
  <2>2. pc' \in {"unknown", "sort"} /\ (pc' = "sort" => ready' \subseteq Names)
    BY <1>3 DEF Validate
  <2> QED
    BY <1>1, <2>1, <2>2 DEF DagTyped
<1>4. ASSUME NEW n \in Name, Pop(n) PROVE DagTyped'
  <2>1. UNCHANGED <<deps, todo, pc>> /\ Names' = Names /\ Distinct' = Distinct
    BY <1>4, ListSame DEF Pop
  <2>2. Distinct => sorted' \in Seq(DOMAIN deps)
    BY <1>4, PopFacts
  <2>3. ready' \subseteq Names /\ pc = "sort"
    BY <1>1, <1>4 DEF Pop, DagTyped
  <2> QED
    BY <1>1, <2>1, <2>2, <2>3 DEF DagTyped
<1>5. CASE Group
  <2>1. UNCHANGED <<deps, todo, sorted>> /\ Names' = Names /\ Distinct' = Distinct
    BY <1>5, ListSame DEF Group
  <2>2. pc' \in {"cycle", "batched"}
    BY <1>5 DEF Group
  <2> QED
    BY <1>1, <2>1, <2>2 DEF DagTyped
<1>6. CASE UNCHANGED vars
  <2>1. UNCHANGED <<deps, todo, sorted, pc, ready>> /\ Names' = Names /\ Distinct' = Distinct
    BY <1>6, ListSame DEF vars
  <2> QED
    BY <1>1, <2>1 DEF DagTyped
<1> QED
  BY <1>2, <1>3, <1>4, <1>5, <1>6 DEF Next, Terminated

\* An in-degree starts as the number of mentions, all of which still wait.
LEMMA ValidateCounting ==
  ASSUME DagInv, Validate
  PROVE  Counting'
<1> SUFFICES ASSUME pc' = "sort", Distinct PROVE Counting'
  BY ListSame DEF Counting, Validate
<1>1. /\ deps \in Seq(Entry) /\ sorted = <<>> /\ UNCHANGED <<deps, sorted>>
      /\ \A k \in DOMAIN deps : \A j \in DOMAIN deps[k].after : deps[k].after[j] \in Names
      /\ degree' = [n \in Names |-> InDegree(n)] /\ ready' = {n \in Names : InDegree(n) = 0}
  BY DEF DagInv, DagTyped, Validate
<1>2. Names' = Names /\ \A n : Last(n)' = Last(n)
  BY <1>1, ListSame
<1>3. Emitted = {} /\ Emitted' = {}
  BY <1>1 DEF Emitted
<1>4. ASSUME NEW m \in Names
      PROVE  /\ Pending(m)' = DOMAIN deps[Last(m)].after
             /\ InDegree(m) = Cardinality(DOMAIN deps[Last(m)].after)
             /\ IsFiniteSet(DOMAIN deps[Last(m)].after)
  <2>1. Pending(m)' = DOMAIN deps[Last(m)].after
    BY <1>1, <1>2, <1>3 DEF Pending
  <2>2. deps[Last(m)].after \in Seq(Name)
    BY <1>1, LastOf, DepsType
  <2>3. /\ DOMAIN deps[Last(m)].after = 1..Len(deps[Last(m)].after)
        /\ Len(deps[Last(m)].after) \in Nat
    BY <2>2, LenProperties
  <2>4. /\ Cardinality(1..Len(deps[Last(m)].after)) = Len(deps[Last(m)].after)
        /\ IsFiniteSet(1..Len(deps[Last(m)].after))
    BY <2>3, FS_Interval
  <2> QED
    BY <2>1, <2>3, <2>4 DEF InDegree
<1>5. \A m \in Names' : degree'[m] = Cardinality(Pending(m)')
  BY <1>1, <1>2, <1>4
<1>6. \A m \in ready' \cup Emitted' : Pending(m)' = {}
  BY <1>1, <1>3, <1>4, FS_EmptySet
<1>7. \A k \in DOMAIN deps' : \A j \in DOMAIN deps'[k].after : deps'[k].after[j] \in Names'
  BY <1>1, <1>2
<1> QED
  BY <1>3, <1>5, <1>6, <1>7 DEF Counting

LEMMA DagInvStep ==
  ASSUME DagInv, [Next]_vars
  PROVE  DagInv'
<1>1. CASE UNCHANGED vars
  <2>1. UNCHANGED <<deps, todo, sorted, pc, ready, degree>>
    BY <1>1 DEF vars
  <2>2. DagTyped'
    BY TypedStep
  <2>3. PrerequisitesFirst'
    BY <2>1 DEF DagInv, PrerequisitesFirst, Distinct, Waits
  <2>4. /\ Emitted' = Emitted /\ Names' = Names /\ Distinct' = Distinct
        /\ \A m : Pending(m)' = Pending(m)
    BY <2>1 DEF Emitted, Names, Distinct, Pending, Last
  <2>5. Counting'
    BY <2>1, <2>4 DEF DagInv, Counting
  <2> QED
    BY <2>2, <2>3, <2>5 DEF DagInv
<1>2. CASE Next
  <2>1. DagTyped'
    BY <1>2, TypedStep
  <2>2. CASE ResolveEntry
    <3>1. sorted' = <<>> /\ pc' # "sort"
      BY <2>2 DEF DagInv, DagTyped, ResolveEntry
    <3> QED
      BY <2>1, <3>1 DEF DagInv, Counting, PrerequisitesFirst
  <2>3. CASE Validate
    <3>1. sorted' = <<>>
      BY <2>3 DEF DagInv, DagTyped, Validate
    <3> QED
      BY <2>1, <2>3, <3>1, ValidateCounting DEF DagInv, PrerequisitesFirst
  <2>4. ASSUME NEW n \in Name, Pop(n) PROVE DagInv'
    <3>1. Distinct' = Distinct
      BY <2>4, ListSame DEF Pop
    <3>2. CASE Distinct
      BY <2>1, <2>4, <3>2, PopCounting, PopOrder DEF DagInv
    <3>3. CASE ~Distinct
      BY <2>1, <3>1, <3>3 DEF DagInv, Counting, PrerequisitesFirst
    <3> QED
      BY <3>2, <3>3
  <2>5. CASE Group
    <3>1. UNCHANGED <<deps, sorted>> /\ pc' # "sort"
      BY <2>5 DEF Group
    <3>2. PrerequisitesFirst'
      BY <3>1 DEF DagInv, PrerequisitesFirst, Distinct, Waits
    <3> QED
      BY <2>1, <3>1, <3>2 DEF DagInv, Counting
  <2> QED
    BY <1>1, <1>2, <2>2, <2>3, <2>4, <2>5 DEF Next, Terminated
<1> QED
  BY <1>1, <1>2

\* Whatever order Go's maps give, and however often dependsOn repeats a name, the
\* sort emits every dep at most once and after all it depends on (dag.go:50-92).
THEOREM SortedInOrder == Spec => []PrerequisitesFirst
<1>1. Init => DagInv
  <2> SUFFICES ASSUME Init PROVE DagInv
    OBVIOUS
  <2>1. given \in Seq(Entry)
    BY ListsAssumption DEF Init
  <2>2. /\ DOMAIN given = 1..Len(given) /\ Len(given) \in Nat
        /\ \A k \in 1..Len(given) : given[k] \in Entry
    BY <2>1, LenProperties, ElementOfSeq
  <2>3. todo \in Seq([entry : Entry, depth : Nat])
    BY <2>2 DEF Init, At
  <2>4. deps \in Seq(Entry) /\ sorted \in Seq(DOMAIN deps)
    BY EmptySeq DEF Init
  <2> QED
    BY <2>3, <2>4 DEF Init, DagInv, DagTyped, Counting, PrerequisitesFirst
<1>2. DagInv /\ [Next]_vars => DagInv'
  BY DagInvStep
<1>3. DagInv => PrerequisitesFirst
  BY DEF DagInv
<1> QED
  BY <1>1, <1>2, <1>3, PTL DEF Spec
-----------------------------------------------------------------------------
(* Types, for lists that use a name twice included. *)

LEMMA NameIsSomewhere ==
  ASSUME deps \in Seq(Entry), NEW n \in Names
  PROVE  Last(n) \in DOMAIN deps /\ deps[Last(n)].name = n
<1> DEFINE J == {k \in DOMAIN deps : deps[k].name = n}
           f == [k \in 1..Len(deps) |-> k]
<1>1. DOMAIN deps = 1..Len(deps) /\ Len(deps) \in Nat
  BY DepsType
<1>2. J \in SUBSET (1..Len(deps)) /\ J # {} /\ f \in [1..Len(deps) -> Nat]
  BY <1>1 DEF Names
<1>3. PICK i \in J : \A j \in J : f[j] <= f[i]
  <2> HIDE DEF J, f
  <2> QED
    BY <1>1, <1>2, SomeIsGreatest
<1>4. i \in DOMAIN deps /\ deps[i].name = n /\ \A j \in DOMAIN deps : deps[j].name = n => j <= i
  BY <1>1, <1>3
<1> QED
  BY <1>4 DEF Last

LEMMA MentionsFinite ==
  ASSUME deps \in Seq(Entry), NEW m, NEW n
  PROVE  Mentions(m, n) \in Nat
<1> DEFINE f == [k \in 1..Len(deps) |-> Len(deps[k].after)]
           P == {p \in UNION {{k} \X DOMAIN deps[k].after : k \in DOMAIN deps} :
                    deps[p[1]].name = m /\ deps[p[1]].after[p[2]] = n}
<1>1. DOMAIN deps = 1..Len(deps) /\ Len(deps) \in Nat /\ \A k \in DOMAIN deps : deps[k].after \in Seq(Name)
  BY DepsType
<1>2. \A k \in DOMAIN deps : Len(deps[k].after) \in Nat /\ DOMAIN deps[k].after = 1..Len(deps[k].after)
  BY <1>1, LenProperties
<1>3. f \in [1..Len(deps) -> Nat]
  BY <1>1, <1>2
<1>4. \E b \in Nat : \A k \in DOMAIN deps : f[k] <= b
  <2>1. CASE DOMAIN deps = {}
    BY <2>1
  <2>2. CASE DOMAIN deps # {}
    <3> HIDE DEF f
    <3>1. PICK i \in DOMAIN deps : \A j \in DOMAIN deps : f[j] <= f[i]
      BY <1>1, <1>3, <2>2, SomeIsGreatest
    <3> QED
      BY <1>1, <1>3, <3>1
  <2> QED
    BY <2>1, <2>2
<1>5. PICK b \in Nat : \A k \in DOMAIN deps : f[k] <= b
  BY <1>4
<1>6. ASSUME NEW p \in P PROVE p \in (1..Len(deps)) \X (1..b)
  <2>1. PICK k \in DOMAIN deps : p \in {k} \X DOMAIN deps[k].after
    OBVIOUS
  <2>2. PICK j \in DOMAIN deps[k].after : p = <<k, j>>
    BY <2>1
  <2>3. Len(deps[k].after) <= b /\ j \in 1..Len(deps[k].after)
    BY <1>1, <1>2, <1>5, <2>2
  <2>4. j \in 1..b
    BY <1>2, <2>3
  <2> QED
    BY <1>1, <2>2, <2>4
<1>7. IsFiniteSet((1..Len(deps)) \X (1..b))
  <2>1. IsFiniteSet(1..Len(deps)) /\ IsFiniteSet(1..b)
    BY <1>1, FS_Interval
  <2> QED
    BY <2>1, FS_Product
<1>8. IsFiniteSet(P)
  <2> HIDE DEF P
  <2> QED
    BY <1>6, <1>7, FS_Subset
<1> QED
  BY <1>8, FS_CardinalityType DEF Mentions

\* The greatest of finitely many levels.
LEMMA HeightIs ==
  ASSUME NEW m \in Nat, NEW f \in [1..m -> Nat], NEW J \in SUBSET (1..m)
  PROVE  /\ J = {} => Height({f[j] : j \in J}) = 0
         /\ J # {} => \E i \in J : /\ Height({f[j] : j \in J}) = 1 + f[i]
                                   /\ \A j \in J : f[j] <= f[i]
         /\ Height({f[j] : j \in J}) \in Nat
<1> DEFINE L == {f[j] : j \in J}
<1> SUFFICES /\ J = {} => Height(L) = 0
             /\ J # {} => \E i \in J : Height(L) = 1 + f[i] /\ \A j \in J : f[j] <= f[i]
             /\ Height(L) \in Nat
  OBVIOUS
<1>1. CASE J = {}
  <2>1. L = {}
    BY <1>1
  <2> HIDE DEF L
  <2> QED
    BY <1>1, <2>1 DEF Height
<1>2. CASE J # {}
  <2>1. PICK i \in J : \A j \in J : f[j] <= f[i]
    BY <1>2, SomeIsGreatest
  <2>2. L \subseteq Nat /\ f[i] \in L /\ \A y \in L : y <= f[i]
    BY <2>1
  <2>3. ASSUME NEW x \in L, \A y \in L : y <= x PROVE x = f[i]
    <3>1. x <= f[i] /\ f[i] <= x /\ x \in Nat /\ f[i] \in Nat
      BY <2>2, <2>3
    <3> QED
      BY <3>1
  <2>4. Most(L) = f[i]
    <3> HIDE DEF L
    <3> QED
      BY <2>2, <2>3 DEF Most
  <2>5. Height(L) = 1 + f[i]
    <3>1. L # {}
      BY <2>2
    <3> HIDE DEF L
    <3> QED
      BY <2>4, <3>1 DEF Height
  <2>6. f[i] \in Nat
    OBVIOUS
  <2> HIDE DEF L
  <2>7. Height(L) \in Nat
    BY <2>5, <2>6
  <2> QED
    BY <1>2, <2>1, <2>5, <2>7
<1> HIDE DEF L
<1> QED
  BY <1>1, <1>2

\* The prerequisites of the i-th dep that the sort has placed before it.
Before(i) == {h \in 1..(i - 1) : sorted[h] \in Prerequisites(sorted[i])}

\* level[] is computed front to back: every level from those of the prerequisites.
LEMMA LevelIs ==
  ASSUME NEW S, sorted \in Seq(S)
  PROVE  /\ Level \in [DOMAIN sorted -> Nat]
         /\ \A i \in DOMAIN sorted : Level[i] = Height({Level[j] : j \in Before(i)})
<1> DEFINE m == Len(sorted)
           s == [p \in Seq(Nat) |-> Height({p[j] : j \in Before(Len(p) + 1)})]
           P(at) == at = [i \in DOMAIN sorted |-> Height({at[j] : j \in Before(i)})]
<1>1. m \in Nat /\ DOMAIN sorted = 1..m
  BY LenProperties
<1>2. s \in [Seq(Nat) -> Nat]
  <2> SUFFICES ASSUME NEW p \in Seq(Nat) PROVE Height({p[j] : j \in Before(Len(p) + 1)}) \in Nat
    OBVIOUS
  <2>1. Len(p) \in Nat /\ p \in [1..Len(p) -> Nat]
    BY LenProperties
  <2>2. Before(Len(p) + 1) \subseteq 1..Len(p)
    BY <2>1 DEF Before
  <2> QED
    BY <2>1, <2>2, HeightIs
<1>3. PICK g \in [1..m -> Nat] : ByCourse(g, m, s)
  <2> HIDE DEF m, s
  <2> QED
    BY <1>1, <1>2, TypedCourseOfValues
<1>4. ASSUME NEW i \in 1..m PROVE g[i] = Height({g[j] : j \in Before(i)})
  <2> DEFINE p == [j \in 1..(i - 1) |-> g[j]]
  <2>1. p \in Seq(Nat) /\ Len(p) = i - 1
    <3>1. i - 1 \in Nat /\ p \in [1..(i - 1) -> Nat]
      BY <1>1
    <3>2. p \in Seq(Nat)
      BY <3>1, SeqDef
    <3>3. Len(p) \in Nat /\ DOMAIN p = 1..Len(p) /\ DOMAIN p = 1..(i - 1)
      BY <3>2, LenProperties
    <3>4. Len(p) = i - 1
      BY <3>1, <3>3
    <3> QED
      BY <3>2, <3>4
  <2>2. g[i] = s[p]
    BY <1>3 DEF ByCourse
  <2>3. s[p] = Height({p[j] : j \in Before(i)})
    <3>1. Len(p) + 1 = i
      BY <2>1, <1>1
    <3>2. s[p] = Height({p[j] : j \in Before(Len(p) + 1)})
      BY <2>1
    <3> HIDE DEF s, p
    <3> QED
      BY <3>1, <3>2
  <2>4. {p[j] : j \in Before(i)} = {g[j] : j \in Before(i)}
    BY DEF Before
  <2> QED
    BY <2>2, <2>3, <2>4
<1>5. P(g)
  BY <1>1, <1>4
<1>6. Level = CHOOSE at : P(at)
  BY DEF Level, Before
<1>7. P(Level)
  <2> HIDE DEF P
  <2> QED
    BY <1>5, <1>6
<1>8. Level \in [DOMAIN sorted -> Nat]
  <2> DEFINE Q == {n \in Nat : n <= m => \A i \in 1..n : Level[i] \in Nat}
  <2>1. 0 \in Q
    OBVIOUS
  <2>2. ASSUME NEW n \in Nat, n \in Q, n + 1 <= m PROVE Level[n + 1] \in Nat
    <3> DEFINE f == [i \in 1..n |-> Level[i]]
    <3>1. f \in [1..n -> Nat] /\ Before(n + 1) \subseteq 1..n
      BY <2>2 DEF Before
    <3>2. Level[n + 1] = Height({Level[j] : j \in Before(n + 1)})
      <4>1. n + 1 \in DOMAIN sorted
        BY <1>1, <2>2
      <4> QED
        BY <1>7, <4>1
    <3>3. {Level[j] : j \in Before(n + 1)} = {f[j] : j \in Before(n + 1)}
      BY <3>1
    <3>4. Height({f[j] : j \in Before(n + 1)}) \in Nat
      <4> HIDE DEF f
      <4> QED
        BY <3>1, HeightIs
    <3> HIDE DEF f
    <3> QED
      BY <3>2, <3>3, <3>4
  <2>3. ASSUME NEW n \in Nat, n \in Q PROVE n + 1 \in Q
    <3>1. ASSUME n + 1 <= m, NEW i \in 1..(n + 1) PROVE Level[i] \in Nat
      <4>1. i \in 1..n \/ i = n + 1
        OBVIOUS
      <4>2. \A h \in 1..n : Level[h] \in Nat
        BY <1>1, <2>3, <3>1
      <4> QED
        BY <2>2, <2>3, <3>1, <4>1, <4>2
    <3> QED
      BY <3>1
  <2> HIDE DEF Q
  <2>4. Nat \subseteq Q
    BY <2>1, <2>3, SetInduction
  <2>5. \A i \in 1..m : Level[i] \in Nat
    BY <1>1, <2>4 DEF Q
  <2> QED
    BY <1>1, <1>7, <2>5
<1> QED
  BY <1>7, <1>8

LEMMA RoundsAre ==
  /\ Rounds \in [Nat -> SUBSET DOMAIN deps]
  /\ Rounds[0] = {}
  /\ \A r \in Nat : Rounds[r + 1] = {k \in DOMAIN deps : Waits(k) \subseteq Rounds[r]}
<1> DEFINE T == SUBSET DOMAIN deps
           s == [p \in Nat \X T |-> {k \in DOMAIN deps : Waits(k) \subseteq p[2]}]
           P(upto) == upto = [r \in Nat |-> IF r = 0 THEN {}
                                            ELSE {k \in DOMAIN deps : Waits(k) \subseteq upto[r - 1]}]
<1>1. {} \in T /\ s \in [Nat \X T -> T]
  OBVIOUS
<1>2. PICK g \in [Nat -> T] : ByStep(g, {}, s)
  <2> HIDE DEF T, s
  <2> QED
    BY <1>1, PrimitiveRecursion
<1>3. P(g)
  <2>1. ASSUME NEW r \in Nat, r # 0 PROVE s[<<r, g[r - 1]>>] = {k \in DOMAIN deps : Waits(k) \subseteq g[r - 1]}
    BY <2>1
  <2> QED
    BY <1>2, <2>1 DEF ByStep
<1>4. Rounds = CHOOSE upto : P(upto)
  BY DEF Rounds
<1>5. P(Rounds)
  <2> HIDE DEF P
  <2> QED
    BY <1>3, <1>4
<1>6. Rounds[0] = {}
  BY <1>5
<1>7. \A r \in Nat : Rounds[r + 1] = {k \in DOMAIN deps : Waits(k) \subseteq Rounds[r]}
  BY <1>5
<1>8. \A r \in Nat : Rounds[r] \subseteq DOMAIN deps
  BY <1>5
<1> QED
  BY <1>5, <1>6, <1>7, <1>8

-----------------------------------------------------------------------------
(* The type invariant. *)

\* Nothing is sorted before everything is resolved, and nothing is sorted that
\* depends on a name that nobody has.
Phases ==
    /\ pc \in {"resolve", "bad ref"} => ready = {} /\ sorted = <<>> /\ batches = <<>>
    /\ pc \in {"sort", "cycle", "batched"} =>
          \A k \in DOMAIN deps : \A j \in DOMAIN deps[k].after : deps[k].after[j] \in Names

\* A name has its turn once, even if two deps share it.
Turns ==
    /\ \A i \in DOMAIN sorted : sorted[i] = Last(deps[sorted[i]].name)
    /\ \A i, j \in DOMAIN sorted : sorted[i] = sorted[j] => i = j
    /\ pc = "sort" => ready \cap Emitted = {} /\ \A m \in ready \cup Emitted : degree[m] <= 0

\* What waits for nothing is in the queue or has left it.
Waiting ==
    pc = "sort" /\ Distinct => \A m \in Names : Pending(m) = {} => m \in ready \cup Emitted

SortInv == DagInv /\ TypeOK /\ Phases /\ Turns /\ Waiting

LEMMA ResolveTypes ==
  ASSUME TypeOK, ResolveEntry
  PROVE  /\ todo' \in Seq([entry : Entry, depth : 0..MaxRefDepth])
         /\ deps' \in Seq(Entry)
         /\ Head(todo).entry \in Entry /\ Head(todo).depth \in 0..MaxRefDepth
<1> DEFINE Item  == [entry : Entry, depth : 0..MaxRefDepth]
           next  == Head(todo)
           file  == next.entry.ref
           below == IF file \in DOMAIN Content THEN At(Content[file], FoundAt(next.depth)) ELSE <<>>
<1>1. todo \in Seq(Item) /\ todo # <<>>
  BY DEF TypeOK, ResolveEntry
<1>2. next \in Item /\ Tail(todo) \in Seq(Item)
  <2> HIDE DEF Item
  <2> QED
    BY <1>1, HeadTailProperties
<1>3. next.entry \in Entry /\ next.depth \in 0..MaxRefDepth
  BY <1>2
<1>4. CASE file = NoFile
  <2>1. todo' = Tail(todo) /\ deps' = Append(deps, next.entry)
    BY <1>4 DEF ResolveEntry
  <2>2. deps' \in Seq(Entry)
    BY <1>3, <2>1, AppendProperties DEF TypeOK
  <2> QED
    BY <1>2, <1>3, <2>1, <2>2
<1>5. CASE file # NoFile /\ pc' = "bad ref"
  <2>1. pc' # pc
    BY <1>5 DEF ResolveEntry
  <2>2. UNCHANGED <<todo, deps>>
    BY <1>5, <2>1 DEF ResolveEntry
  <2> QED
    BY <1>1, <1>3, <2>2 DEF TypeOK
<1>6. CASE file # NoFile /\ pc' # "bad ref"
  <2>1. /\ file \in DOMAIN Content /\ (below = <<>> \/ FoundAt(next.depth) <= MaxRefDepth)
        /\ todo' = below \o Tail(todo) /\ UNCHANGED deps
    BY <1>6 DEF ResolveEntry
  <2>2. below \in Seq(Item)
    <3>1. CASE below = <<>>
      BY <3>1, EmptySeq
    <3>2. CASE FoundAt(next.depth) <= MaxRefDepth /\ file \in DOMAIN Content
      <4>1. Content[file] \in Seq(Entry)
        BY <3>2, ContentAssumption
      <4>2. /\ DOMAIN Content[file] = 1..Len(Content[file]) /\ Len(Content[file]) \in Nat
            /\ \A k \in DOMAIN Content[file] : Content[file][k] \in Entry
        BY <4>1, LenProperties, ElementOfSeq
      <4>3. FoundAt(next.depth) \in 0..MaxRefDepth
        BY <1>3, <3>2, DepthAssumption DEF FoundAt
      <4>4. below \in [1..Len(Content[file]) -> Item]
        BY <3>2, <4>2, <4>3 DEF At
      <4> HIDE DEF below, Item
      <4> QED
        BY <4>2, <4>4, SeqDef
    <3> QED
      BY <2>1, <3>1, <3>2
  <2>3. below \o Tail(todo) \in Seq(Item)
    <3> HIDE DEF below, Item
    <3> QED
      BY <1>2, <2>2, ConcatProperties
  <2> QED
    BY <1>3, <2>1, <2>3 DEF TypeOK
<1> QED
  BY <1>4, <1>5, <1>6

LEMMA GroupTypes ==
  ASSUME TypeOK, Group
  PROVE  batches' \in Seq(SUBSET DOMAIN deps)
<1> DEFINE m == Len(sorted)
           J == 1..m
           levels == {Level[j] : j \in J}
           at(l) == {sorted[i] : i \in {h \in DOMAIN sorted : Level[h] = l - 1}}
<1>1. /\ m \in Nat /\ DOMAIN sorted = 1..m /\ Level \in [1..m -> Nat]
      /\ \A i \in 1..m : sorted[i] \in DOMAIN deps
  BY LenProperties, LevelIs, ElementOfSeq DEF TypeOK
<1>2. CASE ~Complete \/ sorted = <<>>
  <2>1. batches' = batches \/ batches' = <<>>
    BY <1>2 DEF Group
  <2> QED
    BY <2>1, EmptySeq DEF TypeOK
<1>3. CASE Complete /\ sorted # <<>>
  <2>1. batches' = [l \in 1..(1 + Most(levels)) |-> at(l)]
    BY <1>1, <1>3 DEF Group
  <2>2. 1 + Most(levels) \in Nat
    <3>1. J # {}
      <4>1. sorted \in Seq(DOMAIN deps)
        BY DEF TypeOK
      <4>2. m \in Nat \ {0}
        BY <1>3, <4>1, EmptySeq
      <4> QED
        BY <4>2
    <3>2. levels # {}
      BY <3>1
    <3>3. Height(levels) \in Nat
      <4> DEFINE f == Level
      <4>1. Height({f[j] : j \in J}) \in Nat
        <5> HIDE DEF f
        <5> QED
          BY <1>1, HeightIs DEF f
      <4> QED
        BY <4>1
    <3>4. Height(levels) = 1 + Most(levels)
      <4> HIDE DEF levels
      <4> QED
        BY <3>2 DEF Height
    <3> QED
      BY <3>3, <3>4
  <2>3. \A l : at(l) \subseteq DOMAIN deps
    BY <1>1
  <2>4. batches' \in [1..(1 + Most(levels)) -> SUBSET DOMAIN deps]
    <3> HIDE DEF levels, at
    <3> QED
      BY <2>1, <2>3
  <2> HIDE DEF levels
  <2> QED
    BY <2>2, <2>4, SeqDef
<1> QED
  BY <1>2, <1>3

LEMMA TypesStep ==
  ASSUME SortInv, DagInv', [Next]_vars
  PROVE  TypeOK'
<1> USE DEF SortInv
<1>1. CASE ResolveEntry
  <2>1. UNCHANGED <<given, ready, sorted, batches>> /\ pc' \in {"resolve", "bad ref"}
    BY <1>1 DEF ResolveEntry, TypeOK
  <2>2. ready' = {} /\ sorted' = <<>> /\ batches' = <<>>
    BY <1>1, <2>1 DEF ResolveEntry, Phases
  <2>3. sorted' \in Seq(DOMAIN deps') /\ batches' \in Seq(SUBSET DOMAIN deps')
    BY <2>2, EmptySeq
  <2>4. given' \in Lists
    BY <2>1 DEF TypeOK
  <2> QED
    BY <1>1, <2>1, <2>2, <2>3, <2>4, ResolveTypes DEF TypeOK
<1>2. CASE Validate
  <2>1. /\ UNCHANGED <<given, todo, deps, sorted, batches>> /\ pc' \in {"unknown", "sort"}
        /\ Names' = Names /\ Distinct' = Distinct
    BY <1>2, ListSame DEF Validate
  <2>2. ready' \subseteq Names
    BY <1>2 DEF Validate, TypeOK
  <2>3. ASSUME NEW n \in Names PROVE InDegree(n) \in Nat
    <3>1. deps[Last(n)].after \in Seq(Name)
      BY NameIsSomewhere, DepsType DEF TypeOK
    <3> QED
      BY <3>1, LenProperties DEF InDegree
  <2>4. pc' = "sort" => degree' \in [Names -> Nat]
    BY <1>2, <2>3 DEF Validate
  <2>5. pc' = "sort" => degree' \in [Names' -> IF Distinct' THEN Nat ELSE Int]
    BY <2>1, <2>4
  <2> QED
    BY <2>1, <2>2, <2>5 DEF TypeOK
<1>3. ASSUME NEW n \in Name, Pop(n) PROVE TypeOK'
  <2>1. /\ UNCHANGED <<given, pc, todo, deps, batches>> /\ Names' = Names /\ Distinct' = Distinct
        /\ pc = "sort" /\ n \in ready
    BY <1>3, ListSame DEF Pop
  <2>2. degree \in [Names -> Int] /\ ready' \subseteq Names /\ n \in Names
    BY <1>3, <2>1 DEF Pop, TypeOK
  <2>3. degree' \in [Names -> Int]
    <3>1. ASSUME NEW m \in Names PROVE degree[m] - Mentions(m, n) \in Int
      <4>1. deps \in Seq(Entry)
        BY DEF TypeOK
      <4>2. Mentions(m, n) \in Nat
        BY <4>1, MentionsFinite
      <4> QED
        BY <2>2, <4>2
    <3> QED
      BY <1>3, <3>1 DEF Pop
  <2>4. ASSUME Distinct PROVE degree' \in [Names -> Nat]
    <3>1. deps' \in Seq(Entry) /\ Distinct' /\ pc' = "sort"
      BY <2>1, <2>4 DEF TypeOK
    <3>2. \A m \in Names : degree'[m] = Cardinality(Pending(m)') /\ Cardinality(Pending(m)') \in Nat
      <4>1. \A m \in Names : degree'[m] = Cardinality(Pending(m)')
        BY <2>1, <3>1 DEF DagInv, Counting
      <4>2. \A m \in Names : Pending(m)' = {j \in DOMAIN deps[Last(m)].after : deps[Last(m)].after[j] \notin Emitted'}
        BY <2>1, ListSame DEF Pending
      <4>3. ASSUME NEW m \in Names PROVE Cardinality(Pending(m)') \in Nat
        <5>1. IsFiniteSet(DOMAIN deps[Last(m)].after)
          BY NameIsSomewhere, DepsType DEF TypeOK
        <5>2. IsFiniteSet(Pending(m)')
          BY <4>2, <5>1, FS_Subset
        <5> QED
          BY <5>2, FS_CardinalityType
      <4> QED
        BY <4>1, <4>3
    <3> QED
      BY <2>3, <3>2
  <2>5. sorted' \in Seq(DOMAIN deps)
    <3>1. Last(n) \in DOMAIN deps
      BY <2>2, NameIsSomewhere DEF TypeOK
    <3> QED
      BY <1>3, <3>1, AppendProperties DEF Pop, TypeOK
  <2> QED
    BY <2>1, <2>2, <2>3, <2>4, <2>5 DEF TypeOK
<1>4. CASE Group
  <2>1. UNCHANGED <<given, todo, deps, degree, ready, sorted>> /\ Names' = Names /\ pc' \in {"cycle", "batched"}
    BY <1>4, ListSame DEF Group
  <2> QED
    BY <1>4, <2>1, GroupTypes DEF TypeOK
<1>5. CASE UNCHANGED vars
  <2>1. UNCHANGED <<given, pc, todo, deps, degree, ready, sorted, batches>>
    BY <1>5 DEF vars
  <2>2. Names' = Names /\ Distinct' = Distinct
    BY <2>1, ListSame
  <2> QED
    BY <2>1, <2>2 DEF TypeOK
<1> QED
  BY <1>1, <1>2, <1>3, <1>4, <1>5 DEF Next, Terminated

-----------------------------------------------------------------------------
(* The rest of the invariant of the sort. *)

LEMMA PhasesStep ==
  ASSUME SortInv, [Next]_vars
  PROVE  Phases'
<1> USE DEF SortInv
<1>1. CASE ResolveEntry
  <2>1. UNCHANGED <<ready, sorted, batches>> /\ pc \in {"resolve", "bad ref"} /\ pc' \in {"resolve", "bad ref"}
    BY <1>1 DEF ResolveEntry
  <2> QED
    BY <2>1 DEF Phases
<1>2. CASE Validate
  <2>1. pc' \in {"unknown", "sort"} /\ UNCHANGED deps /\ Names' = Names
    BY <1>2, ListSame DEF Validate
  <2>2. pc' = "sort" => \A k \in DOMAIN deps : \A j \in DOMAIN deps[k].after : deps[k].after[j] \in Names
    BY <1>2 DEF Validate
  <2> QED
    BY <2>1, <2>2 DEF Phases
<1>3. ASSUME NEW n \in Name, Pop(n) PROVE Phases'
  <2>1. UNCHANGED <<pc, deps>> /\ Names' = Names /\ pc = "sort"
    BY <1>3, ListSame DEF Pop
  <2> QED
    BY <2>1 DEF Phases
<1>4. CASE Group
  <2>1. UNCHANGED deps /\ Names' = Names /\ pc = "sort" /\ pc' \in {"cycle", "batched"}
    BY <1>4, ListSame DEF Group
  <2> QED
    BY <2>1 DEF Phases
<1>5. CASE UNCHANGED vars
  <2>1. UNCHANGED <<pc, deps, ready, sorted, batches>> /\ Names' = Names
    BY <1>5, ListSame DEF vars
  <2> QED
    BY <2>1 DEF Phases
<1> QED
  BY <1>1, <1>2, <1>3, <1>4, <1>5 DEF Next, Terminated

\* The sorted list grows by the dep that is taken from the queue.
LEMMA PopGrows ==
  ASSUME TypeOK, NEW n \in Name, Pop(n)
  PROVE  /\ n \in Names /\ Last(n) \in DOMAIN deps /\ deps[Last(n)].name = n
         /\ Len(sorted) \in Nat /\ DOMAIN sorted = 1..Len(sorted)
         /\ DOMAIN sorted' = 1..(Len(sorted) + 1) /\ sorted'[Len(sorted) + 1] = Last(n)
         /\ \A i \in 1..Len(sorted) : sorted'[i] = sorted[i] /\ sorted[i] \in DOMAIN deps
         /\ Emitted' = Emitted \cup {n}
<1>1. deps \in Seq(Entry) /\ sorted \in Seq(DOMAIN deps) /\ n \in Names /\ sorted' = Append(sorted, Last(n))
      /\ UNCHANGED deps
  BY DEF TypeOK, Pop
<1>2. Last(n) \in DOMAIN deps /\ deps[Last(n)].name = n
  BY <1>1, NameIsSomewhere
<1>3. /\ Len(sorted) \in Nat /\ DOMAIN sorted = 1..Len(sorted)
      /\ \A i \in 1..Len(sorted) : sorted[i] \in DOMAIN deps
  BY <1>1, LenProperties, ElementOfSeq
<1>4. /\ DOMAIN sorted' = 1..(Len(sorted) + 1) /\ sorted'[Len(sorted) + 1] = Last(n)
      /\ \A i \in 1..Len(sorted) : sorted'[i] = sorted[i]
  BY <1>1, <1>2, <1>3, AppendProperties, LenProperties
<1>5. ASSUME NEW e PROVE e \in Emitted' <=> e \in Emitted \/ e = n
  <2>1. e \in Emitted' <=> \E i \in 1..(Len(sorted) + 1) : e = deps[sorted'[i]].name
    BY <1>1, <1>4 DEF Emitted
  <2>2. e \in Emitted <=> \E i \in 1..Len(sorted) : e = deps[sorted[i]].name
    BY <1>3 DEF Emitted
  <2>3. \A i : i \in 1..(Len(sorted) + 1) <=> i \in 1..Len(sorted) \/ i = Len(sorted) + 1
    BY <1>3
  <2> QED
    BY <1>2, <1>4, <2>1, <2>2, <2>3
<1> QED
  BY <1>1, <1>2, <1>3, <1>4, <1>5

LEMMA TurnsStep ==
  ASSUME SortInv, [Next]_vars
  PROVE  Turns'
<1> USE DEF SortInv
<1>1. CASE ResolveEntry
  <2>1. sorted' = <<>> /\ pc' # "sort"
    BY <1>1 DEF ResolveEntry, Phases
  <2> QED
    BY <2>1 DEF Turns
<1>2. CASE Validate
  <2>1. sorted' = <<>> /\ ready' \subseteq Names /\ UNCHANGED deps
    BY <1>2 DEF Validate, Phases, TypeOK
  <2>2. Emitted' = {}
    BY <2>1 DEF Emitted
  <2>3. pc' = "sort" => \A m \in ready' : degree'[m] <= 0
    BY <1>2 DEF Validate
  <2> QED
    BY <2>1, <2>2, <2>3 DEF Turns
<1>3. ASSUME NEW n \in Name, Pop(n) PROVE Turns'
  <2>1. /\ UNCHANGED <<deps, pc>> /\ pc = "sort" /\ n \in ready /\ \A x : Last(x)' = Last(x)
        /\ degree' = [m \in Names |-> degree[m] - Mentions(m, n)]
        /\ ready' = (ready \ {n}) \cup {m \in Names : degree[m] > 0 /\ degree'[m] <= 0}
    BY <1>3, ListSame DEF Pop
  <2>2. /\ n \in Names /\ Last(n) \in DOMAIN deps /\ deps[Last(n)].name = n
        /\ Len(sorted) \in Nat /\ DOMAIN sorted = 1..Len(sorted)
        /\ DOMAIN sorted' = 1..(Len(sorted) + 1) /\ sorted'[Len(sorted) + 1] = Last(n)
        /\ \A i \in 1..Len(sorted) : sorted'[i] = sorted[i] /\ sorted[i] \in DOMAIN deps
        /\ Emitted' = Emitted \cup {n}
    BY <1>3, PopGrows
  <2>3. /\ ready \cap Emitted = {} /\ \A m \in ready \cup Emitted : degree[m] <= 0
        /\ degree \in [Names -> Int] /\ ready \subseteq Names
    BY <2>1 DEF Turns, TypeOK
  <2>4. Emitted \subseteq Names
    BY <2>2 DEF Emitted, Names
  <2>5. ASSUME NEW m \in Names PROVE degree'[m] <= degree[m] /\ degree'[m] \in Int
    <3>1. deps \in Seq(Entry)
      BY DEF TypeOK
    <3>2. Mentions(m, n) \in Nat
      BY <3>1, MentionsFinite
    <3> QED
      BY <2>1, <2>3, <3>2
  <2>6. \A i \in 1..Len(sorted) : sorted[i] # Last(n)
    BY <2>1, <2>2, <2>3 DEF Emitted
  <2>7. \A i \in DOMAIN sorted' : sorted'[i] = Last(deps[sorted'[i]].name)
    <3> SUFFICES ASSUME NEW i \in 1..(Len(sorted) + 1) PROVE sorted'[i] = Last(deps[sorted'[i]].name)
      BY <2>2
    <3>1. i \in 1..Len(sorted) \/ i = Len(sorted) + 1
      BY <2>2
    <3> QED
      BY <2>2, <3>1 DEF Turns
  <2>8. \A i, j \in DOMAIN sorted' : sorted'[i] = sorted'[j] => i = j
    <3> SUFFICES ASSUME NEW i \in 1..(Len(sorted) + 1), NEW j \in 1..(Len(sorted) + 1), sorted'[i] = sorted'[j]
                 PROVE  i = j
      BY <2>2
    <3>1. i \in 1..Len(sorted) \/ i = Len(sorted) + 1
      BY <2>2
    <3>2. j \in 1..Len(sorted) \/ j = Len(sorted) + 1
      BY <2>2
    <3> QED
      BY <2>2, <2>6, <3>1, <3>2 DEF Turns
  <2>9. ready' \cap Emitted' = {}
    BY <2>1, <2>2, <2>3
  <2>10. \A m \in ready' \cup Emitted' : degree'[m] <= 0
    <3> TAKE m \in ready' \cup Emitted'
    <3>1. m \in Names
      BY <2>1, <2>2, <2>3, <2>4
    <3>2. degree'[m] <= 0 \/ m \in ready \cup Emitted
      BY <2>1, <2>2
    <3> QED
      BY <2>3, <2>5, <3>1, <3>2
  <2> QED
    BY <2>1, <2>7, <2>8, <2>9, <2>10 DEF Turns
<1>4. CASE Group \/ UNCHANGED vars
  <2>1. UNCHANGED <<deps, sorted, ready, degree>> /\ (pc' = "sort" => pc = "sort")
    BY <1>4 DEF Group, vars
  <2>2. Emitted' = Emitted /\ \A x : Last(x)' = Last(x)
    BY <2>1, ListSame DEF Emitted
  <2> QED
    BY <2>1, <2>2 DEF Turns
<1> QED
  BY <1>1, <1>2, <1>3, <1>4 DEF Next, Terminated

LEMMA WaitingStep ==
  ASSUME SortInv, DagInv', [Next]_vars
  PROVE  Waiting'
<1> USE DEF SortInv
<1> SUFFICES ASSUME pc' = "sort", Distinct', NEW m \in Names', Pending(m)' = {}
             PROVE  m \in ready' \cup Emitted'
  BY DEF Waiting
<1>1. deps' \in Seq(Entry) /\ degree'[m] = Cardinality(Pending(m)')
  BY DEF DagInv, DagTyped, Counting
<1>2. degree'[m] = 0
  BY <1>1, FS_EmptySet
<1>3. CASE Validate
  <2>1. Names' = Names /\ ready' = {n \in Names : InDegree(n) = 0} /\ degree'[m] = InDegree(m)
    BY <1>3, ListSame DEF Validate
  <2> QED
    BY <1>2, <2>1
<1>4. ASSUME NEW n \in Name, Pop(n) PROVE m \in ready' \cup Emitted'
  <2>1. /\ UNCHANGED <<deps, pc>> /\ pc = "sort" /\ Names' = Names /\ Distinct' = Distinct
        /\ ready' = (ready \ {n}) \cup {x \in Names : degree[x] > 0 /\ degree'[x] <= 0}
    BY <1>4, ListSame DEF Pop
  <2>2. Emitted' = Emitted \cup {n}
    BY <1>4, PopGrows
  <2>3. CASE Pending(m) = {}
    <3>1. m \in ready \cup Emitted
      BY <2>1, <2>3 DEF Waiting
    <3> QED
      BY <2>1, <2>2, <3>1
  <2>4. CASE Pending(m) # {}
    <3>1. degree[m] = Cardinality(Pending(m)) /\ deps \in Seq(Entry)
      BY <2>1 DEF DagInv, DagTyped, Counting
    <3>2. IsFiniteSet(Pending(m)) /\ Cardinality(Pending(m)) \in Nat
      BY <2>1, <3>1, PendingFinite
    <3>3. degree[m] > 0
      BY <2>4, <3>1, <3>2, FS_EmptySet
    <3> QED
      BY <1>2, <2>1, <3>3
  <2> QED
    BY <2>3, <2>4
<1>5. CASE UNCHANGED vars
  <2>1. UNCHANGED <<deps, sorted, ready, pc>>
    BY <1>5 DEF vars
  <2>2. Emitted' = Emitted /\ Names' = Names /\ Distinct' = Distinct /\ \A x : Last(x)' = Last(x)
    BY <2>1, ListSame DEF Emitted
  <2>3. Pending(m)' = Pending(m)
    BY <2>1, <2>2 DEF Pending
  <2> QED
    BY <2>1, <2>2, <2>3 DEF Waiting
<1>6. ~ResolveEntry /\ ~Group
  BY DEF ResolveEntry, Group
<1> QED
  BY <1>3, <1>4, <1>5, <1>6 DEF Next, Terminated

LEMMA SortInvStep ==
  ASSUME SortInv, [Next]_vars
  PROVE  SortInv'
<1>1. DagInv'
  BY DagInvStep DEF SortInv
<1> QED
  BY <1>1, TypesStep, PhasesStep, TurnsStep, WaitingStep DEF SortInv

-----------------------------------------------------------------------------
(* The end of the sort. *)

\* A list is as long as its sort exactly if every dep was placed, and then no name
\* occurs twice: of two deps with one name only the last has a turn.
LEMMA AllPlaced ==
  ASSUME SortInv, Complete
  PROVE  Distinct /\ \A k \in DOMAIN deps : \E i \in DOMAIN sorted : sorted[i] = k
<1> DEFINE D == DOMAIN deps
<1>1. /\ D = 1..Len(deps) /\ Len(deps) \in Nat /\ sorted \in [D -> D]
  <2>1. deps \in Seq(Entry) /\ sorted \in Seq(DOMAIN deps)
    BY DEF SortInv, TypeOK
  <2> QED
    BY <2>1, LenProperties DEF Complete
<1>2. \A i, j \in D : sorted[i] = sorted[j] => i = j
  BY <1>1 DEF SortInv, Turns
<1>3. sorted \in Injection(D, D)
  <2> HIDE DEF D
  <2> QED
    BY <1>1, <1>2, Fun_IsInj
<1>4. IsFiniteSet(D)
  BY <1>1, FS_Interval
<1>5. sorted \in Surjection(D, D)
  <2> HIDE DEF D
  <2> QED
    BY <1>3, <1>4, FS_Injection
<1>6. \A k \in D : \E i \in D : sorted[i] = k
  <2> HIDE DEF D
  <2> QED
    BY <1>5, Fun_SurjectionProperties
<1>7. \A k \in D : k = Last(deps[k].name)
  BY <1>1, <1>6 DEF SortInv, Turns
<1> QED
  BY <1>1, <1>6, <1>7 DEF Distinct

\* The prerequisites that levels are computed from are the deps waited for.
LEMMA PrerequisitesAreWaits ==
  ASSUME SortInv, pc = "sort", Distinct, NEW k \in DOMAIN deps
  PROVE  Prerequisites(k) = Waits(k)
<1>1. deps \in Seq(Entry) /\ \A j \in DOMAIN deps[k].after : deps[k].after[j] \in Names
  BY DEF SortInv, TypeOK, Phases
<1>2. ASSUME NEW p \in Prerequisites(k) PROVE p \in Waits(k)
  <2>1. PICK j \in DOMAIN deps[k].after : p = Last(deps[k].after[j])
    BY DEF Prerequisites
  <2>2. p \in DOMAIN deps /\ deps[p].name = deps[k].after[j]
    BY <1>1, <2>1, NameIsSomewhere
  <2> QED
    BY <2>1, <2>2 DEF Waits
<1>3. ASSUME NEW p \in Waits(k) PROVE p \in Prerequisites(k)
  <2>1. PICK j \in DOMAIN deps[k].after : p \in DOMAIN deps /\ deps[k].after[j] = deps[p].name
    BY DEF Waits
  <2>2. p = Last(deps[k].after[j])
    BY <1>1, <2>1, LastOnly
  <2> QED
    BY <2>1, <2>2 DEF Prerequisites
<1> QED
  BY <1>2, <1>3

\* What a dep waits for stands before it in the sorted list.
LEMMA WaitsAreBefore ==
  ASSUME SortInv, pc = "sort", Distinct, NEW i \in DOMAIN sorted
  PROVE  Waits(sorted[i]) = {sorted[h] : h \in Before(i)}
<1>1. sorted \in Seq(DOMAIN deps) /\ sorted[i] \in DOMAIN deps /\ DOMAIN sorted = 1..Len(sorted) /\ Len(sorted) \in Nat
  BY LenProperties, ElementOfSeq DEF SortInv, TypeOK
<1>2. Prerequisites(sorted[i]) = Waits(sorted[i])
  BY <1>1, PrerequisitesAreWaits
<1>3. \A k \in Waits(sorted[i]) : \E h \in 1..(i - 1) : sorted[h] = k
  BY DEF SortInv, DagInv, PrerequisitesFirst
<1> QED
  BY <1>1, <1>2, <1>3 DEF Before

\* A dep has a level below r exactly if it is in one of the first r rounds.
LEMMA LevelsAreRounds ==
  ASSUME SortInv, pc = "sort", Complete, NEW r \in Nat, NEW i \in DOMAIN sorted
  PROVE  Level[i] < r <=> sorted[i] \in Rounds[r]
<1> DEFINE S == {n \in Nat : \A h \in DOMAIN sorted : Level[h] < n <=> sorted[h] \in Rounds[n]}
<1>1. /\ sorted \in Seq(DOMAIN deps) /\ DOMAIN sorted = 1..Len(sorted) /\ Len(sorted) \in Nat
      /\ \A h \in DOMAIN sorted : sorted[h] \in DOMAIN deps
  BY LenProperties, ElementOfSeq DEF SortInv, TypeOK
<1>2. Distinct
  BY AllPlaced
<1>3. Level \in [1..Len(sorted) -> Nat] /\ \A h \in DOMAIN sorted : Level[h] = Height({Level[j] : j \in Before(h)})
  BY <1>1, LevelIs
<1>4. 0 \in S
  BY <1>1, <1>3, RoundsAre
<1>5. ASSUME NEW n \in Nat, n \in S PROVE n + 1 \in S
  <2> SUFFICES ASSUME NEW h \in DOMAIN sorted
               PROVE  Level[h] < n + 1 <=> sorted[h] \in Rounds[n + 1]
    OBVIOUS
  <2>1. Before(h) \subseteq 1..Len(sorted)
    BY <1>1 DEF Before
  <2>2. sorted[h] \in Rounds[n + 1] <=> Waits(sorted[h]) \subseteq Rounds[n]
    BY <1>1, RoundsAre
  <2>3. Waits(sorted[h]) \subseteq Rounds[n] <=> \A j \in Before(h) : sorted[j] \in Rounds[n]
    <3>1. Waits(sorted[h]) = {sorted[j] : j \in Before(h)}
      BY <1>2, WaitsAreBefore
    <3> QED
      BY <3>1
  <2>4. (\A j \in Before(h) : sorted[j] \in Rounds[n]) <=> \A j \in Before(h) : Level[j] < n
    BY <1>1, <1>5, <2>1
  <2>5. Level[h] < n + 1 <=> \A j \in Before(h) : Level[j] < n
    <3> DEFINE L == {Level[j] : j \in Before(h)}
    <3>1. CASE Before(h) = {}
      <4>0. L = {}
        BY <3>1
      <4>1. Height(L) = 0
        <5> HIDE DEF L
        <5> QED
          BY <4>0 DEF Height
      <4> QED
        BY <1>3, <3>1, <4>1
    <3>2. CASE Before(h) # {}
      <4>1. \E p \in Before(h) : Height(L) = 1 + Level[p] /\ \A j \in Before(h) : Level[j] <= Level[p]
        BY <1>1, <1>3, <2>1, <3>2, HeightIs
      <4>2. PICK p \in Before(h) : Height(L) = 1 + Level[p] /\ \A j \in Before(h) : Level[j] <= Level[p]
        BY <4>1
      <4>3. Level[h] = 1 + Level[p]
        BY <1>3, <4>2
      <4>4. \A j \in Before(h) : Level[j] \in Nat
        BY <1>3, <2>1
      <4> QED
        BY <4>2, <4>3, <4>4
    <3> QED
      BY <3>1, <3>2
  <2> QED
    BY <2>2, <2>3, <2>4, <2>5
<1> HIDE DEF S
<1>6. Nat \subseteq S
  BY <1>4, <1>5, SetInduction
<1>7. r \in S
  BY <1>6
<1> QED
  BY <1>7 DEF S

\* Below an inhabited level every level is inhabited.
LEMMA LevelsInhabited ==
  ASSUME SortInv, pc = "sort", Complete, NEW i \in DOMAIN sorted, NEW l \in Nat, l <= Level[i]
  PROVE  \E h \in DOMAIN sorted : Level[h] = l
<1> DEFINE S == {n \in Nat : n <= Level[i] => \E h \in DOMAIN sorted : Level[h] = Level[i] - n}
<1>1. /\ sorted \in Seq(DOMAIN deps) /\ DOMAIN sorted = 1..Len(sorted) /\ Len(sorted) \in Nat
  BY LenProperties DEF SortInv, TypeOK
<1>2. Level \in [1..Len(sorted) -> Nat] /\ \A h \in DOMAIN sorted : Level[h] = Height({Level[j] : j \in Before(h)})
  BY <1>1, LevelIs
<1>3. 0 \in S
  BY <1>1, <1>2
<1>4. ASSUME NEW n \in Nat, n \in S PROVE n + 1 \in S
  <2> SUFFICES ASSUME n + 1 <= Level[i] PROVE \E h \in DOMAIN sorted : Level[h] = Level[i] - (n + 1)
    OBVIOUS
  <2>1. PICK h \in DOMAIN sorted : Level[h] = Level[i] - n
    BY <1>1, <1>2, <1>4
  <2>2. Before(h) \subseteq 1..Len(sorted) /\ Level[h] > 0
    BY <1>1, <1>2, <2>1 DEF Before
  <2>3. Height({Level[j] : j \in Before(h)}) # 0
    BY <1>2, <2>2
  <2>4. Before(h) # {}
    BY <1>1, <1>2, <2>2, <2>3, HeightIs
  <2>5. PICK p \in Before(h) : Height({Level[j] : j \in Before(h)}) = 1 + Level[p]
    BY <1>1, <1>2, <2>2, <2>4, HeightIs
  <2>6. p \in DOMAIN sorted /\ Level[h] = 1 + Level[p] /\ Level[p] \in Nat /\ Level[i] \in Nat
    BY <1>1, <1>2, <2>2, <2>5
  <2> QED
    BY <2>1, <2>6
<1> HIDE DEF S
<1>5. Nat \subseteq S
  BY <1>3, <1>4, SetInduction
<1>6. Level[i] - l \in S /\ Level[i] \in Nat
  BY <1>1, <1>2, <1>5
<1> QED
  BY <1>6 DEF S

-----------------------------------------------------------------------------
(* The batches. *)

LEMMA RoundsSame ==
  ASSUME UNCHANGED deps
  PROVE  Rounds' = Rounds
  BY DEF Rounds, Waits

LEMMA GroupBatches ==
  ASSUME SortInv, Group, Complete
  PROVE  /\ Distinct /\ UNION {batches'[i] : i \in DOMAIN batches'} = DOMAIN deps
         /\ \A r \in 1..Len(batches') : /\ batches'[r] # {}
                                        /\ UNION {batches'[i] : i \in 1..r} = Rounds[r]
<1> DEFINE J == DOMAIN sorted
           L == {Level[i] : i \in J}
           at(l) == {sorted[i] : i \in {h \in J : Level[h] = l - 1}}
<1>1. /\ sorted \in Seq(DOMAIN deps) /\ J = 1..Len(sorted) /\ Len(sorted) \in Nat
      /\ \A i \in J : sorted[i] \in DOMAIN deps
  BY LenProperties, ElementOfSeq DEF SortInv, TypeOK
<1>2. Distinct /\ pc = "sort" /\ \A k \in DOMAIN deps : \E i \in J : sorted[i] = k
  BY AllPlaced DEF Group
<1>3. Level \in [J -> Nat]
  BY <1>1, LevelIs
<1>4. CASE sorted = <<>>
  <2>1. batches' = <<>>
    BY <1>4 DEF Group
  <2>2. DOMAIN deps = {}
    BY <1>2, <1>4
  <2> QED
    BY <1>2, <2>1, <2>2
<1>5. CASE sorted # <<>>
  <2>1. batches' = [l \in 1..(1 + Most(L)) |-> at(l)]
    BY <1>5 DEF Group
  <2>2. J # {}
    <3>1. Len(sorted) # 0
      BY <1>1, <1>5, EmptySeq
    <3>2. 1 \in J
      BY <1>1, <3>1
    <3> QED
      BY <3>2
  <2>3. PICK i \in J : Height(L) = 1 + Level[i] /\ \A j \in J : Level[j] <= Level[i]
    <3> DEFINE f == Level
    <3>1. \E i \in J : Height({f[j] : j \in J}) = 1 + f[i] /\ \A j \in J : f[j] <= f[i]
      <4>1. f \in [1..Len(sorted) -> Nat] /\ J \in SUBSET (1..Len(sorted))
        BY <1>1, <1>3
      <4> HIDE DEF f, J
      <4> QED
        BY <1>1, <2>2, <4>1, HeightIs
    <3> QED
      BY <3>1
  <2>4. 1 + Most(L) = 1 + Level[i]
    <3>1. L # {}
      BY <2>2
    <3> HIDE DEF L
    <3> QED
      BY <2>3, <3>1 DEF Height
  <2> DEFINE n == 1 + Level[i]
  <2>5. n \in Nat /\ batches' = [l \in 1..n |-> at(l)]
    <3> HIDE DEF at, L
    <3> QED
      BY <1>3, <2>1, <2>4
  <2>6. batches' \in Seq(SUBSET DOMAIN deps) /\ DOMAIN batches' = 1..n /\ Len(batches') = n
    <3>1. batches' \in Seq(SUBSET DOMAIN deps)
      BY GroupTypes DEF SortInv
    <3> HIDE DEF at, n
    <3>2. DOMAIN batches' = 1..n /\ DOMAIN batches' = 1..Len(batches') /\ Len(batches') \in Nat
      BY <2>5, <3>1, LenProperties
    <3> QED
      BY <2>5, <3>1, <3>2
  <2>7. ASSUME NEW r \in 1..n PROVE batches'[r] # {}
    <3>1. r - 1 \in Nat /\ r - 1 <= Level[i]
      BY <1>3
    <3>2. \E h \in J : Level[h] = r - 1
      BY <1>2, <3>1, LevelsInhabited
    <3> HIDE DEF n
    <3> QED
      BY <2>5, <3>2
  <2>8. ASSUME NEW r \in 0..n
        PROVE  UNION {batches'[l] : l \in 1..r} = {sorted[h] : h \in {j \in J : Level[j] < r}}
    <3>1. \A l \in 1..r : batches'[l] = at(l)
      <4> HIDE DEF at
      <4> QED
        BY <2>5
    <3>2. ASSUME NEW x, NEW l \in 1..r, x \in at(l)
          PROVE  \E h \in J : Level[h] < r /\ x = sorted[h]
      BY <1>3, <3>2
    <3>3. ASSUME NEW h \in J, Level[h] < r
          PROVE  \E l \in 1..r : sorted[h] \in at(l)
      <4>1. Level[h] + 1 \in 1..r /\ Level[h] = (Level[h] + 1) - 1
        BY <1>3, <3>3
      <4> QED
        BY <4>1
    <3> HIDE DEF at
    <3> QED
      BY <3>1, <3>2, <3>3
  <2>9. ASSUME NEW r \in 1..n PROVE UNION {batches'[l] : l \in 1..r} = Rounds[r]
    <3>1. \A h \in J : Level[h] < r <=> sorted[h] \in Rounds[r]
      BY <1>2, LevelsAreRounds
    <3>2. r \in Nat /\ r \in 0..n /\ Rounds[r] \subseteq DOMAIN deps
      BY RoundsAre
    <3> HIDE DEF n
    <3>3. UNION {batches'[l] : l \in 1..r} = {sorted[h] : h \in {j \in J : Level[j] < r}}
      BY <2>8, <3>2
    <3>4. \A x \in Rounds[r] : \E h \in J : sorted[h] = x
      BY <1>2, <3>2
    <3> HIDE DEF J, L, at
    <3>5. {sorted[h] : h \in {j \in J : Level[j] < r}} = Rounds[r]
      BY <3>1, <3>4
    <3> QED
      BY <3>3, <3>5
  <2>10. UNION {batches'[l] : l \in DOMAIN batches'} = DOMAIN deps
    <3>1. n \in 0..n
      BY <1>3
    <3>2. \A j \in J : Level[j] < n
      BY <1>3, <2>3
    <3> HIDE DEF n
    <3>3. UNION {batches'[l] : l \in 1..n} = {sorted[h] : h \in {j \in J : Level[j] < n}}
      BY <2>8, <3>1
    <3>4. {sorted[h] : h \in {j \in J : Level[j] < n}} = DOMAIN deps
      BY <1>1, <1>2, <3>2
    <3> QED
      BY <2>6, <3>3, <3>4
  <2> HIDE DEF n
  <2> QED
    BY <1>2, <2>6, <2>7, <2>9, <2>10
<1> QED
  BY <1>4, <1>5

\* What no round reaches is not emitted, and then not everything is.
LEMMA CycleHasCause ==
  ASSUME SortInv, Group, ~Complete, Distinct
  PROVE  Rounds[Len(deps)] # DOMAIN deps
<1> DEFINE Placed == {sorted[i] : i \in DOMAIN sorted}
           S == {n \in Nat : Rounds[n] \subseteq Placed}
<1>1. /\ deps \in Seq(Entry) /\ sorted \in Seq(DOMAIN deps) /\ DOMAIN sorted = 1..Len(sorted)
      /\ Len(sorted) \in Nat /\ \A i \in DOMAIN sorted : sorted[i] \in DOMAIN deps
      /\ DOMAIN deps = 1..Len(deps) /\ Len(deps) \in Nat
  BY LenProperties, ElementOfSeq DEF SortInv, TypeOK
<1>2. pc = "sort" /\ ready = {}
  BY DEF Group
<1>3. 0 \in S
  BY RoundsAre
<1>4. ASSUME NEW n \in Nat, n \in S PROVE n + 1 \in S
  <2> SUFFICES ASSUME NEW k \in Rounds[n + 1] PROVE k \in Placed
    OBVIOUS
  <2>1. k \in DOMAIN deps /\ Waits(k) \subseteq Placed
    BY <1>4, RoundsAre
  <2> DEFINE m == deps[k].name
  <2>2. m \in Names /\ Last(m) = k
    BY <1>1, <2>1, LastOnly DEF Names
  <2>3. ASSUME NEW j \in DOMAIN deps[k].after PROVE deps[k].after[j] \in Emitted
    <3>1. deps[k].after[j] \in Names
      BY <1>2, <2>1 DEF SortInv, Phases
    <3>2. PICK h \in DOMAIN deps : deps[h].name = deps[k].after[j]
      BY <3>1 DEF Names
    <3>3. h \in Waits(k)
      BY <3>2 DEF Waits
    <3>4. PICK i \in DOMAIN sorted : sorted[i] = h
      BY <2>1, <3>3
    <3> QED
      BY <3>2, <3>4 DEF Emitted
  <2>4. Pending(m) = {}
    BY <2>2, <2>3 DEF Pending
  <2>5. m \in Emitted
    BY <1>2, <2>2, <2>4 DEF SortInv, Waiting
  <2>6. PICK i \in DOMAIN sorted : deps[sorted[i]].name = deps[k].name
    BY <2>5 DEF Emitted
  <2>7. sorted[i] = k
    BY <1>1, <2>1, <2>6 DEF Distinct
  <2> QED
    BY <2>7
<1> HIDE DEF S
<1>5. Len(deps) \in S
  BY <1>1, <1>3, <1>4, SetInduction
<1> SUFFICES ASSUME Rounds[Len(deps)] = DOMAIN deps PROVE FALSE
  OBVIOUS
<1>6. DOMAIN deps \subseteq Placed
  BY <1>5 DEF S
<1> DEFINE D == DOMAIN deps
           I == DOMAIN sorted
<1>7. sorted \in Bijection(I, D)
  <2>1. sorted \in [I -> D] /\ \A d \in D : \E i \in I : sorted[i] = d
    BY <1>1, <1>6
  <2>2. \A i, j \in I : sorted[i] = sorted[j] => i = j
    BY DEF SortInv, Turns
  <2> HIDE DEF D, I
  <2> QED
    BY <2>1, <2>2, Fun_IsBij
<1>8. Cardinality(I) = Cardinality(D)
  <2>1. IsFiniteSet(I)
    BY <1>1, FS_Interval
  <2> HIDE DEF D, I
  <2> QED
    BY <1>7, <2>1, FS_Bijection DEF ExistsBijection
<1>9. Cardinality(I) = Len(sorted) /\ Cardinality(D) = Len(deps)
  <2>1. ASSUME NEW n \in Nat PROVE Cardinality(1..n) = n
    <3>1. Cardinality(1..n) = IF 1 > n THEN 0 ELSE n - 1 + 1
      BY FS_Interval
    <3> QED
      BY <3>1
  <2> QED
    BY <1>1, <2>1
<1> QED
  BY <1>8, <1>9 DEF Complete

-----------------------------------------------------------------------------
(* The theorems about the sort and the batches. *)

\* The batches, once they are made, and what is known of a list without batches.
Grouped == BatchesAreRounds /\ RefusedForCause

LEMMA GroupedStep ==
  ASSUME SortInv, Grouped, [Next]_vars
  PROVE  Grouped'
<1>1. CASE ResolveEntry \/ Validate \/ \E n \in Name : Pop(n)
  <2>1. pc' \notin {"batched", "cycle"}
    BY <1>1 DEF ResolveEntry, Validate, Pop
  <2> QED
    BY <2>1 DEF Grouped, BatchesAreRounds, RefusedForCause
<1>2. CASE Group
  <2>1. UNCHANGED deps /\ Rounds' = Rounds /\ Distinct' = Distinct /\ pc' \in {"cycle", "batched"}
    BY <1>2, RoundsSame, ListSame DEF Group
  <2>2. CASE Complete
    <3>1. pc' = "batched"
      BY <1>2, <2>2 DEF Group
    <3> QED
      BY <1>2, <2>1, <2>2, <3>1, GroupBatches DEF Grouped, BatchesAreRounds, RefusedForCause
  <2>3. CASE ~Complete
    <3>1. pc' = "cycle"
      BY <1>2, <2>3 DEF Group
    <3> QED
      BY <1>2, <2>1, <2>3, <3>1, CycleHasCause DEF Grouped, BatchesAreRounds, RefusedForCause
  <2> QED
    BY <2>2, <2>3
<1>3. CASE UNCHANGED vars
  <2>1. UNCHANGED <<deps, pc, batches>> /\ Rounds' = Rounds /\ Distinct' = Distinct
    BY <1>3, RoundsSame, ListSame DEF vars
  <2> QED
    BY <2>1 DEF Grouped, BatchesAreRounds, RefusedForCause
<1> QED
  BY <1>1, <1>2, <1>3 DEF Next, Terminated

-----------------------------------------------------------------------------
(* The refs. *)

Item == [entry : Entry, depth : 0..MaxRefDepth]

\* Of an entry that has been dealt with, either it is on the resolved list, or the
\* entries of its file have been dealt with or are still to be.
DealtWith(V) ==
    /\ Range(At(given, 0)) \subseteq V \cup Range(todo)
    /\ \A p \in V :
          \/ p.entry.ref = NoFile /\ p.entry \in Range(deps)
          \/ /\ p.entry.ref \in DOMAIN Content
             /\ Range(At(Content[p.entry.ref], p.depth + 1)) \subseteq V \cup Range(todo)

\* While refs are being resolved, nothing is on either list that was not found, and
\* nothing that was found has been lost.
Resolving ==
    pc = "resolve" =>
        /\ \A p \in Range(todo) : p.entry \in Found[p.depth]
        /\ Range(deps) \subseteq {e \in UNION {Found[d] : d \in 0..MaxRefDepth} : e.ref = NoFile}
        /\ \E V \in SUBSET Item : DealtWith(V)

LEMMA FoundIs ==
  ASSUME given \in Lists
  PROVE  /\ Found \in [Nat -> SUBSET Entry]
         /\ Found[0] = {given[k] : k \in DOMAIN given}
         /\ \A d \in Nat : Found[d + 1] =
               UNION {{Content[e.ref][k] : k \in DOMAIN Content[e.ref]} :
                         e \in {x \in Found[d] : x.ref \in DOMAIN Content}}
<1> DEFINE T == SUBSET Entry
           b == {given[k] : k \in DOMAIN given}
           next(A) == UNION {{Content[e.ref][k] : k \in DOMAIN Content[e.ref]} :
                                e \in {x \in A : x.ref \in DOMAIN Content}}
           s == [p \in Nat \X T |-> next(p[2])]
           P(at) == at = [d \in Nat |-> IF d = 0 THEN b ELSE next(at[d - 1])]
<1>1. b \in T
  <2>1. given \in Seq(Entry)
    BY ListsAssumption
  <2> QED
    BY <2>1, LenProperties, ElementOfSeq
<1>2. s \in [Nat \X T -> T]
  <2>1. ASSUME NEW f \in DOMAIN Content, NEW k \in DOMAIN Content[f] PROVE Content[f][k] \in Entry
    <3>1. Content[f] \in Seq(Entry)
      BY ContentAssumption
    <3> QED
      BY <3>1, LenProperties, ElementOfSeq
  <2>2. \A A : next(A) \in T
    BY <2>1
  <2> HIDE DEF next, T
  <2> QED
    BY <2>2
<1>3. PICK g \in [Nat -> T] : ByStep(g, b, s)
  <2> HIDE DEF T, s, b
  <2> QED
    BY <1>1, <1>2, PrimitiveRecursion
<1>4. P(g)
  <2> HIDE DEF next, T, b
  <2>1. ASSUME NEW d \in Nat, d # 0 PROVE s[<<d, g[d - 1]>>] = next(g[d - 1])
    BY <2>1
  <2> HIDE DEF s
  <2> QED
    BY <1>3, <2>1 DEF ByStep
<1>5. Found = CHOOSE at : P(at)
  BY DEF Found
<1>6. P(Found)
  <2> HIDE DEF P
  <2> QED
    BY <1>4, <1>5
<1>7. ASSUME NEW d \in Nat PROVE Found[d + 1] = next(Found[d])
  <2> HIDE DEF next, b
  <2>1. (d + 1) - 1 = d /\ d + 1 # 0 /\ d + 1 \in Nat
    OBVIOUS
  <2> QED
    BY <1>6, <2>1
<1>8. Found[0] = b
  <2> HIDE DEF next, b
  <2> QED
    BY <1>6
<1>9. ASSUME NEW d \in Nat PROVE Found[d] \in T
  <2> DEFINE S == {n \in Nat : Found[n] \in T}
  <2>1. 0 \in S
    BY <1>1, <1>8
  <2>2. ASSUME NEW n \in Nat, n \in S PROVE n + 1 \in S
    <3>1. s[<<n, Found[n]>>] \in T
      <4> HIDE DEF s, T
      <4> QED
        BY <1>2, <2>2
    <3>2. s[<<n, Found[n]>>] = next(Found[n])
      <4> HIDE DEF next, T
      <4> QED
        BY <2>2
    <3> HIDE DEF next, s, T
    <3> QED
      BY <1>7, <2>2, <3>1, <3>2
  <2> HIDE DEF S
  <2>3. d \in S
    BY <2>1, <2>2, SetInduction
  <2> QED
    BY <2>3 DEF S
<1>10. DOMAIN Found = Nat /\ Found = [d \in Nat |-> Found[d]]
  <2> HIDE DEF next, b
  <2> QED
    BY <1>6
<1> QED
  BY <1>7, <1>8, <1>9, <1>10

LEMMA FoundSame ==
  ASSUME UNCHANGED given
  PROVE  Found' = Found
  BY DEF Found

LEMMA ResolvingInit ==
  ASSUME Init
  PROVE  Resolving
<1>1. given \in Seq(Entry) /\ todo = At(given, 0) /\ deps = <<>> /\ given \in Lists
  BY ListsAssumption DEF Init
<1>2. \A k \in DOMAIN given : given[k] \in Entry
  BY <1>1, LenProperties, ElementOfSeq
<1>3. \A p \in Range(todo) : p.entry \in Found[p.depth]
  BY <1>1, FoundIs DEF Range, At
<1>4. Range(deps) = {}
  BY <1>1 DEF Range
<1>5. {} \in SUBSET Item /\ DealtWith({})
  BY <1>1 DEF DealtWith
<1> QED
  BY <1>3, <1>4, <1>5 DEF Resolving

\* One entry is dealt with.
LEMMA ResolveOne ==
  ASSUME TypeOK, Resolving, ResolveEntry, pc' = "resolve"
  PROVE  Resolving'
<1> DEFINE next  == Head(todo)
           file  == next.entry.ref
           below == IF file \in DOMAIN Content THEN At(Content[file], FoundAt(next.depth)) ELSE <<>>
           All   == {e \in UNION {Found[d] : d \in 0..MaxRefDepth} : e.ref = NoFile}
<1>1. /\ todo \in Seq(Item) /\ todo # <<>> /\ pc = "resolve" /\ UNCHANGED given /\ given \in Lists
      /\ deps \in Seq(Entry)
  BY DEF TypeOK, ResolveEntry, Item
<1>2. /\ next \in Item /\ Tail(todo) \in Seq(Item)
      /\ Range(todo) = {next} \cup Range(Tail(todo))
  BY <1>1, RangeOf
<1>3. next.entry \in Entry /\ next.depth \in 0..MaxRefDepth
  BY <1>2 DEF Item
<1>4. Found' = Found /\ At(given, 0)' = At(given, 0)
  BY <1>1, FoundSame
<1>5. next.entry \in Found[next.depth]
  BY <1>1, <1>2 DEF Resolving
<1>6. PICK V \in SUBSET Item : DealtWith(V)
  BY <1>1 DEF Resolving
<1>7. PICK W \in SUBSET Item : W = V \cup {next}
  BY <1>2
<1>8. CASE file = NoFile
  <2>1. todo' = Tail(todo) /\ deps' = Append(deps, next.entry)
    BY <1>8 DEF ResolveEntry
  <2>2. Range(deps') = Range(deps) \cup {next.entry}
    BY <1>1, <1>3, <2>1, RangeOf
  <2>3. W \cup Range(todo') = V \cup Range(todo)
    BY <1>2, <1>7, <2>1
  <2>4. DealtWith(W)'
    <3>1. Range(At(given, 0))' = Range(At(given, 0)) /\ Range(todo)' = Range(todo')
          /\ Range(deps)' = Range(deps')
      BY <1>1 DEF Range, At
    <3>2. ASSUME NEW p \in W
          PROVE  \/ p.entry.ref = NoFile /\ p.entry \in Range(deps')
                 \/ /\ p.entry.ref \in DOMAIN Content
                    /\ Range(At(Content[p.entry.ref], p.depth + 1)) \subseteq W \cup Range(todo')
      <4>1. CASE p = next
        BY <1>8, <2>2, <4>1
      <4>2. CASE p \in V
        BY <1>6, <2>2, <2>3, <4>2 DEF DealtWith
      <4> QED
        BY <1>7, <4>1, <4>2
    <3>3. Range(At(given, 0)) \subseteq W \cup Range(todo')
      BY <1>6, <2>3 DEF DealtWith
    <3> QED
      BY <3>1, <3>2, <3>3 DEF DealtWith
  <2>5. next.entry \in All
    BY <1>3, <1>5, <1>8
  <2>6. Range(deps') \subseteq All
    BY <1>1, <2>2, <2>5 DEF Resolving
  <2>7. \A p \in Range(todo') : p.entry \in Found[p.depth]
    BY <1>1, <1>2, <2>1 DEF Resolving
  <2>8. Range(todo)' = Range(todo') /\ Range(deps)' = Range(deps')
    BY DEF Range
  <2> HIDE DEF next
  <2> QED
    BY <1>4, <1>7, <2>4, <2>6, <2>7, <2>8 DEF Resolving
<1>9. CASE file # NoFile
  <2>1. /\ file \in DOMAIN Content /\ todo' = below \o Tail(todo) /\ UNCHANGED deps
    BY <1>1, <1>9 DEF ResolveEntry
  <2>2. below = At(Content[file], next.depth + 1) /\ Content[file] \in Seq(Entry)
    BY <2>1, ContentAssumption DEF FoundAt
  <2>3. below \in Seq([entry : Entry, depth : Nat])
    <3>1. /\ DOMAIN Content[file] = 1..Len(Content[file]) /\ Len(Content[file]) \in Nat
          /\ \A k \in DOMAIN Content[file] : Content[file][k] \in Entry
      BY <2>2, LenProperties, ElementOfSeq
    <3>2. next.depth + 1 \in Nat
      BY <1>3, DepthAssumption
    <3>3. below \in [1..Len(Content[file]) -> [entry : Entry, depth : Nat]]
      BY <2>2, <3>1, <3>2 DEF At
    <3> DEFINE T == [entry : Entry, depth : Nat]
    <3> HIDE DEF below, T
    <3>4. below \in [1..Len(Content[file]) -> T]
      BY <3>3 DEF T
    <3>5. below \in Seq(T)
      BY <3>1, <3>4, SeqDef
    <3> QED
      BY <3>5 DEF T
  <2>4. Range(todo') = Range(below) \cup Range(Tail(todo))
    <3>1. Tail(todo) \in Seq([entry : Entry, depth : Nat])
      <4>1. Item \subseteq [entry : Entry, depth : Nat]
        BY DepthAssumption DEF Item
      <4> QED
        BY <1>2, <4>1, SeqMonotonic
    <3> DEFINE T == [entry : Entry, depth : Nat]
    <3> HIDE DEF below, T
    <3>2. \A t \in Seq(T) : Range(below \o t) = Range(below) \cup Range(t)
      BY <2>3, RangeOf DEF T
    <3>3. Range(below \o Tail(todo)) = Range(below) \cup Range(Tail(todo))
      BY <3>1, <3>2 DEF T
    <3> QED
      BY <2>1, <3>3
  <2>5. V \cup Range(todo) \subseteq W \cup Range(todo')
    BY <1>2, <1>7, <2>4
  <2>6. Range(At(Content[next.entry.ref], next.depth + 1)) \subseteq W \cup Range(todo')
    BY <1>7, <2>2, <2>4
  <2>7. DealtWith(W)'
    <3> SUFFICES /\ Range(At(given, 0)) \subseteq W \cup Range(todo')
                 /\ \A p \in W :
                      \/ p.entry.ref = NoFile /\ p.entry \in Range(deps)
                      \/ /\ p.entry.ref \in DOMAIN Content
                         /\ Range(At(Content[p.entry.ref], p.depth + 1)) \subseteq W \cup Range(todo')
      <4>1. Range(At(given, 0))' = Range(At(given, 0))
        BY <1>1 DEF Range, At
      <4>2. Range(todo)' = Range(todo')
        BY DEF Range
      <4>3. Range(deps)' = Range(deps)
        BY <2>1 DEF Range
      <4> QED
        BY <4>1, <4>2, <4>3 DEF DealtWith
    <3>1. Range(At(given, 0)) \subseteq W \cup Range(todo')
      BY <1>6, <2>5 DEF DealtWith
    <3>2. ASSUME NEW p \in V
          PROVE  \/ p.entry.ref = NoFile /\ p.entry \in Range(deps)
                 \/ /\ p.entry.ref \in DOMAIN Content
                    /\ Range(At(Content[p.entry.ref], p.depth + 1)) \subseteq W \cup Range(todo')
      BY <1>6, <2>5 DEF DealtWith
    <3> QED
      BY <1>7, <2>1, <2>6, <3>1, <3>2
  <2>8. \A p \in Range(below) : p.entry \in Found[p.depth]
    <3>1. /\ Found[next.depth + 1] = UNION {{Content[e.ref][k] : k \in DOMAIN Content[e.ref]} :
                                              e \in {x \in Found[next.depth] : x.ref \in DOMAIN Content}}
      <4>1. next.depth \in Nat
        BY <1>3, DepthAssumption
      <4> QED
        BY <1>1, <4>1, FoundIs
    <3>2. \A k \in DOMAIN Content[file] : Content[file][k] \in Found[next.depth + 1]
      BY <1>5, <2>1, <3>1
    <3> QED
      BY <2>2, <3>2 DEF Range, At
  <2>9. \A p \in Range(todo') : p.entry \in Found[p.depth]
    BY <1>1, <1>2, <2>4, <2>8 DEF Resolving
  <2>10. Range(deps') \subseteq All
    BY <1>1, <2>1 DEF Resolving
  <2>11. Range(todo)' = Range(todo') /\ Range(deps)' = Range(deps')
    BY DEF Range
  <2> HIDE DEF next
  <2> QED
    BY <1>4, <1>7, <2>7, <2>9, <2>10, <2>11 DEF Resolving
<1> QED
  BY <1>8, <1>9

\* When nothing is left to resolve, all that was found has been dealt with.
LEMMA AllDealtWith ==
  ASSUME given \in Lists, NEW V \in SUBSET Item, DealtWith(V), todo = <<>>, NEW d \in Nat, NEW e \in Found[d]
  PROVE  [entry |-> e, depth |-> d] \in V
<1> DEFINE S == {n \in Nat : \A x \in Found[n] : [entry |-> x, depth |-> n] \in V}
<1>1. Range(todo) = {}
  BY DEF Range
<1>2. 0 \in S
  BY <1>1, FoundIs DEF DealtWith, Range, At
<1>3. ASSUME NEW n \in Nat, n \in S PROVE n + 1 \in S
  <2> SUFFICES ASSUME NEW x \in Found[n + 1] PROVE [entry |-> x, depth |-> n + 1] \in V
    OBVIOUS
  <2>1. PICK y \in Found[n] : y.ref \in DOMAIN Content /\ \E k \in DOMAIN Content[y.ref] : x = Content[y.ref][k]
    <3>1. x \in UNION {{Content[e0.ref][k] : k \in DOMAIN Content[e0.ref]} :
                          e0 \in {y \in Found[n] : y.ref \in DOMAIN Content}}
      BY FoundIs
    <3> QED
      BY <3>1
  <2> DEFINE p == [entry |-> y, depth |-> n]
  <2>2. p \in V /\ p.entry = y /\ p.depth = n
    BY <1>3
  <2>3. y.ref # NoFile
    BY <2>1, ContentAssumption
  <2> HIDE DEF p
  <2>4. Range(At(Content[p.entry.ref], p.depth + 1)) \subseteq V
    BY <1>1, <2>2, <2>3 DEF DealtWith
  <2>5. Range(At(Content[y.ref], n + 1)) \subseteq V
    BY <2>2, <2>4
  <2> QED
    BY <2>1, <2>5 DEF Range, At
<1> HIDE DEF S
<1>4. d \in S
  BY <1>2, <1>3, SetInduction
<1> QED
  BY <1>4 DEF S

LEMMA AllResolved ==
  ASSUME given \in Lists, Resolving, pc = "resolve", todo = <<>>
  PROVE  /\ Found[MaxRefDepth + 1] = {}
         /\ {deps[k] : k \in DOMAIN deps} = {e \in UNION {Found[d] : d \in 0..MaxRefDepth} : e.ref = NoFile}
<1>1. PICK V \in SUBSET Item : DealtWith(V)
  BY DEF Resolving
<1>2. \A d \in Nat : \A e \in Found[d] : [entry |-> e, depth |-> d] \in V
  BY <1>1, AllDealtWith
<1>3. Found[MaxRefDepth + 1] = {}
  <2> SUFFICES ASSUME NEW e \in Found[MaxRefDepth + 1] PROVE FALSE
    OBVIOUS
  <2>1. MaxRefDepth + 1 \in Nat
    BY DepthAssumption
  <2>2. [entry |-> e, depth |-> MaxRefDepth + 1] \in Item
    BY <1>2, <2>1
  <2>3. MaxRefDepth + 1 \in 0..MaxRefDepth
    BY <2>2 DEF Item
  <2> QED
    BY <2>3, DepthAssumption
<1>4. ASSUME NEW d \in 0..MaxRefDepth, NEW e \in Found[d], e.ref = NoFile
      PROVE  e \in Range(deps)
  <2> DEFINE p == [entry |-> e, depth |-> d]
  <2>1. p \in V /\ p.entry = e
    BY <1>2
  <2>2. e.ref \notin DOMAIN Content
    BY <1>4, ContentAssumption
  <2> HIDE DEF p
  <2> QED
    BY <1>1, <2>1, <2>2 DEF DealtWith
<1>5. Range(deps) \subseteq {e \in UNION {Found[d] : d \in 0..MaxRefDepth} : e.ref = NoFile}
  BY DEF Resolving
<1> QED
  BY <1>3, <1>4, <1>5 DEF Range

\* What RefsResolved says of the resolved list.
ExactlyFound ==
    /\ Found[MaxRefDepth + 1] = {}
    /\ {deps[k] : k \in DOMAIN deps} = {e \in UNION {Found[d] : d \in 0..MaxRefDepth} : e.ref = NoFile}

LEMMA ExactlyFoundSame ==
  /\ RefsResolved = (pc \notin {"resolve", "bad ref"} => ExactlyFound)
  /\ RefsResolved' = (pc' \notin {"resolve", "bad ref"} => ExactlyFound')
  /\ UNCHANGED <<given, deps>> => ExactlyFound' = ExactlyFound
<1>1. ASSUME UNCHANGED <<given, deps>> PROVE ExactlyFound' = ExactlyFound
  <2>1. Found' = Found /\ deps' = deps
    BY <1>1, FoundSame
  <2> DEFINE All(F) == {e \in UNION {F[d] : d \in 0..MaxRefDepth} : e.ref = NoFile}
             There(s) == {s[k] : k \in DOMAIN s}
             Exactly(F, s) == F[MaxRefDepth + 1] = {} /\ There(s) = All(F)
  <2>2. ExactlyFound = Exactly(Found, deps) /\ ExactlyFound' = Exactly(Found', deps')
    BY DEF ExactlyFound
  <2> HIDE DEF Exactly
  <2> QED
    BY <2>1, <2>2
<1> QED
  BY <1>1, Zenon DEF RefsResolved, ExactlyFound

LEMMA ResolvingStep ==
  ASSUME TypeOK, Resolving, RefsResolved, [Next]_vars
  PROVE  Resolving' /\ RefsResolved'
<1>1. CASE ResolveEntry
  <2>1. pc' \in {"resolve", "bad ref"}
    BY <1>1 DEF ResolveEntry
  <2> QED
    BY <1>1, <2>1, ResolveOne DEF Resolving, RefsResolved
<1>2. CASE Validate
  <2>1. pc' # "resolve" /\ UNCHANGED <<given, deps>> /\ pc = "resolve" /\ todo = <<>> /\ Found' = Found
    BY <1>2, FoundSame DEF Validate
  <2>2. given \in Lists
    BY DEF TypeOK
  <2>3. ExactlyFound
    BY <2>1, <2>2, AllResolved DEF ExactlyFound
  <2>4. Resolving'
    BY <2>1 DEF Resolving
  <2> QED
    BY <2>1, <2>3, <2>4, ExactlyFoundSame
<1>3. CASE Group \/ \E n \in Name : Pop(n)
  <2>1. pc = "sort" /\ pc' # "resolve" /\ UNCHANGED <<given, deps>> /\ Found' = Found
    BY <1>3, FoundSame DEF Pop, Group
  <2>2. Resolving'
    BY <2>1 DEF Resolving
  <2> QED
    BY <2>1, <2>2, ExactlyFoundSame
<1>4. CASE UNCHANGED vars
  <2>1. UNCHANGED <<given, pc, todo, deps>> /\ Found' = Found
    BY <1>4, FoundSame DEF vars
  <2>2. /\ Range(todo)' = Range(todo) /\ Range(deps)' = Range(deps)
        /\ \A V : DealtWith(V)' <=> DealtWith(V)
    BY <2>1 DEF DealtWith, Range, At
  <2>3. Resolving'
    BY <2>1, <2>2 DEF Resolving
  <2> QED
    BY <2>1, <2>3, ExactlyFoundSame
<1> QED
  BY <1>1, <1>2, <1>3, <1>4 DEF Next, Terminated

-----------------------------------------------------------------------------
(* The theorems. *)

DepInv == SortInv /\ Grouped /\ Resolving /\ RefsResolved

LEMMA DepInvInit ==
  ASSUME Init
  PROVE  DepInv
<1>1. given \in Seq(Entry)
  BY ListsAssumption DEF Init
<1>2. /\ DOMAIN given = 1..Len(given) /\ Len(given) \in Nat
      /\ \A k \in 1..Len(given) : given[k] \in Entry
  BY <1>1, LenProperties, ElementOfSeq
<1>3. todo \in Seq([entry : Entry, depth : Nat]) /\ todo \in Seq([entry : Entry, depth : 0..MaxRefDepth])
  <2>1. 0 \in 0..MaxRefDepth
    BY DepthAssumption
  <2>2. todo \in [1..Len(given) -> [entry : Entry, depth : 0..MaxRefDepth]]
    BY <1>2, <2>1 DEF Init, At

  <2> DEFINE T == [entry : Entry, depth : 0..MaxRefDepth]
             U == [entry : Entry, depth : Nat]
  <2>4. todo \in Seq(T)
    <3>1. todo \in [1..Len(given) -> T]
      BY <2>2
    <3> HIDE DEF T
    <3> QED
      BY <1>2, <3>1, SeqDef
  <2>5. T \subseteq U
    BY DepthAssumption
  <2>6. todo \in Seq(U)
    <3> HIDE DEF T, U
    <3> QED
      BY <2>4, <2>5, SeqMonotonic
  <2> QED
    BY <2>4, <2>6
<1>4. deps \in Seq(Entry) /\ sorted \in Seq(DOMAIN deps) /\ batches \in Seq(SUBSET DOMAIN deps)
  BY EmptySeq DEF Init
<1>5. DagInv
  BY <1>3, <1>4 DEF Init, DagInv, DagTyped, Counting, PrerequisitesFirst
<1>6. TypeOK /\ Phases /\ Turns /\ Waiting
  BY <1>3, <1>4 DEF Init, TypeOK, Phases, Turns, Waiting
<1>7. Grouped /\ RefsResolved
  BY DEF Init, Grouped, BatchesAreRounds, RefusedForCause, RefsResolved
<1> QED
  BY <1>5, <1>6, <1>7, ResolvingInit DEF SortInv, DepInv

LEMMA DepInvStep ==
  ASSUME DepInv, [Next]_vars
  PROVE  DepInv'
<1>1. SortInv'
  BY SortInvStep DEF DepInv
<1>2. Grouped'
  BY GroupedStep DEF DepInv
<1>3. Resolving' /\ RefsResolved'
  BY ResolvingStep DEF DepInv, SortInv
<1> QED
  BY <1>1, <1>2, <1>3 DEF DepInv

LEMMA DepInvAlways == Spec => []DepInv
<1>1. DepInv /\ [Next]_vars => DepInv'
  BY DepInvStep
<1> QED
  BY <1>1, DepInvInit, PTL DEF Spec

\* The state has its types, in-degrees of lists that use a name once included, which
\* no repeated mention in a dependsOn drives below zero (dag.go:50-92).
THEOREM DagTypes == Spec => []TypeOK
<1>1. DepInv => TypeOK
  BY DEF DepInv, SortInv
<1> QED
  BY <1>1, DepInvAlways, PTL

\* For every list over any names that topoSort does not refuse, buildLevelBatches
\* gives the rounds, in that the first r batches hold what the first r rounds reach,
\* and no batch is empty (dag.go:111-138).
THEOREM BatchesRounds == Spec => []BatchesAreRounds
<1>1. DepInv => BatchesAreRounds
  BY DEF DepInv, Grouped
<1> QED
  BY <1>1, DepInvAlways, PTL

\* A list that is accepted has every dep in some batch and no name twice; a list
\* that is refused has a cycle or a name twice (dag.go:90-92).
THEOREM RefusalsHaveCause == Spec => []RefusedForCause
<1>1. DepInv => RefusedForCause
  BY DEF DepInv, Grouped
<1> QED
  BY <1>1, DepInvAlways, PTL

\* Whatever files refs name, in whatever cycles: the resolved list is what is found
\* at most MaxRefDepth files down, and nothing is found further down
\* (source_ref.go:29-47).
THEOREM RefsAreResolved == Spec => []RefsResolved
<1>1. DepInv => RefsResolved
  BY DEF DepInv
<1> QED
  BY <1>1, DepInvAlways, PTL
=============================================================================
