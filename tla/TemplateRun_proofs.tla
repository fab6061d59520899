------------------------- MODULE TemplateRun_proofs -------------------------
(***************************************************************************)
(* Proofs about TierRules, Expansion and TemplateRun: for any forest of    *)
(* assertions, any suites and flags, and any chart.                        *)
(***************************************************************************)
EXTENDS TemplateRun, InductionTheorems, FiniteSetTheorems, FunctionTheorems

LEMMA RankValues ==
  /\ Rank("template") = 1 /\ Rank("apiserver") = 2
  /\ Rank("simulated") = 3 /\ Rank("e2e") = 4
<1>1. DOMAIN AllTiers = 1..4
  BY DEF AllTiers
<1>2. /\ AllTiers[1] = "template" /\ AllTiers[2] = "apiserver"
      /\ AllTiers[3] = "simulated" /\ AllTiers[4] = "e2e"
  BY DEF AllTiers
<1> QED
  BY <1>1, <1>2 DEF Rank

LEMMA TiersAre == Tiers = {"template", "apiserver", "simulated", "e2e"}
  BY DEF Tiers, AllTiers

LEMMA Provided ==
  /\ TierProvides("template") = {"renderedManifests"}
  /\ TierProvides("apiserver") = {"renderedManifests", "apiServerAdmission", "liveReads"}
  /\ TierProvides("simulated") = {"renderedManifests", "apiServerAdmission", "liveReads", "reconciliation"}
  /\ TierProvides("e2e") = {"renderedManifests", "apiServerAdmission", "liveReads", "reconciliation",
                            "runningPods", "podLogs", "networkEgress"}
  BY RankValues DEF TierProvides, Adds, AllTiers

\* A higher tier provides what a lower one does.
LEMMA ProvidesMore ==
  ASSUME NEW t \in Tiers, NEW u \in Tiers, Rank(t) <= Rank(u)
  PROVE  TierProvides(t) \subseteq TierProvides(u)
  BY RankValues, TiersAre, Provided

\* A set of places in the registry has a first one.
LEMMA FirstOfRegistry ==
  ASSUME NEW I \in SUBSET DOMAIN Registry, I # {}
  PROVE  \E i \in I : \A j \in 1..(i - 1) : j \notin I
<1> SUFFICES ASSUME \A i \in I : \E j \in 1..(i - 1) : j \in I PROVE FALSE
  OBVIOUS
<1>1. DOMAIN Registry = 1..13
  BY DEF Registry
<1>2. 1 \notin I /\ 2 \notin I
  OBVIOUS
<1>3. 3 \notin I /\ 4 \notin I
  BY <1>2
<1>4. 5 \notin I /\ 6 \notin I
  BY <1>2, <1>3
<1>5. 7 \notin I /\ 8 \notin I
  BY <1>2, <1>3, <1>4
<1>6. 9 \notin I /\ 10 \notin I
  BY <1>2, <1>3, <1>4, <1>5
<1>7. 11 \notin I /\ 12 \notin I
  BY <1>2, <1>3, <1>4, <1>5, <1>6
<1>8. 13 \notin I
  BY <1>2, <1>3, <1>4, <1>5, <1>6, <1>7
<1> QED
  BY <1>1, <1>2, <1>3, <1>4, <1>5, <1>6, <1>7, <1>8

\* The registry has a first matcher that claims the assertion.
LEMMA ClaimantClaims ==
  ASSUME NEW a \in Assertion, ~Composite(a), Claimed(a)
  PROVE  Claimant(a) \in Sets[a]
<1>1. Claimants(a) = Sets[a] /\ Claimants(a) # {}
  BY DEF Claimants, Composite, Claimed
<1> DEFINE I == {i \in DOMAIN Registry : Registry[i] \in Claimants(a)}
<1>2. I # {}
  BY <1>1, ForestAssumption DEF Leaf
<1>3. PICK i \in I : \A j \in 1..(i - 1) : j \notin I
  <2> HIDE DEF I
  <2>1. I \in SUBSET DOMAIN Registry
    BY DEF I
  <2> QED
    BY <1>2, <2>1, FirstOfRegistry
<1>4. DOMAIN Registry = 1..13
  BY DEF Registry
<1>5. \E i_1 \in DOMAIN Registry : /\ Registry[i_1] \in Claimants(a)
                                   /\ \A j \in 1..(i_1 - 1) : Registry[j] \notin Claimants(a)
  BY <1>3, <1>4
<1> QED
  BY <1>1, <1>5 DEF Claimant

\* What the gate looks at, the ceiling has looked at.
LEMMA GateBelowBelow ==
  ASSUME NEW a \in Assertion
  PROVE  GateBelow[a] \subseteq Below[a] /\ Below[a] \subseteq Assertion
<1>1. \A b \in Assertion : GateChildren(b) \subseteq Children(b)
  BY DEF GateChildren, Children
<1> QED
  BY <1>1 DEF GateBelow, Below, Reached

\* An assertion that the ceiling accepts at a tier is not blamed there or above.
LEMMA MetNotUnsupported ==
  ASSUME NEW b \in Assertion, NEW t \in Tiers, NEW u \in Tiers, Rank(t) <= Rank(u), Met(b, t)
  PROVE  ~Unsupported(b, u)
<1> SUFFICES ASSUME ~Composite(b), Claimed(b) PROVE u \in TiersProviding(Needs(Claimant(b)))
  BY DEF Unsupported
<1>1. Needs(Claimant(b)) \subseteq TierProvides(t)
  BY ClaimantClaims DEF Met
<1> QED
  BY <1>1, ProvidesMore DEF TiersProviding

\* A suite that parses under a declared tier is withheld at no tier from it on:
\* the ceiling of the parser is at least as strict as the gate of the runners,
\* although the two walk the assertions by different rules (tier_ceiling.go,
\* tiercompat.go).
THEOREM DeclaredTierRuns ==
  ASSUME NEW asserts \in SUBSET Assertion, NEW tier \in Tiers, WithinCeiling(asserts, tier),
         NEW active \in Tiers, Rank(tier) <= Rank(active)
  PROVE  ~MatcherTierSkip(asserts, active)
<1> SUFFICES ASSUME NEW a \in asserts, NEW b \in GateBelow[a] PROVE ~Unsupported(b, active)
  BY DEF MatcherTierSkip, Blamed
<1>1. b \in Below[a] /\ b \in Assertion
  BY GateBelowBelow
<1>2. Met(b, tier)
  BY <1>1 DEF WithinCeiling
<1> QED
  BY <1>1, <1>2, MetNotUnsupported

\* The lowest tier that provides what a matcher needs, and the backends from it on.
LEMMA LowestTier ==
  ASSUME NEW m
  PROVE  /\ Lowest(TiersProviding(Needs(m))) \in TiersProviding(Needs(m))
         /\ \A t \in TiersProviding(Needs(m)) : Rank(Lowest(TiersProviding(Needs(m)))) <= Rank(t)
         /\ "e2e" \in TiersProviding(Needs(m))
<1>1. "e2e" \in TiersProviding(Needs(m))
  BY Provided, TiersAre DEF TiersProviding, Needs
<1>2. TiersProviding(Needs(m)) \subseteq Tiers
  BY DEF TiersProviding
<1> DEFINE T == TiersProviding(Needs(m))
<1> HIDE DEF T
<1>3. \E t \in T : \A u \in T : Rank(t) <= Rank(u)
  BY <1>1, <1>2, TiersAre, RankValues DEF T
<1> QED
  BY <1>1, <1>3 DEF T, Lowest

LEMMA BackendTiers ==
  ASSUME NEW k \in Backends
  PROVE  BackendTier(k) \in Tiers \ {"template"}
  BY TiersAre DEF Backends, BackendTier

\* The reason of a skip names at least one backend, and each that it names provides
\* what the assertion needs (clusterHintForTier).
THEOREM HintsHelp ==
  ASSUME NEW b \in Assertion, NEW tier \in Tiers, Unsupported(b, tier)
  PROVE  /\ Hint(b) # {}
         /\ \A k \in Hint(b) : Needs(Claimant(b)) \subseteq TierProvides(BackendTier(k))
<1> DEFINE m == Claimant(b)
           low == Lowest(TiersProviding(Needs(m)))
<1>1. low \in TiersProviding(Needs(m)) /\ low \in Tiers
  BY LowestTier DEF TiersProviding
<1>2. low # "template"
  <2>1. SUFFICES ASSUME low = "template" PROVE FALSE
    OBVIOUS
  <2>2. Needs(m) \subseteq TierProvides("template")
    BY <1>1, <2>1 DEF TiersProviding
  <2>3. Needs(m) \subseteq TierProvides(tier)
    BY <2>2, Provided, TiersAre
  <2> QED
    BY <2>3 DEF Unsupported, TiersProviding
<1>3. Hint(b) = {k \in Backends : Rank(BackendTier(k)) >= Rank(low)}
  BY <1>2 DEF Hint, BackendsForTier
<1>4. "kind" \in Hint(b)
  BY <1>1, <1>3, RankValues, TiersAre DEF Backends, BackendTier
<1>5. ASSUME NEW k \in Hint(b) PROVE Needs(m) \subseteq TierProvides(BackendTier(k))
  <2>1. BackendTier(k) \in Tiers /\ Rank(low) <= Rank(BackendTier(k))
    BY <1>1, <1>3, RankValues, TiersAre, BackendTiers
  <2>2. TierProvides(low) \subseteq TierProvides(BackendTier(k))
    BY <1>1, <2>1, ProvidesMore
  <2> QED
    BY <1>1, <2>2 DEF TiersProviding
<1> QED
  BY <1>4, <1>5

-----------------------------------------------------------------------------
\* An assertion sets one key, and only a lookup nests others.
Wellformed(b) ==
    /\ \A x, y \in Claimants(b) : x = y
    /\ Nested[b] # {} => "lookup" \in Sets[b]

LEMMA BelowFacts ==
  ASSUME NEW a \in Assertion
  PROVE  /\ a \in Below[a] /\ a \in GateBelow[a] /\ GateBelow[a] \subseteq Assertion
         /\ \A b \in GateBelow[a] : GateChildren(b) \subseteq GateBelow[a]
         /\ \A S \in SUBSET Assertion :
               a \in S /\ (\A b \in S : Children(b) \subseteq S) => Below[a] \subseteq S
<1>1. \A b \in Assertion : GateChildren(b) \subseteq Assertion /\ Children(b) \subseteq Assertion
  BY ForestAssumption DEF GateChildren, Children
<1>2. a \in Below[a] /\ a \in GateBelow[a] /\ GateBelow[a] \subseteq Assertion
  BY DEF Below, GateBelow, Reached
<1>3. ASSUME NEW b \in GateBelow[a], NEW c \in GateChildren(b) PROVE c \in GateBelow[a]
  BY <1>1, <1>2, <1>3 DEF GateBelow, Reached
<1>4. ASSUME NEW S \in SUBSET Assertion, a \in S, \A b \in S : Children(b) \subseteq S
      PROVE  Below[a] \subseteq S
  BY <1>4 DEF Below, Reached
<1> QED
  BY <1>2, <1>3, <1>4

LEMMA NotUnsupportedMet ==
  ASSUME NEW b \in Assertion, Wellformed(b), NEW tier \in Tiers, ~Unsupported(b, tier)
  PROVE  Met(b, tier)
<1>1. CASE Composite(b)
  <2>1. \E x \in Claimants(b) : x \in {"allOf", "anyOf"}
    BY <1>1 DEF Composite, Claimants
  <2>2. Sets[b] = {}
    BY <2>1, ForestAssumption DEF Wellformed, Claimants, Leaf
  <2> QED
    BY <2>2 DEF Met
<1>2. CASE ~Composite(b) /\ Sets[b] = {}
  BY <1>2 DEF Met
<1>3. CASE ~Composite(b) /\ Sets[b] # {}
  <2>1. Claimed(b) /\ Claimants(b) = Sets[b]
    BY <1>3 DEF Claimed, Claimants, Composite
  <2>2. Sets[b] = {Claimant(b)}
    BY <1>3, <2>1, ClaimantClaims DEF Wellformed
  <2>3. Needs(Claimant(b)) \subseteq TierProvides(tier)
    BY <1>3, <2>1 DEF Unsupported, TiersProviding
  <2> QED
    BY <2>2, <2>3 DEF Met
<1> QED
  BY <1>1, <1>2, <1>3

LEMMA AllMetAtTheTop == ASSUME NEW b \in Assertion PROVE Met(b, "e2e")
  BY Provided DEF Met, Needs

\* What the gate lets through has all that it needs, the assertions nested in a lookup
\* included, which the gate does not look at: no backend provides what a lookup needs
\* and lacks anything else (runFile, runTest; tiercompat.go).
THEOREM LetThroughIsMet ==
  ASSUME NEW asserts \in SUBSET Assertion, NEW tier \in RunnableTiers,
         \A a \in asserts : \A b \in Below[a] : Wellformed(b),
         ~MatcherTierSkip(asserts, tier)
  PROVE  \A a \in asserts : \A b \in Below[a] : Met(b, tier)
<1>1. RunnableTiers \subseteq {"template", "apiserver", "e2e"}
  BY BackendTiers, TiersAre DEF RunnableTiers, Backends, BackendTier
<1>2. tier \in Tiers
  BY <1>1, TiersAre
<1>3. CASE tier = "e2e"
  BY <1>3, AllMetAtTheTop, GateBelowBelow
<1>4. CASE tier # "e2e"
  <2> SUFFICES ASSUME NEW a \in asserts PROVE \A b \in Below[a] : Met(b, tier)
    OBVIOUS
  <2>1. \A b \in GateBelow[a] : ~Unsupported(b, tier)
    BY DEF MatcherTierSkip, Blamed
  <2>2. \A b \in GateBelow[a] : b \in Assertion /\ Wellformed(b) /\ Met(b, tier)
    BY <1>2, <2>1, GateBelowBelow, NotUnsupportedMet
  <2>3. ASSUME NEW b \in GateBelow[a] PROVE Nested[b] = {}
    <3>1. SUFFICES ASSUME "lookup" \in Sets[b] PROVE FALSE
      BY <2>2 DEF Wellformed
    <3>2. {"liveReads", "reconciliation"} \subseteq TierProvides(tier)
      BY <2>2, <3>1 DEF Met, Needs
    <3> QED
      BY <1>1, <1>4, <3>2, Provided
  <2>4. ASSUME NEW b \in GateBelow[a] PROVE Children(b) \subseteq GateChildren(b)
    <3>1. AllOf[b] = {} \/ AnyOf[b] = {}
      BY <2>2 DEF Wellformed, Claimants
    <3> QED
      BY <2>3, <3>1 DEF Children, GateChildren
  <2>5. Below[a] \subseteq GateBelow[a]
    BY <2>4, BelowFacts
  <2> QED
    BY <2>2, <2>5
<1> QED
  BY <1>3, <1>4
-----------------------------------------------------------------------------
(* Sequences of the expansion. *)

LEMMA OnlyIs ==
  ASSUME NEW T, NEW s \in Seq(T), NEW K
  PROVE  /\ Only(s, K) \in Seq(T)
         /\ Range(Only(s, K)) = Range(s) \cap K
         /\ IsInjective(s) => IsInjective(Only(s, K))
<1> DEFINE m == Len(s)
           next(x, n) == IF s[n] \in K THEN Append(x, s[n]) ELSE x
           step == [p \in (1..m) \X Seq(T) |-> next(p[2], p[1])]
           P(g) == g = [n \in 0..m |-> IF n = 0 THEN <<>> ELSE next(g[n - 1], n)]
           upto == CHOOSE g : P(g)
<1>1. m \in Nat /\ DOMAIN s = 1..m /\ \A n \in 1..m : s[n] \in T
  BY LenProperties, ElementOfSeq
<1>2. \A x \in Seq(T), n \in 1..m : next(x, n) \in Seq(T)
  BY <1>1, AppendProperties
<1>3. <<>> \in Seq(T) /\ Range(<<>>) = {} /\ IsInjective(<<>>)
  BY EmptySeq DEF Range, IsInjective
<1>4. step \in [(1..m) \X Seq(T) -> Seq(T)]
  <2> HIDE DEF next
  <2> QED
    BY <1>2
<1>5. \E g : P(g)
  <2>1. PICK g \in [0..m -> Seq(T)] : ByStepTo(g, m, <<>>, step)
    <3> HIDE DEF step, m
    <3> QED
      BY <1>1, <1>3, <1>4, BoundedRecursion
  <2>2. ASSUME NEW n \in 0..m, n # 0 PROVE step[<<n, g[n - 1]>>] = next(g[n - 1], n)
    <3>1. n \in 1..m /\ n - 1 \in 0..m
      BY <1>1, <2>2
    <3>2. g[n - 1] \in Seq(T)
      BY <2>1, <3>1
    <3> HIDE DEF next
    <3> QED
      BY <3>1, <3>2
  <2> HIDE DEF step, next
  <2>3. P(g)
    BY <2>1, <2>2 DEF ByStepTo
  <2> QED
    BY <2>3
<1>6. P(upto)
  <2> HIDE DEF P
  <2> QED
    BY <1>5
<1>7. Only(s, K) = upto[m]
  BY DEF Only
<1> DEFINE First(n) == {s[i] : i \in 1..n}
           Fine(n)  == /\ upto[n] \in Seq(T) /\ Range(upto[n]) = First(n) \cap K
                       /\ IsInjective(s) => IsInjective(upto[n])
           S == {n \in 0..m : Fine(n)}
<1>8. 0 \in S
  <2>1. upto[0] = <<>>
    <3> HIDE DEF next, upto, m
    <3> QED
      BY <1>1, <1>6
  <2>2. First(0) = {} /\ 0 \in 0..m
    BY <1>1
  <2> HIDE DEF upto, First, m
  <2>3. Range(upto[0]) = First(0) \cap K
    BY <1>3, <2>1, <2>2
  <2> QED
    BY <1>3, <2>1, <2>2, <2>3
<1>9. ASSUME NEW n \in 0..(m - 1), n \in S PROVE n + 1 \in S
  <2>1. n + 1 \in 1..m /\ n + 1 \in 0..m /\ (n + 1) - 1 = n /\ n + 1 # 0
    BY <1>1
  <2>2. upto[n + 1] = next(upto[n], n + 1)
    <3> HIDE DEF next, upto
    <3> QED
      BY <1>6, <2>1
  <2>3. First(n + 1) = First(n) \cup {s[n + 1]}
    <3>1. \A i : i \in 1..(n + 1) <=> i \in 1..n \/ i = n + 1
      BY <2>1
    <3> QED
      BY <3>1
  <2>4. IsInjective(s) => s[n + 1] \notin First(n)
    BY <1>1, <2>1 DEF IsInjective
  <2> HIDE DEF upto, First
  <2>5. /\ upto[n] \in Seq(T) /\ Range(upto[n]) = First(n) \cap K
        /\ IsInjective(s) => IsInjective(upto[n])
    BY <1>9
  <2>6. s[n + 1] \in T
    BY <1>1, <2>1
  <2>7. CASE s[n + 1] \in K
    <3>1. upto[n + 1] = Append(upto[n], s[n + 1])
      BY <2>2, <2>7
    <3>2. Range(upto[n + 1]) = Range(upto[n]) \cup {s[n + 1]} /\ upto[n + 1] \in Seq(T)
      BY <2>5, <2>6, <3>1, RangeOf, AppendProperties
    <3>3. IsInjective(s) => IsInjective(upto[n + 1])
      <4>1. s[n + 1] \notin First(n) => s[n + 1] \notin Range(upto[n])
        BY <2>5
      <4> QED
        BY <2>4, <2>5, <2>6, <3>1, <4>1, InjectiveAppend
    <3>4. Range(upto[n + 1]) = First(n + 1) \cap K
      BY <2>3, <2>5, <2>7, <3>2
    <3> QED
      BY <2>1, <3>2, <3>3, <3>4
  <2>8. CASE s[n + 1] \notin K
    <3>1. upto[n + 1] = upto[n]
      BY <2>2, <2>8
    <3>2. First(n + 1) \cap K = First(n) \cap K
      BY <2>3, <2>8
    <3> QED
      BY <2>1, <2>5, <3>1, <3>2
  <2> QED
    BY <2>7, <2>8
<1> HIDE DEF S
<1>10. m \in S
  <2> HIDE DEF m
  <2>1. 0..m \subseteq S
    BY <1>1, <1>8, <1>9, IntervalInduction
  <2> QED
    BY <1>1, <2>1
<1>11. First(m) = Range(s)
  BY <1>1 DEF Range
<1> HIDE DEF upto, First, m
<1> QED
  BY <1>7, <1>10, <1>11 DEF S

LEMMA Flattened ==
  ASSUME NEW T, NEW ss \in Seq(Seq(T))
  PROVE  /\ FlattenSeq(ss) \in Seq(T)
         /\ Range(FlattenSeq(ss)) = UNION {Range(ss[i]) : i \in DOMAIN ss}
         /\ /\ \A i \in DOMAIN ss : IsInjective(ss[i])
            /\ \A i, j \in DOMAIN ss : i # j => Range(ss[i]) \cap Range(ss[j]) = {}
            => IsInjective(FlattenSeq(ss))
<1>1. Len(ss) \in Nat /\ DOMAIN ss = 1..Len(ss) /\ \A n \in 1..Len(ss) : ss[n] \in Seq(T)
  BY LenProperties, ElementOfSeq
<1>2. <<>> \in Seq(T) /\ Range(<<>>) = {} /\ IsInjective(<<>>)
  BY EmptySeq DEF Range, IsInjective
<1>3. CASE Len(ss) = 0
  <2>1. FlattenSeq(ss) = ss /\ ss = <<>>
    BY <1>3, EmptySeq DEF FlattenSeq
  <2>2. {Range(ss[i]) : i \in DOMAIN ss} = {}
    BY <1>1, <1>3
  <2> QED
    BY <1>2, <2>1, <2>2
<1>4. CASE Len(ss) # 0
  <2> DEFINE m == Len(ss)
             step == [p \in (1..m) \X Seq(T) |-> p[2] \o ss[p[1]]]
             P(g) == g = [i \in 1..m |-> IF i = 1 THEN ss[i] ELSE g[i - 1] \o ss[i]]
             flatten == CHOOSE g : P(g)
  <2>1. m \in Nat /\ m # 0 /\ 1 \in 1..m /\ DOMAIN ss = 1..m /\ \A n \in 1..m : ss[n] \in Seq(T)
    BY <1>1, <1>4
  <2>2. step \in [(1..m) \X Seq(T) -> Seq(T)]
    <3>1. \A x \in Seq(T), n \in 1..m : x \o ss[n] \in Seq(T)
      BY <2>1, ConcatProperties
    <3> QED
      BY <3>1
  <2>3. \E g : P(g)
    <3>1. PICK g \in [0..m -> Seq(T)] : ByStepTo(g, m, <<>>, step)
      <4> HIDE DEF step, m
      <4> QED
        BY <1>2, <2>1, <2>2, BoundedRecursion
    <3> DEFINE k == [i \in 1..m |-> g[i]]
    <3>2. ASSUME NEW i \in 1..m
          PROVE  k[i] = IF i = 1 THEN ss[i] ELSE k[i - 1] \o ss[i]
      <4>1. i \in 0..m /\ i # 0 /\ i - 1 \in 0..m /\ (i # 1 => i - 1 \in 1..m)
        BY <2>1
      <4>2. k[i] = step[<<i, g[i - 1]>>]
        <5> HIDE DEF step
        <5> QED
          BY <3>1, <4>1 DEF ByStepTo
      <4>3. step[<<i, g[i - 1]>>] = g[i - 1] \o ss[i]
        BY <3>1, <4>1
      <4>4. i = 1 => g[i - 1] \o ss[i] = ss[i]
        <5>1. i = 1 => g[i - 1] = <<>>
          <6>1. g[0] = <<>>
            <7> HIDE DEF step
            <7> QED
              BY <2>1, <3>1 DEF ByStepTo
          <6> QED
            BY <6>1
        <5> QED
          BY <2>1, <5>1, ConcatEmptySeq
      <4> HIDE DEF step
      <4> QED
        BY <4>1, <4>2, <4>3, <4>4
    <3>3. P(k)
      BY <3>2
    <3> QED
      BY <3>3
  <2>4. P(flatten)
    <3> HIDE DEF P
    <3> QED
      BY <2>3
  <2>5. FlattenSeq(ss) = flatten[m]
    BY <1>4 DEF FlattenSeq
  <2> DEFINE Alone == /\ \A i \in 1..m : IsInjective(ss[i])
                      /\ \A i, j \in 1..m : i # j => Range(ss[i]) \cap Range(ss[j]) = {}
             First(n) == UNION {Range(ss[i]) : i \in 1..n}
             Fine(n)  == /\ flatten[n] \in Seq(T) /\ Range(flatten[n]) = First(n)
                         /\ Alone => IsInjective(flatten[n])
             S == {n \in 0..m : n = 0 \/ Fine(n)}
  <2>6. 0 \in S
    BY <2>1
  <2>7. ASSUME NEW n \in 0..(m - 1), n \in S PROVE n + 1 \in S
    <3>1. n + 1 \in 1..m /\ n + 1 \in 0..m /\ (n + 1) - 1 = n /\ n \in Nat
      BY <2>1
    <3>2. flatten[n + 1] = IF n + 1 = 1 THEN ss[n + 1] ELSE flatten[(n + 1) - 1] \o ss[n + 1]
      <4> HIDE DEF flatten
      <4> QED
        BY <2>4, <3>1
    <3>3. First(n + 1) = First(n) \cup Range(ss[n + 1])
      <4>1. \A i : i \in 1..(n + 1) <=> i \in 1..n \/ i = n + 1
        BY <3>1
      <4> QED
        BY <4>1
    <3>4. CASE n = 0
      <4>1. flatten[n + 1] = ss[n + 1] /\ First(n) = {}
        <5> HIDE DEF flatten
        <5> QED
          BY <3>2, <3>4
      <4> HIDE DEF flatten, First
      <4> QED
        BY <2>1, <3>1, <3>3, <4>1
    <3>5. CASE n # 0
      <4>1. flatten[n + 1] = flatten[n] \o ss[n + 1]
        <5>1. n + 1 # 1
          BY <3>1, <3>5
        <5> HIDE DEF flatten, m, First
        <5> QED
          BY <3>1, <3>2, <5>1
      <4>2. Alone => First(n) \cap Range(ss[n + 1]) = {}
        <5>1. \A i \in 1..n : i \in 1..m /\ i # n + 1
          BY <3>1
        <5>2. n + 1 \in 1..m
          BY <3>1
        <5>3. Alone => \A i \in 1..n : Range(ss[i]) \cap Range(ss[n + 1]) = {}
          BY <5>1, <5>2
        <5> HIDE DEF Alone, m, flatten
        <5> QED
          BY <5>3
      <4> HIDE DEF flatten, First, m
      <4>3. Fine(n)
        BY <2>7, <3>5
      <4>4. ss[n + 1] \in Seq(T)
        BY <2>1, <3>1
      <4>5. flatten[n + 1] \in Seq(T)
        BY <4>1, <4>3, <4>4, ConcatProperties
      <4>6. Range(flatten[n + 1]) = First(n + 1)
        <5>1. flatten[n] \in Seq(T) /\ Range(flatten[n]) = First(n)
          BY <4>3
        <5>2. \A t \in Seq(T) : Range(flatten[n] \o t) = Range(flatten[n]) \cup Range(t)
          BY <5>1, RangeOf
        <5> QED
          BY <3>3, <4>1, <4>4, <5>1, <5>2
      <4>7. Alone => IsInjective(ss[n + 1])
        BY <3>1
      <4>8. Alone => IsInjective(flatten[n + 1])
        <5> HIDE DEF Alone
        <5> QED
          BY <4>1, <4>2, <4>3, <4>4, <4>7, InjectiveConcat
      <4> QED
        BY <3>1, <4>5, <4>6, <4>8
    <3> QED
      BY <3>4, <3>5
  <2> HIDE DEF S
  <2>8. m \in S
    <3> HIDE DEF m
    <3>1. 0..m \subseteq S
      BY <2>1, <2>6, <2>7, IntervalInduction
    <3> QED
      BY <2>1, <3>1
  <2>9. Fine(m)
    BY <2>1, <2>8 DEF S
  <2> HIDE DEF flatten
  <2> QED
    BY <2>1, <2>5, <2>9
<1> QED
  BY <1>3, <1>4
-----------------------------------------------------------------------------
(* Maps. *)

LEMMA MapFacts ==
  /\ \A f \in Map : /\ f = [k \in DOMAIN f |-> f[k]] /\ DOMAIN f \subseteq Key
                    /\ \A k \in DOMAIN f : f[k] \in Value
  /\ \A K \in SUBSET Key : [K -> Value] \subseteq Map
  /\ Nothing \in Map /\ DOMAIN Nothing = {}
<1>1. ASSUME NEW f \in Map
      PROVE  /\ f = [k \in DOMAIN f |-> f[k]] /\ DOMAIN f \subseteq Key
             /\ \A k \in DOMAIN f : f[k] \in Value
  <2>1. PICK K \in SUBSET Key : f \in [K -> Value]
    BY DEF Map
  <2> QED
    BY <2>1
<1>2. \A K \in SUBSET Key : [K -> Value] \subseteq Map
  BY DEF Map
<1>3. Nothing \in [{} -> Value]
  <2>1. <<>> \in Seq(Value) /\ Len(<<>>) = 0
    BY EmptySeq
  <2>2. <<>> \in [1..0 -> Value] /\ 1..0 = {}
    BY <2>1, LenProperties
  <2> QED
    BY <2>2 DEF Nothing
<1>4. {} \in SUBSET Key
  OBVIOUS
<1>5. Nothing \in Map
  BY <1>2, <1>3, <1>4
<1>6. DOMAIN Nothing = {}
  BY <1>3
<1> QED
  BY <1>1, <1>2, <1>5, <1>6

LEMMA SoleIs ==
  ASSUME NEW k \in Key, NEW v \in Value
  PROVE  Sole(k, v) \in Map /\ DOMAIN Sole(k, v) = {k} /\ Sole(k, v)[k] = v
<1>1. Sole(k, v) \in [{k} -> Value]
  BY DEF Sole
<1> QED
  BY <1>1, MapFacts DEF Sole

LEMMA OverIs ==
  ASSUME NEW f \in Map, NEW g \in Map
  PROVE  /\ Over(f, g) \in Map /\ DOMAIN Over(f, g) = DOMAIN f \cup DOMAIN g
         /\ \A k \in DOMAIN f : Over(f, g)[k] = f[k]
         /\ \A k \in DOMAIN g \ DOMAIN f : Over(f, g)[k] = g[k]
<1> DEFINE K == DOMAIN f \cup DOMAIN g
<1>1. K \in SUBSET Key
  BY MapFacts
<1>2. \A k \in K : (IF k \in DOMAIN f THEN f[k] ELSE g[k]) \in Value
  BY MapFacts
<1>3. Over(f, g) \in [K -> Value]
  BY <1>2 DEF Over
<1>4. Over(f, g) \in Map
  <2> HIDE DEF K
  <2> QED
    BY <1>1, <1>3, MapFacts
<1> QED
  BY <1>4 DEF Over

\* A case's values, if it has any, over those of its test, if it has any.
LEMMA OverMaybe ==
  ASSUME NEW mine \in Map \cup {NoSet}, NEW own \in Map \cup {NoSet}
  PROVE  (IF own = NoSet THEN mine ELSE IF mine = NoSet THEN own ELSE Over(own, mine)) \in Map \cup {NoSet}
<1>1. own # NoSet /\ mine # NoSet => Over(own, mine) \in Map
  BY OverIs
<1> QED
  BY <1>1

\* One key more: the value and the rest can be read off.
Extends(c, k, v, f) ==
    /\ c \in Map /\ DOMAIN c = DOMAIN f \cup {k} /\ c[k] = v
    /\ \A j \in DOMAIN f : c[j] = f[j]

LEMMA OverSole ==
  ASSUME NEW k \in Key, NEW v \in Value, NEW f \in Map, k \notin DOMAIN f
  PROVE  Extends(Over(Sole(k, v), f), k, v, f)
<1>1. PICK one \in Map : one = Sole(k, v) /\ DOMAIN one = {k} /\ one[k] = v
  BY SoleIs
<1>2. /\ Over(one, f) \in Map /\ DOMAIN Over(one, f) = DOMAIN one \cup DOMAIN f
      /\ \A j \in DOMAIN one : Over(one, f)[j] = one[j]
      /\ \A j \in DOMAIN f \ DOMAIN one : Over(one, f)[j] = f[j]
  BY OverIs
<1> QED
  BY <1>1, <1>2 DEF Extends

LEMMA SameMap ==
  ASSUME NEW f \in Map, NEW g \in Map, DOMAIN f = DOMAIN g, \A k \in DOMAIN f : f[k] = g[k]
  PROVE  f = g
<1>1. f = [k \in DOMAIN f |-> f[k]] /\ g = [k \in DOMAIN g |-> g[k]]
  BY MapFacts
<1>2. [k \in DOMAIN f |-> f[k]] = [k \in DOMAIN g |-> g[k]]
  OBVIOUS
<1> QED
  BY <1>1, <1>2

LEMMA OverSoleInjective ==
  ASSUME NEW k \in Key, NEW v \in Value, NEW w \in Value, NEW f \in Map, NEW g \in Map,
         k \notin DOMAIN f, k \notin DOMAIN g, Over(Sole(k, v), f) = Over(Sole(k, w), g)
  PROVE  v = w /\ f = g
<1> DEFINE c == Over(Sole(k, v), f)
           d == Over(Sole(k, w), g)
<1>1. Extends(c, k, v, f) /\ Extends(d, k, w, g) /\ c = d
  BY OverSole
<1> HIDE DEF c, d
<1>2. v = w
  BY <1>1 DEF Extends
<1>3. DOMAIN f = DOMAIN g
  BY <1>1 DEF Extends
<1>4. \A j \in DOMAIN f : f[j] = g[j]
  BY <1>1, <1>3 DEF Extends
<1> QED
  BY <1>2, <1>3, <1>4, SameMap

LEMMA CombineIs ==
  ASSUME NEW result \in Seq(Map), NEW key \in Key, NEW values \in Seq(Value)
  PROVE  /\ Combine(result, key, values) \in Seq(Map)
         /\ Range(Combine(result, key, values)) =
               {Over(Sole(key, v), r) : v \in Range(values), r \in Range(result)}
         /\ /\ IsInjective(result) /\ IsInjective(values)
            /\ \A r \in Range(result) : key \notin DOMAIN r
            => IsInjective(Combine(result, key, values))
<1> DEFINE row(i) == [j \in DOMAIN values |-> Over(Sole(key, values[j]), result[i])]
           ss     == [i \in DOMAIN result |-> row(i)]
<1>1. /\ DOMAIN values = 1..Len(values) /\ Len(values) \in Nat /\ \A j \in DOMAIN values : values[j] \in Value
      /\ DOMAIN result = 1..Len(result) /\ Len(result) \in Nat /\ \A i \in DOMAIN result : result[i] \in Map
  BY LenProperties, ElementOfSeq
<1>2. ASSUME NEW i \in DOMAIN result
      PROVE  /\ row(i) \in Seq(Map) /\ DOMAIN row(i) = DOMAIN values
             /\ \A j \in DOMAIN values : row(i)[j] = Over(Sole(key, values[j]), result[i])
             /\ Range(row(i)) = {Over(Sole(key, v), result[i]) : v \in Range(values)}
  <2>1. \A j \in DOMAIN values : Over(Sole(key, values[j]), result[i]) \in Map
    BY <1>1, SoleIs, OverIs
  <2>2. row(i) \in [1..Len(values) -> Map]
    BY <1>1, <2>1
  <2>3. row(i) \in Seq(Map)
    <3> HIDE DEF row
    <3> QED
      BY <1>1, <2>2, SeqDef
  <2>4. Range(row(i)) = {Over(Sole(key, v), result[i]) : v \in Range(values)}
    BY DEF Range
  <2> QED
    BY <2>3, <2>4
<1> HIDE DEF row
<1>3. ss \in Seq(Seq(Map)) /\ DOMAIN ss = DOMAIN result /\ \A i \in DOMAIN result : ss[i] = row(i)
  <2>1. ss \in [1..Len(result) -> Seq(Map)]
    BY <1>1, <1>2
  <2>2. ss \in Seq(Seq(Map))
    <3> HIDE DEF ss
    <3> QED
      BY <1>1, <2>1, SeqDef
  <2> QED
    BY <2>2
<1>4. Combine(result, key, values) = FlattenSeq(ss)
  BY DEF Combine, row
<1> HIDE DEF ss
<1>5. Range(FlattenSeq(ss)) = {Over(Sole(key, v), r) : v \in Range(values), r \in Range(result)}
  <2>1. Range(FlattenSeq(ss)) = UNION {Range(ss[i]) : i \in DOMAIN ss}
    BY <1>3, Flattened
  <2>2. ASSUME NEW c \in Range(FlattenSeq(ss))
        PROVE  \E v \in Range(values), r \in Range(result) : c = Over(Sole(key, v), r)
    <3>1. PICK i \in DOMAIN result : c \in Range(row(i))
      BY <1>3, <2>1
    <3> QED
      BY <1>2, <3>1 DEF Range
  <2>3. ASSUME NEW v \in Range(values), NEW r \in Range(result)
        PROVE  Over(Sole(key, v), r) \in Range(FlattenSeq(ss))
    <3>1. PICK i \in DOMAIN result : r = result[i]
      BY DEF Range
    <3>2. Over(Sole(key, v), r) \in Range(row(i))
      BY <1>2, <3>1
    <3> QED
      BY <1>3, <2>1, <3>2
  <2> QED
    BY <2>2, <2>3
<1>6. ASSUME IsInjective(result), IsInjective(values), \A r \in Range(result) : key \notin DOMAIN r
      PROVE  IsInjective(FlattenSeq(ss))
  <2>1. \A i \in DOMAIN result : key \notin DOMAIN result[i]
    BY <1>6 DEF Range
  <2>2. ASSUME NEW i \in DOMAIN result, NEW j \in DOMAIN result, NEW a \in DOMAIN values, NEW b \in DOMAIN values,
               row(i)[a] = row(j)[b]
        PROVE  i = j /\ a = b
    <3>1. values[a] = values[b] /\ result[i] = result[j]
      BY <1>1, <1>2, <2>1, <2>2, OverSoleInjective
    <3> QED
      BY <1>6, <3>1 DEF IsInjective
  <2>3. \A i \in DOMAIN ss : IsInjective(ss[i])
    BY <1>2, <1>3, <2>2 DEF IsInjective
  <2>4. ASSUME NEW i \in DOMAIN ss, NEW j \in DOMAIN ss, i # j PROVE Range(ss[i]) \cap Range(ss[j]) = {}
    BY <1>2, <1>3, <2>2, <2>4 DEF Range
  <2> QED
    BY <1>3, <2>3, <2>4, Flattened
<1> QED
  BY <1>3, <1>4, <1>5, <1>6, Flattened
-----------------------------------------------------------------------------
(* The matrix. *)

\* Go takes every axis once, in some order.
LEMMA OrderTakesAll ==
  ASSUME NEW tests, \A t \in Range(tests) : TestGiven(t), NEW order \in Orders(tests)
  PROVE  /\ order \in Seq(Key) /\ IsInjective(order)
         /\ \A t \in Range(tests) : t.kind = "matrix" => DOMAIN t.matrix.axes \subseteq Range(order)
<1> DEFINE S == UNION {DOMAIN t.matrix.axes : t \in {u \in Range(tests) : u.kind = "matrix"}}
           D == 1..Cardinality(S)
<1>1. S \in SUBSET Key
  BY DEF TestGiven
<1>2. IsFiniteSet(S) /\ Cardinality(S) \in Nat
  <2> HIDE DEF S
  <2> QED
    BY <1>1, MapAssumption, FS_Subset, FS_CardinalityType
<1>3. order \in [D -> S] /\ \A i, j \in D : i # j => order[i] # order[j]
  BY DEF Orders, SetToSeqs
<1> HIDE DEF S
<1>4. order \in Injection(D, S)
  <2> HIDE DEF D
  <2> QED
    BY <1>3 DEF Injection, IsInjective
<1>5. Cardinality(D) = Cardinality(S)
  BY <1>2, FS_Interval
<1>6. order \in Surjection(D, S)
  <2> HIDE DEF D
  <2> QED
    BY <1>2, <1>4, <1>5, FS_Injection
<1>7. S \subseteq Range(order)
  <2> HIDE DEF D
  <2> QED
    BY <1>3, <1>6 DEF Surjection, Range
<1>8. order \in Seq(Key)
  <2>1. order \in [1..Cardinality(S) -> Key]
    BY <1>1, <1>3
  <2> QED
    BY <1>2, <2>1, SeqDef
<1>9. IsInjective(order)
  <2> HIDE DEF D
  <2> QED
    BY <1>3 DEF IsInjective
<1> QED
  BY <1>7, <1>8, <1>9 DEF S

Points(axes, D) == {c \in Map : DOMAIN c = D /\ \A k \in D : c[k] \in Range(axes[k])}

Fresh(key, D) == D \subseteq Key /\ key \in Key /\ key \notin D

LEMMA CombineExtends ==
  ASSUME NEW axes, NEW D, NEW key, Fresh(key, D),
         NEW values \in Seq(Value), axes[key] = values,
         NEW result \in Seq(Map), Range(result) = Points(axes, D)
  PROVE  Range(Combine(result, key, values)) = Points(axes, D \cup {key})
<1>1. Range(Combine(result, key, values)) = {Over(Sole(key, v), r) : v \in Range(values), r \in Range(result)}
  BY CombineIs DEF Fresh
<1>2. Range(values) \subseteq Value
  BY RangeOf
<1>3. ASSUME NEW v \in Range(values), NEW r \in Range(result)
      PROVE  Over(Sole(key, v), r) \in Points(axes, D \cup {key})
  <2>1. r \in Map /\ DOMAIN r = D /\ \A k \in D : r[k] \in Range(axes[k])
    BY DEF Points
  <2>2. PICK c : c = Over(Sole(key, v), r)
    OBVIOUS
  <2>3. c \in Map /\ DOMAIN c = D \cup {key} /\ c[key] = v /\ \A j \in D : c[j] = r[j]
    <3>1. v \in Value /\ key \in Key /\ key \notin DOMAIN r /\ r \in Map
      BY <1>2, <2>1 DEF Fresh
    <3>2. Extends(c, key, v, r)
      BY <2>2, <3>1, OverSole
    <3> QED
      BY <2>1, <3>2 DEF Extends
  <2> QED
    BY <2>1, <2>2, <2>3 DEF Points
<1>4. ASSUME NEW c \in Points(axes, D \cup {key})
      PROVE  \E v \in Range(values), r \in Range(result) : c = Over(Sole(key, v), r)
  <2>1. c \in Map /\ DOMAIN c = D \cup {key} /\ \A k \in D \cup {key} : c[k] \in Range(axes[k])
    BY DEF Points
  <2>2. PICK r : r = [k \in D |-> c[k]]
    OBVIOUS
  <2>3. r \in Map /\ DOMAIN r = D /\ \A k \in D : r[k] = c[k]
    <3>1. \A k \in D : c[k] \in Value
      BY <2>1, MapFacts
    <3>2. r \in [D -> Value]
      BY <2>2, <3>1
    <3> QED
      BY <2>2, <3>2, MapFacts DEF Fresh
  <2>4. r \in Range(result) /\ c[key] \in Range(values)
    BY <2>1, <2>3 DEF Points
  <2>5. PICK d : d = Over(Sole(key, c[key]), r)
    OBVIOUS
  <2>6. d \in Map /\ DOMAIN d = D \cup {key} /\ d[key] = c[key] /\ \A j \in D : d[j] = r[j]
    <3>1. c[key] \in Value /\ key \in Key /\ key \notin DOMAIN r /\ r \in Map
      BY <1>2, <2>3, <2>4 DEF Fresh
    <3>2. Extends(d, key, c[key], r)
      BY <2>5, <3>1, OverSole
    <3> QED
      BY <2>3, <3>2 DEF Extends
  <2>7. c = d
    BY <2>1, <2>3, <2>6, SameMap
  <2> QED
    BY <2>4, <2>5, <2>7
<1> DEFINE C == {Over(Sole(key, v), r) : v \in Range(values), r \in Range(result)}
           E == Points(axes, D \cup {key})
<1>5. \A v \in Range(values), r \in Range(result) : Over(Sole(key, v), r) \in E
  BY <1>3
<1>6. \A c \in E : \E v \in Range(values), r \in Range(result) : c = Over(Sole(key, v), r)
  BY <1>4
<1> HIDE DEF E
<1>7. C = E
  BY <1>5, <1>6
<1>8. Range(Combine(result, key, values)) = E
  BY <1>1, <1>7
<1> QED
  BY <1>8 DEF E

LEMMA CartesianIs ==
  ASSUME NEW axes, DOMAIN axes \subseteq Key, \A k \in DOMAIN axes : axes[k] \in Seq(Value),
         NEW order \in Seq(Key), IsInjective(order), DOMAIN axes \subseteq Range(order)
  PROVE  /\ Cartesian(axes, order) \in Seq(Map)
         /\ Range(Cartesian(axes, order)) = IF DOMAIN axes = {} THEN {} ELSE Points(axes, DOMAIN axes)
         /\ (\A k \in DOMAIN axes : IsInjective(axes[k])) => IsInjective(Cartesian(axes, order))
<1> DEFINE m == Len(order)
           next(x, n) == IF order[n] \in DOMAIN axes THEN Combine(x, order[n], axes[order[n]]) ELSE x
           step == [p \in (1..m) \X Seq(Map) |-> next(p[2], p[1])]
           b    == <<Nothing>>
           P(g) == g = [n \in 0..m |-> IF n = 0 THEN b ELSE next(g[n - 1], n)]
           upto == CHOOSE g : P(g)
<1>1. m \in Nat /\ DOMAIN order = 1..m /\ \A n \in 1..m : order[n] \in Key
  BY LenProperties, ElementOfSeq
<1>2. b \in Seq(Map) /\ Range(b) = {Nothing} /\ IsInjective(b)
  <2>1. b \in Seq(Map)
    BY MapFacts
  <2>2. DOMAIN b = {1} /\ b[1] = Nothing
    OBVIOUS
  <2> HIDE DEF b
  <2> QED
    BY <2>1, <2>2 DEF Range, IsInjective
<1> HIDE DEF b
<1>3. \A x \in Seq(Map), n \in 1..m : next(x, n) \in Seq(Map)
  BY <1>1, CombineIs
<1>4. step \in [(1..m) \X Seq(Map) -> Seq(Map)]
  <2> HIDE DEF next
  <2> QED
    BY <1>3
<1>5. \E g : P(g)
  <2>1. PICK g \in [0..m -> Seq(Map)] : ByStepTo(g, m, b, step)
    <3> HIDE DEF step, m
    <3> QED
      BY <1>1, <1>2, <1>4, BoundedRecursion
  <2>2. ASSUME NEW n \in 0..m, n # 0 PROVE step[<<n, g[n - 1]>>] = next(g[n - 1], n)
    <3>1. n \in 1..m /\ n - 1 \in 0..m
      BY <1>1, <2>2
    <3>2. g[n - 1] \in Seq(Map)
      BY <2>1, <3>1
    <3> HIDE DEF next
    <3> QED
      BY <3>1, <3>2
  <2> HIDE DEF step, next
  <2>3. P(g)
    BY <2>1, <2>2 DEF ByStepTo
  <2> QED
    BY <2>3
<1>6. P(upto)
  <2> HIDE DEF P
  <2> QED
    BY <1>5
<1>7. Cartesian(axes, order) = IF DOMAIN axes = {} THEN <<>> ELSE upto[m]
  BY DEF Cartesian, b
<1> DEFINE Taken(n) == {order[i] : i \in 1..n} \cap DOMAIN axes
           Apart1   == \A k \in DOMAIN axes : IsInjective(axes[k])
           Fine(n)  == /\ upto[n] \in Seq(Map) /\ Range(upto[n]) = Points(axes, Taken(n))
                       /\ Apart1 => IsInjective(upto[n])
           S == {n \in 0..m : Fine(n)}
<1>8. 0 \in S
  <2>1. upto[0] = b
    <3> HIDE DEF next, upto, m
    <3> QED
      BY <1>1, <1>6
  <2>2. Taken(0) = {} /\ 0 \in 0..m
    BY <1>1
  <2>3. Points(axes, {}) = {Nothing}
    <3>1. \A c \in Map : DOMAIN c = {} => c = Nothing
      BY MapFacts, SameMap
    <3> QED
      BY <3>1, MapFacts DEF Points
  <2> HIDE DEF upto, Taken, m
  <2> QED
    BY <1>2, <2>1, <2>2, <2>3
<1>9. ASSUME NEW n \in 0..(m - 1), n \in S PROVE n + 1 \in S
  <2>1. n + 1 \in 1..m /\ n + 1 \in 0..m /\ (n + 1) - 1 = n /\ n + 1 # 0
    BY <1>1
  <2>2. upto[n + 1] = next(upto[n], n + 1)
    <3> HIDE DEF next, upto
    <3> QED
      BY <1>6, <2>1
  <2> DEFINE key == order[n + 1]
  <2>3. key \in Key /\ key \notin Taken(n)
    <3>1. \A i \in 1..n : i \in 1..m /\ i # n + 1
      BY <1>1, <2>1
    <3> QED
      BY <1>1, <2>1, <3>1 DEF IsInjective
  <2>4. Taken(n + 1) = Taken(n) \cup ({key} \cap DOMAIN axes)
    <3>1. \A i : i \in 1..(n + 1) <=> i \in 1..n \/ i = n + 1
      BY <2>1
    <3> QED
      BY <3>1
  <2>5. Taken(n) \in SUBSET Key
    OBVIOUS
  <2>6. CASE key \in DOMAIN axes
    <3>1. upto[n + 1] = Combine(upto[n], key, axes[key])
      BY <2>2, <2>6
    <3>2. Taken(n + 1) = Taken(n) \cup {key} /\ axes[key] \in Seq(Value)
      BY <2>4, <2>6
    <3> HIDE DEF upto, Taken, next, m, key
    <3>3. Fine(n)
      BY <1>9
    <3>4. upto[n + 1] \in Seq(Map)
      BY <2>3, <3>1, <3>2, <3>3, CombineIs
    <3>5. Range(upto[n + 1]) = Points(axes, Taken(n + 1))
      <4>1. Range(Combine(upto[n], key, axes[key])) = Points(axes, Taken(n) \cup {key})
        <5>1. Fresh(key, Taken(n))
          BY <2>3, <2>5 DEF Fresh
        <5> QED
          BY <3>2, <3>3, <5>1, CombineExtends
      <4> QED
        BY <3>1, <3>2, <4>1
    <3>6. ASSUME Apart1 PROVE IsInjective(upto[n + 1])
      <4>1. \A r \in Range(upto[n]) : key \notin DOMAIN r
        BY <2>3, <3>3 DEF Points
      <4>2. IsInjective(upto[n]) /\ IsInjective(axes[key])
        BY <2>6, <3>3, <3>6
      <4> QED
        BY <2>3, <3>1, <3>2, <3>3, <4>1, <4>2, CombineIs
    <3> QED
      BY <2>1, <3>4, <3>5, <3>6
  <2>7. CASE key \notin DOMAIN axes
    <3>1. upto[n + 1] = upto[n]
      BY <2>2, <2>7
    <3>2. Taken(n + 1) = Taken(n)
      BY <2>4, <2>7
    <3> HIDE DEF upto, Taken, m
    <3> QED
      BY <1>9, <2>1, <3>1, <3>2
  <2> QED
    BY <2>6, <2>7
<1> HIDE DEF S
<1>10. m \in S
  <2> HIDE DEF m
  <2>1. 0..m \subseteq S
    BY <1>1, <1>8, <1>9, IntervalInduction
  <2> QED
    BY <1>1, <2>1
<1>11. Taken(m) = DOMAIN axes
  BY <1>1 DEF Range
<1>12. <<>> \in Seq(Map) /\ Range(<<>>) = {} /\ IsInjective(<<>>)
  BY EmptySeq DEF Range, IsInjective
<1> HIDE DEF upto, Taken, m
<1> QED
  BY <1>7, <1>10, <1>11, <1>12 DEF S

LEMMA ProductIs ==
  ASSUME NEW m, DOMAIN m.axes \subseteq Key, \A k \in DOMAIN m.axes : m.axes[k] \in Seq(Value)
  PROVE  Product(m) = IF DOMAIN m.axes = {} THEN {} ELSE Points(m.axes, DOMAIN m.axes)
<1> DEFINE D == DOMAIN m.axes
           A == m.axes
           V == UNION {Range(A[k]) : k \in D}
           C == {c \in [D -> V] : \A k \in D : c[k] \in Range(A[k])}
<1>1. V \subseteq Value
  BY RangeOf
<1>2. D \in SUBSET Key
  OBVIOUS
<1>3. Product(m) = IF D = {} THEN {} ELSE C
  BY DEF Product
<1> HIDE DEF A, D
<1>4. \A k \in D : Range(A[k]) \subseteq V
  OBVIOUS
<1> HIDE DEF V
<1>5. ASSUME NEW c \in C PROVE c \in Points(A, D)
  <2>1. c \in [D -> Value]
    BY <1>1
  <2>2. c \in Map /\ DOMAIN c = D
    BY <1>2, <2>1, MapFacts
  <2> QED
    BY <2>2 DEF Points
<1>6. ASSUME NEW c \in Points(A, D) PROVE c \in C
  <2>1. c \in Map /\ DOMAIN c = D /\ \A k \in D : c[k] \in Range(A[k])
    BY DEF Points
  <2>2. c = [k \in D |-> c[k]] /\ \A k \in D : c[k] \in V
    BY <1>4, <2>1, MapFacts
  <2>3. c \in [D -> V]
    BY <2>2
  <2> QED
    BY <2>1, <2>3
<1> HIDE DEF C
<1>7. C = Points(A, D)
  BY <1>5, <1>6
<1> QED
  BY <1>3, <1>7 DEF A, D

LEMMA WithinFacts ==
  /\ \A f \in Map : Within(f, f)
  /\ \A f, g, h \in Map : Within(f, g) /\ Within(g, h) => Within(f, h)
  BY DEF Within

\* What Expand does of the includes up to n, said of the set of combinations.
Accepted(m, kept, n) ==
    kept \cup {m.include[i] : i \in {j \in 1..n :
                 /\ ~\E c \in kept : Within(m.include[j], c)
                 /\ ~\E h \in 1..(j - 1) : Within(m.include[j], m.include[h])}}

LEMMA AcceptedIs ==
  ASSUME NEW m, NEW n \in Nat, NEW kept \in SUBSET Map,
         \A i \in 1..(n + 1) : m.include[i] \in Map,
         \A h \in 1..n : \E c \in Accepted(m, kept, n) : Within(m.include[h], c)
  PROVE  Accepted(m, kept, n + 1) = IF \E c \in Accepted(m, kept, n) : Within(m.include[n + 1], c)
                                    THEN Accepted(m, kept, n)
                                    ELSE Accepted(m, kept, n) \cup {m.include[n + 1]}
<1> DEFINE inc(i)  == m.include[i]
           new(j)  == /\ ~\E c \in kept : Within(inc(j), c)
                      /\ ~\E h \in 1..(j - 1) : Within(inc(j), inc(h))
           A(k)    == {inc(i) : i \in {j \in 1..k : new(j)}}
<1>1. Accepted(m, kept, n) = kept \cup A(n) /\ Accepted(m, kept, n + 1) = kept \cup A(n + 1)
  BY DEF Accepted
<1>2. \A i : i \in 1..(n + 1) <=> i \in 1..n \/ i = n + 1
  OBVIOUS
<1>3. A(n + 1) = A(n) \cup (IF new(n + 1) THEN {inc(n + 1)} ELSE {})
  <2> HIDE DEF new, inc
  <2> QED
    BY <1>2
<1>4. A(n) \subseteq {inc(i) : i \in 1..n}
  <2> HIDE DEF new
  <2> QED
    OBVIOUS
<1>5. (n + 1) - 1 = n /\ n + 1 \in 1..(n + 1) /\ \A i \in 1..n : i \in 1..(n + 1)
  OBVIOUS
<1>6. new(n + 1) <=> ~\E c \in kept \cup A(n) : Within(inc(n + 1), c)
  <2>1. ASSUME NEW c \in kept \cup A(n), Within(inc(n + 1), c) PROVE ~new(n + 1)
    <3>1. CASE c \in kept
      BY <2>1, <3>1
    <3>2. CASE c \in A(n)
      <4> HIDE DEF A
      <4>1. PICK i \in 1..n : c = inc(i)
        BY <1>4, <3>2
      <4> QED
        BY <1>5, <2>1, <4>1
    <3> QED
      BY <3>1, <3>2
  <2>2. ASSUME ~\E c \in kept \cup A(n) : Within(inc(n + 1), c), NEW h \in 1..n, Within(inc(n + 1), inc(h))
        PROVE  FALSE
    <3>1. PICK c \in kept \cup A(n) : Within(inc(h), c)
      BY <1>1
    <3>2. c \in Map /\ inc(h) \in Map /\ inc(n + 1) \in Map
      BY <1>4, <1>5
    <3>3. Within(inc(n + 1), c)
      BY <2>2, <3>1, <3>2, WithinFacts
    <3> QED
      BY <2>2, <3>3
  <2> QED
    <3>1. ASSUME ~\E c \in kept \cup A(n) : Within(inc(n + 1), c) PROVE new(n + 1)
      <4> HIDE DEF A
      <4> QED
        BY <1>5, <2>2, <3>1
    <3> HIDE DEF A, new
    <3> QED
      BY <2>1, <3>1
<1> HIDE DEF A, new, inc
<1> QED
  BY <1>1, <1>3, <1>6 DEF inc
-----------------------------------------------------------------------------
(* Expand is Combinations. *)

LEMMA ExpandIs ==
  ASSUME NEW t, TestGiven(t), NEW order \in Seq(Key), IsInjective(order),
         DOMAIN t.matrix.axes \subseteq Range(order)
  PROVE  /\ Expand(t.matrix, order) \in Seq(Map)
         /\ Range(Expand(t.matrix, order)) = Combinations(t.matrix)
         /\ (\A k \in DOMAIN t.matrix.axes : IsInjective(t.matrix.axes[k]))
               => IsInjective(Expand(t.matrix, order))
<1> DEFINE m == t.matrix
           inc(i) == m.include[i]
           last == Len(m.include)
           product == Cartesian(m.axes, order)
           good == {c \in Range(product) : ~\E rule \in m.exclude : MatchesExclude(c, rule)}
           filtered == Only(product, good)
           kept == {c \in Product(m) : ~\E rule \in m.exclude : Within(rule, c)}
           Alone == \A k \in DOMAIN m.axes : IsInjective(m.axes[k])
           next(x, n) == IF \E i \in DOMAIN x : IsSubset(inc(n), x[i]) THEN x ELSE Append(x, inc(n))
           step == [p \in (1..last) \X Seq(Map) |-> next(p[2], p[1])]
           P(g) == g = [n \in 0..last |-> IF n = 0 THEN filtered ELSE next(g[n - 1], n)]
           upto == CHOOSE g : P(g)
<1>1. /\ last \in Nat /\ \A i \in 1..last : inc(i) \in Map
  BY LenProperties, ElementOfSeq DEF TestGiven
<1>2. /\ product \in Seq(Map) /\ Range(product) = Product(m)
      /\ Alone => IsInjective(product)
  <2>1. DOMAIN m.axes \subseteq Key /\ \A k \in DOMAIN m.axes : m.axes[k] \in Seq(Value)
    BY DEF TestGiven
  <2>2. Product(m) = IF DOMAIN m.axes = {} THEN {} ELSE Points(m.axes, DOMAIN m.axes)
    BY <2>1, ProductIs
  <2>3. /\ product \in Seq(Map)
        /\ Range(product) = IF DOMAIN m.axes = {} THEN {} ELSE Points(m.axes, DOMAIN m.axes)
        /\ Alone => IsInjective(product)
    BY <2>1, CartesianIs
  <2> QED
    BY <2>2, <2>3
<1>3. good = kept
  <2>1. \A c, rule : MatchesExclude(c, rule) <=> Within(rule, c)
    BY DEF MatchesExclude, Within
  <2> HIDE DEF product
  <2> QED
    BY <1>2, <2>1
<1>4. /\ filtered \in Seq(Map) /\ Range(filtered) = kept /\ kept \subseteq Map
      /\ Alone => IsInjective(filtered)
  <2> HIDE DEF good, product, Alone
  <2>1. kept \subseteq Range(product) /\ Range(product) \subseteq Map
    BY <1>2, RangeOf
  <2> HIDE DEF kept
  <2>2. /\ Only(product, good) \in Seq(Map) /\ Range(Only(product, good)) = Range(product) \cap good
        /\ IsInjective(product) => IsInjective(Only(product, good))
    BY <1>2, OnlyIs
  <2>3. kept \subseteq Map
    BY <2>1
  <2>4. Range(product) \cap good = kept
    BY <1>3, <2>1
  <2> QED
    BY <1>2, <2>2, <2>3, <2>4
<1> HIDE DEF filtered
<1>5. \A x \in Seq(Map), n \in 1..last : next(x, n) \in Seq(Map)
  BY <1>1, AppendProperties
<1>6. step \in [(1..last) \X Seq(Map) -> Seq(Map)]
  <2> HIDE DEF next
  <2> QED
    BY <1>5
<1>7. \E g : P(g)
  <2>1. PICK g \in [0..last -> Seq(Map)] : ByStepTo(g, last, filtered, step)
    <3> HIDE DEF step, last
    <3> QED
      BY <1>1, <1>4, <1>6, BoundedRecursion
  <2>2. ASSUME NEW n \in 0..last, n # 0 PROVE step[<<n, g[n - 1]>>] = next(g[n - 1], n)
    <3>1. n \in 1..last /\ n - 1 \in 0..last
      BY <1>1, <2>2
    <3>2. g[n - 1] \in Seq(Map)
      BY <2>1, <3>1
    <3> HIDE DEF next
    <3> QED
      BY <3>1, <3>2
  <2> HIDE DEF step, next
  <2>3. P(g)
    BY <2>1, <2>2 DEF ByStepTo
  <2> QED
    BY <2>3
<1>8. P(upto)
  <2> HIDE DEF P
  <2> QED
    BY <1>7
<1>9. Expand(t.matrix, order) = upto[last]
  BY DEF Expand, filtered
<1> DEFINE A(n) == Accepted(m, kept, n)
           Fine(n) == /\ upto[n] \in Seq(Map) /\ Range(upto[n]) = A(n)
                      /\ \A h \in 1..n : \E c \in A(n) : Within(inc(h), c)
                      /\ Alone => IsInjective(upto[n])
           S == {n \in 0..last : Fine(n)}
<1>10. 0 \in S
  <2>1. upto[0] = filtered
    <3> HIDE DEF next, upto, last
    <3> QED
      BY <1>1, <1>8
  <2>2. A(0) = kept
    BY DEF Accepted
  <2> HIDE DEF upto, A, last, Alone, kept
  <2> QED
    BY <1>1, <1>4, <2>1, <2>2
<1>11. ASSUME NEW n \in 0..(last - 1), n \in S PROVE n + 1 \in S
  <2>1. n + 1 \in 1..last /\ n + 1 \in 0..last /\ (n + 1) - 1 = n /\ n + 1 # 0 /\ n \in Nat
        /\ \A h : h \in 1..(n + 1) <=> h \in 1..n \/ h = n + 1
    BY <1>1
  <2>2. upto[n + 1] = next(upto[n], n + 1)
    <3> HIDE DEF next, upto
    <3> QED
      BY <1>8, <2>1
  <2> HIDE DEF upto, kept
  <2>3. /\ upto[n] \in Seq(Map) /\ Range(upto[n]) = A(n) /\ A(n) \subseteq Map
        /\ \A h \in 1..n : \E c \in A(n) : Within(inc(h), c)
        /\ Alone => IsInjective(upto[n])
    <3>1. Fine(n)
      BY <1>11
    <3> QED
      BY <3>1, RangeOf
  <2>4. A(n + 1) = IF \E c \in A(n) : Within(inc(n + 1), c) THEN A(n) ELSE A(n) \cup {inc(n + 1)}
    <3>1. \A i \in 1..(n + 1) : m.include[i] \in Map
      BY <1>1, <2>1
    <3>2. \A h \in 1..n : \E c \in Accepted(m, kept, n) : Within(m.include[h], c)
      BY <2>3
    <3> HIDE DEF m
    <3> QED
      BY <1>4, <2>1, <3>1, <3>2, AcceptedIs
  <2>5. (\E i \in DOMAIN upto[n] : IsSubset(inc(n + 1), upto[n][i])) <=> \E c \in A(n) : Within(inc(n + 1), c)
    <3>1. \A c, d : IsSubset(c, d) <=> Within(c, d)
      BY DEF IsSubset, Within
    <3> HIDE DEF A
    <3> QED
      BY <2>3, <3>1 DEF Range
  <2>6. inc(n + 1) \in Map
    BY <1>1, <2>1
  <2> HIDE DEF A, inc, next, last
  <2>7. CASE \E c \in A(n) : Within(inc(n + 1), c)
    <3>1. upto[n + 1] = upto[n] /\ A(n + 1) = A(n)
      BY <2>2, <2>4, <2>5, <2>7 DEF next
    <3>2. \A h \in 1..(n + 1) : \E c \in A(n + 1) : Within(inc(h), c)
      BY <2>1, <2>3, <2>7, <3>1
    <3>3. upto[n + 1] \in Seq(Map) /\ Range(upto[n + 1]) = A(n + 1)
      BY <2>3, <3>1
    <3>4. Alone => IsInjective(upto[n + 1])
      BY <2>3, <3>1
    <3> QED
      BY <2>1, <3>2, <3>3, <3>4
  <2>8. CASE ~\E c \in A(n) : Within(inc(n + 1), c)
    <3>1. upto[n + 1] = Append(upto[n], inc(n + 1)) /\ A(n + 1) = A(n) \cup {inc(n + 1)}
      BY <2>2, <2>4, <2>5, <2>8 DEF next
    <3>2. Within(inc(n + 1), inc(n + 1))
      BY <2>6, WithinFacts
    <3> DEFINE x == upto[n]
               e == inc(n + 1)
    <3>3. upto[n + 1] \in Seq(Map) /\ Range(upto[n + 1]) = A(n + 1)
      <4>1. upto[n + 1] = Append(x, e) /\ x \in Seq(Map) /\ e \in Map
            /\ Range(x) = A(n) /\ A(n + 1) = A(n) \cup {e}
        BY <2>3, <2>6, <3>1
      <4> HIDE DEF x, e
      <4>2. Append(x, e) \in Seq(Map) /\ Range(Append(x, e)) = Range(x) \cup {e}
        BY <4>1, AppendProperties, RangeOf
      <4> QED
        BY <4>1, <4>2
    <3>4. \A h \in 1..(n + 1) : \E c \in A(n + 1) : Within(inc(h), c)
      BY <2>1, <2>3, <3>1, <3>2
    <3>5. inc(n + 1) \notin Range(upto[n])
      BY <2>3, <2>8, <3>2
    <3>6. Alone => IsInjective(upto[n + 1])
      <4>1. upto[n + 1] = Append(x, e) /\ x \in Seq(Map) /\ e \in Map /\ e \notin Range(x)
        BY <2>3, <2>6, <3>1, <3>5
      <4>2. Alone => IsInjective(x)
        BY <2>3
      <4> HIDE DEF x, e
      <4>3. IsInjective(x) => IsInjective(Append(x, e))
        BY <4>1, InjectiveAppend
      <4> QED
        BY <4>1, <4>2, <4>3
    <3> QED
      BY <2>1, <3>3, <3>4, <3>6
  <2> QED
    BY <2>7, <2>8
<1> HIDE DEF S
<1>12. last \in S
  <2> HIDE DEF last
  <2>1. 0..last \subseteq S
    BY <1>1, <1>10, <1>11, IntervalInduction
  <2> QED
    BY <1>1, <2>1
<1>13. A(last) = Combinations(m)
  <2>1. DOMAIN m.include = 1..last
    BY LenProperties DEF TestGiven
  <2> QED
    BY <2>1 DEF Accepted, Combinations
<1> HIDE DEF upto, A, last
<1> QED
  BY <1>9, <1>12, <1>13 DEF S
-----------------------------------------------------------------------------
(* The entries of a test. *)

EntryType == [label : Map, bindings : Map, set : Map \cup {NoSet}]

Named1(c) == Sole("name", Text(c.name))

\* An entry is a combination of the matrix, a case, or the test itself.
EntryOf(t, e) ==
    \/ t.kind = "matrix" /\ e.label \in Combinations(t.matrix) /\ e.bindings = e.label /\ e.set = NoSet
    \/ /\ t.kind = "cases"
       /\ \E c \in Range(t.cases) : e.label = Named1(c) /\ e.bindings = Over(Named1(c), c.extra) /\ e.set = c.set
    \/ t.kind = "plain" /\ e.label = Nothing /\ e.bindings = Nothing /\ e.set = NoSet

\* Nothing is written twice in the test.
ApartIn(t) ==
    /\ \A k \in DOMAIN t.matrix.axes : IsInjective(t.matrix.axes[k])
    /\ IsInjective([i \in DOMAIN t.cases |-> t.cases[i].name])

LabelsDiffer(entries) == \A i, j \in DOMAIN entries : entries[i].label = entries[j].label => i = j

LEMMA EntriesAre ==
  ASSUME NEW t, TestGiven(t), NEW order \in Seq(Key), IsInjective(order),
         t.kind = "matrix" => DOMAIN t.matrix.axes \subseteq Range(order)
  PROVE  /\ Entries(t, order) \in Seq(EntryType)
         /\ \A e \in Range(Entries(t, order)) : EntryOf(t, e)
         /\ {e.label : e \in Range(Entries(t, order))} = Labels(t)
         /\ ApartIn(t) => LabelsDiffer(Entries(t, order))
<1> DEFINE es == Entries(t, order)
<1>1. CASE t.kind = "matrix"
  <2> DEFINE x == Expand(t.matrix, order)
             entry(l) == [label |-> l, bindings |-> l, set |-> NoSet]
  <2>1. /\ x \in Seq(Map) /\ Range(x) = Combinations(t.matrix)
        /\ ApartIn(t) => IsInjective(x)
    BY <1>1, ExpandIs DEF ApartIn
  <2>2. es = [i \in DOMAIN x |-> entry(x[i])]
    BY <1>1 DEF Entries
  <2> HIDE DEF x, es
  <2>3. DOMAIN x = 1..Len(x) /\ Len(x) \in Nat /\ \A i \in 1..Len(x) : x[i] \in Map
    BY <2>1, LenProperties, ElementOfSeq
  <2>4. es \in [1..Len(x) -> EntryType]
    BY <2>2, <2>3 DEF EntryType
  <2>5. es \in Seq(EntryType)
    BY <2>3, <2>4, SeqDef
  <2>6. DOMAIN es = DOMAIN x /\ \A i \in DOMAIN x : es[i] = entry(x[i]) /\ es[i].label = x[i]
    BY <2>2
  <2> HIDE DEF entry
  <2>7. \A e \in Range(es) : EntryOf(t, e)
    <3>1. \A l \in Combinations(t.matrix) : EntryOf(t, entry(l))
      BY <1>1 DEF EntryOf, entry
    <3> QED
      BY <2>1, <2>6, <3>1 DEF Range
  <2>8. {e.label : e \in Range(es)} = Labels(t)
    <3>1. Labels(t) = Range(x)
      BY <1>1, <2>1 DEF Labels
    <3> QED
      BY <2>6, <3>1 DEF Range
  <2>9. ApartIn(t) => LabelsDiffer(es)
    BY <2>1, <2>6 DEF LabelsDiffer, IsInjective
  <2> QED
    BY <2>5, <2>7, <2>8, <2>9 DEF es
<1>2. CASE t.kind = "cases"
  <2> DEFINE cs == t.cases
             entry(c) == [label |-> Named1(c), bindings |-> Over(Named1(c), c.extra), set |-> c.set]
  <2>1. /\ DOMAIN cs = 1..Len(cs) /\ Len(cs) \in Nat
        /\ \A i \in 1..Len(cs) : /\ cs[i].extra \in Map /\ cs[i].set \in Map \cup {NoSet}
                                 /\ Text(cs[i].name) \in Value
    <3> DEFINE C == [name : STRING, set : Map \cup {NoSet}, extra : Map]
    <3>1. cs \in Seq(C) /\ \A i \in DOMAIN cs : Text(cs[i].name) \in Value
      BY DEF TestGiven
    <3>2. \A c \in C : c.extra \in Map /\ c.set \in Map \cup {NoSet}
      OBVIOUS
    <3> HIDE DEF cs, C
    <3>3. DOMAIN cs = 1..Len(cs) /\ Len(cs) \in Nat /\ \A i \in 1..Len(cs) : cs[i] \in C
      BY <3>1, LenProperties, ElementOfSeq
    <3> QED
      BY <3>1, <3>2, <3>3
  <2>2. es = [i \in DOMAIN cs |-> entry(cs[i])]
    BY <1>2 DEF Entries, Named1
  <2>3. \A i \in 1..Len(cs) : Named1(cs[i]) \in Map /\ Over(Named1(cs[i]), cs[i].extra) \in Map
    BY <2>1, SoleIs, OverIs, MapAssumption DEF Named1
  <2> HIDE DEF cs, es
  <2>4. es \in [1..Len(cs) -> EntryType]
    BY <2>1, <2>2, <2>3 DEF EntryType
  <2>5. es \in Seq(EntryType)
    BY <2>1, <2>4, SeqDef
  <2>6. DOMAIN es = DOMAIN cs /\ \A i \in DOMAIN cs : es[i] = entry(cs[i]) /\ es[i].label = Named1(cs[i])
    BY <2>2
  <2>7. \A e \in Range(es) : EntryOf(t, e)
    <3>1. \A c \in Range(cs) : EntryOf(t, entry(c))
      BY <1>2 DEF EntryOf, cs
    <3> HIDE DEF entry
    <3> QED
      BY <2>6, <3>1 DEF Range
  <2> HIDE DEF entry
  <2>8. {e.label : e \in Range(es)} = Labels(t)
    <3>1. Labels(t) = {Named1(c) : c \in Range(cs)}
      BY <1>2 DEF Labels, Named1, cs
    <3> QED
      BY <2>6, <3>1 DEF Range
  <2>9. ASSUME ApartIn(t) PROVE LabelsDiffer(es)
    <3> SUFFICES ASSUME NEW i \in DOMAIN cs, NEW j \in DOMAIN cs, Named1(cs[i]) = Named1(cs[j]) PROVE i = j
      BY <2>6 DEF LabelsDiffer
    <3>1. Text(cs[i].name) = Text(cs[j].name)
      <4>1. Named1(cs[i])["name"] = Text(cs[i].name) /\ Named1(cs[j])["name"] = Text(cs[j].name)
        BY <2>1, SoleIs, MapAssumption DEF Named1
      <4> QED
        BY <4>1
    <3>2. cs[i].name = cs[j].name
      BY <3>1 DEF Text
    <3> QED
      BY <2>9, <3>2 DEF ApartIn, IsInjective, cs
  <2> QED
    BY <2>5, <2>7, <2>8, <2>9 DEF es
<1>3. CASE t.kind = "plain"
  <2> DEFINE one == [label |-> Nothing, bindings |-> Nothing, set |-> NoSet]
  <2>1. es = <<one>>
    BY <1>3 DEF Entries
  <2>2. one \in EntryType
    BY MapFacts DEF EntryType
  <2>3. es \in Seq(EntryType)
    BY <2>1, <2>2
  <2>4. DOMAIN es = {1} /\ es[1] = one
    BY <2>1
  <2> HIDE DEF es
  <2>5. Range(es) = {one}
    BY <2>4 DEF Range
  <2>6. EntryOf(t, one)
    BY <1>3 DEF EntryOf
  <2>7. {e.label : e \in Range(es)} = Labels(t)
    BY <1>3, <2>5 DEF Labels
  <2>8. LabelsDiffer(es)
    BY <2>4 DEF LabelsDiffer
  <2> HIDE DEF one
  <2> QED
    BY <2>3, <2>5, <2>6, <2>7, <2>8 DEF es
<1> QED
  BY <1>1, <1>2, <1>3 DEF TestGiven
-----------------------------------------------------------------------------
(* The tests of a suite. *)

Job(tests) == [test : Range(tests), entry : EntryType]

JobName(job) == <<job.test, job.entry.label>>

ApartTests(tests) == IsInjective(tests) /\ \A t \in Range(tests) : ApartIn(t)

LEMMA JobsAre ==
  ASSUME NEW tests, tests \in Seq(Range(tests)), \A t \in Range(tests) : TestGiven(t), NEW order \in Orders(tests)
  PROVE  /\ Jobs(tests, order) \in Seq(Job(tests))
         /\ \A job \in Range(Jobs(tests, order)) : /\ EntryOf(job.test, job.entry)
                                                   /\ job.entry \in Range(Entries(job.test, order))
         /\ {JobName(job) : job \in Range(Jobs(tests, order))} =
               UNION {{<<t, l>> : l \in Labels(t)} : t \in Range(tests)}
         /\ ApartTests(tests) =>
               \A i, j \in DOMAIN Jobs(tests, order) :
                  JobName(Jobs(tests, order)[i]) = JobName(Jobs(tests, order)[j]) => i = j
<1> DEFINE es(t)  == Entries(t, order)
           row(i) == [j \in DOMAIN es(tests[i]) |-> [test |-> tests[i], entry |-> es(tests[i])[j]]]
           ss     == [i \in DOMAIN tests |-> row(i)]
           jobs   == Jobs(tests, order)
<1>1. jobs = FlattenSeq(ss)
  BY DEF Jobs
<1>2. /\ DOMAIN tests = 1..Len(tests) /\ Len(tests) \in Nat
      /\ \A i \in 1..Len(tests) : tests[i] \in Range(tests)
  BY LenProperties DEF Range
<1>3. ASSUME NEW t \in Range(tests)
      PROVE  /\ es(t) \in Seq(EntryType)
             /\ \A e \in Range(es(t)) : EntryOf(t, e)
             /\ {e.label : e \in Range(es(t))} = Labels(t)
             /\ ApartIn(t) => LabelsDiffer(es(t))
  <2>1. /\ order \in Seq(Key) /\ IsInjective(order)
        /\ t.kind = "matrix" => DOMAIN t.matrix.axes \subseteq Range(order)
    BY OrderTakesAll
  <2> QED
    BY <2>1, EntriesAre
<1> HIDE DEF es, jobs
<1>4. ASSUME NEW i \in 1..Len(tests)
      PROVE  /\ row(i) \in Seq(Job(tests)) /\ DOMAIN row(i) = DOMAIN es(tests[i])
             /\ \A j \in DOMAIN row(i) : /\ row(i)[j] = [test |-> tests[i], entry |-> es(tests[i])[j]]
                                         /\ row(i)[j].test = tests[i]
                                         /\ row(i)[j].entry = es(tests[i])[j]
  <2> DEFINE n == Len(es(tests[i]))
  <2>1. tests[i] \in Range(tests) /\ es(tests[i]) \in Seq(EntryType)
    BY <1>2, <1>3
  <2>2. DOMAIN es(tests[i]) = 1..n /\ n \in Nat /\ \A j \in 1..n : es(tests[i])[j] \in EntryType
    BY <2>1, LenProperties, ElementOfSeq
  <2>3. row(i) \in [1..n -> Job(tests)]
    BY <2>1, <2>2 DEF Job
  <2>4. row(i) \in Seq(Job(tests))
    <3> HIDE DEF row, n
    <3> QED
      BY <2>2, <2>3, SeqDef
  <2> QED
    BY <2>4
<1> HIDE DEF row
<1>5. ss \in Seq(Seq(Job(tests))) /\ DOMAIN ss = 1..Len(tests) /\ \A i \in 1..Len(tests) : ss[i] = row(i)
  <2>1. ss \in [1..Len(tests) -> Seq(Job(tests))]
    BY <1>2, <1>4
  <2>2. ss \in Seq(Seq(Job(tests)))
    <3> HIDE DEF ss
    <3> QED
      BY <1>2, <2>1, SeqDef
  <2> QED
    BY <1>2, <2>2
<1> HIDE DEF ss
<1>6. jobs \in Seq(Job(tests)) /\ Range(jobs) = UNION {Range(row(i)) : i \in 1..Len(tests)}
  <2>1. /\ FlattenSeq(ss) \in Seq(Job(tests))
        /\ Range(FlattenSeq(ss)) = UNION {Range(ss[i]) : i \in DOMAIN ss}
    BY <1>5, Flattened
  <2> QED
    BY <1>1, <1>5, <2>1
<1>7. ASSUME NEW job \in Range(jobs)
      PROVE  job.test \in Range(tests) /\ job.entry \in Range(es(job.test))
  <2>1. PICK i \in 1..Len(tests) : job \in Range(row(i))
    BY <1>6
  <2>2. PICK j \in DOMAIN row(i) : job = row(i)[j]
    BY <2>1 DEF Range
  <2>3. job.test = tests[i] /\ job.entry = es(tests[i])[j] /\ j \in DOMAIN es(tests[i])
    BY <1>4, <2>2
  <2> QED
    BY <1>2, <2>3 DEF Range
<1>8. ASSUME NEW t \in Range(tests), NEW e \in Range(es(t))
      PROVE  \E job \in Range(jobs) : job.test = t /\ job.entry = e
  <2>1. PICK i \in 1..Len(tests) : t = tests[i]
    BY <1>2 DEF Range
  <2>2. PICK j \in DOMAIN es(t) : e = es(t)[j]
    BY DEF Range
  <2>3. j \in DOMAIN row(i) /\ row(i)[j].test = t /\ row(i)[j].entry = e
    BY <1>4, <2>1, <2>2
  <2>4. row(i)[j] \in Range(jobs)
    <3>1. row(i)[j] \in Range(row(i))
      BY <2>3 DEF Range
    <3> QED
      BY <1>6, <3>1
  <2> QED
    BY <2>3, <2>4
<1>9. \A job \in Range(jobs) : EntryOf(job.test, job.entry) /\ job.entry \in Range(es(job.test))
  BY <1>3, <1>7
<1>10. {JobName(job) : job \in Range(jobs)} = UNION {{<<t, l>> : l \in Labels(t)} : t \in Range(tests)}
  <2> DEFINE N == {JobName(job) : job \in Range(jobs)}
             L == UNION {{<<t, l>> : l \in Labels(t)} : t \in Range(tests)}
  <2>1. ASSUME NEW job \in Range(jobs) PROVE JobName(job) \in L
    <3>1. job.test \in Range(tests) /\ job.entry \in Range(es(job.test))
      BY <1>7
    <3>2. job.entry.label \in Labels(job.test)
      BY <1>3, <3>1
    <3> QED
      BY <3>1, <3>2 DEF JobName
  <2>2. ASSUME NEW t \in Range(tests), NEW l \in Labels(t) PROVE <<t, l>> \in N
    <3>1. PICK e \in Range(es(t)) : l = e.label
      BY <1>3
    <3>2. PICK job \in Range(jobs) : job.test = t /\ job.entry = e
      BY <1>8
    <3>3. JobName(job) = <<t, l>>
      BY <3>1, <3>2 DEF JobName
    <3> QED
      BY <3>3
  <2>3. N \subseteq L
    <3> HIDE DEF L
    <3> QED
      BY <2>1
  <2>4. L \subseteq N
    <3> HIDE DEF N
    <3> QED
      BY <2>2
  <2> HIDE DEF N, L
  <2>5. N = L
    BY <2>3, <2>4
  <2> QED
    BY <2>5 DEF N, L
<1>11. ASSUME ApartTests(tests), NEW i \in DOMAIN jobs, NEW j \in DOMAIN jobs, JobName(jobs[i]) = JobName(jobs[j])
       PROVE  i = j
  <2>1. ASSUME NEW k \in DOMAIN ss, NEW l \in DOMAIN ss, NEW a \in DOMAIN ss[k], NEW b \in DOMAIN ss[l],
               JobName(ss[k][a]) = JobName(ss[l][b])
        PROVE  k = l /\ a = b
    <3>1. /\ k \in 1..Len(tests) /\ l \in 1..Len(tests) /\ ss[k] = row(k) /\ ss[l] = row(l)
          /\ ss[k][a].test = tests[k] /\ ss[k][a].entry = es(tests[k])[a] /\ a \in DOMAIN es(tests[k])
          /\ ss[l][b].test = tests[l] /\ ss[l][b].entry = es(tests[l])[b] /\ b \in DOMAIN es(tests[l])
      BY <1>4, <1>5
    <3>2. tests[k] = tests[l] /\ es(tests[k])[a].label = es(tests[l])[b].label
      BY <2>1, <3>1 DEF JobName
    <3>3. k = l
      BY <1>2, <1>11, <3>1, <3>2 DEF ApartTests, IsInjective
    <3>4. LabelsDiffer(es(tests[k]))
      BY <1>2, <1>3, <1>11, <3>1 DEF ApartTests
    <3> QED
      BY <3>1, <3>2, <3>3, <3>4 DEF LabelsDiffer
  <2>2. \A k \in DOMAIN ss : IsInjective(ss[k])
    BY <2>1 DEF IsInjective
  <2>3. ASSUME NEW k \in DOMAIN ss, NEW l \in DOMAIN ss, k # l PROVE Range(ss[k]) \cap Range(ss[l]) = {}
    <3> SUFFICES ASSUME NEW a \in DOMAIN ss[k], NEW b \in DOMAIN ss[l], ss[k][a] = ss[l][b] PROVE FALSE
      BY DEF Range
    <3>1. JobName(ss[k][a]) = JobName(ss[l][b])
      OBVIOUS
    <3> QED
      BY <2>1, <2>3, <3>1
  <2>4. IsInjective(jobs)
    BY <1>1, <1>5, <2>2, <2>3, Flattened
  <2>5. jobs[i] \in Range(jobs) /\ jobs[j] \in Range(jobs)
    BY DEF Range
  <2>6. PICK k \in 1..Len(tests) : jobs[i] \in Range(row(k))
    BY <1>6, <2>5
  <2>7. PICK l \in 1..Len(tests) : jobs[j] \in Range(row(l))
    BY <1>6, <2>5
  <2>8. PICK a \in DOMAIN ss[k] : jobs[i] = ss[k][a]
    BY <1>5, <2>6 DEF Range
  <2>9. PICK b \in DOMAIN ss[l] : jobs[j] = ss[l][b]
    BY <1>5, <2>7 DEF Range
  <2>10. k = l /\ a = b
    <3>1. JobName(ss[k][a]) = JobName(ss[l][b]) /\ k \in DOMAIN ss /\ l \in DOMAIN ss
      BY <1>5, <1>11, <2>8, <2>9
    <3> QED
      BY <2>1, <3>1
  <2>11. jobs[i] = jobs[j]
    BY <2>8, <2>9, <2>10
  <2> QED
    BY <2>4, <2>11 DEF IsInjective
<1> QED
  BY <1>6, <1>9, <1>10, <1>11 DEF jobs, es
-----------------------------------------------------------------------------
(* What expandTests returns. *)

\* The map that a test starts from, and the one it ends up with.
Base(t, defaults) == IF t.set = NoSet THEN defaults ELSE t.set

SetOf(t, e, defaults) ==
    LET base == Base(t, defaults)
        mine == IF base = NoSet THEN NoSet ELSE Interpolate(base, e.bindings)
    IN  IF t.kind = "plain" THEN Merged(t, defaults)
        ELSE IF e.set = NoSet THEN mine
        ELSE IF mine = NoSet THEN e.set ELSE Over(e.set, mine)

\* Every reference in the map is to something bound.
Sound(t, e, defaults) ==
    t.kind # "plain" /\ Base(t, defaults) # NoSet =>
        \A k \in DOMAIN Base(t, defaults) : Resolves(Base(t, defaults)[k], e.bindings)

LEMMA InterpolateIs ==
  ASSUME NEW set \in Map, NEW bindings \in Map, \A k \in DOMAIN set : Resolves(set[k], bindings)
  PROVE  Interpolate(set, bindings) \in Map
<1>1. \A k \in DOMAIN set : Filled(set[k], bindings) \in Value
  BY MapFacts DEF Resolves, Filled
<1>2. Interpolate(set, bindings) \in [DOMAIN set -> Value]
  BY <1>1 DEF Interpolate
<1>3. DOMAIN set \in SUBSET Key
  BY MapFacts
<1> QED
  BY <1>2, <1>3, MapFacts

\* The map of the defaults stays as it is.
LEMMA AddEntryIs ==
  ASSUME NEW t, TestGiven(t), NEW e \in EntryType, NEW defaults \in Map \cup {NoSet}, Sound(t, e, defaults),
         NEW acc, acc.shared = defaults
  PROVE  /\ AddEntry(acc, t, e, defaults) =
               [tests  |-> Append(acc.tests, [test |-> t, label |-> e.label, bindings |-> e.bindings,
                                              set |-> SetOf(t, e, defaults)]),
                shared |-> defaults]
         /\ SetOf(t, e, defaults) \in Map \cup {NoSet, Shared}
         /\ SetOf(t, e, defaults) = Shared => t.kind = "plain" /\ t.set = NoSet /\ defaults \in Map
<1> DEFINE set  == Merged(t, defaults)
           base == Base(t, defaults)
           copy == Copied(set, acc.shared)
           mine == IF base = NoSet THEN NoSet ELSE Interpolate(base, e.bindings)
           both == IF t.kind = "plain" THEN [set |-> set, shared |-> acc.shared]
                   ELSE CaseMerged(mine, e.set, acc.shared)
<1>1. t.set \in Map \cup {NoSet} /\ e.set \in Map \cup {NoSet} /\ e.bindings \in Map
  BY DEF TestGiven, EntryType
<1>2. base \in Map \cup {NoSet} /\ copy = base /\ copy # Shared
  BY <1>1, MapAssumption DEF Base, Copied, Merged
<1>3. t.kind # "plain" => mine \in Map \cup {NoSet}
  <2> HIDE DEF base
  <2> QED
    BY <1>1, <1>2, InterpolateIs DEF Sound, base
<1>4. AddEntry(acc, t, e, defaults) =
         [tests  |-> Append(acc.tests, [test |-> t, label |-> e.label, bindings |-> e.bindings, set |-> both.set]),
          shared |-> both.shared]
  <2>1. (IF copy \in {NoSet, Shared} THEN copy ELSE Interpolate(copy, e.bindings)) = mine
    <3> HIDE DEF base, copy
    <3> QED
      BY <1>2
  <2> HIDE DEF mine
  <2> QED
    BY <2>1 DEF AddEntry
<1>5. SetOf(t, e, defaults) = IF t.kind = "plain" THEN set ELSE IF e.set = NoSet THEN mine
                              ELSE IF mine = NoSet THEN e.set ELSE Over(e.set, mine)
  BY DEF SetOf
<1>6. /\ set \in Map \cup {NoSet, Shared}
      /\ set = Shared => t.set = NoSet /\ defaults \in Map
  BY <1>1, MapAssumption DEF Merged
<1> HIDE DEF set, base, copy, mine
<1>7. CASE t.kind = "plain"
  BY <1>4, <1>5, <1>6, <1>7
<1>8. CASE t.kind # "plain"
  <2>1. both = CaseMerged(mine, e.set, defaults) /\ mine \in Map \cup {NoSet} /\ mine # Shared
    BY <1>3, <1>8, MapAssumption
  <2>2. SetOf(t, e, defaults) = IF e.set = NoSet THEN mine
                                ELSE IF mine = NoSet THEN e.set ELSE Over(e.set, mine)
    BY <1>5, <1>8
  <2>3. both.set = SetOf(t, e, defaults) /\ both.shared = defaults
    BY <2>1, <2>2 DEF CaseMerged
  <2>4. SetOf(t, e, defaults) \in Map \cup {NoSet}
    BY <1>1, <2>1, <2>2, OverMaybe
  <2> QED
    BY <1>4, <2>3, <2>4, MapAssumption
<1> QED
  BY <1>7, <1>8

Made(job, defaults) ==
    [test |-> job.test, label |-> job.entry.label, bindings |-> job.entry.bindings,
     set |-> SetOf(job.test, job.entry, defaults)]

LEMMA ExpandTestsIs ==
  ASSUME NEW tests, tests \in Seq(Range(tests)), \A t \in Range(tests) : TestGiven(t), NEW order \in Orders(tests),
         NEW defaults \in Map \cup {NoSet},
         \A job \in Range(Jobs(tests, order)) : Sound(job.test, job.entry, defaults)
  PROVE  ExpandTests(tests, defaults, order) =
            [tests  |-> [i \in DOMAIN Jobs(tests, order) |-> Made(Jobs(tests, order)[i], defaults)],
             shared |-> defaults]
<1> DEFINE jobs == Jobs(tests, order)
           m    == Len(jobs)
           T    == {Made(jobs[i], defaults) : i \in 1..m}
           made(n) == [i \in 1..n |-> Made(jobs[i], defaults)]
           acc(n)  == [tests |-> made(n), shared |-> defaults]
           next(x, n) == AddEntry(x, jobs[n].test, jobs[n].entry, defaults)
           P(g) == g = [n \in 0..m |-> IF n = 0 THEN [tests |-> <<>>, shared |-> defaults] ELSE next(g[n - 1], n)]
           upto == CHOOSE g : P(g)
<1>1. jobs \in Seq(Job(tests))
  BY JobsAre
<1>2. ExpandTests(tests, defaults, order) = upto[m]
  BY DEF ExpandTests
<1> HIDE DEF jobs
<1>3. /\ DOMAIN jobs = 1..m /\ m \in Nat
      /\ \A n \in 1..m : /\ jobs[n] \in Range(jobs) /\ jobs[n].test \in Range(tests)
                         /\ jobs[n].entry \in EntryType /\ TestGiven(jobs[n].test)
                         /\ Sound(jobs[n].test, jobs[n].entry, defaults)
  <2>1. DOMAIN jobs = 1..m /\ m \in Nat /\ \A n \in 1..m : jobs[n] \in Job(tests)
    BY <1>1, LenProperties, ElementOfSeq
  <2>2. \A n \in 1..m : jobs[n] \in Range(jobs)
    BY <2>1 DEF Range
  <2>3. \A n \in 1..m : jobs[n].test \in Range(tests) /\ jobs[n].entry \in EntryType
    BY <2>1 DEF Job
  <2>4. \A job \in Range(jobs) : Sound(job.test, job.entry, defaults)
    BY DEF jobs
  <2> QED
    BY <2>1, <2>2, <2>3, <2>4
<1> HIDE DEF m
<1>4. ASSUME NEW n \in 0..m PROVE made(n) \in Seq(T) /\ Len(made(n)) = n
  <2>1. \A i \in 1..n : i \in 1..m
    BY <1>3
  <2>2. made(n) \in [1..n -> T]
    BY <2>1
  <2>3. n \in Nat
    BY <1>3
  <2> HIDE DEF made, T
  <2>4. made(n) \in Seq(T)
    BY <2>2, <2>3, SeqDef
  <2>5. DOMAIN made(n) = 1..n
    BY <2>2
  <2> QED
    BY <2>3, <2>4, <2>5, LenProperties
<1>5. ASSUME NEW n \in 1..m PROVE next(acc(n - 1), n) = acc(n)
  <2>1. n - 1 \in 0..m /\ (n - 1) + 1 = n /\ n \in 0..m /\ \A i : i \in 1..n <=> i \in 1..(n - 1) \/ i = n
    BY <1>3
  <2>2. acc(n - 1).shared = defaults /\ acc(n - 1).tests = made(n - 1)
    OBVIOUS
  <2>3. Append(made(n - 1), Made(jobs[n], defaults)) = made(n)
    <3> DEFINE s == made(n - 1)
               e == Made(jobs[n], defaults)
    <3>1. s \in Seq(T) /\ Len(s) = n - 1 /\ e \in T
      BY <1>4, <2>1
    <3>2. \A i \in 1..(n - 1) : s[i] = made(n)[i]
      BY <2>1
    <3>3. made(n)[n] = e
      BY <2>1
    <3>4. made(n) \in Seq(T) /\ Len(made(n)) = n
      BY <1>4, <2>1
    <3> HIDE DEF s, e, T, made
    <3>5. /\ Append(s, e) \in Seq(T) /\ Len(Append(s, e)) = n
          /\ \A i \in 1..(n - 1) : Append(s, e)[i] = s[i]
          /\ Append(s, e)[n] = e
      BY <2>1, <3>1, AppendProperties
    <3>6. \A i \in 1..n : Append(s, e)[i] = made(n)[i]
      BY <2>1, <3>2, <3>3, <3>5
    <3>7. Append(s, e) = made(n)
      BY <3>4, <3>5, <3>6, SeqEqual
    <3> QED
      BY <3>7 DEF s, e
  <2> HIDE DEF acc, made
  <2>4. next(acc(n - 1), n) =
           [tests  |-> Append(acc(n - 1).tests, Made(jobs[n], defaults)), shared |-> defaults]
    BY <1>3, <2>2, AddEntryIs DEF Made
  <2> QED
    BY <2>2, <2>3, <2>4 DEF acc
<1>6. made(0) = <<>>
  <2>1. made(0) \in Seq(T) /\ Len(made(0)) = 0
    BY <1>3, <1>4
  <2> HIDE DEF made
  <2> QED
    BY <2>1, EmptySeq
<1> HIDE DEF next
<1>7. \E g : P(g)
  <2> DEFINE g == [n \in 0..m |-> acc(n)]
  <2>1. ASSUME NEW n \in 0..m, n # 0 PROVE g[n] = next(g[n - 1], n)
    <3>1. n \in 1..m /\ n - 1 \in 0..m
      BY <1>3, <2>1
    <3> HIDE DEF acc
    <3> QED
      BY <1>5, <3>1
  <2>2. 0 \in 0..m => g[0] = [tests |-> <<>>, shared |-> defaults]
    BY <1>6
  <2>3. \A n \in 0..m : g[n] = IF n = 0 THEN [tests |-> <<>>, shared |-> defaults] ELSE next(g[n - 1], n)
    <3> HIDE DEF g
    <3> QED
      BY <2>1, <2>2
  <2>4. g = [n \in 0..m |-> IF n = 0 THEN [tests |-> <<>>, shared |-> defaults] ELSE next(g[n - 1], n)]
    <3>1. g = [n \in 0..m |-> g[n]]
      OBVIOUS
    <3> HIDE DEF g
    <3> QED
      BY <2>3, <3>1
  <2> HIDE DEF g
  <2> QED
    BY <2>4
<1>8. P(upto)
  <2> HIDE DEF P
  <2> QED
    BY <1>7
<1> DEFINE S == {n \in 0..m : upto[n] = acc(n)}
<1>9. 0 \in S
  <2>1. 0 \in 0..m /\ upto[0] = [tests |-> <<>>, shared |-> defaults]
    <3> HIDE DEF upto
    <3> QED
      BY <1>3, <1>8
  <2> HIDE DEF upto
  <2> QED
    BY <1>6, <2>1
<1>10. ASSUME NEW n \in 0..(m - 1), n \in S PROVE n + 1 \in S
  <2>1. n + 1 \in 1..m /\ n + 1 \in 0..m /\ (n + 1) - 1 = n /\ n + 1 # 0
    BY <1>3
  <2> HIDE DEF upto, acc
  <2>2. upto[n + 1] = next(upto[n], n + 1)
    BY <1>8, <2>1
  <2>3. next(acc((n + 1) - 1), n + 1) = acc(n + 1)
    BY <1>5, <2>1
  <2>4. upto[n] = acc(n)
    BY <1>10
  <2> QED
    BY <2>1, <2>2, <2>3, <2>4
<1> HIDE DEF S
<1>11. m \in S
  <2>1. 0..m \subseteq S
    BY <1>3, <1>9, <1>10, IntervalInduction
  <2> QED
    BY <1>3, <2>1
<1>12. upto[m] = acc(m)
  BY <1>11 DEF S
<1> HIDE DEF upto
<1> QED
  BY <1>2, <1>3, <1>12 DEF jobs
-----------------------------------------------------------------------------
(* What loading a file comes to. *)

ValuesOf(s, et) == CASE et.set = NoSet -> Nothing [] et.set = Shared -> s.defaults [] OTHER -> et.set

ExpandedOf(s) == [test : Range(s.tests), label : Map, bindings : Map, set : Map \cup {NoSet, Shared}]

Loaded(s, load) ==
    /\ Parses(s) /\ load.shared = s.defaults
    /\ load.tests \in Seq(ExpandedOf(s))
    /\ {Which(et) : et \in Range(load.tests)} = Due(s)
    /\ Apart(s) => \A i, j \in DOMAIN load.tests : Which(load.tests[i]) = Which(load.tests[j]) => i = j
    /\ \A et \in Range(load.tests) : ValuesOf(s, et) \in Map /\ ValuesOf(s, et) \in Promised(s, et.test, et.label)

LEMMA NothingFilled ==
  /\ \A b : Interpolate(Nothing, b) = Nothing
  /\ \A f \in Map : Over(f, Nothing) = f
<1>1. ASSUME NEW b PROVE Interpolate(Nothing, b) = Nothing
  <2>1. Interpolate(Nothing, b) \in [{} -> Value] /\ DOMAIN Interpolate(Nothing, b) = {}
    BY MapFacts DEF Interpolate
  <2>2. Interpolate(Nothing, b) \in Map
    BY <2>1, MapFacts
  <2> QED
    BY <2>1, <2>2, MapFacts, SameMap
<1>2. ASSUME NEW f \in Map PROVE Over(f, Nothing) = f
  <2>1. PICK e \in Map : e = Nothing /\ DOMAIN e = {}
    BY MapFacts
  <2>2. Over(f, e) \in Map /\ DOMAIN Over(f, e) = DOMAIN f /\ \A k \in DOMAIN f : Over(f, e)[k] = f[k]
    <3>1. /\ Over(f, e) \in Map /\ DOMAIN Over(f, e) = DOMAIN f \cup DOMAIN e
          /\ \A k \in DOMAIN f : Over(f, e)[k] = f[k]
      BY OverIs
    <3> QED
      BY <2>1, <3>1
  <2>3. Over(f, e) = f
    BY <2>2, SameMap
  <2> QED
    BY <2>1, <2>3
<1> QED
  BY <1>1, <1>2

\* A test runs with the values that it is promised.
LEMMA PromiseKept ==
  ASSUME NEW s, s.defaults \in Map \cup {NoSet}, NEW t, TestGiven(t), NEW e \in EntryType, EntryOf(t, e),
         Sound(t, e, s.defaults),
         NEW et, et.set = SetOf(t, e, s.defaults)
  PROVE  ValuesOf(s, et) \in Map /\ ValuesOf(s, et) \in Promised(s, t, e.label)
<1> DEFINE d == s.defaults
           written == Base(t, d)
           base == IF t.set # NoSet THEN t.set ELSE IF d # NoSet THEN d ELSE Nothing
<1>1. t.set \in Map \cup {NoSet} /\ e.set \in Map \cup {NoSet} /\ e.bindings \in Map
  BY DEF TestGiven, EntryType
<1>2. /\ written \in Map \cup {NoSet}
      /\ base = IF written = NoSet THEN Nothing ELSE written
      /\ base \in Map
  BY <1>1, MapFacts DEF Base
<1>3. CASE t.kind = "plain"
  <2>1. et.set = Merged(t, d)
    BY <1>3 DEF SetOf
  <2>2. Promised(s, t, e.label) = {base}
    BY <1>3 DEF Promised
  <2>3. ValuesOf(s, et) = base
    BY <1>1, <2>1, MapAssumption DEF ValuesOf, Merged
  <2> QED
    BY <1>2, <2>2, <2>3
<1>4. CASE t.kind # "plain"
  <2> DEFINE mine == IF written = NoSet THEN NoSet ELSE Interpolate(written, e.bindings)
             whole == Interpolate(base, e.bindings)
  <2>1. et.set = IF e.set = NoSet THEN mine ELSE IF mine = NoSet THEN e.set ELSE Over(e.set, mine)
    BY <1>4 DEF SetOf
  <2>2. whole \in Map /\ whole = IF mine = NoSet THEN Nothing ELSE mine
    <3>1. CASE written = NoSet
      BY <1>2, <3>1, NothingFilled, MapFacts
    <3>2. CASE written # NoSet
      <4>1. written \in Map /\ \A k \in DOMAIN written : Resolves(written[k], e.bindings)
        BY <1>2, <1>4, <3>2 DEF Sound
      <4> HIDE DEF written, base
      <4>2. Interpolate(written, e.bindings) \in Map
        BY <1>1, <4>1, InterpolateIs
      <4> QED
        BY <1>2, <3>2, <4>2, MapAssumption
    <3> QED
      BY <3>1, <3>2
  <2>3. mine \in Map \cup {NoSet}
    BY <2>2
  <2> HIDE DEF mine, whole
  <2>4. et.set \in Map \cup {NoSet}
    BY <1>1, <2>1, <2>3, OverMaybe
  <2>5. ValuesOf(s, et) = IF e.set = NoSet THEN whole ELSE Over(e.set, whole)
    <3>1. ValuesOf(s, et) = IF et.set = NoSet THEN Nothing ELSE et.set
      BY <2>4, MapAssumption DEF ValuesOf
    <3>2. CASE e.set = NoSet
      BY <2>1, <2>2, <3>1, <3>2
    <3>3. CASE e.set # NoSet /\ mine = NoSet
      <4>1. et.set = e.set /\ whole = Nothing /\ e.set \in Map
        BY <1>1, <2>1, <2>2, <3>3
      <4> QED
        BY <3>1, <3>3, <4>1, NothingFilled
    <3>4. CASE e.set # NoSet /\ mine # NoSet
      <4>1. et.set = Over(e.set, mine) /\ whole = mine /\ e.set \in Map /\ mine \in Map
        BY <1>1, <2>1, <2>2, <2>3, <3>4
      <4>2. et.set \in Map
        BY <4>1, OverIs
      <4> QED
        BY <3>1, <3>4, <4>1, <4>2, MapAssumption
    <3> QED
      BY <3>2, <3>3, <3>4
  <2>6. ValuesOf(s, et) \in Map
    <3>1. \A f, g \in Map : Over(f, g) \in Map
      BY OverIs
    <3> HIDE DEF written, base
    <3> QED
      BY <1>1, <2>2, <2>5, <3>1
  <2>7. CASE t.kind = "matrix"
    <3>1. e.bindings = e.label /\ e.set = NoSet
      BY <2>7 DEF EntryOf
    <3>2. Promised(s, t, e.label) = {whole}
      BY <2>7, <3>1 DEF Promised, whole
    <3> QED
      BY <2>5, <2>6, <3>1, <3>2
  <2>8. CASE t.kind = "cases"
    <3> DEFINE filled(c) == Interpolate(base, Over(e.label, c.extra))
               due(c) == IF c.set = NoSet THEN filled(c) ELSE Over(c.set, filled(c))
    <3>1. PICK c \in Range(t.cases) : e.label = Named1(c) /\ e.bindings = Over(Named1(c), c.extra) /\ e.set = c.set
      BY <2>8 DEF EntryOf
    <3>2. Promised(s, t, e.label) = {due(x) : x \in {y \in Range(t.cases) : e.label = Sole("name", Text(y.name))}}
      BY <2>8 DEF Promised
    <3>3. filled(c) = whole
      BY <3>1 DEF whole
    <3>4. e.label = Sole("name", Text(c.name))
      BY <3>1 DEF Named1
    <3> HIDE DEF filled
    <3>5. due(c) = ValuesOf(s, et)
      BY <2>5, <3>1, <3>3
    <3> HIDE DEF due
    <3> QED
      BY <2>6, <3>2, <3>4, <3>5
  <2> QED
    BY <1>4, <2>7, <2>8 DEF TestGiven
<1> QED
  BY <1>3, <1>4

LEMMA LoadIs ==
  ASSUME NEW s \in SuiteChoices, NEW load \in Loads[s]
  PROVE  /\ load.ok \in BOOLEAN
         /\ load.ok => Loaded(s, load)
         /\ ~load.ok => load.tests = <<>>
<1> DEFINE d == s.defaults
           tests == s.tests
<1>1. /\ d \in Map \cup {NoSet} /\ tests \in Seq(Range(tests))
      /\ \A t \in Range(tests) : TestGiven(t)
  BY SuitesAssumption
<1>2. PICK order \in Orders(tests) :
         load = IF LoadFails(s, order) THEN [ok |-> FALSE, tests |-> <<>>, shared |-> NoSet]
                ELSE [ok |-> TRUE, tests |-> ExpandTests(tests, d, order).tests,
                      shared |-> ExpandTests(tests, d, order).shared]
  BY DEF Loads
<1>3. CASE LoadFails(s, order)
  BY <1>2, <1>3
<1>4. CASE ~LoadFails(s, order)
  <2> DEFINE jobs == Jobs(tests, order)
  <2>1. /\ load.ok = TRUE /\ load.tests = ExpandTests(tests, d, order).tests
        /\ load.shared = ExpandTests(tests, d, order).shared
    BY <1>2, <1>4
  <2>2. Parses(s) /\ \A i \in DOMAIN tests : ~ExpandFails(tests[i], d, order, Wanted(tests[i]))
    BY <1>4 DEF LoadFails
  <2>3. /\ jobs \in Seq(Job(tests))
        /\ \A job \in Range(jobs) : /\ EntryOf(job.test, job.entry)
                                    /\ job.entry \in Range(Entries(job.test, order))
        /\ {JobName(job) : job \in Range(jobs)} = UNION {{<<t, l>> : l \in Labels(t)} : t \in Range(tests)}
        /\ ApartTests(tests) => \A i, j \in DOMAIN jobs : JobName(jobs[i]) = JobName(jobs[j]) => i = j
    BY <1>1, JobsAre
  <2>4. /\ DOMAIN jobs = 1..Len(jobs) /\ Len(jobs) \in Nat
        /\ \A i \in 1..Len(jobs) : jobs[i] \in Job(tests) /\ jobs[i] \in Range(jobs)
        /\ \A job \in Range(jobs) : job.test \in Range(tests) /\ job.entry \in EntryType
    <3> HIDE DEF jobs
    <3>1. DOMAIN jobs = 1..Len(jobs) /\ Len(jobs) \in Nat /\ \A i \in 1..Len(jobs) : jobs[i] \in Job(tests)
      BY <2>3, LenProperties, ElementOfSeq
    <3>2. Range(jobs) \subseteq Job(tests)
      BY <2>3, RangeOf
    <3> QED
      BY <3>1, <3>2 DEF Range, Job
  <2>5. ASSUME NEW job \in Range(jobs) PROVE Sound(job.test, job.entry, d)
    <3> DEFINE t == job.test
               e == job.entry
    <3>1. t \in Range(tests) /\ e \in Range(Entries(t, order))
      BY <2>3, <2>4
    <3> HIDE DEF t, e
    <3>2. ~ExpandFails(t, d, order, Wanted(t))
      BY <2>2, <3>1 DEF Range
    <3>3. PICK i \in DOMAIN Entries(t, order) : e = Entries(t, order)[i]
      BY <3>1 DEF Range
    <3>4. ASSUME t.kind # "plain", Base(t, d) # NoSet, NEW k \in DOMAIN Base(t, d)
          PROVE  Resolves(Base(t, d)[k], e.bindings)
      BY <3>2, <3>3, <3>4 DEF ExpandFails, ValuesIn, Base
    <3>5. Sound(t, e, d)
      BY <3>4 DEF Sound
    <3> QED
      BY <3>5 DEF t, e
  <2> DEFINE made == [i \in DOMAIN jobs |-> Made(jobs[i], d)]
  <2>6. load.tests = made /\ load.shared = d
    <3>1. ExpandTests(tests, d, order) = [tests |-> made, shared |-> d]
      BY <1>1, <2>5, ExpandTestsIs
    <3> QED
      BY <2>1, <3>1
  <2> HIDE DEF jobs
  <2>7. ASSUME NEW i \in 1..Len(jobs) PROVE Made(jobs[i], d) \in ExpandedOf(s)
    <3>1. jobs[i].test \in Range(tests) /\ jobs[i].entry \in EntryType /\ Sound(jobs[i].test, jobs[i].entry, d)
      BY <2>4, <2>5
    <3>2. SetOf(jobs[i].test, jobs[i].entry, d) \in Map \cup {NoSet, Shared}
      <4> DEFINE acc == [shared |-> d]
      <4>1. acc.shared = d
        OBVIOUS
      <4> HIDE DEF acc
      <4> QED
        BY <1>1, <3>1, <4>1, AddEntryIs
    <3>3. jobs[i].entry.label \in Map /\ jobs[i].entry.bindings \in Map
      BY <3>1 DEF EntryType
    <3> QED
      BY <3>1, <3>2, <3>3 DEF ExpandedOf, Made
  <2>8. load.tests \in Seq(ExpandedOf(s))
    <3>1. made \in [1..Len(jobs) -> ExpandedOf(s)]
      BY <2>4, <2>7
    <3> HIDE DEF made
    <3> QED
      BY <2>4, <2>6, <3>1, SeqDef
  <2>9. \A job : Which(Made(job, d)) = JobName(job)
    BY DEF Which, Made, JobName
  <2>10. DOMAIN load.tests = DOMAIN jobs /\ \A i \in DOMAIN jobs : load.tests[i] = Made(jobs[i], d)
    BY <2>6
  <2>11. {Which(et) : et \in Range(load.tests)} = Due(s)
    <3>1. {Which(et) : et \in Range(load.tests)} = {JobName(job) : job \in Range(jobs)}
      BY <2>9, <2>10 DEF Range
    <3> QED
      BY <2>3, <3>1 DEF Due
  <2>12. Apart(s) => \A i, j \in DOMAIN load.tests : Which(load.tests[i]) = Which(load.tests[j]) => i = j
    <3>1. Apart(s) => ApartTests(tests)
      BY DEF Apart, ApartTests, ApartIn
    <3> QED
      BY <2>3, <2>9, <2>10, <3>1
  <2>13. ASSUME NEW et \in Range(load.tests)
         PROVE  ValuesOf(s, et) \in Map /\ ValuesOf(s, et) \in Promised(s, et.test, et.label)
    <3>1. PICK job \in Range(jobs) : et = Made(job, d)
      BY <2>10 DEF Range
    <3>2. job.test \in Range(tests) /\ job.entry \in EntryType /\ EntryOf(job.test, job.entry)
          /\ Sound(job.test, job.entry, d) /\ TestGiven(job.test)
      BY <1>1, <2>3, <2>4, <2>5
    <3>3. et.test = job.test /\ et.label = job.entry.label /\ et.set = SetOf(job.test, job.entry, d)
      BY <3>1 DEF Made
    <3> QED
      BY <1>1, <3>2, <3>3, PromiseKept
  <2> HIDE DEF made
  <2>14. Loaded(s, load)
    BY <2>2, <2>6, <2>8, <2>11, <2>12, <2>13 DEF Loaded
  <2> QED
    BY <2>1, <2>14
<1> QED
  BY <1>3, <1>4
-----------------------------------------------------------------------------
(* The inductive invariant. *)

\* What a result says of the test that it is for.
Reported(s, et, r) ==
    /\ r.test = et.test /\ r.label = et.label /\ r.values = ValuesOf(s, et)
    /\ r.status = "gated" <=> MatcherTierSkip(et.test.asserts, Active)
    /\ r.status = "pass" /\ et.test.call = "" => AssertionsPass(et, Chart(r.values))

ReportsOf(s, load) ==
    {r \in [test : Range(s.tests), label : Map, values : Map, status : {"pass", "fail", "skip", "gated"}] :
       \E et \in Range(load.tests) : Reported(s, et, r)}

\* A file that was loaded: n of its tests are behind it.
Place(f, load, n) ==
    /\ load.ok /\ shared[f] = suite[f].defaults
    /\ n \in 0..Len(load.tests)
    /\ expanded[f] \in Seq(ExpandedOf(suite[f])) /\ Len(expanded[f]) = Len(load.tests) - n
    /\ \A i \in 1..Len(expanded[f]) : expanded[f][i] = load.tests[n + i]
    /\ stage[f] = "done" => expanded[f] = <<>>
    /\ results[f] \in Seq(ReportsOf(suite[f], load))
    /\ flags.match = AnyName =>
          Len(results[f]) = n /\ \A i \in 1..n : Which(results[f][i]) = Which(load.tests[i])

InWork(f) ==
    /\ stage[f] \in {"running", "done"} /\ ~fileErr[f]
    /\ \E load \in Loads[suite[f]] : \E n \in Nat : Place(f, load, n)

\* A file that is not loaded, or could not be, or was left out.
Untouched(f) ==
    /\ expanded[f] = <<>> /\ results[f] = <<>>
    /\ \/ stage[f] = "queued" /\ ~fileErr[f]
       \/ stage[f] = "done" /\ (fileErr[f] \/ cancelled)

FilesInv == \A f \in Files : InWork(f) \/ Untouched(f)

Typing ==
    /\ suite \in [Files -> SuiteChoices] /\ flags \in FlagChoices
    /\ main \in {"idle", "start", "running", "joined", "exited"}
    /\ todo \subseteq Files /\ cancelled \in BOOLEAN
    /\ stage \in [Files -> {"queued", "running", "done"}] /\ fileErr \in [Files -> BOOLEAN]
    /\ DOMAIN expanded = Files /\ DOMAIN shared = Files /\ DOMAIN results = Files

\* Fail-fast cancels only after a failure.
CancelInv == cancelled => \E f \in Files : FailedIn(f)

Discovered == (Named => flags.file \in Kept) /\ todo = IF Named THEN {flags.file} ELSE Kept

Phases ==
    /\ main = "idle" => todo = {}
    /\ main \in {"start", "running", "joined"} => Discovered
    /\ main \in {"idle", "start"} => \A f \in Files : stage[f] = "queued"
    /\ \A f \in Files \ todo : stage[f] = "queued"
    /\ main \in {"idle", "start", "running", "joined"} => exitCode = -1
    /\ main \in {"joined", "exited"} => Running = {}
    /\ main = "joined" => \A f \in todo : stage[f] = "done"
    /\ main = "exited" =>
          exitCode \in {2, 3} \/ (exitCode = ExitCode /\ Discovered /\ \A f \in todo : stage[f] = "done")

PoolInv == Cardinality(Running) <= Slots

RunInv == Typing /\ FilesInv /\ CancelInv /\ Phases /\ PoolInv

-----------------------------------------------------------------------------
\* An action of the main goroutine leaves the files alone.
LEMMA FileKept ==
  ASSUME NEW f \in Files, InWork(f) \/ Untouched(f),
         UNCHANGED <<suite, flags>>, cancelled => cancelled',
         stage'[f] = stage[f], expanded'[f] = expanded[f], shared'[f] = shared[f],
         results'[f] = results[f], fileErr'[f] = fileErr[f]
  PROVE  (InWork(f) \/ Untouched(f))'
<1>1. CASE Untouched(f)
  BY <1>1 DEF Untouched
<1>2. CASE InWork(f)
  BY <1>2 DEF InWork, Place
<1> QED
  BY <1>1, <1>2

LEMMA ReportIs ==
  ASSUME Typing, NEW f \in Files, NEW load, Loaded(suite[f], load), NEW et \in Range(load.tests),
         shared[f] = suite[f].defaults
  PROVE  Report(f, et) \in ReportsOf(suite[f], load) /\ Which(Report(f, et)) = Which(et)
<1> DEFINE s == suite[f]
           r == Report(f, et)
<1>1. et.test \in Range(s.tests) /\ et.label \in Map /\ ValuesOf(s, et) \in Map
  <2>1. load.tests \in Seq(ExpandedOf(s)) /\ ValuesOf(s, et) \in Map
    BY DEF Loaded
  <2>2. et \in ExpandedOf(s)
    <3> HIDE DEF s
    <3> QED
      BY <2>1, RangeOf
  <2> QED
    BY <2>1, <2>2 DEF ExpandedOf
<1>2. SetFor(f, et) = ValuesOf(s, et)
  BY DEF SetFor, ValuesOf
<1>3. /\ r.test = et.test /\ r.label = et.label /\ r.values = ValuesOf(s, et)
      /\ r.status = IF MatcherTierSkip(et.test.asserts, Active) THEN "gated" ELSE Outcome(f, et)
      /\ r = [test |-> r.test, label |-> r.label, values |-> r.values, status |-> r.status]
  BY <1>2 DEF Report
<1>4. /\ Outcome(f, et) \in {"pass", "fail", "skip"}
      /\ Outcome(f, et) = "pass" /\ et.test.call = "" => AssertionsPass(et, Chart(ValuesOf(s, et)))
  BY <1>2 DEF Outcome
<1> HIDE DEF r, s
<1>5. Reported(s, et, r)
  BY <1>3, <1>4 DEF Reported
<1>6. r \in [test : Range(s.tests), label : Map, values : Map, status : {"pass", "fail", "skip", "gated"}]
  <2>1. r.status \in {"pass", "fail", "skip", "gated"}
    BY <1>3, <1>4
  <2> QED
    BY <1>1, <1>3, <2>1
<1>7. Which(r) = Which(et)
  BY <1>3 DEF Which
<1> QED
  BY <1>5, <1>6, <1>7 DEF ReportsOf, r, s

LEMMA RunTestKeeps ==
  ASSUME RunInv, NEW f \in Files, RunTest(f)
  PROVE  (InWork(f) \/ Untouched(f))'
<1> DEFINE s == suite[f]
<1>1. stage[f] = "running" /\ expanded[f] # <<>>
  BY DEF RunTest, MoreTests
<1>2. PICK load \in Loads[s], n \in Nat : Place(f, load, n) /\ ~fileErr[f]
  BY <1>1 DEF RunInv, FilesInv, InWork, Untouched
<1>3. Loaded(s, load) /\ s \in SuiteChoices
  BY <1>2, LoadIs DEF Place, RunInv, Typing
<1>4. /\ expanded[f] \in Seq(ExpandedOf(s)) /\ Len(expanded[f]) = Len(load.tests) - n
      /\ n \in 0..Len(load.tests) /\ \A i \in 1..Len(expanded[f]) : expanded[f][i] = load.tests[n + i]
      /\ results[f] \in Seq(ReportsOf(s, load))
      /\ load.tests \in Seq(ExpandedOf(s)) /\ Len(load.tests) \in Nat
      /\ DOMAIN load.tests = 1..Len(load.tests)
  BY <1>2, <1>3, LenProperties DEF Place, Loaded
<1> DEFINE et == Head(expanded[f])
           r  == Report(f, et)
<1>5. /\ et = expanded[f][1] /\ Tail(expanded[f]) \in Seq(ExpandedOf(s))
      /\ Len(Tail(expanded[f])) = Len(expanded[f]) - 1
      /\ \A i \in 1..Len(Tail(expanded[f])) : Tail(expanded[f])[i] = expanded[f][i + 1]
      /\ Len(expanded[f]) \in Nat \ {0}
  <2> DEFINE x == expanded[f]
  <2>1. x \in Seq(ExpandedOf(s)) /\ x # <<>> /\ et = Head(x)
    BY <1>1, <1>4
  <2> HIDE DEF x, et
  <2>2. /\ Head(x) = x[1] /\ Tail(x) \in Seq(ExpandedOf(s)) /\ Len(Tail(x)) = Len(x) - 1
        /\ \A i \in 1..Len(Tail(x)) : Tail(x)[i] = x[i + 1]
    BY <2>1, HeadTailProperties
  <2>3. Len(x) \in Nat /\ Len(x) # 0
    BY <2>1, LenProperties, EmptySeq
  <2> QED
    BY <2>1, <2>2, <2>3 DEF x
<1>6. et = load.tests[n + 1] /\ n + 1 \in 1..Len(load.tests)
  BY <1>4, <1>5
<1>7. r \in ReportsOf(s, load) /\ Which(r) = Which(et)
  <2>1. et \in Range(load.tests)
    BY <1>4, <1>6 DEF Range
  <2> QED
    BY <1>2, <1>3, <2>1, ReportIs DEF Place, RunInv
<1> HIDE DEF et, r
<1>8. /\ UNCHANGED <<suite, flags, stage, cancelled, shared, fileErr>>
      /\ expanded' = [expanded EXCEPT ![f] = Tail(expanded[f])]
      /\ results' = IF flags.match # AnyName /\ DisplayName(et) \notin flags.match THEN results
                    ELSE [results EXCEPT ![f] = Append(results[f], r)]
  BY DEF RunTest, et, r
<1>9. expanded'[f] = Tail(expanded[f])
  BY <1>8 DEF RunInv, Typing
<1>10. (results'[f] = results[f] /\ flags.match # AnyName) \/ results'[f] = Append(results[f], r)
  BY <1>8 DEF RunInv, Typing
<1>11. /\ Append(results[f], r) \in Seq(ReportsOf(s, load)) /\ Len(Append(results[f], r)) = Len(results[f]) + 1
       /\ Append(results[f], r)[Len(results[f]) + 1] = r
       /\ \A i \in 1..Len(results[f]) : Append(results[f], r)[i] = results[f][i]
  BY <1>4, <1>7, AppendProperties
<1>12. results'[f] \in Seq(ReportsOf(s, load))
  BY <1>4, <1>10, <1>11
<1>13. flags.match = AnyName =>
          Len(results'[f]) = n + 1 /\ \A i \in 1..(n + 1) : Which(results'[f][i]) = Which(load.tests[i])
  <2> SUFFICES ASSUME flags.match = AnyName
               PROVE  Len(results'[f]) = n + 1 /\ \A i \in 1..(n + 1) : Which(results'[f][i]) = Which(load.tests[i])
    OBVIOUS
  <2>1. results'[f] = Append(results[f], r)
    BY <1>10
  <2>2. Len(results[f]) = n /\ \A i \in 1..n : Which(results[f][i]) = Which(load.tests[i])
    BY <1>2 DEF Place
  <2>3. \A i \in 1..n : results'[f][i] = results[f][i]
    BY <1>11, <2>1, <2>2
  <2>4. results'[f][n + 1] = r
    BY <1>11, <2>1, <2>2
  <2>5. \A i \in 1..(n + 1) : i \in 1..n \/ i = n + 1
    OBVIOUS
  <2>6. Len(results'[f]) = n + 1
    BY <1>11, <2>1, <2>2
  <2> QED
    BY <1>6, <1>7, <2>2, <2>3, <2>4, <2>5, <2>6
<1>14. /\ n + 1 \in 0..Len(load.tests) /\ n + 1 \in Nat
       /\ expanded'[f] \in Seq(ExpandedOf(s)) /\ Len(expanded'[f]) = Len(load.tests) - (n + 1)
  BY <1>4, <1>5, <1>6, <1>9
<1>15. ASSUME NEW i \in 1..Len(expanded'[f]) PROVE expanded'[f][i] = load.tests[(n + 1) + i]
  <2>1. i \in 1..Len(Tail(expanded[f])) /\ i + 1 \in 1..Len(expanded[f])
    BY <1>5, <1>9
  <2>2. expanded'[f][i] = expanded[f][i + 1]
    BY <1>5, <1>9, <2>1
  <2>3. expanded[f][i + 1] = load.tests[n + (i + 1)] /\ n + (i + 1) = (n + 1) + i
    BY <1>4, <2>1
  <2> QED
    BY <2>2, <2>3
<1>16. Place(f, load, n + 1)'
  BY <1>1, <1>2, <1>8, <1>12, <1>13, <1>14, <1>15 DEF Place
<1>17. InWork(f)'
  BY <1>1, <1>2, <1>8, <1>14, <1>16 DEF InWork
<1> QED
  BY <1>17
LEMMA LoadFileKeeps ==
  ASSUME RunInv, NEW f \in Files, LoadFile(f)
  PROVE  (InWork(f) \/ Untouched(f))'
<1> DEFINE s == suite[f]
<1>1. stage[f] = "queued" /\ expanded[f] = <<>> /\ results[f] = <<>> /\ s \in SuiteChoices
  BY DEF LoadFile, RunInv, Typing, FilesInv, InWork, Untouched
<1>2. PICK load \in Loads[s] :
         /\ fileErr'  = [fileErr EXCEPT ![f] = ~load.ok]
         /\ stage'    = [stage EXCEPT ![f] = IF load.ok THEN "running" ELSE "done"]
         /\ expanded' = [expanded EXCEPT ![f] = load.tests]
         /\ shared'   = [shared EXCEPT ![f] = load.shared]
         /\ UNCHANGED <<suite, flags, runVars, cancelled, results>>
  BY DEF LoadFile
<1>3. /\ fileErr'[f] = ~load.ok /\ stage'[f] = (IF load.ok THEN "running" ELSE "done")
      /\ expanded'[f] = load.tests /\ shared'[f] = load.shared
  BY <1>2 DEF RunInv, Typing
<1>4. load.ok \in BOOLEAN /\ (load.ok => Loaded(s, load)) /\ (~load.ok => load.tests = <<>>)
  BY <1>1, LoadIs
<1>5. CASE load.ok
  <2>1. /\ load.shared = s.defaults /\ load.tests \in Seq(ExpandedOf(s))
        /\ Len(load.tests) \in Nat
    BY <1>4, <1>5, LenProperties DEF Loaded
  <2>2. <<>> \in Seq(ReportsOf(s, load)) /\ Len(<<>>) = 0
    BY EmptySeq
  <2>3. /\ stage'[f] = "running" /\ ~fileErr'[f] /\ results'[f] = <<>> /\ suite' = suite /\ flags' = flags
    BY <1>1, <1>2, <1>3, <1>5
  <2>4. \A i \in 1..Len(load.tests) : load.tests[i] = load.tests[0 + i]
    OBVIOUS
  <2>5. Place(f, load, 0)'
    BY <1>3, <1>5, <2>1, <2>2, <2>3, <2>4 DEF Place
  <2> QED
    BY <2>3, <2>5 DEF InWork
<1>6. CASE ~load.ok
  <2>1. stage'[f] = "done" /\ fileErr'[f] /\ expanded'[f] = <<>> /\ results'[f] = <<>>
    BY <1>1, <1>2, <1>3, <1>4, <1>6
  <2> QED
    BY <2>1 DEF Untouched
<1> QED
  BY <1>4, <1>5, <1>6

LEMMA EndFileKeeps ==
  ASSUME RunInv, NEW f \in Files, EndFile(f)
  PROVE  (InWork(f) \/ Untouched(f))'
<1>1. /\ stage[f] = "running" /\ expanded[f] = <<>> /\ stage'[f] = "done"
      /\ UNCHANGED <<suite, flags, expanded, shared, results, fileErr>>
  BY DEF EndFile, MoreTests, RunInv, Typing
<1>2. InWork(f)
  BY <1>1 DEF RunInv, FilesInv, Untouched
<1>3. InWork(f)'
  BY <1>1, <1>2 DEF InWork, Place
<1> QED
  BY <1>3

LEMMA FilesStep ==
  ASSUME RunInv, [Next]_vars
  PROVE  FilesInv'
<1> SUFFICES ASSUME NEW g \in Files PROVE (InWork(g) \/ Untouched(g))'
  BY DEF FilesInv
<1>1. InWork(g) \/ Untouched(g)
  BY DEF RunInv, FilesInv
<1>2. CASE UNCHANGED <<suite, flags, fileVars>>
  BY <1>1, <1>2, FileKept DEF fileVars
<1>3. ASSUME NEW f \in Files, CancelFile(f) \/ LoadFile(f) \/ RunTest(f) \/ EndFile(f), f # g
      PROVE  (InWork(g) \/ Untouched(g))'
  <2>1. /\ UNCHANGED <<suite, flags>> /\ (cancelled => cancelled')
        /\ stage'[g] = stage[g] /\ expanded'[g] = expanded[g] /\ shared'[g] = shared[g]
        /\ results'[g] = results[g] /\ fileErr'[g] = fileErr[g]
    <3>1. CASE CancelFile(f)
      BY <1>3, <3>1 DEF CancelFile, RunInv, Typing
    <3>2. CASE LoadFile(f)
      BY <1>3, <3>2 DEF LoadFile, RunInv, Typing
    <3>3. CASE RunTest(f)
      BY <1>3, <3>3 DEF RunTest, RunInv, Typing
    <3>4. CASE EndFile(f)
      BY <1>3, <3>4 DEF EndFile, RunInv, Typing
    <3> QED
      BY <1>3, <3>1, <3>2, <3>3, <3>4
  <2> QED
    BY <1>1, <2>1, FileKept
<1>4. ASSUME CancelFile(g) PROVE (InWork(g) \/ Untouched(g))'
  <2>1. Untouched(g) /\ stage[g] = "queued" /\ cancelled
    BY <1>1, <1>4 DEF CancelFile, InWork
  <2>2. stage'[g] = "done" /\ UNCHANGED <<cancelled, expanded, results>>
    BY <1>4 DEF CancelFile, RunInv, Typing
  <2> QED
    BY <2>1, <2>2 DEF Untouched
<1>5. CASE Refuse \/ Discover \/ StartPool \/ Join \/ Exit \/ Done \/ UNCHANGED vars
  BY <1>2, <1>5 DEF Refuse, Discover, StartPool, Join, Exit, Done, vars
<1>6. CASE \E f \in Files : CancelFile(f) \/ LoadFile(f) \/ RunTest(f) \/ EndFile(f)
  BY <1>3, <1>4, <1>6, LoadFileKeeps, RunTestKeeps, EndFileKeeps
<1> QED
  BY <1>5, <1>6 DEF Next

LEMMA TypingStep ==
  ASSUME RunInv, [Next]_vars
  PROVE  Typing'
<1> USE DEF RunInv, Typing
<1>1. CASE Refuse \/ StartPool \/ Join \/ Exit \/ Done \/ UNCHANGED vars
  BY <1>1 DEF Refuse, StartPool, Join, Exit, Done, vars, runVars, fileVars
<1>2. CASE Discover
  <2>1. todo' \subseteq Files /\ main' \in {"joined", "start"}
    BY <1>2 DEF Discover, Named, Kept
  <2> QED
    BY <1>2, <2>1 DEF Discover, fileVars
<1>3. ASSUME NEW f \in Files, CancelFile(f) PROVE Typing'
  BY <1>3 DEF CancelFile, runVars
<1>4. ASSUME NEW f \in Files, LoadFile(f) PROVE Typing'
  <2>1. PICK load \in Loads[suite[f]] :
           /\ fileErr'  = [fileErr EXCEPT ![f] = ~load.ok]
           /\ stage'    = [stage EXCEPT ![f] = IF load.ok THEN "running" ELSE "done"]
           /\ expanded' = [expanded EXCEPT ![f] = load.tests]
           /\ shared'   = [shared EXCEPT ![f] = load.shared]
           /\ UNCHANGED <<suite, flags, runVars, cancelled, results>>
    BY <1>4 DEF LoadFile
  <2>2. (~load.ok) \in BOOLEAN /\ (IF load.ok THEN "running" ELSE "done") \in {"queued", "running", "done"}
    OBVIOUS
  <2> QED
    BY <2>1, <2>2 DEF runVars
<1>5. ASSUME NEW f \in Files, RunTest(f) PROVE Typing'
  BY <1>5 DEF RunTest, runVars
<1>6. ASSUME NEW f \in Files, EndFile(f) PROVE Typing'
  <2>1. cancelled' \in BOOLEAN
    BY <1>6 DEF EndFile
  <2> QED
    BY <1>6, <2>1 DEF EndFile, runVars
<1> QED
  BY <1>1, <1>2, <1>3, <1>4, <1>5, <1>6 DEF Next

LEMMA CancelStep ==
  ASSUME RunInv, [Next]_vars
  PROVE  CancelInv'
<1> SUFFICES ASSUME cancelled' PROVE \E f \in Files : FailedIn(f)'
  BY DEF CancelInv
<1>1. CASE UNCHANGED <<cancelled, results>>
  BY <1>1 DEF RunInv, CancelInv, FailedIn
<1>2. CASE Refuse \/ Discover \/ StartPool \/ Join \/ Exit \/ Done \/ UNCHANGED vars
  BY <1>1, <1>2 DEF Refuse, Discover, StartPool, Join, Exit, Done, vars, fileVars
<1>3. ASSUME NEW f \in Files, CancelFile(f) \/ LoadFile(f) PROVE \E g \in Files : FailedIn(g)'
  BY <1>1, <1>3 DEF CancelFile, LoadFile
<1>4. ASSUME NEW f \in Files, EndFile(f) PROVE \E g \in Files : FailedIn(g)'
  <2>1. UNCHANGED results /\ \E g \in Files : FailedIn(g)
    BY <1>4 DEF EndFile, RunInv, CancelInv
  <2> QED
    BY <2>1 DEF FailedIn
<1>5. ASSUME NEW f \in Files, RunTest(f) PROVE \E g \in Files : FailedIn(g)'
  <2>1. PICK g \in Files : FailedIn(g)
    BY <1>5 DEF RunTest, RunInv, CancelInv
  <2>2. CASE results'[g] = results[g]
    BY <2>1, <2>2 DEF FailedIn
  <2>3. CASE results'[g] # results[g]
    <3>1. g = f /\ results'[f] = Append(results[f], Report(f, Head(expanded[f])))
      BY <1>5, <2>3 DEF RunTest, RunInv, Typing
    <3>2. PICK load \in Loads[suite[f]], n \in Nat : Place(f, load, n)
      BY <1>5 DEF RunTest, RunInv, FilesInv, InWork, Untouched
    <3> DEFINE x == results[f]
               T == ReportsOf(suite[f], load) \cup {Report(f, Head(expanded[f]))}
               r == Report(f, Head(expanded[f]))
    <3>3. x \in Seq(T) /\ r \in T
      <4>1. x \in Seq(ReportsOf(suite[f], load)) /\ ReportsOf(suite[f], load) \subseteq T
        BY <3>2 DEF Place
      <4> HIDE DEF T, x
      <4>2. x \in Seq(T)
        BY <4>1, SeqMonotonic
      <4> QED
        BY <4>2 DEF T
    <3> HIDE DEF x, T, r
    <3>4. PICK i \in DOMAIN x : x[i].status = "fail"
      BY <2>1, <3>1 DEF FailedIn, x
    <3>5. /\ DOMAIN x = 1..Len(x) /\ Len(x) \in Nat
          /\ DOMAIN Append(x, r) = 1..(Len(x) + 1) /\ Append(x, r)[i] = x[i]
      BY <3>3, <3>4, LenProperties, AppendProperties
    <3>6. i \in DOMAIN Append(x, r) /\ Append(x, r)[i].status = "fail"
      BY <3>4, <3>5
    <3>7. FailedIn(f)'
      BY <3>1, <3>6 DEF FailedIn, x, r
    <3> QED
      BY <3>7
  <2> QED
    BY <2>2, <2>3
<1> QED
  BY <1>2, <1>3, <1>4, <1>5 DEF Next

LEMMA PoolStep ==
  ASSUME RunInv, [Next]_vars
  PROVE  PoolInv'
<1>1. IsFiniteSet(Files) /\ Running \subseteq Files /\ IsFiniteSet(Running) /\ Cardinality(Running) \in Nat
  BY FlagsAssumption, FS_Subset, FS_CardinalityType DEF Running
<1>2. Slots \in Int /\ Cardinality(Running) <= Slots
  BY FlagsAssumption DEF Slots, RunInv, Typing, PoolInv
<1>3. ASSUME Running' \subseteq Running, flags' = flags PROVE PoolInv'
  <2>1. Cardinality(Running') <= Cardinality(Running) /\ Cardinality(Running') \in Nat /\ Slots' = Slots
    BY <1>1, <1>3, FS_Subset, FS_CardinalityType DEF Slots
  <2> QED
    BY <1>1, <1>2, <2>1 DEF PoolInv
<1>4. CASE Refuse \/ Discover \/ StartPool \/ Join \/ Exit \/ Done \/ UNCHANGED vars
  BY <1>3, <1>4 DEF Refuse, Discover, StartPool, Join, Exit, Done, vars, fileVars, Running
<1>5. ASSUME NEW f \in Files, LoadFile(f) PROVE PoolInv'
  <2>1. Running' \subseteq Running \cup {f} /\ flags' = flags
    BY <1>5 DEF LoadFile, Running, RunInv, Typing
  <2>2. Cardinality(Running) < Slots
    BY <1>5 DEF LoadFile, SlotFree
  <2>3. IsFiniteSet(Running \cup {f}) /\ Cardinality(Running \cup {f}) <= Cardinality(Running) + 1
        /\ Cardinality(Running \cup {f}) \in Nat
    <3> DEFINE R == Running
    <3> HIDE DEF R
    <3>1. IsFiniteSet(R) /\ Cardinality(R) \in Nat
      BY <1>1 DEF R
    <3>2. IsFiniteSet(R \cup {f}) /\ Cardinality(R \cup {f}) = IF f \in R THEN Cardinality(R) ELSE Cardinality(R) + 1
      BY <3>1, FS_AddElement
    <3> QED
      BY <3>1, <3>2 DEF R
  <2>4. Cardinality(Running') <= Cardinality(Running \cup {f}) /\ Cardinality(Running') \in Nat
    BY <2>1, <2>3, FS_Subset, FS_CardinalityType
  <2>5. Cardinality(Running') <= Slots /\ Slots' = Slots
    BY <1>1, <1>2, <2>1, <2>2, <2>3, <2>4 DEF Slots
  <2> QED
    BY <2>5 DEF PoolInv
<1>6. ASSUME NEW f \in Files, CancelFile(f) \/ RunTest(f) \/ EndFile(f) PROVE PoolInv'
  BY <1>3, <1>6 DEF CancelFile, RunTest, EndFile, Running, RunInv, Typing
<1> QED
  BY <1>4, <1>5, <1>6 DEF Next

LEMMA PhasesStep ==
  ASSUME RunInv, [Next]_vars
  PROVE  Phases'
<1>1. /\ Phases /\ DOMAIN stage = Files /\ main \in {"idle", "start", "running", "joined", "exited"}
      /\ suite' = suite /\ flags' = flags
      /\ \A f \in Files : stage[f] \in {"queued", "running", "done"}
  BY DEF RunInv, Typing, Next, Refuse, Discover, StartPool, Join, Exit, Done, CancelFile, LoadFile, RunTest, EndFile, vars
<1>2. Kept' = Kept /\ Named' = Named
  BY <1>1 DEF Kept, Named
<1>3. CASE Refuse
  BY <1>1, <1>3 DEF Refuse, fileVars, Phases, Running
<1>4. CASE Discover
  <2>1. Discovered'
    BY <1>1, <1>2, <1>4 DEF Discover, Discovered
  <2>2. main' \in {"joined", "start"} /\ (main' = "joined" => todo' = {})
    BY <1>4 DEF Discover
  <2> QED
    BY <1>1, <1>4, <2>1, <2>2 DEF Discover, fileVars, Phases, Running
<1>5. CASE StartPool
  <2>1. Discovered'
    BY <1>1, <1>2, <1>5 DEF StartPool, Phases, Discovered
  <2> QED
    BY <1>1, <1>5, <2>1 DEF StartPool, fileVars, Phases, Running
<1>6. CASE Join
  <2>1. Discovered'
    BY <1>1, <1>2, <1>6 DEF Join, Phases, Discovered
  <2>2. Running' = {}
    BY <1>1, <1>6 DEF Join, fileVars, Phases, Running
  <2> QED
    BY <1>1, <1>6, <2>1, <2>2 DEF Join, fileVars, Phases
<1>7. CASE Exit
  <2>1. Discovered'
    BY <1>1, <1>2, <1>7 DEF Exit, Phases, Discovered
  <2>2. exitCode' = ExitCode'
    BY <1>1, <1>7 DEF Exit, fileVars, ExitCode, Statuses, Warned
  <2> QED
    BY <1>1, <1>7, <2>1, <2>2 DEF Exit, fileVars, Phases, Running
<1>8. CASE Done \/ UNCHANGED vars
  <2>1. Discovered' = Discovered
    BY <1>1, <1>2, <1>8 DEF Done, vars, runVars, Discovered
  <2>2. ExitCode' = ExitCode
    BY <1>1, <1>8 DEF Done, vars, fileVars, ExitCode, Statuses, Warned
  <2> QED
    BY <1>1, <1>8, <2>1, <2>2 DEF Done, vars, runVars, fileVars, Phases, Running
<1>9. ASSUME NEW f \in Files, CancelFile(f) \/ LoadFile(f) \/ RunTest(f) \/ EndFile(f) PROVE Phases'
  <2>1. /\ UNCHANGED runVars /\ main = "running" /\ f \in todo
        /\ \A g \in Files : g # f => stage'[g] = stage[g]
    <3>1. CASE CancelFile(f)
      BY <1>1, <3>1 DEF CancelFile
    <3>2. CASE LoadFile(f)
      BY <1>1, <3>2 DEF LoadFile
    <3>3. CASE RunTest(f) \/ EndFile(f)
      <4>1. UNCHANGED runVars /\ stage[f] = "running" /\ \A g \in Files : g # f => stage'[g] = stage[g]
        BY <1>1, <3>3 DEF RunTest, EndFile
      <4>2. main = "running" /\ f \in todo
        BY <1>1, <4>1 DEF Phases, Running
      <4> QED
        BY <4>1, <4>2
    <3> QED
      BY <1>9, <3>1, <3>2, <3>3
  <2>2. Discovered'
    BY <1>1, <1>2, <2>1 DEF Phases, Discovered, runVars
  <2> QED
    BY <1>1, <2>1, <2>2 DEF Phases, runVars
<1> QED
  BY <1>3, <1>4, <1>5, <1>6, <1>7, <1>8, <1>9 DEF Next

LEMMA RunInit ==
  ASSUME Init
  PROVE  RunInv
<1>1. Typing
  BY DEF Init, Typing
<1>2. FilesInv
  BY DEF Init, FilesInv, Untouched
<1>3. CancelInv /\ Phases
  BY DEF Init, CancelInv, Phases, Running
<1>4. PoolInv
  <2>1. Running = {} /\ Slots \in Int /\ Slots > 0
    BY FlagsAssumption DEF Init, Running, Slots
  <2> QED
    BY <2>1, FS_EmptySet DEF PoolInv
<1> QED
  BY <1>1, <1>2, <1>3, <1>4 DEF RunInv

LEMMA RunInvariant == Spec => []RunInv
<1>1. Init => RunInv
  BY RunInit
<1>2. RunInv /\ [Next]_vars => RunInv'
  BY FilesStep, TypingStep, CancelStep, PhasesStep, PoolStep DEF RunInv
<1> QED
  BY <1>1, <1>2, PTL DEF Spec
-----------------------------------------------------------------------------
(* What the invariant says of a result. *)

\* Every result comes from a test of the file.
LEMMA ResultOrigin ==
  ASSUME RunInv, NEW f \in Files, NEW r \in Range(results[f])
  PROVE  /\ suite[f] \in SuiteChoices /\ Parses(suite[f])
         /\ r.test \in Range(suite[f].tests) /\ TestGiven(r.test) /\ r.test.asserts \subseteq Assertion
         /\ r.values \in Map /\ r.values \in Promised(suite[f], r.test, r.label)
         /\ r.status \in {"pass", "fail", "skip", "gated"}
         /\ r.status = "gated" <=> MatcherTierSkip(r.test.asserts, Active)
         /\ \E et : /\ et.test = r.test
                    /\ r.status = "pass" /\ r.test.call = "" => AssertionsPass(et, Chart(r.values))
<1> DEFINE s == suite[f]
<1>1. s \in SuiteChoices /\ Range(<<>>) = {}
  BY DEF RunInv, Typing, Range
<1>2. PICK load \in Loads[s], n \in Nat : Place(f, load, n)
  BY <1>1 DEF RunInv, FilesInv, InWork, Untouched
<1>3. Loaded(s, load)
  BY <1>1, <1>2, LoadIs DEF Place
<1>4. r \in ReportsOf(s, load)
  <2>1. results[f] \in Seq(ReportsOf(s, load))
    BY <1>2 DEF Place
  <2> QED
    BY <2>1, RangeOf
<1>5. /\ r.test \in Range(s.tests) /\ r.values \in Map /\ r.status \in {"pass", "fail", "skip", "gated"}
      /\ \E et \in Range(load.tests) : Reported(s, et, r)
  BY <1>4 DEF ReportsOf
<1>6. PICK et \in Range(load.tests) : Reported(s, et, r)
  BY <1>5
<1>7. /\ et.test = r.test /\ et.label = r.label /\ r.values = ValuesOf(s, et)
      /\ r.status = "gated" <=> MatcherTierSkip(r.test.asserts, Active)
      /\ r.status = "pass" /\ r.test.call = "" => AssertionsPass(et, Chart(r.values))
  BY <1>6 DEF Reported
<1>8. Parses(s) /\ r.values \in Promised(s, r.test, r.label)
  BY <1>3, <1>6, <1>7 DEF Loaded
<1>9. TestGiven(r.test) /\ r.test.asserts \subseteq Assertion
  BY <1>1, <1>5, SuitesAssumption
<1> QED
  BY <1>1, <1>5, <1>7, <1>8, <1>9

\* The state is one of the program's.
THEOREM RunTyped == Spec => []TypeOK
<1>1. ASSUME RunInv PROVE TypeOK
  <2>1. ASSUME NEW f \in Files PROVE {r.status : r \in Range(results[f])} \subseteq {"pass", "fail", "skip", "gated"}
    BY <1>1, <2>1, ResultOrigin
  <2>2. exitCode \in {-1, 0, 1, 2, 3, 5}
    BY <1>1 DEF RunInv, Typing, Phases, ExitCode
  <2> QED
    BY <1>1, <2>1, <2>2 DEF TypeOK, RunInv, Typing, PoolInv
<1> QED
  BY <1>1, RunInvariant, PTL

\* What one case sets reaches that case alone, although tests share the map of the
\* suite's defaults (MergeInputs, interpolateTest): that map never changes.
THEOREM CasesKeptApart == Spec => []ValuesApart
<1>1. ASSUME RunInv PROVE ValuesApart
  BY <1>1, ResultOrigin DEF ValuesApart
<1> QED
  BY <1>1, RunInvariant, PTL

LEMMA ActiveIs == Active = "template" /\ Active \in Tiers /\ Active \in RunnableTiers
  BY TiersAre DEF Active, RunnableTiers

\* Assertions of a test that parsed, at the tier of its suite.
LEMMA CeilingHolds ==
  ASSUME NEW s, Parses(s), NEW t \in Range(s.tests)
  PROVE  WithinCeiling(t.asserts, s.tier) /\ s.tier \in Tiers
<1>1. t.asserts \subseteq Asserts(s)
  BY DEF Asserts, Range
<1>2. WithinCeiling(Asserts(s), s.tier)
  BY DEF Parses
<1>3. RunnableTiers \subseteq Tiers
  BY BackendTiers, TiersAre DEF RunnableTiers
<1> QED
  BY <1>1, <1>2, <1>3 DEF WithinCeiling

\* One key, one claimant.
LEMMA OneKeyIs ==
  ASSUME NEW b \in Assertion, OneKey(b)
  PROVE  \A x, y \in Claimants(b) : x = y
<1>1. IsFiniteSet(Claimants(b))
  <2> DEFINE R == Range(Registry)
  <2>1. IsFiniteSet(DOMAIN Registry)
    <3>1. DOMAIN Registry = 1..13
      BY DEF Registry
    <3> QED
      <4>1. 1 \in Int /\ 13 \in Int
        OBVIOUS
      <4>2. IsFiniteSet(1..13)
        BY <4>1, FS_Interval
      <4> QED
        BY <3>1, <4>2
  <2>2. Registry \in Surjection(DOMAIN Registry, R)
    <3>1. Registry = [i \in DOMAIN Registry |-> Registry[i]]
      BY DEF Registry
    <3> HIDE DEF R
    <3>2. R = {Registry[i] : i \in DOMAIN Registry}
      BY DEF R, Range
    <3>3. Registry \in [DOMAIN Registry -> R]
      BY <3>1, <3>2
    <3> QED
      BY <3>2, <3>3 DEF Surjection
  <2>3. IsFiniteSet(R)
    <3> HIDE DEF R
    <3> QED
      BY <2>1, <2>2, FS_Surjection
  <2>4. Claimants(b) \subseteq R
    <3>1. Leaf \subseteq R /\ Sets[b] \subseteq Leaf
      BY ForestAssumption DEF Leaf, Range
    <3>2. "allOf" \in R /\ "anyOf" \in R
      <4>1. Registry[10] = "allOf" /\ Registry[11] = "anyOf" /\ 10 \in DOMAIN Registry /\ 11 \in DOMAIN Registry
        BY DEF Registry
      <4> HIDE DEF R
      <4> QED
        BY <4>1 DEF R, Range
    <3> HIDE DEF R
    <3> QED
      BY <3>1, <3>2 DEF Claimants
  <2> HIDE DEF R
  <2> QED
    BY <2>3, <2>4, FS_Subset
<1> SUFFICES ASSUME NEW x \in Claimants(b), NEW y \in Claimants(b), x # y PROVE FALSE
  OBVIOUS
<1>2. IsFiniteSet({x, y}) /\ Cardinality({x, y}) = 2
  <2>1. IsFiniteSet({x}) /\ Cardinality({x}) = 1 /\ y \notin {x} /\ {x} \cup {y} = {x, y}
    BY FS_Singleton
  <2>2. IsFiniteSet({x} \cup {y}) /\ Cardinality({x} \cup {y}) = IF y \in {x} THEN Cardinality({x}) ELSE Cardinality({x}) + 1
    BY <2>1, FS_AddElement
  <2> QED
    BY <2>1, <2>2
<1>3. Cardinality({x, y}) <= Cardinality(Claimants(b)) /\ Cardinality(Claimants(b)) \in Nat
  BY <1>1, FS_Subset, FS_CardinalityType
<1> QED
  BY <1>2, <1>3 DEF OneKey

\* A test that is withheld needs a cluster, in a suite that declares as much, and its
\* hint names only backends that would run it (matcherTierSkip, clusterHintForTier):
\* the ceiling that the parser enforced is at least as strict as the gate.
THEOREM GatedHonestly == Spec => []SkipIsHonest
<1>1. ASSUME RunInv PROVE SkipIsHonest
  <2> SUFFICES ASSUME NEW f \in Files, NEW r \in Range(results[f]), r.status = "gated"
               PROVE  /\ suite[f].tier # Active
                      /\ \A b \in Blamed(r.test.asserts, Active) :
                            /\ Hint(b) # {}
                            /\ \A k \in Hint(b) : /\ ~Unsupported(b, BackendTier(k))
                                                  /\ OneKey(b) => Met(b, BackendTier(k))
    BY DEF SkipIsHonest
  <2>1. /\ Parses(suite[f]) /\ r.test \in Range(suite[f].tests) /\ r.test.asserts \subseteq Assertion
        /\ MatcherTierSkip(r.test.asserts, Active)
    BY <1>1, ResultOrigin
  <2>2. suite[f].tier # Active
    <3>1. WithinCeiling(r.test.asserts, suite[f].tier)
      BY <2>1, CeilingHolds
    <3>2. Rank(Active) <= Rank(Active)
      BY RankValues, ActiveIs
    <3> QED
      BY <2>1, <3>1, <3>2, ActiveIs, DeclaredTierRuns
  <2>3. ASSUME NEW b \in Blamed(r.test.asserts, Active)
        PROVE  /\ Hint(b) # {}
               /\ \A k \in Hint(b) : ~Unsupported(b, BackendTier(k)) /\ (OneKey(b) => Met(b, BackendTier(k)))
    <3>1. b \in Assertion /\ Unsupported(b, Active)
      BY <2>1, GateBelowBelow DEF Blamed
    <3>2. /\ Hint(b) # {}
          /\ \A k \in Hint(b) : Needs(Claimant(b)) \subseteq TierProvides(BackendTier(k))
      BY <3>1, ActiveIs, HintsHelp
    <3>3. ASSUME NEW k \in Hint(b)
          PROVE  ~Unsupported(b, BackendTier(k)) /\ (OneKey(b) => Met(b, BackendTier(k)))
      <4>1. k \in Backends
        BY DEF Hint, BackendsForTier
      <4>2. BackendTier(k) \in Tiers
        BY <4>1, BackendTiers
      <4>3. ~Unsupported(b, BackendTier(k))
        BY <3>2, <4>2 DEF Unsupported, TiersProviding
      <4>4. OneKey(b) => Wellformed(b)
        BY <3>1, OneKeyIs, ForestAssumption DEF Wellformed
      <4> QED
        BY <3>1, <4>2, <4>3, <4>4, NotUnsupportedMet
    <3> QED
      BY <3>2, <3>3
  <2> QED
    BY <2>2, <2>3
<1> QED
  BY <1>1, RunInvariant, PTL

\* A test that is reported broken does not merely need a cluster: what the gate lets
\* through has what it needs, the assertions nested in a lookup included (runFile).
THEOREM FailuresAreReal == Spec => []FailIsBroken
<1>1. ASSUME RunInv PROVE FailIsBroken
  <2> SUFFICES ASSUME NEW f \in Files, NEW r \in Range(results[f]), r.status = "fail", Plain(r.test.asserts)
               PROVE  Demands(r.test.asserts) = {}
    BY DEF FailIsBroken
  <2>1. r.test.asserts \subseteq Assertion /\ ~MatcherTierSkip(r.test.asserts, Active)
    BY <1>1, ResultOrigin
  <2>2. \A a \in r.test.asserts : \A b \in Below[a] : b \in Assertion /\ Wellformed(b)
    BY <2>1, GateBelowBelow, OneKeyIs, ForestAssumption DEF Plain, Wellformed
  <2>3. \A a \in r.test.asserts : \A b \in Below[a] : Met(b, Active)
    BY <2>1, <2>2, ActiveIs, LetThroughIsMet
  <2> QED
    BY <2>3 DEF Demands
<1> QED
  BY <1>1, RunInvariant, PTL

\* An assertion on a document passes only if there is one for it, negated or not:
\* one that its target selects, or the one that has its index (selectDoc,
\* evaluateAssertions).
THEOREM PassesHaveSubjects == Spec => []PassHasSubject
<1>1. ASSUME RunInv PROVE PassHasSubject
  <2> SUFFICES ASSUME NEW f \in Files, NEW r \in Range(results[f]), r.status = "pass", r.test.call = ""
               PROVE  LET docs == Chart(r.values).docs
                      IN  IF r.test.forEach THEN There(r.test.target, docs)
                          ELSE \A a \in r.test.asserts :
                                 LET e == Effective(a, r.test.target)
                                 IN  \/ NeedsNoDoc(a)
                                     \/ IF Indexed(e) THEN Len(docs) > e.index ELSE There(e, docs)
    BY DEF PassHasSubject
  <2> DEFINE t    == r.test
             docs == Chart(r.values).docs
  <2>1. PICK et : et.test = t /\ AssertionsPass(et, Chart(r.values))
    BY <1>1, ResultOrigin
  <2>2. docs \in Seq(Range(docs)) /\ DOMAIN docs = 1..Len(docs) /\ Len(docs) \in Nat
    <3>1. docs \in Seq(Range(docs))
      BY <1>1, ResultOrigin, ChartAssumption
    <3> QED
      BY <3>1, LenProperties
  <2>3. IF t.forEach THEN Selected(t.target, docs) # <<>>
        ELSE \A a \in t.asserts : ~Diagnosed(a, t.target, docs)
    BY <2>1 DEF AssertionsPass
  <2> HIDE DEF docs
  <2>4. ASSUME NEW e, Selected(e, docs) # <<>> PROVE There(e, docs)
    <3>2. CASE e = NoTarget
      <4>1. Range(docs) # {}
        BY <2>2, <2>4, <3>2, NonEmptyRange DEF Selected
      <4> QED
        BY <3>2, <4>1 DEF There
    <3>3. CASE e # NoTarget
      <4> DEFINE K == {d \in Range(docs) : MatchesTarget(d, e)}
      <4>1. Selected(e, docs) = Only(docs, K)
        BY <3>3 DEF Selected
      <4> HIDE DEF K
      <4>2. Only(docs, K) \in Seq(Range(docs)) /\ Range(Only(docs, K)) = Range(docs) \cap K
        BY <2>2, OnlyIs
      <4>3. Range(docs) \cap K # {}
        BY <2>4, <4>1, <4>2, NonEmptyRange
      <4> QED
        BY <4>3 DEF K, There
    <3> QED
      BY <3>2, <3>3
  <2>5. ASSUME NEW a, ~Diagnosed(a, t.target, docs), ~NeedsNoDoc(a)
        PROVE  LET e == Effective(a, t.target)
               IN  IF Indexed(e) THEN Len(docs) > e.index ELSE There(e, docs)
    <3> DEFINE e == Effective(a, t.target)
    <3>1. Candidates(a, t.target, docs) # <<>>
      BY <2>5 DEF Diagnosed
    <3>2. CASE Indexed(e)
      <4>1. e.index < Len(docs)
        BY <3>1, <3>2 DEF Candidates, Indexed
      <4> QED
        BY <3>2, <4>1
    <3>3. CASE ~(Indexed(e))
      <4>1. Selected(e, docs) # <<>>
        BY <3>1, <3>3 DEF Candidates, Indexed
      <4>2. There(e, docs)
        BY <2>4, <4>1
      <4> QED
        BY <3>3, <4>2
    <3> QED
      BY <3>2, <3>3
  <2> QED
    BY <2>3, <2>4, <2>5 DEF docs
<1> QED
  BY <1>1, RunInvariant, PTL
-----------------------------------------------------------------------------
(* What the invariant says of a file. *)

\* The names under which the tests of a file were loaded.
LEMMA PlaceIs ==
  ASSUME RunInv, NEW f \in Files, NEW load \in Loads[suite[f]], NEW n \in Nat, Place(f, load, n)
  PROVE  /\ Loaded(suite[f], load)
         /\ Len(load.tests) \in Nat /\ DOMAIN load.tests = 1..Len(load.tests)
         /\ Due(suite[f]) = {Which(load.tests[i]) : i \in 1..Len(load.tests)}
         /\ n <= Len(load.tests)
         /\ DOMAIN expanded[f] = 1..(Len(load.tests) - n)
         /\ \A i \in 1..(Len(load.tests) - n) : expanded[f][i] = load.tests[n + i]
         /\ flags.match = AnyName =>
               DOMAIN results[f] = 1..n /\ \A i \in 1..n : Which(results[f][i]) = Which(load.tests[i])
<1> DEFINE s == suite[f]
<1>1. s \in SuiteChoices /\ Loaded(s, load)
  BY LoadIs DEF Place, RunInv, Typing
<1>2. load.tests \in Seq(ExpandedOf(s)) /\ {Which(et) : et \in Range(load.tests)} = Due(s)
  BY <1>1 DEF Loaded
<1>3. Len(load.tests) \in Nat /\ DOMAIN load.tests = 1..Len(load.tests)
  BY <1>2, LenProperties
<1>4. Due(s) = {Which(load.tests[i]) : i \in 1..Len(load.tests)}
  BY <1>2, <1>3 DEF Range
<1>5. /\ n \in 0..Len(load.tests) /\ expanded[f] \in Seq(ExpandedOf(s)) /\ Len(expanded[f]) = Len(load.tests) - n
      /\ \A i \in 1..Len(expanded[f]) : expanded[f][i] = load.tests[n + i]
      /\ results[f] \in Seq(ReportsOf(s, load))
      /\ flags.match = AnyName =>
            Len(results[f]) = n /\ \A i \in 1..n : Which(results[f][i]) = Which(load.tests[i])
  BY DEF Place
<1>6. DOMAIN expanded[f] = 1..Len(expanded[f]) /\ DOMAIN results[f] = 1..Len(results[f])
  BY <1>5, LenProperties
<1>7. n <= Len(load.tests)
  BY <1>3, <1>5
<1>8. /\ DOMAIN expanded[f] = 1..(Len(load.tests) - n)
      /\ \A i \in 1..(Len(load.tests) - n) : expanded[f][i] = load.tests[n + i]
  BY <1>5, <1>6
<1>9. flags.match = AnyName =>
         DOMAIN results[f] = 1..n /\ \A i \in 1..n : Which(results[f][i]) = Which(load.tests[i])
  BY <1>5, <1>6
<1> QED
  BY <1>1, <1>3, <1>4, <1>7, <1>8, <1>9

LEMMA DoneIsWhole ==
  ASSUME RunInv, NEW f \in Files, InWork(f)
  PROVE  /\ Parses(suite[f])
         /\ stage[f] = "done" /\ flags.match = AnyName => {Which(r) : r \in Range(results[f])} = Due(suite[f])
<1>1. PICK load \in Loads[suite[f]], n \in Nat : Place(f, load, n)
  BY DEF InWork
<1>2. Parses(suite[f])
  BY <1>1, PlaceIs DEF Loaded
<1>3. ASSUME stage[f] = "done", flags.match = AnyName
      PROVE  {Which(r) : r \in Range(results[f])} = Due(suite[f])
  <2>1. expanded[f] = <<>> /\ Len(expanded[f]) = Len(load.tests) - n
    BY <1>1, <1>3 DEF Place
  <2>2. n = Len(load.tests)
    BY <1>1, <2>1, PlaceIs, EmptySeq
  <2>3. /\ Due(suite[f]) = {Which(load.tests[i]) : i \in 1..n}
        /\ DOMAIN results[f] = 1..n /\ \A i \in 1..n : Which(results[f][i]) = Which(load.tests[i])
    BY <1>1, <1>3, <2>2, PlaceIs
  <2> QED
    BY <2>3 DEF Range
<1> QED
  BY <1>2, <1>3

\* Fail-fast stops the queue: a file that was begun is reported whole (Run).
THEOREM FilesAreWhole == Spec => []FileWhole
<1>1. ASSUME RunInv PROVE FileWhole
  <2> SUFFICES ASSUME main = "joined", flags.match = AnyName, NEW f \in todo
               PROVE  \/ {Which(r) : r \in Range(results[f])} = Due(suite[f])
                      \/ results[f] = <<>> /\ (cancelled \/ fileErr[f])
    BY DEF FileWhole
  <2>1. f \in Files /\ stage[f] = "done"
    BY <1>1 DEF RunInv, Typing, Phases
  <2>2. CASE InWork(f)
    BY <1>1, <2>1, <2>2, DoneIsWhole
  <2>3. CASE Untouched(f)
    BY <2>1, <2>3 DEF Untouched
  <2> QED
    BY <1>1, <2>1, <2>2, <2>3 DEF RunInv, FilesInv
<1> QED
  BY <1>1, RunInvariant, PTL

\* What is withheld at this tier has a demand that this tier does not meet.
LEMMA WithheldDemands ==
  ASSUME NEW asserts \in SUBSET Assertion, MatcherTierSkip(asserts, Active)
  PROVE  Demands(asserts) # {}
<1>1. PICK a \in asserts : \E x \in GateBelow[a] : Unsupported(x, Active)
  BY DEF MatcherTierSkip, Blamed
<1>5. PICK b \in GateBelow[a] : Unsupported(b, Active)
  BY <1>1
<1>2. b \in Below[a] /\ b \in Assertion
  BY <1>5, GateBelowBelow
<1>3. Rank(Active) <= Rank(Active)
  BY RankValues, ActiveIs
<1>4. ~Met(b, Active)
  BY <1>5, <1>2, <1>3, ActiveIs, MetNotUnsupported
<1> QED
  BY <1>2, <1>4 DEF Demands

\* Everything the user wrote is accounted for by exit code 0 (discoverTestFiles,
\* Run, runTestCmd).
THEOREM GreenMeansEverything == Spec => []GreenMeansAll
<1>1. ASSUME RunInv, exitCode = 0
      PROVE  /\ ~flags.passOnWarning => "pass" \in Statuses
             /\ "fail" \notin Statuses
             /\ \A f \in (IF Named THEN {flags.file} ELSE Files) :
                   /\ Parses(suite[f]) /\ ~fileErr[f]
                   /\ flags.match = AnyName /\ ~suite[f].features => \A due \in Due(suite[f]) :
                          \/ Demands(due[1].asserts) # {}
                          \/ \E r \in Range(results[f]) : Which(r) = due
  <2>1. ExitCode = 0 /\ Discovered /\ \A f \in todo : stage[f] = "done"
    BY <1>1 DEF RunInv, Phases, Typing
  <2>2. /\ \A f \in Files : ~fileErr[f]
        /\ "fail" \notin Statuses
        /\ ~flags.passOnWarning => "pass" \in Statuses
    BY <2>1 DEF ExitCode, Warned
  <2>3. ~cancelled
    <3>1. ASSUME NEW f \in Files, FailedIn(f) PROVE FALSE
      <4>1. PICK r \in Range(results[f]) : r.status = "fail"
        BY <3>1 DEF FailedIn, Range
      <4>2. "fail" \in Statuses
        BY <4>1 DEF Statuses
      <4> QED
        BY <2>2, <4>2
    <3> QED
      BY <1>1, <3>1 DEF RunInv, CancelInv
  <2>4. ASSUME NEW f \in (IF Named THEN {flags.file} ELSE Files)
        PROVE  /\ Parses(suite[f]) /\ ~fileErr[f]
               /\ flags.match = AnyName /\ ~suite[f].features => \A due \in Due(suite[f]) :
                      \/ Demands(due[1].asserts) # {}
                      \/ \E r \in Range(results[f]) : Which(r) = due
    <3>1. f \in Files /\ ~fileErr[f]
      BY <2>2, <2>4 DEF Named
    <3>2. CASE f \in todo
      <4>1. InWork(f) /\ stage[f] = "done"
        BY <1>1, <2>1, <2>3, <3>1, <3>2 DEF RunInv, FilesInv, Untouched
      <4>2. /\ Parses(suite[f])
            /\ flags.match = AnyName => {Which(r) : r \in Range(results[f])} = Due(suite[f])
        BY <1>1, <3>1, <4>1, DoneIsWhole
      <4>3. flags.match = AnyName => \A due \in Due(suite[f]) : \E r \in Range(results[f]) : Which(r) = due
        BY <4>2
      <4> QED
        BY <3>1, <4>2, <4>3
    <3>3. CASE f \notin todo
      <4>1. f \notin Kept
        BY <2>1, <2>4, <3>3 DEF Discovered
      <4>2. Parses(suite[f]) /\ UnrunnableAt(suite[f].features, suite[f].tests, Active)
        BY <3>1, <4>1 DEF Kept
      <4>3. ASSUME ~suite[f].features, NEW due \in Due(suite[f]) PROVE Demands(due[1].asserts) # {}
        <5>1. \A i \in DOMAIN suite[f].tests : MatcherTierSkip(suite[f].tests[i].asserts, Active)
          BY <4>2, <4>3 DEF UnrunnableAt, FeatureSkip
        <5>2. PICK t \in Range(suite[f].tests) : due[1] = t
          BY DEF Due
        <5>3. MatcherTierSkip(t.asserts, Active)
          BY <5>1 DEF Range
        <5>4. t.asserts \subseteq Assertion
          BY <1>1, <3>1, SuitesAssumption DEF RunInv, Typing
        <5> QED
          BY <5>2, <5>3, <5>4, WithheldDemands
      <4> QED
        BY <3>1, <4>2, <4>3
    <3> QED
      BY <3>2, <3>3
  <2> QED
    BY <2>2, <2>4
<1>2. RunInv => GreenMeansAll
  BY <1>1 DEF GreenMeansAll
<1> QED
  BY <1>2, RunInvariant, PTL

\* A matrix or a list of cases is run for every combination that it means, whatever
\* order Go takes the axes in: none is forgotten, and none is run twice unless it is
\* written twice (expandTests, matrix.Expand).
THEOREM ExpandedExactly == Spec => []ExpansionExact
<1>1. ASSUME RunInv, NEW f \in Files, stage[f] = "running", flags.match = AnyName
      PROVE  LET all == [i \in DOMAIN results[f] |-> Which(results[f][i])]
                        \o [i \in DOMAIN expanded[f] |-> Which(expanded[f][i])]
             IN  Range(all) = Due(suite[f]) /\ (Apart(suite[f]) => Len(all) = Cardinality(Due(suite[f])))
  <2> DEFINE s == suite[f]
             W == Due(s)
             A == [i \in DOMAIN results[f] |-> Which(results[f][i])]
             B == [i \in DOMAIN expanded[f] |-> Which(expanded[f][i])]
             all == A \o B
  <2>1. PICK load \in Loads[s], n \in Nat : Place(f, load, n)
    BY <1>1 DEF RunInv, FilesInv, InWork, Untouched
  <2> DEFINE m == Len(load.tests)
             name(i) == Which(load.tests[i])
  <2>2. /\ Loaded(s, load) /\ m \in Nat /\ DOMAIN load.tests = 1..m /\ n <= m
        /\ W = {name(i) : i \in 1..m}
        /\ DOMAIN expanded[f] = 1..(m - n) /\ \A i \in 1..(m - n) : expanded[f][i] = load.tests[n + i]
        /\ DOMAIN results[f] = 1..n /\ \A i \in 1..n : Which(results[f][i]) = name(i)
    <3>1. s \in SuiteChoices /\ f \in Files
      BY <1>1 DEF RunInv, Typing
    <3> HIDE DEF s
    <3>2. suite[f] = s
      BY DEF s
    <3>3. /\ Loaded(s, load) /\ Len(load.tests) \in Nat /\ DOMAIN load.tests = 1..Len(load.tests) /\ n <= Len(load.tests)
          /\ Due(s) = {Which(load.tests[i]) : i \in 1..Len(load.tests)}
      BY <1>1, <2>1, <3>1, <3>2, PlaceIs
    <3>4. /\ DOMAIN expanded[f] = 1..(Len(load.tests) - n)
          /\ \A i \in 1..(Len(load.tests) - n) : expanded[f][i] = load.tests[n + i]
      BY <1>1, <2>1, <3>1, <3>2, PlaceIs
    <3>5. DOMAIN results[f] = 1..n /\ \A i \in 1..n : Which(results[f][i]) = Which(load.tests[i])
      BY <1>1, <2>1, <3>1, <3>2, PlaceIs
    <3> QED
      BY <3>3, <3>4, <3>5
  <2>3. /\ \A i \in 1..n : i \in 1..m
        /\ \A i \in 1..(m - n) : n + i \in 1..m
        /\ m - n \in Nat
    BY <2>2
  <2>4. A = [i \in 1..n |-> name(i)] /\ B = [i \in 1..(m - n) |-> name(n + i)]
    BY <2>2
  <2> HIDE DEF A, B, W, name, m
  <2>5. A \in [1..n -> W] /\ B \in [1..(m - n) -> W]
    BY <2>2, <2>3, <2>4
  <2>6. A \in Seq(W) /\ Len(A) = n /\ B \in Seq(W) /\ Len(B) = m - n
    <3>1. A \in Seq(W) /\ B \in Seq(W)
      BY <2>3, <2>5, SeqDef
    <3>2. DOMAIN A = 1..n /\ DOMAIN B = 1..(m - n)
      BY <2>5
    <3> QED
      BY <2>3, <3>1, <3>2, LenProperties
  <2>7. /\ all \in Seq(W) /\ Len(all) = n + (m - n)
        /\ \A i \in 1..(n + (m - n)) : all[i] = IF i <= n THEN A[i] ELSE B[i - n]
    <3> DEFINE x == A \o B
    <3>1. x \in Seq(W) /\ Len(x) = Len(A) + Len(B)
      BY <2>6, ConcatProperties
    <3>2. \A i \in 1..(Len(A) + Len(B)) : x[i] = IF i <= Len(A) THEN A[i] ELSE B[i - Len(A)]
      BY <2>6, ConcatProperties
    <3> HIDE DEF x
    <3>3. /\ x \in Seq(W) /\ Len(x) = n + (m - n)
          /\ \A i \in 1..(n + (m - n)) : x[i] = IF i <= n THEN A[i] ELSE B[i - n]
      BY <2>6, <3>1, <3>2
    <3> QED
      BY <3>3 DEF x
  <2>8. n + (m - n) = m
    BY <2>2
  <2>9. ASSUME NEW i \in 1..m PROVE all[i] = name(i)
    <3>1. CASE i <= n
      <4>1. i \in 1..n /\ all[i] = A[i]
        BY <2>7, <2>8, <3>1
      <4> QED
        BY <2>4, <4>1
    <3>2. CASE ~(i <= n)
      <4>1. i - n \in 1..(m - n) /\ all[i] = B[i - n] /\ n + (i - n) = i
        BY <2>2, <2>7, <2>8, <3>2
      <4> QED
        BY <2>4, <4>1
    <3> QED
      BY <3>1, <3>2
  <2>10. all \in Seq(W) /\ Len(all) = m /\ DOMAIN all = 1..m
    <3> HIDE DEF all
    <3> QED
      BY <2>7, <2>8, LenProperties
  <2> HIDE DEF all
  <2>11. Range(all) = W
    BY <2>2, <2>9, <2>10 DEF Range
  <2>12. ASSUME Apart(s) PROVE Len(all) = Cardinality(W)
    <3>1. \A i, j \in 1..m : name(i) = name(j) => i = j
      BY <2>2, <2>12 DEF Loaded, name
    <3>2. all = [i \in 1..m |-> all[i]] /\ all \in [1..m -> W]
      BY <2>2, <2>9, <2>10, SeqDef
    <3>3. all \in Bijection(1..m, W)
      <4>1. \A i, j \in 1..m : all[i] = all[j] => i = j
        BY <2>9, <3>1
      <4>2. \A w \in W : \E i \in 1..m : all[i] = w
        BY <2>2, <2>9
      <4> QED
        BY <3>2, <4>1, <4>2 DEF Bijection, Injection, Surjection, IsInjective
    <3>4. IsFiniteSet(1..m) /\ Cardinality(1..m) = m
      BY <2>2, FS_Interval
    <3>5. Cardinality(W) = m
      BY <3>3, <3>4, FS_Bijection DEF ExistsBijection
    <3> QED
      BY <2>10, <3>5
  <2> QED
    BY <2>11, <2>12 DEF all, A, B, W
<1>2. RunInv => ExpansionExact
  BY <1>1 DEF ExpansionExact
<1> QED
  BY <1>2, RunInvariant, PTL
-----------------------------------------------------------------------------
(* The files go through the worker pool. *)

\* The pool's state as the files' stages show it.
PoolItems  == IF Named THEN {flags.file} ELSE Kept
PoolJob    == [f \in PoolItems |-> CASE stage[f] = "queued" -> "waiting" [] stage[f] = "done" -> "finished"
                                     [] OTHER -> "running"]
PoolJoined == main \in {"joined", "exited"} /\ \A f \in PoolItems : stage[f] = "done"

LEMMA ItemsAreFiles == PoolItems \subseteq Files
  BY DEF PoolItems, Named, Kept

LEMMA PoolJobShows ==
  ASSUME NEW f \in PoolItems, stage[f] \in {"queued", "running", "done"}
  PROVE  /\ PoolJob[f] = "waiting" <=> stage[f] = "queued"
         /\ PoolJob[f] = "running" <=> stage[f] = "running"
         /\ PoolJob[f] = "finished" <=> stage[f] = "done"
  BY DEF PoolJob

LEMMA CallKept ==
  ASSUME suite' = suite, flags' = flags
  PROVE  PoolItems' = PoolItems /\ Slots' = Slots
  BY DEF PoolItems, Named, Kept, Slots

LEMMA PoolSlot ==
  ASSUME RunInv, SlotFree, main = "running"
  PROVE  Pool!SlotFree
<1>1. PoolItems = todo
  BY DEF RunInv, Phases, Discovered, PoolItems
<1>2. \A f \in Files \ PoolItems : stage[f] = "queued"
  BY <1>1 DEF RunInv, Phases
<1>3. {f \in PoolItems : PoolJob[f] = "running"} = Running
  BY <1>2, PoolJobShows, ItemsAreFiles DEF Running, RunInv, Typing
<1>4. Pool!Running = Running
  BY <1>3 DEF Pool!Running, PoolItems, PoolJob
<1>5. Pool!Cardinality(Running) = Cardinality(Running)
  BY DEF Pool!Cardinality, Cardinality
<1> QED
  BY <1>4, <1>5 DEF Pool!SlotFree, SlotFree

\* A job whose file goes from one stage to another.
LEMMA PoolJobMoves ==
  ASSUME RunInv, NEW f \in PoolItems, suite' = suite, flags' = flags,
         NEW s \in {"queued", "running", "done"}, stage' = [stage EXCEPT ![f] = s]
  PROVE  PoolJob' = [PoolJob EXCEPT ![f] = CASE s = "queued" -> "waiting" [] s = "done" -> "finished"
                                     [] OTHER -> "running"]
<1>1. PoolItems' = PoolItems /\ f \in Files /\ DOMAIN stage = Files
  BY CallKept, ItemsAreFiles DEF RunInv, Typing
<1>2. \A g \in PoolItems : stage'[g] = IF g = f THEN s ELSE stage[g]
  BY <1>1, ItemsAreFiles
<1> QED
  BY <1>1, <1>2 DEF PoolJob

LEMMA PoolStutters ==
  ASSUME suite' = suite, flags' = flags, PoolJob' = PoolJob, PoolJoined' = PoolJoined
  PROVE  UNCHANGED Pool!vars
<1>1. PoolItems' = PoolItems /\ Slots' = Slots
  BY CallKept
<1> QED
  BY <1>1 DEF Pool!vars, Pool!call, PoolItems, PoolJob, PoolJoined

LEMMA PoolFileStep ==
  ASSUME RunInv, NEW f \in Files, CancelFile(f) \/ LoadFile(f) \/ RunTest(f) \/ EndFile(f)
  PROVE  [Pool!Next]_(Pool!vars)
<1>1. /\ main = "running" /\ f \in todo /\ suite' = suite /\ flags' = flags /\ main' = main
  <2>1. suite' = suite /\ flags' = flags /\ main' = main
    BY DEF CancelFile, LoadFile, RunTest, EndFile, runVars
  <2>2. CASE CancelFile(f) \/ LoadFile(f)
    BY <2>1, <2>2 DEF CancelFile, LoadFile
  <2>3. CASE RunTest(f) \/ EndFile(f)
    <3>1. stage[f] = "running"
      BY <2>3 DEF RunTest, EndFile
    <3>2. main \in {"idle", "start", "running", "joined", "exited"} /\ f \in Running
      BY <3>1 DEF RunInv, Typing, Running
    <3>3. main \notin {"joined", "exited"} /\ main \notin {"idle", "start"} /\ f \in todo
      BY <3>1, <3>2 DEF RunInv, Phases
    <3> QED
      BY <2>1, <3>2, <3>3
  <2> QED
    BY <2>2, <2>3
<1>2. f \in PoolItems /\ ~PoolJoined /\ ~PoolJoined' /\ PoolItems' = PoolItems /\ Slots' = Slots
  BY <1>1, CallKept DEF RunInv, Phases, Discovered, PoolItems, PoolJoined
<1>3. stage[f] \in {"queued", "running", "done"}
  BY DEF RunInv, Typing
<1>4. CASE CancelFile(f)
  <2>1. PoolJob[f] = "waiting" /\ PoolJob' = [PoolJob EXCEPT ![f] = "finished"]
    BY <1>1, <1>2, <1>3, <1>4, PoolJobShows, PoolJobMoves DEF CancelFile
  <2>2. Pool!SlotFree
    BY <1>1, <1>4, PoolSlot DEF CancelFile
  <2>3. Pool!Pass(f)
    BY <1>2, <2>1, <2>2 DEF Pool!Pass, Pool!call, PoolItems, PoolJob, PoolJoined
  <2> QED
    BY <1>2, <2>3 DEF Pool!Next, PoolItems
<1>5. CASE LoadFile(f)
  <2>1. PICK load \in Loads[suite[f]] : stage' = [stage EXCEPT ![f] = IF load.ok THEN "running" ELSE "done"]
    BY <1>5 DEF LoadFile
  <2>2. PoolJob[f] = "waiting"
    BY <1>2, <1>3, <1>5, PoolJobShows DEF LoadFile
  <2>3. Pool!SlotFree
    BY <1>1, <1>5, PoolSlot DEF LoadFile
  <2>4. CASE load.ok
    <3>1. PoolJob' = [PoolJob EXCEPT ![f] = "running"]
      BY <1>1, <1>2, <2>1, <2>4, PoolJobMoves
    <3>2. Pool!Begin(f)
      BY <1>2, <2>2, <2>3, <3>1 DEF Pool!Begin, Pool!call, PoolItems, PoolJob, PoolJoined
    <3> QED
      BY <1>2, <3>2 DEF Pool!Next, PoolItems
  <2>5. CASE ~load.ok
    <3>1. PoolJob' = [PoolJob EXCEPT ![f] = "finished"]
      BY <1>1, <1>2, <2>1, <2>5, PoolJobMoves
    <3>2. Pool!Pass(f)
      BY <1>2, <2>2, <2>3, <3>1 DEF Pool!Pass, Pool!call, PoolItems, PoolJob, PoolJoined
    <3> QED
      BY <1>2, <3>2 DEF Pool!Next, PoolItems
  <2> QED
    BY <2>4, <2>5
<1>6. CASE RunTest(f)
  <2>1. PoolJob' = PoolJob
    BY <1>2, <1>6 DEF RunTest, PoolJob
  <2>2. PoolJoined' = PoolJoined
    BY <1>2 DEF PoolJoined
  <2> QED
    BY <1>1, <2>1, <2>2, PoolStutters
<1>7. CASE EndFile(f)
  <2>1. PoolJob[f] = "running" /\ PoolJob' = [PoolJob EXCEPT ![f] = "finished"]
    BY <1>1, <1>2, <1>3, <1>7, PoolJobShows, PoolJobMoves DEF EndFile
  <2>2. Pool!Finish(f)
    BY <1>2, <2>1 DEF Pool!Finish, Pool!call, PoolItems, PoolJob, PoolJoined
  <2> QED
    BY <1>2, <2>2 DEF Pool!Next, PoolItems
<1> QED
  BY <1>4, <1>5, <1>6, <1>7

LEMMA PoolMainStep ==
  ASSUME RunInv, Refuse \/ Discover \/ StartPool \/ Join \/ Exit \/ Done \/ UNCHANGED vars
  PROVE  [Pool!Next]_(Pool!vars)
<1>1. /\ suite' = suite /\ flags' = flags /\ stage' = stage
      /\ main \in {"joined", "exited"} => main' \in {"joined", "exited"}
  BY DEF Refuse, Discover, StartPool, Join, Exit, Done, vars, runVars, fileVars
<1>2. PoolItems' = PoolItems /\ Slots' = Slots
  BY <1>1, CallKept
<1>3. PoolJob' = PoolJob
  BY <1>1, <1>2 DEF PoolJob
<1>4. CASE PoolJoined' = PoolJoined
  BY <1>1, <1>3, <1>4, PoolStutters
<1>5. CASE PoolJoined' # PoolJoined
  <2>1. PoolJoined \in BOOLEAN /\ PoolJoined' \in BOOLEAN
    BY DEF PoolJoined
  <2>2. PoolJoined => PoolJoined'
    BY <1>1, <1>2 DEF PoolJoined
  <2>3. ~PoolJoined /\ PoolJoined' = TRUE /\ \A f \in PoolItems : stage[f] = "done"
    BY <1>1, <1>2, <1>5, <2>1, <2>2 DEF PoolJoined
  <2>4. \A f \in PoolItems : PoolJob[f] = "finished"
    BY <2>3, PoolJobShows
  <2>5. Pool!Join
    BY <1>2, <1>3, <2>3, <2>4 DEF Pool!Join, Pool!call, PoolItems, PoolJob, PoolJoined
  <2> QED
    BY <2>5 DEF Pool!Next
<1> QED
  BY <1>4, <1>5

\* The template tier's loop over the files, with fail-fast and files that do not
\* load, is an implementation of the pool that runParallel promises (Run).
THEOREM RunImplementsPool == Spec => PoolSpec
<1>1. Init => Pool!Init
  <2> SUFFICES ASSUME Init PROVE Pool!Init
    OBVIOUS
  <2>1. PoolItems \subseteq Files
    BY ItemsAreFiles
  <2>2. Slots \in Nat \ {0}
    BY FlagsAssumption DEF Init, Slots
  <2>3. PoolJob = [f \in PoolItems |-> "waiting"]
    BY <2>1 DEF Init, PoolJob
  <2>4. PoolJoined = FALSE
    BY DEF Init, PoolJoined
  <2> QED
    BY <2>1, <2>2, <2>3, <2>4 DEF Pool!Init, PoolItems, PoolJob, PoolJoined
<1>2. RunInv /\ [Next]_vars => [Pool!Next]_(Pool!vars)
  <2> SUFFICES ASSUME RunInv, [Next]_vars PROVE [Pool!Next]_(Pool!vars)
    OBVIOUS
  <2>1. CASE Refuse \/ Discover \/ StartPool \/ Join \/ Exit \/ Done \/ UNCHANGED vars
    BY <2>1, PoolMainStep
  <2>2. CASE \E f \in Files : CancelFile(f) \/ LoadFile(f) \/ RunTest(f) \/ EndFile(f)
    BY <2>2, PoolFileStep
  <2> QED
    BY <2>1, <2>2 DEF Next
<1> QED
  BY <1>1, <1>2, RunInvariant, PTL DEF Spec, PoolSpec, Pool!Spec
=============================================================================
