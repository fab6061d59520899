----------------------------- MODULE TierRules -----------------------------
(***************************************************************************)
(* What a test needs and what an environment provides.  A suite's `tier:`  *)
(* is a ceiling that the parser enforces on every assertion of the file;   *)
(* the gate of the runners skips a test that needs more than the active    *)
(* backend provides, and its reason names backends to use instead.  The    *)
(* two walk the assertions by different rules: the assertions of all files *)
(* are one forest here, and an assertion is one of its nodes.              *)
(***************************************************************************)
EXTENDS Integers, Sequences, FiniteSets

CONSTANTS
    Assertion,  \* nodes: the assertions of a test and those nested in them
    Sets,       \* [Assertion -> SUBSET Leaf]: matcher keys it sets, but allOf and anyOf
    AllOf,      \* [Assertion -> SUBSET Assertion]: children
    AnyOf,
    Nested      \* then: and forEach: of a lookup

\* In the order in which Go runs their init functions.  "equal" stands for every
\* other matcher on a rendered manifest, those that register after allOf included:
\* an assertion here sets none of those next to an allOf or an anyOf.
Registry == <<"applies", "rejected", "hasDocuments", "failedTemplate", "equal", "eventEmitted",
              "http", "logsContain", "lookup", "allOf", "anyOf", "waitFor", "becomesReady">>
Leaf     == {Registry[i] : i \in DOMAIN Registry} \ {"allOf", "anyOf"}

AllTiers == <<"template", "apiserver", "simulated", "e2e">>
Tiers    == {AllTiers[i] : i \in DOMAIN AllTiers}
Backends == {"envtest", "kind", "k3d", "kubeconfig"}

ASSUME ForestAssumption ==
    /\ Sets \in [Assertion -> SUBSET Leaf]
    /\ AllOf  \in [Assertion -> SUBSET Assertion]
    /\ AnyOf  \in [Assertion -> SUBSET Assertion]
    /\ Nested \in [Assertion -> SUBSET Assertion]
    /\ \A a \in Assertion : Nested[a] # {} => "lookup" \in Sets[a]

-----------------------------------------------------------------------------
(* The ladder. *)

\* tierCapabilities: what each tier adds to the one below it.
Adds(tier) == CASE tier = "template"  -> {"renderedManifests"}
                [] tier = "apiserver" -> {"apiServerAdmission", "liveReads"}
                [] tier = "simulated" -> {"reconciliation"}
                [] tier = "e2e"       -> {"runningPods", "podLogs", "networkEgress"}

\* The needs=... tag of each matcher's field.
Needs(m) == CASE m \in {"applies", "rejected"} -> {"apiServerAdmission"}
              [] m = "http"                    -> {"runningPods", "networkEgress"}
              [] m = "logsContain"             -> {"runningPods", "podLogs"}
              [] m \in {"waitFor", "becomesReady", "lookup", "eventEmitted"}
                                               -> {"liveReads", "reconciliation"}
              [] OTHER                         -> {"renderedManifests"}

Rank(tier) == CHOOSE i \in DOMAIN AllTiers : AllTiers[i] = tier

TierProvides(tier) == UNION {Adds(AllTiers[i]) : i \in 1..Rank(tier)}

TiersProviding(needs) == {tier \in Tiers : needs \subseteq TierProvides(tier)}

BackendTier(backend) == CASE backend = "none"    -> "template"
                          [] backend = "envtest" -> "apiserver"
                          [] OTHER               -> "e2e"

RunnableTiers == {"template"} \cup {BackendTier(b) : b \in Backends}

\* (Mutant: the tier itself, not the tiers from it on.)
BackendsForTier_Exact(tier) == {b \in Backends : BackendTier(b) = tier}
BackendsForTier(tier) ==
    IF tier = "template" THEN {} ELSE {b \in Backends : Rank(BackendTier(b)) >= Rank(tier)}

Lowest(tiers) == CHOOSE t \in tiers : \A u \in tiers : Rank(t) <= Rank(u)
-----------------------------------------------------------------------------
(* The ceiling (internal/dsl) looks at every node and every key it sets. *)

\* The nodes a walk from a comes to: the least set closed under the steps.
Reached(a, step) ==
    LET closed == {S \in SUBSET Assertion : a \in S /\ \A b \in S : step[b] \subseteq S}
    IN  {b \in Assertion : \A S \in closed : b \in S}

Children(a) == AllOf[a] \cup AnyOf[a] \cup Nested[a]

Below == LET step == [b \in Assertion |-> Children(b)]
         IN  [a \in Assertion |-> Reached(a, step)]

Met(a, tier) == \A m \in Sets[a] : Needs(m) \subseteq TierProvides(tier)

\* ValidateTierCeiling.
WithinCeiling(asserts, tier) ==
    tier \in RunnableTiers /\ \A a \in asserts : \A b \in Below[a] : Met(b, tier)

\* ReadsLiveState.
ReadsLiveState(a) ==
    \E b \in Below[a] : \E m \in Sets[b] : Needs(m) # {"renderedManifests"}
-----------------------------------------------------------------------------
(* The gate (internal/matchers) follows what Evaluate would evaluate. *)

\* find: the first matcher in the registry that claims the assertion.
Claimants(a) == Sets[a] \cup (IF AllOf[a] # {} THEN {"allOf"} ELSE {})
                        \cup (IF AnyOf[a] # {} THEN {"anyOf"} ELSE {})
Claimed(a)  == Claimants(a) # {}
Claimant(a) == Registry[CHOOSE i \in DOMAIN Registry :
                          /\ Registry[i] \in Claimants(a)
                          /\ \A j \in 1..(i - 1) : Registry[j] \notin Claimants(a)]

Composite(a) == AllOf[a] # {} \/ AnyOf[a] # {}
\* (Mutant: the branches of an anyOf are not looked into.)
GateChildren_NotAnyOf(a) == AllOf[a]
GateChildren(a) == IF AllOf[a] # {} THEN AllOf[a] ELSE AnyOf[a]

GateBelow == LET step == [b \in Assertion |-> GateChildren(b)]
             IN  [a \in Assertion |-> Reached(a, step)]

\* findUnsupportedInAssertion: a composite is judged by its children alone.
Unsupported(a, tier) ==
    ~Composite(a) /\ Claimed(a) /\ tier \notin TiersProviding(Needs(Claimant(a)))

\* FindUnsupportedMatcher.
Blamed(asserts, tier) == {b \in UNION {GateBelow[a] : a \in asserts} : Unsupported(b, tier)}
MatcherTierSkip(asserts, tier) == Blamed(asserts, tier) # {}

\* clusterHintForTier(strictestTier(supported)): backends named in the skip reason.
Hint(a) == BackendsForTier(Lowest(TiersProviding(Needs(Claimant(a)))))

\* integrationFeatureSkip: dependencies and hooks need a cluster with controllers.
FeatureSkip(features, tier) == features /\ Rank(tier) < Rank("simulated")

\* UnrunnableAt: not one test of the file can run.
\* (Mutant: one test that cannot run is enough.)
UnrunnableAt_Some(features, tests, tier) ==
    FeatureSkip(features, tier) \/ \E i \in DOMAIN tests : MatcherTierSkip(tests[i].asserts, tier)
UnrunnableAt(features, tests, tier) ==
    \/ FeatureSkip(features, tier)
    \/ DOMAIN tests # {} /\ \A i \in DOMAIN tests : MatcherTierSkip(tests[i].asserts, tier)
=============================================================================
