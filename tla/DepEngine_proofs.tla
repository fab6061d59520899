-------------------------- MODULE DepEngine_proofs --------------------------
(***************************************************************************)
(* Proofs about DepEngine, for any callers, any lists that BuildBatches    *)
(* accepts, any pool size, with or without failing calls and crashes.      *)
(***************************************************************************)
EXTENDS DepEngine, FiniteSetTheorems, TLAPS

Started == Steps \ {"none", "queued"}

\* A dep is launched when it is in the list and all it depends on is done.
Launched(c) ==
    \A d \in Dep : step[c][d] # "none" =>
        d \in list[c].deps /\ \A e \in list[c].after[d] : step[c][e] = "ok"

\* What is collected is done, lies above what it depends on, and in one batch.
Collected(c) ==
    \A k \in DOMAIN batches[c] : \A d \in batches[c][k] :
        /\ step[c][d] = "ok"
        /\ \A e \in list[c].after[d] : \E j \in DOMAIN batches[c] : j < k /\ e \in batches[c][j]
        /\ \A j \in DOMAIN batches[c] : d \in batches[c][j] => j = k

\* What the phase of a call says of its batches and goroutines.
Placed(c) ==
    /\ phase[c] = "idle" => batches[c] = <<>> /\ \A d \in Dep : step[c][d] = "none"
    /\ phase[c] = "batch" => Current(c) # {} /\ \A d \in Current(c) : list[c].after[d] \subseteq Installed(c)
    /\ phase[c] \in {"batch", "installed"} => \A k \in DOMAIN batches[c] : batches[c][k] # {}
    /\ phase[c] \in {"installed", "teardown", "gone"} => \A d \in list[c].deps : step[c][d] = "ok"
    /\ phase[c] = "installed" => Installed(c) = list[c].deps
    /\ phase[c] \in {"teardown", "gone"} => list[c].scope # "cluster"
    /\ phase[c] = "gone" => Installed(c) = {}
    /\ \A d \in Dep : step[c][d] \in {"check", "store"} => list[c].scope = "cluster"

Bounded(c) == Cardinality(Working(c)) <= Slots

Local(c) == Launched(c) /\ Collected(c) /\ Placed(c) /\ Bounded(c)

Good(d) == present[d] # "absent" /\ (Vouched(d) => present[d] = "ready")

\* A caller that has not begun to tear down, or never will.
Holding(c) == phase[c] \in {"batch", "installed"} \/ list[c].scope = "cluster"

\* Only a caller with cluster scope writes records.
Recorded == \A d \in record : \E c \in Callers : list[c].scope = "cluster" /\ d \in list[c].deps

\* What a goroutine has reached is there in the cluster.
Reached(c) ==
    \A d \in Dep \ Contended : Holding(c) =>
        /\ step[c][d] = "wait" => present[d] # "absent"
        /\ step[c][d] \in {"store", "ok"} => Good(d)

Removed(c) ==
    phase[c] \in {"teardown", "gone"} =>
        \A d \in list[c].deps \ Contended :
            d \notin Installed(c) => present[d] = "absent" \/ d \in stuck

World == /\ Recorded /\ CacheTruth
         /\ \A c \in Callers : Reached(c) /\ Removed(c)
         /\ stuck # {} => Faults

Typed ==
    /\ list \in [Callers -> Lists] /\ phase \in [Callers -> Phases]
    /\ step \in [Callers -> [Dep -> Steps]]
    /\ batches \in [Callers -> Seq(SUBSET Dep)] /\ dropping \in [Callers -> SUBSET Dep]
    /\ present \in [Dep -> {"absent", "applied", "ready"}]
    /\ record \subseteq Dep /\ stuck \subseteq Dep

IInv == Typed /\ (\A c \in Callers : Local(c)) /\ World /\ PrerequisitesOutlive
-----------------------------------------------------------------------------
LEMMA SlotsPositive == Slots \in Nat \ {0}
  BY SlotsAssumption DEF Slots

LEMMA ListTyped ==
  ASSUME Typed, NEW c \in Callers
  PROVE  /\ list[c] \in Lists /\ Accepted(list[c])
         /\ list[c].scope \in {"cluster", "suite", "test"}
         /\ list[c].deps \subseteq Dep /\ list[c].after \in [Dep -> SUBSET Dep]
<1>1. list[c] \in Lists
  BY DEF Typed
<1>2. list[c] \in ListShape /\ Accepted(list[c])
  BY <1>1, ListsAssumption
<1> QED
  BY <1>1, <1>2 DEF ListShape

LEMMA WorkingFinite == \A c \in Callers : IsFiniteSet(Working(c))
<1>1. \A c \in Callers : Working(c) \subseteq Dep
  BY DEF Working
<1> QED
  BY <1>1, DepAssumption, FS_Subset

\* A caller that no step of the others touches.
LEMMA LocalKept ==
  ASSUME NEW c \in Callers, Local(c), UNCHANGED list,
         phase'[c] = phase[c], step'[c] = step[c], batches'[c] = batches[c]
  PROVE  Local(c)'
<1>1. /\ Working(c)' = Working(c) /\ Installed(c)' = Installed(c) /\ Current(c)' = Current(c)
  BY DEF Working, Installed, Current
<1>2. Launched(c)'
  BY DEF Local, Launched
<1>3. Collected(c)'
  BY DEF Local, Collected
<1>4. Placed(c)'
  BY <1>1 DEF Local, Placed
<1>5. Bounded(c)'
  BY <1>1 DEF Local, Bounded
<1> QED
  BY <1>2, <1>3, <1>4, <1>5 DEF Local

\* One goroutine moves on.
LEMMA GoToEffect ==
  ASSUME Typed, NEW c \in Callers, NEW d \in Dep, NEW s \in Steps, GoTo(c, d, s)
  PROVE  /\ step' \in [Callers -> [Dep -> Steps]]
         /\ step'[c][d] = s
         /\ \A e \in Dep \ {d} : step'[c][e] = step[c][e]
         /\ \A x \in Callers \ {c} : step'[x] = step[x]
  BY DEF Typed, GoTo

\* Moving on needs a slot only for one that was queued.
LEMMA SlotsKept ==
  ASSUME Typed, NEW c \in Callers, NEW d \in Dep, NEW s \in Started, Bounded(c),
         GoTo(c, d, s), step[c][d] \in Busy \/ SlotFree(c)
  PROVE  Bounded(c)'
<1>0. /\ IsFiniteSet(Working(c)) /\ Cardinality(Working(c)) \in Nat /\ Slots \in Nat
  BY WorkingFinite, FS_CardinalityType, SlotsPositive
<1>1. Working(c)' \subseteq Working(c) \cup {d}
  BY GoToEffect DEF Working, Started
<1>2. CASE step[c][d] \in Busy
  <2>1. Working(c)' \subseteq Working(c)
    BY <1>1, <1>2 DEF Working
  <2>2. Cardinality(Working(c)') <= Cardinality(Working(c)) /\ Cardinality(Working(c)') \in Nat
    BY <1>0, <2>1, FS_Subset, FS_CardinalityType
  <2> QED
    BY <1>0, <2>2 DEF Bounded, Slots
<1>3. CASE step[c][d] \notin Busy /\ SlotFree(c)
  <2>1. d \notin Working(c)
    BY <1>3 DEF Working
  <2>2. IsFiniteSet(Working(c) \cup {d}) /\ Cardinality(Working(c) \cup {d}) = Cardinality(Working(c)) + 1
    BY <1>0, <2>1, FS_AddElement
  <2>3. Cardinality(Working(c)') <= Cardinality(Working(c)) + 1 /\ Cardinality(Working(c)') \in Nat
    BY <1>1, <2>2, FS_Subset, FS_CardinalityType
  <2> QED
    BY <1>0, <1>3, <2>3 DEF Bounded, SlotFree, Slots
<1> QED
  BY <1>2, <1>3

LEMMA DepStepLocal ==
  ASSUME Typed, \A x \in Callers : Local(x), NEW c \in Callers, NEW d \in Dep, NEW s \in Started,
         phase[c] = "batch", GoTo(c, d, s), UNCHANGED <<list, phase, batches>>,
         step[c][d] \in Busy \/ (step[c][d] = "queued" /\ SlotFree(c)),
         s \in {"check", "store"} => list[c].scope = "cluster"
  PROVE  \A x \in Callers : Local(x)'
<1>0. /\ s \in Steps /\ s # "none" /\ step[c][d] \notin {"none", "ok"}
      /\ Local(c)
  BY DEF Started, Steps, Busy
<1>1. /\ step'[c][d] = s
      /\ \A e \in Dep \ {d} : step'[c][e] = step[c][e]
      /\ \A x \in Callers \ {c} : step'[x] = step[x]
  BY <1>0, GoToEffect
<1>2. \A x \in Callers \ {c} : Local(x)'
  BY <1>1, LocalKept
<1>3. list[c].deps \subseteq Dep /\ list[c].after \in [Dep -> SUBSET Dep]
  BY ListTyped
<1>4. Launched(c)'
  BY <1>0, <1>1, <1>3 DEF Local, Launched
<1>5. Collected(c)'
  <2>1. \A k \in DOMAIN batches[c] : batches[c][k] \subseteq Dep
    BY DEF Typed
  <2> QED
    BY <1>0, <1>1, <2>1 DEF Local, Collected
<1>6. Installed(c)' = Installed(c)
  BY DEF Installed
<1>7. Current(c)' = Current(c)
  BY <1>0, <1>1, <1>6 DEF Current
<1>8. Placed(c)'
  BY <1>0, <1>1, <1>6, <1>7 DEF Local, Placed
<1>9. Bounded(c)'
  BY <1>0, SlotsKept DEF Local
<1> QED
  BY <1>2, <1>4, <1>5, <1>8, <1>9 DEF Local

\* The five steps of a goroutine.
DepStep(c, d) == \/ Acquire(c, d) \/ CheckCache(c, d) \/ InstallSource(c, d)
                 \/ WaitReady(c, d) \/ StoreRecord(c, d)

LEMMA DepStepKeepsLocal ==
  ASSUME Typed, \A x \in Callers : Local(x), NEW c \in Callers, NEW d \in Dep, DepStep(c, d)
  PROVE  \A x \in Callers : Local(x)'
<1>0. phase[c] = "batch" /\ UNCHANGED <<list, phase, batches>>
  BY DEF DepStep, Acquire, CheckCache, InstallSource, WaitReady, StoreRecord
<1>1. CASE Acquire(c, d)
  <2>1. PICK s \in {"check", "install"} : GoTo(c, d, s) /\ (s = "check" => list[c].scope = "cluster")
    BY <1>1 DEF Acquire
  <2>2. s \in Started /\ s # "store"
    BY <2>1 DEF Started, Steps
  <2>3. step[c][d] = "queued" /\ SlotFree(c)
    BY <1>1 DEF Acquire
  <2> QED
    BY <1>0, <2>1, <2>2, <2>3, DepStepLocal
<1>2. CASE CheckCache(c, d)
  <2>1. PICK s \in {"ok", "install"} : GoTo(c, d, s)
    BY <1>2 DEF CheckCache
  <2>2. s \in Started /\ s \notin {"check", "store"} /\ step[c][d] \in Busy
    BY <1>2, <2>1 DEF CheckCache, Started, Steps, Busy
  <2> QED
    BY <1>0, <2>1, <2>2, DepStepLocal
<1>3. CASE InstallSource(c, d)
  <2>1. PICK s \in {"wait", "failed"} : GoTo(c, d, s)
    BY <1>3 DEF InstallSource, AfterInstall
  <2>2. s \in Started /\ s \notin {"check", "store"} /\ step[c][d] \in Busy
    BY <1>3, <2>1 DEF InstallSource, Started, Steps, Busy
  <2> QED
    BY <1>0, <2>1, <2>2, DepStepLocal
<1>4. CASE WaitReady(c, d)
  <2>1. PICK s \in {"store", "ok", "failed"} : GoTo(c, d, s) /\ (s = "store" => list[c].scope = "cluster")
    BY <1>4 DEF WaitReady
  <2>2. s \in Started /\ s # "check" /\ step[c][d] \in Busy
    BY <1>4, <2>1 DEF WaitReady, Started, Steps, Busy
  <2> QED
    BY <1>0, <2>1, <2>2, DepStepLocal
<1>5. CASE StoreRecord(c, d)
  <2>1. "ok" \in Started /\ step[c][d] \in Busy /\ GoTo(c, d, "ok")
    BY <1>5 DEF StoreRecord, Started, Steps, Busy
  <2> QED
    BY <1>0, <2>1, DepStepLocal
<1> QED
  BY <1>1, <1>2, <1>3, <1>4, <1>5 DEF DepStep

\* A batch is launched: its deps wait on what is done, and there is one.
LEMMA LaunchEffect ==
  ASSUME Typed, NEW c \in Callers, NEW B \in SUBSET Dep, Launch(c, B)
  PROVE  /\ step' \in [Callers -> [Dep -> Steps]]
         /\ \A d \in B : step'[c][d] = "queued"
         /\ \A d \in Dep \ B : step'[c][d] = step[c][d]
         /\ \A x \in Callers \ {c} : step'[x] = step[x]
  BY DEF Typed, Launch, Steps

LEMMA BatchExists ==
  ASSUME Typed, NEW c \in Callers, NEW D \in SUBSET list[c].deps, D # list[c].deps
  PROVE  /\ NextBatch(list[c], D) # {}
         /\ NextBatch(list[c], D) \subseteq list[c].deps \ D
         /\ \A d \in NextBatch(list[c], D) : list[c].after[d] \subseteq D
<1>1. Accepted(list[c])
  BY ListTyped
<1>2. list[c].deps \ D \in (SUBSET list[c].deps) \ {{}}
  OBVIOUS
<1>3. PICK d \in list[c].deps \ D : list[c].after[d] \cap (list[c].deps \ D) = {}
  BY <1>1, <1>2 DEF Accepted
<1>4. list[c].after[d] \subseteq D
  BY <1>1, <1>3 DEF Accepted
<1> QED
  BY <1>3, <1>4 DEF NextBatch

LEMMA BeginLocal ==
  ASSUME Typed, \A x \in Callers : Local(x), NEW c \in Callers, Begin(c)
  PROVE  \A x \in Callers : Local(x)'
<1>0. /\ Local(c) /\ phase[c] = "idle" /\ batches[c] = <<>> /\ Installed(c) = {}
      /\ \A d \in Dep : step[c][d] = "none"
      /\ UNCHANGED <<list, batches>>
  BY DEF Begin, Local, Placed, Installed
<1>1. \A x \in Callers \ {c} : phase'[x] = phase[x]
  BY DEF Begin, Enter, Typed
<1>2. list[c].deps \subseteq Dep /\ list[c].after \in [Dep -> SUBSET Dep]
  BY ListTyped
<1>3. CASE list[c].deps = {} /\ Enter(c, "installed") /\ UNCHANGED step
  <2>1. phase'[c] = "installed"
    BY <1>3 DEF Enter, Typed
  <2>2. \A x \in Callers \ {c} : Local(x)'
    BY <1>0, <1>1, <1>3, LocalKept
  <2>3. Working(c)' = Working(c) /\ Installed(c)' = {}
    BY <1>0, <1>3 DEF Working, Installed
  <2>4. Placed(c)'
    BY <1>0, <1>3, <2>1, <2>3 DEF Local, Placed
  <2>5. Local(c)'
    BY <1>0, <1>3, <2>3, <2>4 DEF Local, Launched, Collected, Bounded
  <2> QED
    BY <2>2, <2>5
<1>4. CASE list[c].deps # {} /\ Enter(c, "batch") /\ Launch(c, FirstBatch(c))
  <2> DEFINE B == NextBatch(list[c], {})
  <2>1. phase'[c] = "batch"
    BY <1>4 DEF Enter, Typed
  <2>2. B # {} /\ B \subseteq list[c].deps /\ \A d \in B : list[c].after[d] = {}
    BY <1>4, BatchExists
  <2>3. B \in SUBSET Dep /\ Launch(c, B)
    BY <1>2, <1>4, <2>2 DEF FirstBatch
  <2>4. /\ \A d \in B : step'[c][d] = "queued"
        /\ \A d \in Dep \ B : step'[c][d] = "none"
        /\ \A x \in Callers \ {c} : step'[x] = step[x]
    BY <1>0, <2>3, LaunchEffect
  <2> HIDE DEF B
  <2>5. \A x \in Callers \ {c} : Local(x)'
    BY <1>0, <1>1, <2>4, LocalKept
  <2>6. Installed(c)' = {} /\ Working(c)' = {} /\ Current(c)' = B
    BY <1>0, <2>3, <2>4 DEF Installed, Working, Current, Busy
  <2>7. Launched(c)'
    BY <1>0, <2>2, <2>4 DEF Launched
  <2>8. Collected(c)'
    BY <1>0 DEF Collected
  <2>9. Placed(c)'
    BY <1>0, <2>1, <2>2, <2>3, <2>4, <2>6 DEF Placed
  <2>10. Bounded(c)'
    BY <2>6, FS_EmptySet, SlotsPositive DEF Bounded, Slots
  <2> QED
    BY <2>5, <2>7, <2>8, <2>9, <2>10 DEF Local
<1> QED
  BY <1>3, <1>4 DEF Begin

\* The batch at work is over and is added to what Install has collected.
LEMMA AppendEffect ==
  ASSUME Typed, NEW c \in Callers, Local(c), UNCHANGED list,
         batches' = [batches EXCEPT ![c] = Append(@, Current(c))],
         phase[c] = "batch", \A d \in Current(c) : step[c][d] = "ok",
         \A d \in Dep : step[c][d] = "ok" => step'[c][d] = "ok"
  PROVE  /\ Collected(c)' /\ Installed(c)' = Installed(c) \cup Current(c)
         /\ (\A k \in DOMAIN batches[c] : batches[c][k] # {}) /\ Current(c) # {}
               => \A k \in DOMAIN batches'[c] : batches'[c][k] # {}
<1> DEFINE n == Len(batches[c])
<1>1. batches[c] \in Seq(SUBSET Dep) /\ Current(c) \in SUBSET Dep
  BY DEF Typed, Current
<1>2. batches'[c] = Append(batches[c], Current(c))
  BY DEF Typed
<1>3. /\ n \in Nat /\ DOMAIN batches[c] = 1..n /\ DOMAIN batches'[c] = 1..(n + 1)
      /\ \A k \in 1..n : batches'[c][k] = batches[c][k]
      /\ batches'[c][n + 1] = Current(c)
  BY <1>1, <1>2
<1>4. list[c].after \in [Dep -> SUBSET Dep]
  BY ListTyped
<1> HIDE DEF n
<1>5. Installed(c)' = Installed(c) \cup Current(c)
  BY <1>3 DEF Installed
<1>6. Collected(c)'
  <2>1. ASSUME NEW k \in DOMAIN batches'[c], NEW d \in batches'[c][k]
        PROVE  /\ step'[c][d] = "ok"
               /\ \A e \in list'[c].after[d] : \E j \in DOMAIN batches'[c] : j < k /\ e \in batches'[c][j]
               /\ \A j \in DOMAIN batches'[c] : d \in batches'[c][j] => j = k
    <3>1. CASE k \in 1..n
      <4>1. d \in batches[c][k] /\ d \in Dep /\ d \notin Current(c)
        BY <1>1, <1>3, <3>1 DEF Current, Installed
      <4> QED
        BY <1>3, <3>1, <4>1 DEF Local, Collected
    <3>2. CASE k = n + 1
      <4>1. d \in Current(c) /\ d \in Dep /\ step[c][d] = "ok" /\ d \notin Installed(c)
        BY <1>1, <1>3, <3>2 DEF Current
      <4>2. \A j \in 1..n : d \notin batches[c][j]
        BY <1>3, <4>1 DEF Installed
      <4>3. ASSUME NEW e \in list[c].after[d] PROVE \E j \in DOMAIN batches'[c] : j < k /\ e \in batches'[c][j]
        <5>1. e \in Installed(c)
          BY <4>1, <4>3 DEF Local, Placed
        <5> QED
          BY <1>3, <3>2, <5>1 DEF Installed
      <4> QED
        BY <1>3, <3>2, <4>1, <4>2, <4>3
    <3> QED
      BY <1>3, <3>1, <3>2
  <2> QED
    BY <2>1 DEF Collected
<1>7. ASSUME \A k \in DOMAIN batches[c] : batches[c][k] # {}, Current(c) # {}
      PROVE  \A k \in DOMAIN batches'[c] : batches'[c][k] # {}
  BY <1>3, <1>7
<1> QED
  BY <1>5, <1>6, <1>7

LEMMA EndBatchLocal ==
  ASSUME Typed, \A x \in Callers : Local(x), NEW c \in Callers, EndBatch(c)
  PROVE  \A x \in Callers : Local(x)'
<1>0. /\ Local(c) /\ phase[c] = "batch" /\ UNCHANGED list
      /\ \A d \in Current(c) : step[c][d] \in {"ok", "failed"}
  BY DEF EndBatch
<1>1. list[c].deps \subseteq Dep /\ list[c].after \in [Dep -> SUBSET Dep]
  BY ListTyped
<1> DEFINE done == Installed(c) \cup Current(c)
<1>2. Current(c) \subseteq Dep /\ Installed(c) \subseteq Dep
  BY DEF Current, Typed, Installed
<1>3. CASE BatchFailed(c)
  <2>1. UNCHANGED <<step, batches>> /\ phase'[c] = "failed" /\ \A x \in Callers \ {c} : phase'[x] = phase[x]
    BY <1>3 DEF EndBatch, Enter, Typed
  <2>2. \A x \in Callers \ {c} : Local(x)'
    BY <1>0, <2>1, LocalKept
  <2>3. Working(c)' = Working(c) /\ Installed(c)' = Installed(c)
    BY <2>1 DEF Working, Installed
  <2>4. Launched(c)' /\ Collected(c)'
    BY <1>0, <2>1 DEF Local, Launched, Collected
  <2>5. Placed(c)'
    BY <1>0, <2>1, <2>3 DEF Local, Placed
  <2> QED
    BY <1>0, <2>2, <2>3, <2>4, <2>5 DEF Local, Bounded
<1>4. CASE ~BatchFailed(c)
  <2>1. /\ batches' = [batches EXCEPT ![c] = Append(@, Current(c))]
        /\ \A d \in Current(c) : step[c][d] = "ok"
        /\ \A x \in Callers \ {c} : batches'[x] = batches[x]
    BY <1>0, <1>4 DEF EndBatch, BatchFailed, Typed
  <2>2. \A d \in done : d \in Dep /\ d \in list[c].deps /\ step[c][d] = "ok"
    <3>1. \A d \in Installed(c) : step[c][d] = "ok"
      BY <1>0 DEF Local, Collected, Installed
    <3> QED
      BY <1>0, <1>2, <2>1, <3>1 DEF Local, Launched
  <2>3. \A d \in Dep : step[c][d] # "none" => d \in done
    BY DEF Current
  <2>4. Current(c) # {} /\ \A k \in DOMAIN batches[c] : batches[c][k] # {}
    BY <1>0 DEF Local, Placed
  <2>5. CASE done = list[c].deps
    <3>1. Enter(c, "installed") /\ UNCHANGED step
      BY <1>4, <2>5 DEF EndBatch
    <3>2. phase'[c] = "installed" /\ \A x \in Callers \ {c} : phase'[x] = phase[x]
      BY <3>1 DEF Enter, Typed
    <3>3. /\ Collected(c)' /\ Installed(c)' = done
          /\ \A k \in DOMAIN batches'[c] : batches'[c][k] # {}
      BY <1>0, <2>1, <2>4, <3>1, AppendEffect
    <3>4. \A x \in Callers \ {c} : Local(x)'
      BY <1>0, <2>1, <3>1, <3>2, LocalKept
    <3>5. Launched(c)' /\ Bounded(c)'
      BY <1>0, <3>1 DEF Local, Launched, Bounded, Working
    <3>6. Placed(c)'
      BY <1>0, <2>2, <2>5, <3>1, <3>2, <3>3 DEF Local, Placed
    <3> QED
      BY <3>3, <3>4, <3>5, <3>6 DEF Local
  <2>6. CASE done # list[c].deps
    <3> DEFINE B == NextBatch(list[c], done)
    <3>1. Launch(c, B) /\ UNCHANGED phase
      BY <1>4, <2>6 DEF EndBatch
    <3>2. B # {} /\ B \subseteq list[c].deps \ done /\ \A d \in B : list[c].after[d] \subseteq done
      BY <2>2, <2>6, BatchExists
    <3>3. /\ \A d \in B : step'[c][d] = "queued"
          /\ \A d \in Dep \ B : step'[c][d] = step[c][d]
          /\ \A x \in Callers \ {c} : step'[x] = step[x]
      BY <1>1, <3>1, <3>2, LaunchEffect
    <3> HIDE DEF B
    <3>4. \A d \in Dep : step[c][d] = "ok" => step'[c][d] = "ok"
      BY <2>3, <3>2, <3>3
    <3>5. /\ Collected(c)' /\ Installed(c)' = done
          /\ \A k \in DOMAIN batches'[c] : batches'[c][k] # {}
      BY <1>0, <2>1, <2>4, <3>4, AppendEffect
    <3>6. \A x \in Callers \ {c} : Local(x)'
      BY <1>0, <2>1, <3>1, <3>3, LocalKept
    <3>7. Current(c)' = B
      BY <1>1, <2>2, <2>3, <3>2, <3>3, <3>5 DEF Current
    <3>8. Launched(c)'
      <4> SUFFICES ASSUME NEW d \in Dep, step'[c][d] # "none"
                   PROVE  d \in list[c].deps /\ \A e \in list[c].after[d] : step'[c][e] = "ok"
        BY <1>0 DEF Launched
      <4>1. CASE d \in B
        BY <1>2, <2>2, <3>2, <3>4, <4>1
      <4>2. CASE d \notin B
        BY <1>0, <1>1, <3>3, <3>4, <4>2 DEF Local, Launched
      <4> QED
        BY <4>1, <4>2
    <3>9. Working(c)' = {}
      BY <1>1, <2>2, <2>3, <3>3 DEF Working, Busy
    <3>10. Bounded(c)'
      BY <3>9, FS_EmptySet, SlotsPositive DEF Bounded, Slots
    <3>11. Placed(c)'
      BY <1>0, <3>1, <3>2, <3>3, <3>5, <3>7 DEF Local, Placed
    <3> QED
      BY <3>5, <3>6, <3>8, <3>10, <3>11 DEF Local
  <2> QED
    BY <2>5, <2>6
<1> QED
  BY <1>3, <1>4

\* Steps that only move a call on.
LEMMA EnterLocal ==
  ASSUME Typed, \A x \in Callers : Local(x), NEW c \in Callers, NEW p \in {"teardown", "gone", "crashed"},
         Enter(c, p), UNCHANGED <<list, step, batches>>,
         p = "teardown" => phase[c] = "installed" /\ list[c].scope # "cluster",
         p = "gone" => phase[c] = "teardown" /\ Installed(c) = {}
  PROVE  \A x \in Callers : Local(x)'
<1>1. phase'[c] = p /\ \A x \in Callers \ {c} : phase'[x] = phase[x]
  BY DEF Enter, Typed
<1>2. \A x \in Callers \ {c} : Local(x)'
  BY <1>1, LocalKept
<1>3. Working(c)' = Working(c) /\ Installed(c)' = Installed(c)
  BY DEF Working, Installed
<1>4. Launched(c)' /\ Collected(c)' /\ Bounded(c)'
  BY <1>3 DEF Local, Launched, Collected, Bounded
<1>5. Placed(c)'
  BY <1>1, <1>3 DEF Local, Placed
<1> QED
  BY <1>2, <1>4, <1>5 DEF Local

\* Teardown takes one dep out of the outermost batch.
LEMMA RemoveDepEffect ==
  ASSUME Typed, NEW c \in Callers, NEW d \in Dep, Local(c), RemoveDep(c, d)
  PROVE  /\ batches' \in [Callers -> Seq(SUBSET Dep)]
         /\ \A x \in Callers \ {c} : batches'[x] = batches[x]
         /\ Installed(c)' = Installed(c) \ {d} /\ d \in Installed(c)
         /\ Collected(c)'
<1>1. /\ batches' = [batches EXCEPT ![c] = Without(@, d)] /\ d \in Outermost(c)
      /\ UNCHANGED <<list, step>>
  BY DEF RemoveDep
<1> DEFINE n == Len(batches[c])
<1>2. batches[c] \in Seq(SUBSET Dep) /\ n \in Nat /\ DOMAIN batches[c] = 1..n
      /\ \A k \in 1..n : batches[c][k] \in SUBSET Dep
  BY DEF Typed
<1>3. batches'[c] = Without(batches[c], d) /\ \A x \in Callers \ {c} : batches'[x] = batches[x]
  BY <1>1 DEF Typed
<1>4. DOMAIN batches'[c] = 1..n /\ \A k \in 1..n : batches'[c][k] = batches[c][k] \ {d}
  BY <1>2, <1>3 DEF Without
<1>5. Without(batches[c], d) \in Seq(SUBSET Dep)
  BY <1>2 DEF Without
<1>6. batches' \in [Callers -> Seq(SUBSET Dep)]
  BY <1>1, <1>5 DEF Typed
<1> HIDE DEF n
<1>7. PICK top \in 1..n : d \in batches[c][top] /\ \A j \in 1..n : j > top => batches[c][j] = {}
  BY <1>1, <1>2 DEF Outermost
<1>8. Installed(c)' = Installed(c) \ {d} /\ d \in Installed(c)
  BY <1>2, <1>4, <1>7 DEF Installed
<1>9. ASSUME NEW k \in 1..n, NEW x \in batches'[c][k], NEW e \in list[c].after[x]
      PROVE  \E j \in 1..n : j < k /\ e \in batches'[c][j]
  <2>1. x \in batches[c][k] /\ k <= top
    BY <1>2, <1>4, <1>7, <1>9
  <2>2. PICK j \in 1..n : j < k /\ e \in batches[c][j]
    BY <1>2, <1>9, <2>1 DEF Local, Collected
  <2>3. e # d
    BY <1>2, <1>7, <2>1, <2>2 DEF Local, Collected
  <2> QED
    BY <1>4, <2>2, <2>3
<1>10. Collected(c)'
  BY <1>1, <1>2, <1>4, <1>9 DEF Local, Collected
<1> QED
  BY <1>3, <1>6, <1>8, <1>10

LEMMA RemoveDepLocal ==
  ASSUME Typed, \A x \in Callers : Local(x), NEW c \in Callers, NEW d \in Dep, RemoveDep(c, d)
  PROVE  \A x \in Callers : Local(x)'
<1>1. /\ Local(c) /\ phase[c] = "teardown" /\ UNCHANGED <<list, phase, step>>
  BY DEF RemoveDep
<1>2. /\ \A x \in Callers \ {c} : batches'[x] = batches[x]
      /\ Collected(c)'
  BY <1>1, RemoveDepEffect
<1>3. \A x \in Callers \ {c} : Local(x)'
  BY <1>1, <1>2, LocalKept
<1>4. Launched(c)' /\ Bounded(c)'
  BY <1>1 DEF Local, Launched, Bounded, Working
<1>5. Placed(c)'
  BY <1>1 DEF Local, Placed
<1> QED
  BY <1>2, <1>3, <1>4, <1>5 DEF Local

-----------------------------------------------------------------------------
(* The state keeps its types, and the calls their order. *)

LEMMA InitLocal == Init => Typed /\ \A c \in Callers : Local(c)
<1> SUFFICES ASSUME Init PROVE Typed /\ \A c \in Callers : Local(c)
  OBVIOUS
<1>1. Typed
  BY DEF Init, Typed, Phases, Steps
<1>2. ASSUME NEW c \in Callers PROVE Local(c)
  <2>1. /\ phase[c] = "idle" /\ batches[c] = <<>> /\ \A d \in Dep : step[c][d] = "none"
    BY DEF Init
  <2>2. Working(c) = {}
    BY <2>1 DEF Working, Busy
  <2>3. Bounded(c)
    BY <2>2, FS_EmptySet, SlotsPositive DEF Bounded, Slots
  <2> QED
    BY <2>1, <2>3 DEF Local, Launched, Collected, Placed
<1> QED
  BY <1>1, <1>2

LEMMA DepStepTyped ==
  ASSUME Typed, NEW c \in Callers, NEW d \in Dep, DepStep(c, d)
  PROVE  Typed'
<1>1. UNCHANGED <<list, phase, batches, dropping>>
  BY DEF DepStep, Acquire, CheckCache, InstallSource, WaitReady, StoreRecord
<1>2. PICK s \in Steps : GoTo(c, d, s)
  BY DEF DepStep, Acquire, CheckCache, InstallSource, WaitReady, StoreRecord, AfterInstall, Steps
<1>3. step' \in [Callers -> [Dep -> Steps]]
  BY <1>2, GoToEffect
<1>4. present' \in [Dep -> {"absent", "applied", "ready"}]
  BY DEF DepStep, Acquire, CheckCache, InstallSource, WaitReady, StoreRecord, Typed
<1>5. record' \subseteq Dep /\ stuck' = stuck
  BY DEF DepStep, Acquire, CheckCache, InstallSource, WaitReady, StoreRecord, Typed
<1> QED
  BY <1>1, <1>3, <1>4, <1>5 DEF Typed

LEMMA TypedStep ==
  ASSUME Typed, [Next]_vars
  PROVE  Typed'
<1>1. CASE UNCHANGED vars
  BY <1>1 DEF vars, Typed
<1>2. ASSUME NEW c \in Callers, NEW d \in Dep, DepStep(c, d) PROVE Typed'
  BY <1>2, DepStepTyped
<1>3. ASSUME NEW c \in Callers, Begin(c) PROVE Typed'
  <2>1. FirstBatch(c) \in SUBSET Dep
    BY ListTyped DEF FirstBatch, NextBatch
  <2>2. step' \in [Callers -> [Dep -> Steps]]
    BY <1>3, <2>1, LaunchEffect DEF Begin, Typed
  <2> QED
    BY <1>3, <2>2 DEF Begin, Enter, Typed, Phases
<1>4. ASSUME NEW c \in Callers, EndBatch(c) PROVE Typed'
  <2> DEFINE done == Installed(c) \cup Current(c)
  <2>1. NextBatch(list[c], done) \in SUBSET Dep /\ Current(c) \in SUBSET Dep
    BY ListTyped DEF NextBatch, Current
  <2>2. step' \in [Callers -> [Dep -> Steps]]
    BY <1>4, <2>1, LaunchEffect DEF EndBatch, Typed
  <2>3. phase' \in [Callers -> Phases]
    BY <1>4 DEF EndBatch, Enter, Typed, Phases
  <2>4. Append(batches[c], Current(c)) \in Seq(SUBSET Dep)
    BY <2>1 DEF Typed
  <2>5. batches' \in [Callers -> Seq(SUBSET Dep)]
    BY <1>4, <2>4 DEF EndBatch, Typed
  <2> QED
    BY <1>4, <2>2, <2>3, <2>5 DEF EndBatch, Typed
<1>5. ASSUME NEW c \in Callers, BeginTeardown(c) \/ EndTeardown(c) \/ Crash(c) PROVE Typed'
  BY <1>5 DEF BeginTeardown, EndTeardown, Crash, Enter, Typed, Phases
<1>6. ASSUME NEW c \in Callers, NEW d \in Dep, RemoveDep(c, d) PROVE Typed'
  <2>1. Without(batches[c], d) \in Seq(SUBSET Dep)
    <3> DEFINE bs == batches[c]
    <3>1. bs \in Seq(SUBSET Dep)
      BY DEF Typed
    <3> HIDE DEF bs
    <3>2. \A k \in 1..Len(bs) : bs[k] \ {d} \in SUBSET Dep
      BY <3>1
    <3>3. Without(bs, d) \in Seq(SUBSET Dep)
      BY <3>1, <3>2 DEF Without
    <3> QED
      BY <3>3 DEF bs
  <2>2. batches' \in [Callers -> Seq(SUBSET Dep)]
    BY <1>6, <2>1 DEF RemoveDep, Typed
  <2>3. dropping' \in [Callers -> SUBSET Dep] /\ present' \in [Dep -> {"absent", "applied", "ready"}]
        /\ stuck' \subseteq Dep
    BY <1>6 DEF RemoveDep, Typed
  <2> QED
    BY <1>6, <2>2, <2>3 DEF RemoveDep, Typed
<1>7. ASSUME NEW c \in Callers, NEW d \in Dep, DropRecord(c, d) PROVE Typed'
  BY <1>7 DEF DropRecord, Typed
<1>8. ASSUME NEW d \in Dep, Settle(d) PROVE Typed'
  BY <1>8 DEF Settle, Typed
<1> QED
  BY <1>1, <1>2, <1>3, <1>4, <1>5, <1>6, <1>7, <1>8
     DEF Next, InstallStep, TeardownStep, DepStep, Terminated

LEMMA LocalStep ==
  ASSUME Typed, \A x \in Callers : Local(x), [Next]_vars
  PROVE  \A x \in Callers : Local(x)'
<1>1. CASE UNCHANGED vars
  BY <1>1, LocalKept DEF vars
<1>2. ASSUME NEW c \in Callers, NEW d \in Dep, DepStep(c, d) PROVE \A x \in Callers : Local(x)'
  BY <1>2, DepStepKeepsLocal
<1>3. ASSUME NEW c \in Callers, Begin(c) PROVE \A x \in Callers : Local(x)'
  BY <1>3, BeginLocal
<1>4. ASSUME NEW c \in Callers, EndBatch(c) PROVE \A x \in Callers : Local(x)'
  BY <1>4, EndBatchLocal
<1>5. ASSUME NEW c \in Callers, BeginTeardown(c) PROVE \A x \in Callers : Local(x)'
  BY <1>5, EnterLocal DEF BeginTeardown
<1>6. ASSUME NEW c \in Callers, EndTeardown(c) PROVE \A x \in Callers : Local(x)'
  BY <1>6, EnterLocal DEF EndTeardown, AllRemoved
<1>7. ASSUME NEW c \in Callers, Crash(c) PROVE \A x \in Callers : Local(x)'
  BY <1>7, EnterLocal DEF Crash
<1>8. ASSUME NEW c \in Callers, NEW d \in Dep, RemoveDep(c, d) PROVE \A x \in Callers : Local(x)'
  BY <1>8, RemoveDepLocal
<1>9. ASSUME NEW c \in Callers, NEW d \in Dep, DropRecord(c, d) PROVE \A x \in Callers : Local(x)'
  BY <1>9, LocalKept DEF DropRecord
<1>10. ASSUME NEW d \in Dep, Settle(d) PROVE \A x \in Callers : Local(x)'
  BY <1>10, LocalKept DEF Settle
<1> QED
  BY <1>1, <1>2, <1>3, <1>4, <1>5, <1>6, <1>7, <1>8, <1>9, <1>10
     DEF Next, InstallStep, TeardownStep, DepStep, Terminated

LEMMA LocalInvariance == Spec => [](Typed /\ \A c \in Callers : Local(c))
<1>1. Init => Typed /\ \A c \in Callers : Local(c)
  BY InitLocal
<1>2. (Typed /\ \A c \in Callers : Local(c)) /\ [Next]_vars => (Typed /\ \A c \in Callers : Local(c))'
  BY TypedStep, LocalStep
<1> QED
  BY <1>1, <1>2, PTL DEF Spec

\* The variables keep their types, and no batch is empty when it is installed
\* (engine.go:67-102).
THEOREM EngineTyped == Spec => []TypeOK
<1>1. Typed /\ (\A c \in Callers : Local(c)) => TypeOK
  BY DEF Typed, TypeOK, Local, Placed
<1> QED
  BY <1>1, LocalInvariance, PTL

\* No call of Install has more goroutines at work than its pool has slots
\* (engine.go:134-145).
THEOREM PoolBounded == Spec => []PoolBound
<1>1. (\A c \in Callers : Local(c)) => PoolBound
  BY DEF Local, Bounded, PoolBound
<1> QED
  BY <1>1, LocalInvariance, PTL

\* A dep is installed only when all it depends on is installed and ready
\* (engine.go:77-93).
THEOREM InstallsInOrder == Spec => []DependenciesFirst
<1>1. (\A c \in Callers : Local(c)) => DependenciesFirst
  BY DEF Local, Launched, DependenciesFirst
<1> QED
  BY <1>1, LocalInvariance, PTL

-----------------------------------------------------------------------------
(* Records and premises are true. *)

LEMMA ContendedSame ==
  UNCHANGED list => Contended' = Contended /\ \A d \in Dep : Vouched(d)' <=> Vouched(d)
  BY DEF Contended, Vouched

\* Two callers have one dep in their lists, and neither will tear it down.
LEMMA NeverTornDown ==
  ASSUME Typed, NEW b \in Callers, NEW c \in Callers, b # c, NEW d \in Dep \ Contended,
         d \in list[b].deps, d \in list[c].deps
  PROVE  list[b].scope = "cluster" /\ list[c].scope = "cluster"
  BY DEF Contended

\* Where no dep of interest changes for the worse, no promise is broken.
LEMMA GoodStays ==
  ASSUME NEW d \in Dep, UNCHANGED list, present'[d] = present[d]
  PROVE  Good(d)' <=> Good(d)
  BY ContendedSame DEF Good

LEMMA ReachedKept ==
  ASSUME NEW c \in Callers, Reached(c), UNCHANGED list, step'[c] = step[c], phase'[c] = phase[c],
         \A d \in Dep \ Contended : Holding(c) /\ d \in list[c].deps =>
             /\ present[d] # "absent" => present'[d] # "absent"
             /\ Good(d) => Good(d)',
         Launched(c)
  PROVE  Reached(c)'
<1>1. \A d \in Dep : step[c][d] # "none" => d \in list[c].deps
  BY DEF Launched
<1> QED
  BY <1>1, ContendedSame DEF Reached, Holding

\* A goroutine's step leaves what is in the cluster as good as it was, and
\* leaves all but its own dep alone.
LEMMA DepStepPresent ==
  ASSUME Typed, NEW c \in Callers, NEW d \in Dep, DepStep(c, d)
  PROVE  /\ \A e \in Dep \ {d} : present'[e] = present[e]
         /\ present[d] # "absent" => present'[d] # "absent"
         /\ \A e \in Dep : Good(e) => Good(e)'
<1>0. UNCHANGED list
  BY DEF DepStep, Acquire, CheckCache, InstallSource, WaitReady, StoreRecord
<1>1. CASE UNCHANGED present
  BY <1>0, <1>1, GoodStays
<1>2. CASE InstallSource(c, d)
  <2>1. /\ \A e \in Dep \ {d} : present'[e] = present[e]
        /\ present[d] # "absent" => present'[d] # "absent"
        /\ present[d] = "ready" => present'[d] = "ready"
    BY <1>2 DEF InstallSource, Typed
  <2> QED
    BY <1>0, <2>1, ContendedSame DEF Good
<1> QED
  BY <1>1, <1>2 DEF DepStep, Acquire, CheckCache, WaitReady, StoreRecord

\* What the goroutine itself has reached by its step.
LEMMA DepStepReached ==
  ASSUME Typed, World, NEW c \in Callers, NEW d \in Dep, DepStep(c, d), Launched(c)
  PROVE  Reached(c)'
<1>0. phase[c] = "batch" /\ UNCHANGED <<list, phase>> /\ Contended' = Contended /\ Reached(c)
  BY ContendedSame DEF DepStep, Acquire, CheckCache, InstallSource, WaitReady, StoreRecord, World
<1>1. ASSUME NEW e \in (Dep \ Contended) \ {d}
      PROVE  /\ step'[c][e] = "wait" => present'[e] # "absent"
             /\ step'[c][e] \in {"store", "ok"} => Good(e)'
  <2>1. step'[c][e] = step[c][e]
    BY <1>1 DEF DepStep, Acquire, CheckCache, InstallSource, WaitReady, StoreRecord, GoTo, Typed
  <2> QED
    BY <1>0, <1>1, <2>1, DepStepPresent DEF Reached, Holding
<1>2. ASSUME d \notin Contended
      PROVE  /\ step'[c][d] = "wait" => present'[d] # "absent"
             /\ step'[c][d] \in {"store", "ok"} => Good(d)'
  <2>1. CASE Acquire(c, d)
    <3>1. step'[c][d] \in {"check", "install"}
      BY <2>1 DEF Acquire, GoTo, Typed
    <3> QED
      BY <3>1
  <2>2. CASE CheckCache(c, d)
    <3>1. step'[c][d] = "install" \/ (step'[c][d] = "ok" /\ d \in record)
      BY <2>2 DEF CheckCache, GoTo, Typed
    <3>2. d \in record => Good(d)
      BY <1>2 DEF World, CacheTruth, Good
    <3> QED
      BY <3>1, <3>2, DepStepPresent
  <2>3. CASE InstallSource(c, d)
    <3>1. step'[c][d] = "failed" \/ (step'[c][d] = "wait" /\ present'[d] # "absent")
      BY <2>3 DEF InstallSource, GoTo, Typed, AfterInstall
    <3> QED
      BY <3>1
  <2>4. CASE WaitReady(c, d)
    <3>1. present[d] # "absent" /\ present' = present
      BY <1>0, <1>2, <2>4 DEF WaitReady, Reached, Holding
    <3>2. d \in list[c].deps
      BY <2>4 DEF Launched, WaitReady
    <3>3. step'[c][d] = "failed" \/ (d \in Watched(c) => present[d] = "ready")
      BY <2>4 DEF WaitReady, GoTo, Typed
    <3>4. Vouched(d) => d \in Watched(c)
      BY <3>2 DEF Vouched, Watched
    <3>5. step'[c][d] \in {"failed", "store", "ok"}
      BY <2>4 DEF WaitReady, GoTo, Typed
    <3>6. step'[c][d] = "failed" \/ Good(d)
      BY <3>1, <3>3, <3>4 DEF Good
    <3> QED
      BY <3>1, <3>5, <3>6, DepStepPresent DEF Good
  <2>5. CASE StoreRecord(c, d)
    <3>1. step[c][d] = "store" /\ step'[c][d] = "ok"
      BY <2>5 DEF StoreRecord, GoTo, Typed
    <3>2. Good(d)
      BY <1>0, <1>2, <3>1 DEF Reached, Holding
    <3> QED
      BY <3>1, <3>2, DepStepPresent
  <2> QED
    BY <2>1, <2>2, <2>3, <2>4, <2>5 DEF DepStep
<1> QED
  BY <1>0, <1>1, <1>2 DEF Reached

LEMMA DepStepWorld ==
  ASSUME Typed, World, \A x \in Callers : Local(x), NEW c \in Callers, NEW d \in Dep, DepStep(c, d)
  PROVE  World'
<1>0. /\ phase[c] = "batch" /\ UNCHANGED <<list, phase, batches>> /\ Contended' = Contended
      /\ step[c][d] # "none"
  BY ContendedSame DEF DepStep, Acquire, CheckCache, InstallSource, WaitReady, StoreRecord
<1>1. \A x \in Callers \ {c} : step'[x] = step[x]
  BY DEF DepStep, Acquire, CheckCache, InstallSource, WaitReady, StoreRecord, GoTo, Typed
<1>2. /\ \A e \in Dep \ {d} : present'[e] = present[e]
      /\ present[d] # "absent" => present'[d] # "absent"
      /\ \A e \in Dep : Good(e) => Good(e)'
  BY DepStepPresent
<1>3. d \in list[c].deps
  BY <1>0 DEF Local, Launched
<1>4. \/ record' = record
      \/ /\ record' = record \cup {d} /\ step[c][d] = "store"
         /\ list[c].scope = "cluster"
  BY DEF DepStep, Acquire, CheckCache, InstallSource, WaitReady, StoreRecord, Local, Placed
<1>5. Recorded'
  BY <1>0, <1>3, <1>4 DEF World, Recorded
<1>6. CacheTruth'
  <2>1. \A e \in record \ Contended : e \in Dep /\ Good(e)
    BY DEF World, CacheTruth, Good, Typed
  <2>2. step[c][d] = "store" /\ d \notin Contended => Good(d)
    BY <1>0 DEF World, Reached, Holding
  <2>3. \A e \in record' \ Contended : Good(e)'
    BY <1>2, <1>4, <2>1, <2>2
  <2> QED
    BY <1>0, <2>3 DEF CacheTruth, Good
<1>7. \A x \in Callers \ {c} : Reached(x)'
  BY <1>0, <1>1, <1>2, ReachedKept DEF World, Local
<1>8. Reached(c)'
  BY DepStepReached DEF Local
<1>9. stuck' = stuck
  BY DEF DepStep, Acquire, CheckCache, InstallSource, WaitReady, StoreRecord
<1>10. ASSUME NEW x \in Callers PROVE Removed(x)'
  <2> SUFFICES ASSUME phase[x] \in {"teardown", "gone"},
                      NEW e \in list[x].deps \ Contended, e \notin Installed(x)
               PROVE  present'[e] = "absent" \/ e \in stuck
    BY <1>0, <1>9 DEF Removed, Installed
  <2>1. x # c /\ list[x].scope # "cluster" /\ e \in Dep
    BY <1>0, ListTyped DEF Local, Placed
  <2>2. e # d
    BY <1>3, <2>1, NeverTornDown
  <2>3. present[e] = "absent" \/ e \in stuck
    BY DEF World, Removed
  <2> QED
    BY <1>2, <2>1, <2>2, <2>3
<1> QED
  BY <1>5, <1>6, <1>7, <1>8, <1>9, <1>10 DEF World

LEMMA RemoveDepWorld ==
  ASSUME Typed, World, \A x \in Callers : Local(x), NEW c \in Callers, NEW d \in Dep, RemoveDep(c, d)
  PROVE  World'
<1>0. /\ phase[c] = "teardown" /\ UNCHANGED <<list, phase, step, record>> /\ Contended' = Contended
      /\ Local(c) /\ list[c].scope # "cluster"
  BY ContendedSame DEF RemoveDep, Local, Placed
<1>1. /\ d \in Installed(c) /\ Installed(c)' = Installed(c) \ {d}
      /\ \A x \in Callers \ {c} : batches'[x] = batches[x]
  BY <1>0, RemoveDepEffect
<1>2. /\ \A e \in Dep \ {d} : present'[e] = present[e]
      /\ present'[d] = "absent" \/ d \in stuck'
      /\ stuck \subseteq stuck' /\ (stuck' # {} => Faults)
  BY DEF RemoveDep, Typed, World
<1>3. d \in list[c].deps
  BY <1>0, <1>1 DEF Local, Collected, Launched, Installed
<1>4. ASSUME d \notin Contended, NEW x \in Callers, d \in list[x].deps PROVE x = c
  BY <1>0, <1>3, <1>4, NeverTornDown
<1>5. Recorded'
  BY <1>0 DEF World, Recorded
<1>6. CacheTruth'
  <2>1. ASSUME NEW e \in record \ Contended PROVE Good(e)'
    <3>1. PICK x \in Callers : list[x].scope = "cluster" /\ e \in list[x].deps
      BY DEF World, Recorded
    <3>2. e # d /\ e \in Dep
      BY <1>0, <1>4, <2>1, <3>1 DEF Typed
    <3>3. Good(e)
      BY <1>0, <2>1 DEF World, CacheTruth, Good
    <3> QED
      BY <1>0, <1>2, <3>2, <3>3, GoodStays
  <2> QED
    BY <1>0, <2>1 DEF CacheTruth, Good
<1>7. ASSUME NEW x \in Callers PROVE Reached(x)'
  <2>1. ASSUME NEW e \in Dep \ Contended, Holding(x), e \in list[x].deps
        PROVE  present'[e] = present[e]
    BY <1>0, <1>2, <1>4, <2>1 DEF Holding
  <2> QED
    BY <1>0, <2>1, GoodStays, ReachedKept DEF World, Local
<1>8. ASSUME NEW x \in Callers \ {c} PROVE Removed(x)'
  <2> SUFFICES ASSUME phase[x] \in {"teardown", "gone"},
                      NEW e \in list[x].deps \ Contended, e \notin Installed(x)
               PROVE  present'[e] = "absent" \/ e \in stuck'
    BY <1>0, <1>1 DEF Removed, Installed
  <2>1. e # d /\ e \in Dep
    BY <1>4, ListTyped
  <2> QED
    BY <1>2, <2>1 DEF World, Removed
<1>9. Removed(c)'
  <2> SUFFICES ASSUME NEW e \in list[c].deps \ Contended, e \notin Installed(c)'
               PROVE  present'[e] = "absent" \/ e \in stuck'
    BY <1>0 DEF Removed
  <2>1. e \in Dep
    BY ListTyped
  <2> QED
    BY <1>0, <1>1, <1>2, <2>1 DEF World, Removed
<1> QED
  BY <1>2, <1>5, <1>6, <1>7, <1>8, <1>9 DEF World

\* Steps that leave the cluster alone, but for a record that may go.
LEMMA QuietWorld ==
  ASSUME Typed, World, \A x \in Callers : Local(x), UNCHANGED <<list, present, stuck>>, record' \subseteq record,
         \A x \in Callers : Reached(x)' /\ Removed(x)'
  PROVE  World'
<1>1. Recorded'
  BY DEF World, Recorded
<1>2. CacheTruth'
  <2>1. \A d \in record' \ Contended : d \in Dep /\ Good(d)
    BY DEF World, CacheTruth, Good, Typed
  <2> QED
    BY <2>1, ContendedSame, GoodStays DEF CacheTruth, Good
<1> QED
  BY <1>1, <1>2 DEF World

LEMMA WorldStep ==
  ASSUME Typed, World, \A x \in Callers : Local(x), [Next]_vars
  PROVE  World'
<1>0. \A x \in Callers : Reached(x) /\ Removed(x) /\ Launched(x)
  BY DEF World, Local
<1>1. CASE UNCHANGED vars
  <2>1. \A x \in Callers : Reached(x)' /\ Removed(x)'
    BY <1>0, <1>1, ContendedSame, GoodStays DEF vars, Reached, Holding, Removed, Installed
  <2> QED
    BY <1>1, <2>1, QuietWorld DEF vars
<1>2. ASSUME NEW c \in Callers, NEW d \in Dep, DepStep(c, d) PROVE World'
  BY <1>2, DepStepWorld
<1>3. ASSUME NEW c \in Callers, Begin(c) PROVE World'
  <2>0. /\ UNCHANGED <<list, batches, present, record, stuck>> /\ phase[c] = "idle" /\ phase'[c] \in {"batch", "installed"}
        /\ \A x \in Callers \ {c} : phase'[x] = phase[x] /\ step'[x] = step[x]
        /\ Contended' = Contended /\ \A d \in Dep : Good(d)' <=> Good(d)
    BY <1>3, ContendedSame, GoodStays DEF Begin, Enter, Launch, Typed
  <2>1. \A x \in Callers \ {c} : Reached(x)' /\ Removed(x)'
    BY <1>0, <2>0 DEF Reached, Holding, Removed, Installed
  <2>2. Removed(c)'
    BY <2>0 DEF Removed
  <2>3. \A d \in Dep : step'[c][d] \in {"none", "queued"}
    <3>1. \A d \in Dep : step[c][d] = "none"
      BY <2>0 DEF Local, Placed
    <3>2. FirstBatch(c) \in SUBSET Dep
      BY ListTyped DEF FirstBatch, NextBatch
    <3> QED
      BY <1>3, <3>1, <3>2, LaunchEffect DEF Begin
  <2>4. Reached(c)'
    BY <2>3, <2>0 DEF Reached
  <2> QED
    BY <2>0, <2>1, <2>2, <2>4, QuietWorld
<1>4. ASSUME NEW c \in Callers, EndBatch(c) PROVE World'
  <2> DEFINE done == Installed(c) \cup Current(c)
  <2>0. /\ UNCHANGED <<list, present, record, stuck>> /\ phase[c] = "batch" /\ phase'[c] \in {"batch", "failed", "installed"}
        /\ \A x \in Callers \ {c} : phase'[x] = phase[x] /\ step'[x] = step[x] /\ batches'[x] = batches[x]
        /\ Contended' = Contended /\ \A d \in Dep : Good(d)' <=> Good(d)
    BY <1>4, ContendedSame, GoodStays DEF EndBatch, Enter, Launch, Typed
  <2>1. \A x \in Callers \ {c} : Reached(x)' /\ Removed(x)'
    BY <1>0, <2>0 DEF Reached, Holding, Removed, Installed
  <2>2. Removed(c)'
    BY <2>0 DEF Removed
  <2>3. \A d \in Dep : step'[c][d] = step[c][d] \/ step'[c][d] = "queued"
    <3>1. NextBatch(list[c], done) \in SUBSET Dep
      BY ListTyped DEF NextBatch
    <3> QED
      BY <1>4, <3>1, LaunchEffect DEF EndBatch
  <2>4. Reached(c)'
    BY <1>0, <2>0, <2>3 DEF Reached, Holding
  <2> QED
    BY <2>0, <2>1, <2>2, <2>4, QuietWorld
<1>5. ASSUME NEW c \in Callers, BeginTeardown(c) PROVE World'
  <2>0. /\ UNCHANGED <<list, step, batches, present, record, stuck>> /\ phase[c] = "installed" /\ phase'[c] = "teardown"
        /\ \A x \in Callers \ {c} : phase'[x] = phase[x]
        /\ Contended' = Contended /\ (\A d \in Dep : Good(d)' <=> Good(d)) /\ Installed(c) = list[c].deps
    BY <1>5, ContendedSame, GoodStays DEF BeginTeardown, Enter, Typed, Local, Placed
  <2>1. \A x \in Callers \ {c} : Reached(x)' /\ Removed(x)'
    BY <1>0, <2>0 DEF Reached, Holding, Removed, Installed
  <2>2. Removed(c)' /\ Reached(c)'
    BY <1>5, <2>0 DEF BeginTeardown, Removed, Reached, Holding, Installed
  <2> QED
    BY <2>0, <2>1, <2>2, QuietWorld
<1>6. ASSUME NEW c \in Callers, EndTeardown(c) \/ Crash(c) PROVE World'
  <2>0. /\ UNCHANGED <<list, step, batches, present, record, stuck>> /\ Contended' = Contended
        /\ \A d \in Dep : Good(d)' <=> Good(d)
        /\ (phase[c] = "teardown" /\ phase'[c] = "gone" /\ list[c].scope # "cluster") \/ phase'[c] = "crashed"
        /\ \A x \in Callers \ {c} : phase'[x] = phase[x]
    BY <1>6, ContendedSame, GoodStays DEF EndTeardown, Crash, Enter, Typed, Local, Placed
  <2>1. \A x \in Callers \ {c} : Reached(x)' /\ Removed(x)'
    BY <1>0, <2>0 DEF Reached, Holding, Removed, Installed
  <2>2. Removed(c)' /\ Reached(c)'
    BY <1>0, <2>0 DEF Removed, Reached, Holding, Installed
  <2> QED
    BY <2>0, <2>1, <2>2, QuietWorld
<1>7. ASSUME NEW c \in Callers, NEW d \in Dep, RemoveDep(c, d) PROVE World'
  BY <1>7, RemoveDepWorld
<1>8. ASSUME NEW c \in Callers, NEW d \in Dep, DropRecord(c, d) PROVE World'
  <2>1. UNCHANGED <<list, phase, step, batches, present, stuck>> /\ record' \subseteq record
    BY <1>8 DEF DropRecord
  <2>2. \A x \in Callers : Reached(x)' /\ Removed(x)'
    BY <1>0, <2>1, ContendedSame, GoodStays DEF Reached, Holding, Removed, Installed
  <2> QED
    BY <2>1, <2>2, QuietWorld
<1>9. ASSUME NEW d \in Dep, Settle(d) PROVE World'
  <2>1. /\ UNCHANGED <<list, phase, step, batches, record, stuck>> /\ present[d] = "applied"
        /\ present'[d] = "ready" /\ \A e \in Dep \ {d} : present'[e] = present[e]
    BY <1>9 DEF Settle, Typed
  <2>2. Contended' = Contended /\ \A e \in Dep : Good(e) => Good(e)'
    BY <2>1, ContendedSame DEF Good
  <2>3. Recorded'
    BY <2>1 DEF World, Recorded
  <2>4. CacheTruth'
    <3>1. \A e \in record \ Contended : e \in Dep /\ Good(e)
      BY DEF World, CacheTruth, Good, Typed
    <3> QED
      BY <2>1, <2>2, <3>1 DEF CacheTruth, Good
  <2>5. \A x \in Callers : Reached(x)'
    BY <1>0, <2>1, <2>2, ReachedKept
  <2>6. ASSUME NEW x \in Callers PROVE Removed(x)'
    <3> SUFFICES ASSUME phase[x] \in {"teardown", "gone"},
                        NEW e \in list[x].deps \ Contended, e \notin Installed(x)
                 PROVE  present'[e] = "absent" \/ e \in stuck
      BY <2>1, <2>2 DEF Removed, Installed
    <3>1. e \in Dep /\ (present[e] = "absent" \/ e \in stuck)
      BY <1>0, ListTyped DEF Removed
    <3>2. e # d \/ e \in stuck
      BY <2>1, <3>1
    <3> QED
      BY <2>1, <3>1, <3>2
  <2> QED
    BY <2>1, <2>3, <2>4, <2>5, <2>6 DEF World
<1> QED
  BY <1>1, <1>2, <1>3, <1>4, <1>5, <1>6, <1>7, <1>8, <1>9
     DEF Next, InstallStep, TeardownStep, DepStep, Terminated

\* Nothing is removed from under a dep, as long as no dep comes to be there, no
\* goroutine starts and none of what is there goes.
LEMMA OutliveKept ==
  ASSUME Typed, PrerequisitesOutlive, UNCHANGED list, stuck \subseteq stuck',
         \A d \in Dep : present'[d] = "absent" <=> present[d] = "absent",
         \A c \in Callers, d \in Dep :
             step'[c][d] \notin {"none", "queued"} => step[c][d] \notin {"none", "queued"}
  PROVE  PrerequisitesOutlive'
<1> SUFFICES ASSUME NEW c \in Callers, NEW d \in list[c].deps \ (Contended \cup stuck'),
                    step'[c][d] \notin {"none", "queued"}, present'[d] # "absent",
                    NEW e \in list[c].after[d] \ Contended
             PROVE  present'[e] # "absent"
  BY ContendedSame DEF PrerequisitesOutlive
<1>1. d \in Dep /\ e \in Dep
  BY ListTyped
<1>2. step[c][d] \notin {"none", "queued"} /\ present[d] # "absent" /\ d \notin stuck
  BY <1>1
<1> QED
  BY <1>1, <1>2 DEF PrerequisitesOutlive

\* What a goroutine puts into the cluster stands on what its call has, and so
\* does what another call has of the same dep.
LEMMA OutliveDepStep ==
  ASSUME Typed, World, \A x \in Callers : Local(x), PrerequisitesOutlive,
         NEW x \in Callers, NEW i \in Dep, DepStep(x, i)
  PROVE  PrerequisitesOutlive'
<1>1. /\ UNCHANGED <<list, phase, stuck>> /\ phase[x] = "batch" /\ step[x][i] # "none"
      /\ \A y \in Callers, d \in Dep : y # x \/ d # i => step'[y][d] = step[y][d]
  BY DEF DepStep, Acquire, CheckCache, InstallSource, WaitReady, StoreRecord, GoTo, Typed
<1>2. \A d \in Dep : present[d] # "absent" => present'[d] # "absent"
  BY DepStepPresent
<1>3. \A d \in Dep \ {i} : present'[d] = present[d]
  BY DepStepPresent
<1> SUFFICES ASSUME NEW c \in Callers, NEW d \in list[c].deps \ (Contended \cup stuck),
                    step'[c][d] \notin {"none", "queued"}, present'[d] # "absent",
                    NEW e \in list[c].after[d] \ Contended
             PROVE  present[e] # "absent"
  <2>1. \A c \in Callers : list[c].deps \subseteq Dep /\ \A d \in list[c].deps : list[c].after[d] \subseteq Dep
    BY ListTyped
  <2> QED
    BY <1>1, <1>2, <2>1, ContendedSame DEF PrerequisitesOutlive
<1>4. d \in Dep /\ e \in Dep
  BY ListTyped
<1>5. CASE step[c][d] \notin {"none", "queued"} /\ present[d] # "absent"
  BY <1>5 DEF PrerequisitesOutlive
<1>6. CASE ~(step[c][d] \notin {"none", "queued"} /\ present[d] # "absent")
  <2>1. d = i
    BY <1>1, <1>3, <1>4, <1>6
  <2>2. step[c][d] # "none"
    BY <1>1, <2>1
  <2>3. step[c][e] = "ok"
    BY <1>4, <2>2 DEF Local, Launched
  <2>4. i \in list[x].deps
    BY <1>1 DEF Local, Launched
  <2>5. Holding(c)
    BY <1>1, <1>4, <2>1, <2>4, NeverTornDown DEF Holding
  <2> QED
    BY <1>4, <2>3, <2>5 DEF World, Reached, Good
<1> QED
  BY <1>5, <1>6

\* Teardown takes a dep when all that needs it is gone, or could not be removed.
LEMMA OutliveRemoveDep ==
  ASSUME Typed, World, \A x \in Callers : Local(x), PrerequisitesOutlive,
         NEW x \in Callers, NEW i \in Dep, RemoveDep(x, i)
  PROVE  PrerequisitesOutlive'
<1>1. /\ UNCHANGED <<list, phase, step>> /\ phase[x] = "teardown" /\ i \in Outermost(x)
      /\ stuck \subseteq stuck' /\ \A d \in Dep \ {i} : present'[d] = present[d]
      /\ present'[i] # "absent" => present[i] # "absent"
  BY DEF RemoveDep, Typed
<1>2. Local(x) /\ i \in Installed(x) /\ list[x].scope # "cluster"
  BY <1>1, RemoveDepEffect DEF Local, Placed
<1>3. i \in list[x].deps
  BY <1>2 DEF Local, Collected, Launched, Installed
<1> SUFFICES ASSUME NEW c \in Callers, NEW d \in list[c].deps \ (Contended \cup stuck'),
                    step[c][d] \notin {"none", "queued"}, present'[d] # "absent",
                    NEW e \in list[c].after[d] \ Contended
             PROVE  present'[e] # "absent"
  BY <1>1, ContendedSame DEF PrerequisitesOutlive
<1>4. d \in Dep /\ e \in Dep /\ e \in list[c].deps
  BY ListTyped DEF Accepted
<1>5. present[d] # "absent" /\ d \notin stuck
  BY <1>1, <1>4
<1>6. present[e] # "absent"
  BY <1>5 DEF PrerequisitesOutlive
<1>7. CASE e # i
  BY <1>1, <1>4, <1>6, <1>7
<1>8. CASE e = i
  <2>1. c = x
    BY <1>2, <1>3, <1>4, <1>8, NeverTornDown
  <2>2. d \in Installed(x)
    BY <1>1, <1>5, <2>1 DEF World, Removed
  <2>3. PICK k \in DOMAIN batches[x] : d \in batches[x][k]
    BY <2>2 DEF Installed
  <2>4. PICK j \in DOMAIN batches[x] : j < k /\ i \in batches[x][j]
    BY <1>2, <1>8, <2>1, <2>3 DEF Local, Collected
  <2>5. PICK t \in DOMAIN batches[x] : /\ i \in batches[x][t]
                                       /\ \A m \in DOMAIN batches[x] : m > t => batches[x][m] = {}
    BY <1>1 DEF Outermost
  <2>6. t = j
    BY <1>2, <2>4, <2>5 DEF Local, Collected
  <2>7. DOMAIN batches[x] \subseteq Int
    BY DEF Typed
  <2> QED
    BY <2>3, <2>4, <2>5, <2>6, <2>7
<1> QED
  BY <1>7, <1>8

LEMMA OutliveStep ==
  ASSUME Typed, World, \A x \in Callers : Local(x), PrerequisitesOutlive, [Next]_vars
  PROVE  PrerequisitesOutlive'
<1>1. CASE UNCHANGED vars
  BY <1>1, OutliveKept DEF vars
<1>2. ASSUME NEW c \in Callers, NEW d \in Dep, DepStep(c, d) PROVE PrerequisitesOutlive'
  BY <1>2, OutliveDepStep
<1>3. ASSUME NEW c \in Callers, Begin(c) PROVE PrerequisitesOutlive'
  <2>1. FirstBatch(c) \in SUBSET Dep
    BY ListTyped DEF FirstBatch, NextBatch
  <2>2. \A x \in Callers, d \in Dep : step'[x][d] = step[x][d] \/ step'[x][d] = "queued"
    BY <1>3, <2>1, LaunchEffect DEF Begin
  <2>3. UNCHANGED <<list, present, stuck>>
    BY <1>3 DEF Begin
  <2> QED
    BY <2>2, <2>3, OutliveKept
<1>4. ASSUME NEW c \in Callers, EndBatch(c) PROVE PrerequisitesOutlive'
  <2> DEFINE done == Installed(c) \cup Current(c)
  <2>1. NextBatch(list[c], done) \in SUBSET Dep
    BY ListTyped DEF NextBatch
  <2>2. \A x \in Callers, d \in Dep : step'[x][d] = step[x][d] \/ step'[x][d] = "queued"
    BY <1>4, <2>1, LaunchEffect DEF EndBatch
  <2>3. UNCHANGED <<list, present, stuck>>
    BY <1>4 DEF EndBatch
  <2> QED
    BY <2>2, <2>3, OutliveKept
<1>5. ASSUME NEW c \in Callers, BeginTeardown(c) \/ EndTeardown(c) \/ Crash(c)
      PROVE  PrerequisitesOutlive'
  <2>1. UNCHANGED <<list, step, present, stuck>>
    BY <1>5 DEF BeginTeardown, EndTeardown, Crash
  <2> QED
    BY <2>1, OutliveKept
<1>6. ASSUME NEW c \in Callers, NEW d \in Dep, RemoveDep(c, d) PROVE PrerequisitesOutlive'
  BY <1>6, OutliveRemoveDep
<1>7. ASSUME NEW c \in Callers, NEW d \in Dep, DropRecord(c, d) PROVE PrerequisitesOutlive'
  BY <1>7, OutliveKept DEF DropRecord
<1>8. ASSUME NEW d \in Dep, Settle(d) PROVE PrerequisitesOutlive'
  <2>1. UNCHANGED <<list, step, stuck>> /\ \A e \in Dep : present'[e] = "absent" <=> present[e] = "absent"
    BY <1>8 DEF Settle, Typed
  <2> QED
    BY <2>1, OutliveKept
<1> QED
  BY <1>1, <1>2, <1>3, <1>4, <1>5, <1>6, <1>7, <1>8
     DEF Next, InstallStep, TeardownStep, DepStep, Terminated

LEMMA Invariance == Spec => []IInv
<1>1. Init => World
  <2> SUFFICES ASSUME Init PROVE World
    OBVIOUS
  <2>1. Recorded /\ CacheTruth
    BY DEF Init, Recorded, CacheTruth
  <2>2. \A c \in Callers : Reached(c) /\ Removed(c)
    BY DEF Init, Reached, Removed
  <2>3. stuck = {}
    BY DEF Init
  <2> QED
    BY <2>1, <2>2, <2>3 DEF World
<1>2. Init => PrerequisitesOutlive
  <2> SUFFICES ASSUME Init PROVE PrerequisitesOutlive
    OBVIOUS
  <2>1. \A c \in Callers, d \in Dep : step[c][d] = "none"
    BY DEF Init
  <2>2. \A c \in Callers : list[c].deps \subseteq Dep
    BY InitLocal, ListTyped
  <2> QED
    BY <2>1, <2>2 DEF PrerequisitesOutlive
<1>3. Init => IInv
  BY <1>1, <1>2, InitLocal DEF IInv
<1>4. IInv /\ [Next]_vars => IInv'
  BY TypedStep, LocalStep, WorldStep, OutliveStep DEF IInv
<1> QED
  BY <1>3, <1>4, PTL DEF Spec

\* Nothing is removed from under a dep that needs it, unless the removal of that
\* dep itself had failed (engine.go:105-128).
THEOREM RemovesInOrder == Spec => []PrerequisitesOutlive
<1>1. IInv => PrerequisitesOutlive
  BY DEF IInv
<1> QED
  BY <1>1, Invariance, PTL

\* A cache record is never a lie: whatever failed or crashed before, what is
\* recorded is in the cluster, and has been ready if all who may have recorded it
\* wait for it, unless another caller tears it down (engine.go:164-176).
THEOREM RecordsTrue == Spec => []CacheTruth
<1>1. IInv => CacheTruth
  BY DEF IInv, World
<1> QED
  BY <1>1, Invariance, PTL

\* An Install that returns without error leaves its caller with every dep of the
\* list in the cluster, skipped ones included, and ready if all who may have
\* recorded it wait for it (engine.go:45-102).
THEOREM PremisesMet == Spec => []PremisesReady
<1>1. IInv => PremisesReady
  <2> SUFFICES ASSUME IInv, NEW c \in Callers, phase[c] = "installed", NEW d \in list[c].deps \ Contended
               PROVE  Good(d)
    BY DEF PremisesReady, Good
  <2>1. step[c][d] = "ok" /\ d \in Dep
    BY ListTyped DEF IInv, Local, Placed
  <2> QED
    BY <2>1 DEF IInv, World, Reached, Holding
<1> QED
  BY <1>1, Invariance, PTL

\* Where no call fails, Teardown leaves neither its deps nor records of them
\* (engine.go:105-128).
THEOREM TeardownComplete == Spec => []TornDown
<1>1. IInv => TornDown
  <2> SUFFICES ASSUME IInv, ~Faults, NEW c \in Callers, phase[c] = "gone", NEW d \in list[c].deps \ Contended
               PROVE  present[d] = "absent" /\ d \notin record
    BY DEF TornDown
  <2>1. Installed(c) = {} /\ list[c].scope # "cluster" /\ d \in Dep
    BY ListTyped DEF IInv, Local, Placed
  <2>2. present[d] = "absent"
    BY <2>1 DEF IInv, World, Removed
  <2>3. d \notin record
    BY <2>1, NeverTornDown DEF IInv, World, Recorded
  <2> QED
    BY <2>2, <2>3
<1> QED
  BY <1>1, Invariance, PTL
=============================================================================
