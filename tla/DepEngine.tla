----------------------------- MODULE DepEngine ------------------------------
(***************************************************************************)
(* internal/deps: Install and Teardown of dependency lists on one cluster. *)
(* Each caller is one call of deps.Install (a file's cluster-, suite- or   *)
(* test-scoped list), with its batches, its worker pool, the cache records *)
(* it keeps in the cluster, and the Teardown that follows.  Callers run in *)
(* parallel: files of one run, or runs of vigie that share a cluster.      *)
(***************************************************************************)
EXTENDS Integers, Sequences, FiniteSets

CONSTANTS
    Callers,
    Dep,          \* dependency names; the same name is the same place in the cluster
    HelmDeps,     \* those installed by Helm: an existing release is an error
    BlindDeps,    \* those whose waitFor names only kinds checkReadiness does not know
    Lists,        \* what a caller may have to install
    Parallelism,  \* InstallOptions.Parallelism; zero or less means NumCPU
    NumCPU,
    Faults,       \* may calls to the cluster fail?
    Crashes       \* may a caller's process die?

Slots == IF Parallelism <= 0 THEN NumCPU ELSE Parallelism

\* waits: the deps this caller gives a waitFor; callers may differ in that, the
\* hash of a dep leaves it out.  after: the dependsOn edges.  BuildBatches has
\* refused unknown names and cycles (DepDag is about that): of any deps of the
\* list, one can go first.
ListShape == [scope : {"cluster", "suite", "test"}, deps : SUBSET Dep,
              waits : SUBSET Dep, after : [Dep -> SUBSET Dep]]
Accepted(l) ==
    /\ \A d \in l.deps : l.after[d] \subseteq l.deps
    /\ \A S \in (SUBSET l.deps) \ {{}} : \E d \in S : l.after[d] \cap S = {}

ASSUME DepAssumption == IsFiniteSet(Dep) /\ HelmDeps \subseteq Dep /\ BlindDeps \subseteq Dep
ASSUME SlotsAssumption == Parallelism \in Int /\ NumCPU \in Nat \ {0}
ASSUME ListsAssumption == Lists \subseteq ListShape /\ \A l \in Lists : Accepted(l)
ASSUME EnvironmentAssumption == Faults \in BOOLEAN /\ Crashes \in BOOLEAN

VARIABLES
    list,     \* [Callers -> Lists]
    phase,    \* [Callers -> Phases]: where the Install or Teardown call is
    step,     \* [Callers -> [Dep -> Steps]]: the installOne goroutines
    batches,  \* [Callers -> Seq(SUBSET Dep)]: state.Installed, batch by batch, and
              \* what Teardown has not yet removed of it
    dropping, \* [Callers -> SUBSET Dep]: removed by Teardown, record still there
    present,  \* [Dep -> {"absent", "applied", "ready"}]: the cluster; ready once
              \* what a waitFor of the dep asks for has held (of a kind that
              \* checkReadiness does not know, that the object exists)
    record,   \* SUBSET Dep: cache records (with the dep's hash) in the cluster
    stuck     \* SUBSET Dep: deps whose removal failed, an observation of the model

vars == <<list, phase, step, batches, dropping, present, record, stuck>>

Phases == {"idle", "batch", "installed", "failed", "teardown", "gone", "crashed"}
Steps  == {"none", "queued", "check", "install", "wait", "store", "ok", "failed"}
Busy   == {"check", "install", "wait", "store"}

\* (Mutant: installOne never gives its slot back.)
Working_Kept(c) == {d \in Dep : step[c][d] \in Busy \cup {"ok", "failed"}}
Working(c)   == {d \in Dep : step[c][d] \in Busy}
Installed(c) == UNION {batches[c][k] : k \in DOMAIN batches[c]}
Current(c)   == {d \in Dep : step[c][d] # "none"} \ Installed(c)  \* the batch at work

\* buildLevelBatches: a dep's level is one more than the highest of those it
\* depends on, so a batch is what became installable with the one before.
NextBatch(l, done) == {d \in l.deps \ done : l.after[d] \subseteq done}

Init ==
    /\ list \in [Callers -> Lists]
    /\ phase = [c \in Callers |-> "idle"]
    /\ step = [c \in Callers |-> [d \in Dep |-> "none"]]
    /\ batches = [c \in Callers |-> <<>>]
    /\ dropping = [c \in Callers |-> {}]
    /\ present = [d \in Dep |-> "absent"]
    /\ record = {}
    /\ stuck = {}

GoTo(c, d, s) == step' = [step EXCEPT ![c][d] = s]
Enter(c, p)   == phase' = [phase EXCEPT ![c] = p]

\* installBatch: one goroutine per dep of the batch.
Launch(c, batch) ==
    step' = [step EXCEPT ![c] = [d \in Dep |-> IF d \in batch THEN "queued" ELSE @[d]]]

\* (Mutant: the batches are ignored, everything is launched at once.)
FirstBatch_All(c) == list[c].deps
FirstBatch(c) == NextBatch(list[c], {})

\* Install, up to its first batch.
Begin(c) ==
    /\ phase[c] = "idle"
    /\ \/ list[c].deps = {} /\ Enter(c, "installed") /\ UNCHANGED step
       \/ list[c].deps # {} /\ Enter(c, "batch") /\ Launch(c, FirstBatch(c))
    /\ UNCHANGED <<list, batches, dropping, present, record, stuck>>

SlotFree(c) == Cardinality(Working(c)) < Slots

\* installOne starts when the semaphore lets it; only cluster scope has a cache.
Acquire(c, d) ==
    /\ phase[c] = "batch" /\ step[c][d] = "queued" /\ SlotFree(c)
    /\ GoTo(c, d, IF list[c].scope = "cluster" THEN "check" ELSE "install")
    /\ UNCHANGED <<list, phase, batches, dropping, present, record, stuck>>

\* A cache hit ends installOne; a miss, or an error, goes on to the install.
CheckCache(c, d) ==
    /\ phase[c] = "batch" /\ step[c][d] = "check"
    /\ \/ d \in record /\ GoTo(c, d, "ok")
       \/ (d \notin record \/ Faults) /\ GoTo(c, d, "install")
    /\ UNCHANGED <<list, phase, batches, dropping, present, record, stuck>>

\* (Mutant: the record is stored as soon as the source is applied.)
AfterInstall_Store == "store"
AfterInstall == "wait"

\* installSource.  Helm refuses a release name in use; manifests and kustomize
\* documents are created or updated.  A failing install may leave a part of it.
InstallSource(c, d) ==
    /\ phase[c] = "batch" /\ step[c][d] = "install"
    /\ \/ /\ d \notin HelmDeps \/ present[d] = "absent"
          /\ GoTo(c, d, AfterInstall)
          /\ present' = [present EXCEPT ![d] = IF @ = "ready" THEN @ ELSE "applied"]
       \/ /\ d \in HelmDeps /\ present[d] # "absent"
          /\ GoTo(c, d, "failed") /\ UNCHANGED present
       \/ /\ Faults /\ GoTo(c, d, "failed")
          /\ \/ UNCHANGED present
             \/ present[d] = "absent" /\ present' = [present EXCEPT ![d] = "applied"]
    /\ UNCHANGED <<list, phase, batches, dropping, record, stuck>>

\* External: an applied dep comes to be what a waitFor may ask of it.
Settle(d) ==
    /\ present[d] = "applied"
    /\ present' = [present EXCEPT ![d] = "ready"]
    /\ UNCHANGED <<list, phase, step, batches, dropping, record, stuck>>

\* The deps that this caller's waitFor really looks at.
Watched(c) == list[c].waits \ BlindDeps

\* waitForConditions polls until the objects are ready, or times out.  A dep
\* without conditions is not looked at, and neither is an unknown kind.
WaitReady(c, d) ==
    /\ phase[c] = "batch" /\ step[c][d] = "wait"
    /\ \/ /\ d \in Watched(c) => present[d] = "ready"
          /\ GoTo(c, d, IF list[c].scope = "cluster" THEN "store" ELSE "ok")
       \/ /\ \/ d \in Watched(c) /\ present[d] # "ready"
             \/ d \in list[c].waits /\ Faults
          /\ GoTo(c, d, "failed")
    /\ UNCHANGED <<list, phase, batches, dropping, present, record, stuck>>

\* A failure to store the record is logged, no more.
StoreRecord(c, d) ==
    /\ phase[c] = "batch" /\ step[c][d] = "store"
    /\ GoTo(c, d, "ok")
    /\ record' = record \cup {d} \/ (Faults /\ UNCHANGED record)
    /\ UNCHANGED <<list, phase, batches, dropping, present, stuck>>

\* (Mutant: an error in the batch does not end the install.)
BatchFailed_Ignored(c) == FALSE
BatchFailed(c) == \E d \in Current(c) : step[c][d] = "failed"

\* wg.Wait, then the first error, the end, or the next batch.  With an error
\* the caller gets no InstallState: nothing will be torn down.
EndBatch(c) ==
    /\ phase[c] = "batch" /\ \A d \in Current(c) : step[c][d] \in {"ok", "failed"}
    /\ IF BatchFailed(c)
       THEN Enter(c, "failed") /\ UNCHANGED <<step, batches>>
       ELSE LET done == Installed(c) \cup Current(c)
            IN  /\ batches' = [batches EXCEPT ![c] = Append(@, Current(c))]
                /\ IF done = list[c].deps
                   THEN Enter(c, "installed") /\ UNCHANGED step
                   ELSE Launch(c, NextBatch(list[c], done)) /\ UNCHANGED phase
    /\ UNCHANGED <<list, dropping, present, record, stuck>>

\* The caller's deferred Teardown; cluster-scoped deps are never torn down.
BeginTeardown(c) ==
    /\ phase[c] = "installed" /\ list[c].scope # "cluster"
    /\ Enter(c, "teardown")
    /\ UNCHANGED <<list, step, batches, dropping, present, record, stuck>>

\* (Mutant: in install order, not reversed.)
Outermost_First(c) == UNION {batches[c][k] : k \in {i \in DOMAIN batches[c] :
                                 \A j \in DOMAIN batches[c] : j < i => batches[c][j] = {}}}
Outermost(c) == UNION {batches[c][k] : k \in {i \in DOMAIN batches[c] :
                           \A j \in DOMAIN batches[c] : j > i => batches[c][j] = {}}}

Without(bs, d) == [k \in DOMAIN bs |-> bs[k] \ {d}]

\* teardownOne, one dep after the other in reverse order of install; the order
\* inside a batch follows Go's map iteration.  An error, reported or swallowed by
\* the source, does not stop it.
RemoveDep(c, d) ==
    /\ phase[c] = "teardown" /\ dropping[c] = {}
    /\ d \in Outermost(c)
    /\ batches' = [batches EXCEPT ![c] = Without(@, d)]
    /\ dropping' = [dropping EXCEPT ![c] = {d}]
    /\ \/ present' = [present EXCEPT ![d] = "absent"] /\ UNCHANGED stuck
       \/ Faults /\ stuck' = stuck \cup {d} /\ UNCHANGED present
    /\ UNCHANGED <<list, phase, step, record>>

\* DeleteRecord by name, whatever the dep's scope.
DropRecord(c, d) ==
    /\ phase[c] = "teardown" /\ d \in dropping[c]
    /\ dropping' = [dropping EXCEPT ![c] = {}]
    /\ record' = record \ {d} \/ (Faults /\ UNCHANGED record)
    /\ UNCHANGED <<list, phase, step, batches, present, stuck>>

AllRemoved(c) == Installed(c) = {}

EndTeardown(c) ==
    /\ phase[c] = "teardown" /\ dropping[c] = {} /\ AllRemoved(c)
    /\ Enter(c, "gone")
    /\ UNCHANGED <<list, step, batches, dropping, present, record, stuck>>

\* External: the process dies.  The cluster keeps what it has.
Crash(c) ==
    /\ Crashes /\ phase[c] \in {"batch", "installed", "teardown"}
    /\ Enter(c, "crashed")
    /\ UNCHANGED <<list, step, batches, dropping, present, record, stuck>>

InstallStep(c) ==
    \/ Begin(c) \/ EndBatch(c)
    \/ \E d \in Dep : Acquire(c, d) \/ CheckCache(c, d) \/ InstallSource(c, d)
                       \/ WaitReady(c, d) \/ StoreRecord(c, d)

TeardownStep(c) ==
    \/ BeginTeardown(c) \/ EndTeardown(c)
    \/ \E d \in Dep : RemoveDep(c, d) \/ DropRecord(c, d)

Over(c) == \/ phase[c] \in {"failed", "gone", "crashed"}
           \/ phase[c] = "installed" /\ list[c].scope = "cluster"
Terminated == (\A c \in Callers : Over(c)) /\ UNCHANGED vars

Next == \/ \E c \in Callers : InstallStep(c) \/ TeardownStep(c) \/ Crash(c)
        \/ \E d \in Dep : Settle(d)
        \/ Terminated

Spec == Init /\ [][Next]_vars

\* Polls end by their timeouts and calls are answered or refused, so every
\* goroutine keeps stepping.
FairSpec == Spec /\ \A c \in Callers : WF_vars(InstallStep(c)) /\ WF_vars(TeardownStep(c))
-----------------------------------------------------------------------------
(* Properties. *)

\* Types of the state; no batch is empty when it is installed.
TypeOK ==
    /\ list \in [Callers -> Lists] /\ phase \in [Callers -> Phases]
    /\ step \in [Callers -> [Dep -> Steps]]
    /\ batches \in [Callers -> Seq(SUBSET Dep)] /\ dropping \in [Callers -> SUBSET Dep]
    /\ \A c \in Callers : phase[c] \in {"batch", "installed"} => {} \notin {batches[c][k] : k \in DOMAIN batches[c]}
    /\ present \in [Dep -> {"absent", "applied", "ready"}]
    /\ record \subseteq Dep /\ stuck \subseteq Dep

\* No caller installs more deps at once than its pool allows (engine.go:134-145).
PoolBound == \A c \in Callers : Cardinality(Working(c)) <= Slots

\* A dep's install starts only when everything it depends on has been installed
\* and waited for, in this call (engine.go:77-93, dag.go:115-138).
DependenciesFirst ==
    \A c \in Callers, d \in Dep :
        step[c][d] \notin {"none", "queued"} => \A e \in list[c].after[d] : step[c][e] = "ok"

\* Two callers with the same dep, one of which will tear it down.
Contended == {d \in Dep : \E b, c \in Callers :
                 b # c /\ d \in list[b].deps \cap list[c].deps /\ list[b].scope # "cluster"}

\* Nothing is removed from under a dep that needs it: while a dep that a caller
\* has begun to install is in the cluster, so is everything it depends on.  The
\* exception is the dep whose own removal failed: Teardown goes on with what
\* that dep needs (engine.go:105-128).
PrerequisitesOutlive ==
    \A c \in Callers : \A d \in list[c].deps \ (Contended \cup stuck) :
        step[c][d] \notin {"none", "queued"} /\ present[d] # "absent" =>
            \A e \in list[c].after[d] \ Contended : present[e] # "absent"

\* Every caller that has the dep waits for it, on a kind that is looked at.
Vouched(d) == d \notin BlindDeps /\ \A c \in Callers : d \in list[c].deps => d \in list[c].waits

\* A cache record never promises what is not there: whatever crashed or failed
\* before, a recorded dep is in the cluster, and has been ready if all who may
\* have recorded it wait for it (engine.go:164-176, cache.go:72-94).
CacheTruth ==
    \A d \in record \ Contended :
        present[d] # "absent" /\ (Vouched(d) => present[d] = "ready")

\* When Install returns without error the caller's premises hold, including the
\* deps it did not install itself because of the cache (engine.go:45-102).
PremisesReady ==
    \A c \in Callers : phase[c] = "installed" =>
        \A d \in list[c].deps \ Contended :
            present[d] # "absent" /\ (Vouched(d) => present[d] = "ready")

\* After a Teardown in which no call failed, none of the caller's deps is left in
\* the cluster and no record of one is (engine.go:105-128).
TornDown ==
    ~Faults => \A c \in Callers : phase[c] = "gone" =>
        \A d \in list[c].deps \ Contended : present[d] = "absent" /\ d \notin record

\* Every Install and Teardown returns (engine.go:132-148, wait.go:33-55).
EveryCallReturns == <>(\A c \in Callers : Over(c))

\* types.go:416-417, onFail: "What to do on failure: clean (default) or keep the
\* partial state."  A failed Install leaves none of its own deps behind.
CleanOnFail ==
    \A c \in Callers : phase[c] = "failed" /\ list[c].scope # "cluster" =>
        \A d \in list[c].deps \ Contended : present[d] = "absent"

\* types.go:404, waitFor: "Conditions that must hold before the dependency is
\* considered ready"; wait.go:107: "For unknown kinds fall back to a simple
\* existence check."  A dep that an Install waited for is there.
UnknownKindExists ==
    \A c \in Callers : phase[c] = "installed" =>
        \A d \in (list[c].waits \cap BlindDeps) \ Contended : present[d] = "ready"

\* cache.go:72-73, a cache hit: "meaning the dep is already installed and
\* healthy."  A caller's own waitFor has held when its Install returns.
CachedIsHealthy ==
    \A c \in Callers : phase[c] = "installed" =>
        \A d \in Watched(c) \ Contended : present[d] = "ready"
=============================================================================
