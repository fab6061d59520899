# Vigie: formal models

`vigie` lints, validates and tests Helm charts. The part of it that is hard to
get right is `vigie test`: a command line and a tree of test files become runs
in parallel, each test is expanded, withheld or executed by rules that several
packages share, and with `--cluster` the files share a live cluster, clean up
after themselves on every way out, poll it against deadlines, and leave
state in it and on disk for later runs and other processes. These modules
model that command; TLC checks them on small instances, and TLAPS proves the
most important properties for every value of the constants.

Line numbers below and in the modules refer to the sources in `src/`.

    tlc -workers 2 -config MCApplyRun_faults.cfg MCApplyRun    # check one run
    tlapm ApplyRun_proofs.tla                                  # check the proofs

## 1. The system

### Components, their state and their operations

| Component (source) | State | Operations | Module |
| --- | --- | --- | --- |
| Template-tier runner (`internal/runner/runner.go`, `assert.go`) | per file: expanded tests, results, error; `runCtx` | `Run`, `runFile`, `runTest`, `evaluateAssertions` | `TemplateRun` |
| Apply-tier runner (`runner/apply.go`, `lifecycle.go`) | per file: position, registered defers, results, error; per run: backend, `runCtx` | `RunApply`, `run`, `runFile`, `runTest`, `helmInstall`, hooks, `stopBackend` | `ApplyRun` |
| Worker pool (`runner/parallel.go`) | semaphore channel, wait group, error list | `runParallel` | `WorkerPool` |
| Verdict (`cmd/vigie/test.go`) | results, error, flags | `runTestCmd`, `discoverTestFiles`, `refuseUnrunnableFile`, `liveAssertionWarning` | `TemplateRun`, `ApplyRun` |
| Tier gate and ceiling (`runner/tiergate.go`, `matchers/tiers.go`, `dsl/tier_ceiling.go`, `dsl/capability.go`) | none | what a test needs, what a backend provides | `TierRules` |
| Expansion (`internal/matrix`, `dsl/parser.go`, `runner/runner.go`) | maps shared by reference | `MergeInputs`, `Expand`, `expandTests`, `interpolateTest` | `Expansion` |
| Live and HTTP matchers, dependency waits (`matchers/waitfor.go`, `lookup.go`, `eventemitted.go`, `logscontain.go`, `http.go`, `deps/wait.go`) | deadline, attempts, log streams, port-forward, channels | poll, stream or retry until a condition holds | `LiveMatcher` |
| Dependency engine (`internal/deps/engine.go`, `cache.go`) | goroutines of a batch, `InstallState`; in the cluster: objects, releases, cache ConfigMaps | `Install`, `Teardown`, `IsCached`, `StoreRecord`, `DeleteRecord` | `DepEngine` |
| Dependency order (`deps/dag.go`, `source_ref.go`) | lists, in-degrees, queue, levels | `ResolveRefs`, `BuildBatches` | `DepDag` |
| Cluster backends (`internal/cluster/*`) | `started`, `kubecfgPath`, `restConfig`; outside: containers, control plane, temporary directory | `Start`, `Stop`, `waitAPIStable` | `ClusterBackend` |
| Tool download (`internal/doctor`) | the tools directory and its `.partial` files, shared by processes | `ResolveTool`, `downloadExecutable` | `ToolDownload` |
| Snapshot store (`internal/snapshot`, `matchers/snapshot.go`) | snapshot files on disk | `Match`, `load`, `save` | `SnapshotStore` |
| Rendering, linter, `validate`, JSON schema, configuration, reporters, scaffolding | none | pure functions of their input files | none |

### How they interact

`runTestCmd` finds the test files, drops those that could not run one test on
the chosen backend, and hands the rest to `Run` or to `RunApply`. Both give the
files to `runParallel`; each file's goroutine parses its suite, expands the
tests, and runs them one by one. In the template tier a test is rendered and its
assertions are evaluated on documents.

`RunApply` first starts one backend, which for kind and k3d first resolves a
command-line tool, perhaps by downloading it into a cache that other `vigie`
processes use, and defers the backend's `Stop`. Each file installs its
cluster- and suite-scoped dependencies (deferring the teardown of the latter),
runs `beforeAll` (deferring `afterAll`) and then its tests; a test
creates a namespace, installs its dependencies, runs its setup hooks, installs
the chart and evaluates its assertions, and each of these set-ups defers its own
removal. The files share the cluster, the cache records kept in it, the
semaphore, and `runCtx`, which fail-fast cancels. Every removal runs under a
fresh, detached context. Assertions may poll the cluster, open streams and
port-forwards, or rewrite a snapshot file that other test files may be using. When
all files are done the results and the error become an exit code: 0 for passed, 1
for a failed test, 2 for an error of the run, 3 for a refused command, 5 for
warnings.

### What is hard

* **Concurrency.** Files in one cluster; dependency goroutines in one batch;
  log streams and a port-forward with the channels they answer on;
  read-modify-write of snapshot files; check, install, record of a cached
  dep; processes that download one tool into one `.partial` file.
* **Failure.** Any call may fail, and may have done a part of its work. Which
  clean-ups are registered then, in which order, and under which context?
* **Cancellation and crashes.** Fail-fast cancels work in flight; no signal
  handler exists; a killed process leaves a cluster with records in it, or a
  half-written file.
* **Time.** API servers that answer once and then reset; conditions that come to
  hold between two looks; deadlines that cut a look short.
* **Order.** Dependencies before dependents, in install and in teardown; Go maps
  that are iterated in any order.
* **Two rules for one question.** Parser, discovery, gate and refusal each decide
  what a test needs, by different walks over its assertions; a test that
  none of them runs must not read as green.
* **Aliasing.** Tests share the map of a suite's default values.

### What makes each component correct

* *Runners*: nothing runs after a premise of it was removed; the backend outlives
  all work; what is set up is removed on every way out, and what is left all the
  same has a cause; each selected test gets a result; fail-fast cuts no file in two.
* *Pool*: at most `--parallelism` files at work, and a join after all of them.
* *Verdict*: exit code 0 is never given to a run in which something selected is
  bad or was silently left out; exit code 1 is never given to a run of good
  tests only.
* *Tiers*: what the parser accepts is never withheld at the declared tier; what is
  withheld needs a cluster, and the reason names backends that would help.
* *Expansion*: exactly the meant combinations, each once, with its own values.
* *Live matchers*: a success that lasts is noticed, nobody waits past the
  deadline, a verdict rests on what is there, every goroutine ends.
* *Dependency engine*: installs respect `dependsOn` and the pool's size, nothing is
  removed from under what needs it, cache records are true, and a successful
  `Install` means that its premises hold.
* *Dependency order*: the batches are exactly the rounds that the graph
  allows, and only what cannot be ordered is refused.
* *Backends*: a failed start leaves nothing; a kept cluster is whole; a REST
  config is handed out for an API server that stays up.
* *Tool download*: what enters the cache is whole; what a crash or a broken file
  leaves behind stands in nobody's way.
* *Snapshots*: a stored snapshot is replaced only on request, and what passed is
  what later runs compare with.

`PROJECT.json` lists every hazard at the line where it bites with the properties
that watch it.

## 2. The modules

### `WorkerPool`: what `runParallel` promises

The abstract specification: items wait, run, finish; no more than `slots` run;
the join comes last. Both tiers' file loops implement it (`PoolSpec` of `ApplyRun`,
checked and proved; `PoolSpec` of `TemplateRun`, proved). `Pass` is there for a job
whose file needs one step only: left out by fail-fast, or not loaded.

### `ApplyRun`: the apply tier

One action for each external call of a file's goroutine. `stage[f]` is the place in `runFile`/`runTest`;
`defers[f]` says how many of the five deferred functions (`Cleanup`, in the
order they are registered) are on the stack, and `RunDeferred` pops one: a
return at any place leads to `testExit` or `fileExit`, where the stack unwinds,
which is what Go does. A namespace and the test's dependencies are registered
only after their set-up has succeeded, as in the code, so a creation that fails
half-way is cleaned up by nobody; what it leaves is `stranded`, and so is what a
removal that failed leaves, whether the source reported the error or swallowed it
(`source_manifest.go:43-47, 96-100`).

| Code | Action |
| --- | --- |
| `RunApply` up to the pool; `stopBackend` | `RefuseStart`, `StartBackend`; `StopBackend` |
| `runParallel`: `sem <- struct{}{}`; `wg.Wait` and first error | `Acquire`; `Join` |
| the closure: `select` on `runCtx`; result, `cancelRun`, release | `Gate`; `Report` |
| `runFile` | `Load`, `InstallClusterDeps`, `InstallSuiteDeps`, `BeforeAll`, `NextTest`, `EndTests`, `EndFile` |
| `runTest` | `CreateNamespace`, `InstallTestDeps`, `Setup`, `InstallChart`, `Assert`, `EndTest` |
| deferred functions | `RunDeferred` |
| `runTestCmd` after `RunApply` | `Exit` (with `Status`, `Warned`) |

Abstractions. A test is its *kind* (filtered out, gated by tier, `skip:`, helper
test, a test whose assertions read rendered documents or the live cluster, or a
bare `rejected:`) and whether it is *good*, that is, passes if left alone. A dep
is a name in a place: the namespace of the test, or a shared one when the dep
pins a namespace or is a manifest, which says itself where it goes (`PinnedDeps`).
A Helm chart or a secret makes the namespace it names (`NsDeps`, `Spaces`;
`source_helm.go:51`, `source_secret.go:64`), and nothing in the code removes that.
`deps.Install` is one action here, all or a part of it; `DepEngine` opens it up.
The chart under test has a part in the test's namespace (`ReleaseObject`), which
goes with it, and a part at cluster scope or in a namespace that the chart names
(`outside`), which nothing uninstalls: a later install of the same object is refused
by Helm (`Refused`). A failing install leaves any part of both. CRDs from a chart's
`crds/` directory are not told apart from other objects at cluster scope. A removal
is over when its call has returned; that the API server deletes a namespace later
than that is not modelled. A call made under `runCtx` can only fail after
cancellation; a call under a detached context fails only under `Faults`.

### `TierRules`: what needs which tier

Operators, no state. The assertions of all files are one forest (`AllOf`, `AnyOf`,
`Nested`). The *ceiling* of the parser (`WithinCeiling`) looks at every node and
every key; the *gate* of the runners (`Blamed`, `MatcherTierSkip`) follows the
first matcher of the registry that claims an assertion and the children of a
composite, and does not look below a lookup. `UnrunnableAt` is the rule by
which discovery drops a file; `Hint` gives the backends named in a skip reason.

### `Expansion`: from written tests to run tests

`Cartesian`, `Expand` (exclude, include) and `ExpandCases` in any order of the
axes; `Interpolate`; `MergeInputs` and the loop of `expandTests`, in which a test
without `inputs.set` holds the map of the suite's defaults (`Shared`) and a
case's values are written into whatever map the test holds (`CaseMerged`).
The nested loops of `expandTests` are one loop over `Jobs`, with the tests so far
and the shared map as its accumulator (`AddEntry`).

### `TemplateRun`: the template tier and its exit code

| Code | Action |
| --- | --- |
| `runTestCmd`, `discoverTestFiles`, `refuseUnrunnableFile` | `Discover`, `Refuse` |
| `Run` up to the pool | `StartPool` |
| the closure given to `runParallel`; its error | `LoadFile`, `CancelFile`, `EndFile`; `Join` |
| `runFile`: one turn of its loop, with `runTest` | `RunTest` |
| `runTestCmd` after the run | `Exit` |

`Candidates`, `Diagnosed` and `Subject` are `selectDoc`; `Evaluate` is the
matchers' dispatch with `not:`, `allOf` and `anyOf`. A chart is a function from values
to documents (`Chart`), schema conformance a predicate (`Valid`). A result keeps the
test and the label of the combination or case it came from (`Report`), so that the
properties can say which result belongs to what, also where a suite holds one
test twice or two cases with one name.

### `LiveMatcher`: one look at a live cluster

One call of a matcher, or of a dependency's `waitFor`. The world changes
beside it: `object` (absent, unmet, met, good) and `api` (does the server
answer?). Time is `clock`; it passes only when the code waits (`Tick`).

| Code | Actions |
| --- | --- |
| preambles and targets | `Refuse`, `LookFirst`, `SleepFirst`, `AwaitIngress`, `StartStreams`, `ResolveTarget`, `StartForward` |
| the polling loops | `Hit`, `Miss`, `Abort`, `UnknownKind`, `UseAddress`, `Wake`, `GiveUp` |
| log streams and their channel | `StreamEnds`, `Deliver`, `ReadResult` |
| port-forward and its `cleanup` | `ForwarderEnds`, `Deliver`, `Connected`, `NotConnected`, `Close`, `Drain` |
| http requests and retries | `CheckSpec`, `Respond`, `Retry` |

Two kinds of loop are kept apart because they differ at the deadline: those that
`time.Sleep` between looks, and those of `PollUntilContextCancel`, whose sleep
ends with the context (`Ticking`).

### `DepEngine`: `deps.Install` and `deps.Teardown`

Several callers (files of a run, or runs that share a cluster), each with a
list, batches, one goroutine per dep of the batch and a semaphore. `step[c][d]`
is the place in `installOne`: `check` (`IsCached`), `install`
(`installSource`), `wait` (`waitForConditions`), `store` (`StoreRecord`).
`present` and `record` are the cluster's side and survive a `Crash`; a dep becomes
ready by itself (`Settle`). Callers may differ in which deps they give a `waitFor`
(`waits`), since the hash of a dep leaves it out, and a `waitFor` of a kind that
`checkReadiness` does not know succeeds without a look (`BlindDeps`, `Watched`).
Removal goes batch by batch from the last to the first (`Outermost`); inside a batch
the order is free because the code iterates over a Go map. A removal that fails
does not stop the next one; `stuck` remembers it. `RemoveDep` and `DropRecord` are
two steps, as uninstall and `DeleteRecord` are two calls.

### `DepDag`: from a list to batches

`ResolveEntry` (one turn of the depth-first walk through `ref` files),
`Validate`, `Pop` (one turn of Kahn's loop, with the freedom that map iteration
gives), `Group`. The code's own bookkeeping is kept (in-degrees by mention, maps
by name in which the last of two equal names wins, levels from the sorted
order) and the properties use definitions that know nothing of it.

### `ClusterBackend`: `Start` and `Stop` of the four backends

One action per command, with the Go object's fields and the outside world as
separate state. `Settle` is the API server of a fresh k3d cluster: up at once,
or one answer, then resets, then up. This is the case `waitAPIStable` is written
for; the model assumes no server that answers twice in a row and then resets.

### `ToolDownload` and `BackendTools`

`ToolDownload` is `ResolveTool` in several processes: the path the user names,
`$PATH`, the cache, permission, download. Files are inodes that a name may point
to and a process may have open, because `downloadExecutable` opens, closes, hashes
and renames by name while another process may do the same. `BackendTools` puts it
in front of `ClusterBackend`: `Start` of kind and k3d goes on or fails as
`ResolveTool` did.

### `SnapshotStore`: `matchSnapshot`

Test files in parallel, each evaluating its assertions in order: `Load` the
file, `Match`, `Truncate`, `Write`; `NextRun` starts vigie again, on documents
that may differ and with or without `--update-snapshots`.
`accepted` (what each key last passed with) and `baseline` (the run before) are
history variables. A key is evaluated more than once by `forEach`, which uses one
assertion index for all documents (`assert.go:66-71`), and by the children of an
`allOf` or `anyOf`, which share their parent's (`quantifier.go:29, 62`); `Asserts`
is the sequence of these evaluations. A child whose failure is not its file's failure
(under `anyOf` or `not:`) is left out.

### The `MC` modules

They define the small inputs; `BackendTools` and `ToolDownload` need none. A
definition named `X_Y` that says "(Mutant: ...)" is a plausible wrong version of
`X`, kept next to it to show that a property notices.

## 3. The runs

| Run | Question | Bounds |
| --- | --- | --- |
| `apply_faults` | With every call able to fail, fail-fast, `--keep-cluster` and Ctrl-C: does what is left have a cause, are clean-ups ordered, is exit code 0 earned? | 2 files over 5 plans, 2 tokens, one object outside |
| `apply_verdict` | With no faults: does the loop implement the pool and end, are results and exit code exact? | 3 files over 4 plans, 2 tokens |
| `template` | Which tests are run, with which values, on which document, and what does the exit code say of them? | 2 files over 15 suites, all flags |
| `live` | Does every matcher notice, stop, judge by evidence and clean up? | interval 2, pause 1, timeouts 0 to 5, 0 to 2 retries, 2 pods |
| `dep` | Order of installs and removals, truth of records, return of every call, with failing calls and crashes | 2 callers, 3 deps (one a release, one of an unknown kind), 6 lists, 2 slots |
| `dag` | Are batches rounds, refusals justified, refs bounded? | all lists of up to 3 deps over 3 names with up to 2 mentions, plus 6 ref files, depth 2 |
| `backend` | Does each backend, with the tool it resolves, start and stop cleanly, and is the tool found? | 4 types, 4 pings; 2 processes, 2 pieces, 1 crash |
| `snapshot_apart` | Snapshot files used by one test file each | 2 files, 4 evaluations of 3 keys, 2 values, 3 runs |
| `apply_inflight`, `dep_onfail`, `snapshot_shared`, `tools_race` | Violations, see section 5 | as small as shows it |

**Why these bounds.** Two files are enough for one to cancel, block or reach
into the other; three over two tokens are needed for one to wait while two work
(`apply_verdict`). The plans cover each scope of dependency, each hook, each
kind of test, a second test after a first (defers registered twice), a gated and
a broken file. The suites of `template` are one for each thing that can become of
a file or a test: matrices with an empty axis, an exclude, includes that are
a part of a combination or of one another; cases with and without values of
their own, over defaults; references that do not resolve; a test written twice; tiers declared, needed
and exceeded; charts that render two documents, none, or not at all; targets that
hit, miss or lie past the end. In `live`, timeouts go from below to beyond two
intervals, so that the first look, a look at the deadline and one after it all
occur, and two retries leave one between the first and the last. Three deps give a
chain, a fork and a join, hence two and three
batches, and a batch that is larger than the pool (`Flat`, three deps on two
slots). Two callers with one cluster list meet at the cache. `d3` of `dep` is of an
unknown kind; some deps have no `waitFor`. In `apply_faults` two tests share an object
outside their namespaces, so the second install is refused. In `dag`, two
mentions are what a double `dependsOn` needs, and repeated names come from `n`
ranging over `a` and `b` in the first position; `MaxRefDepth` is 2 where the
code has 8, with a chain of files that reaches the limit exactly and one that
passes it. Four pings see blip, reset and two successes. Two processes and a
binary in two pieces give every overlap of two downloads; a crash adds what a
dead process leaves. Three runs
of vigie let a run change a document, the next update it, and the third compare.

**Fairness.** `ApplyRun`: weak fairness of
the main goroutine and of each file. Waits, hooks and removals run under
timeouts (`wait.go:42`, `lifecycle.go:64`, `apply.go:271, 373, 493`), Helm
installs with `Wait = false`; creating a namespace, a Helm install and a
backend's command have no timeout of their own, and fairness assumes of them
that the API server or the command answers or refuses in the end. Nothing is
assumed of the order in which goroutines get the semaphore. `DepEngine`: the same
per caller. `TemplateRun`: weak fairness of the next step, since nothing
in it waits for anything outside. `LiveMatcher`: the code's steps and the clock go
on, a log stream ends once its context is done (`logscontain.go:67-89` opens it
under that context), a port-forward ends once its `stopChan` is closed; nothing
is assumed of the server, of the object, or of a stream or port-forward that
nobody has stopped. `BackendTools`: the backend's code and each process's
`ResolveTool`, but not `Settle`: `Start` returns even if the API server never
comes up; downloads are assumed to end or break. Nothing is assumed to succeed.

**Deadlock** is checked in all runs: each specification ends in a step
(`Terminated`, `Done`, `ToolDone`) that is enabled only in the states where the
program is really over.

### The properties

* `PremisesHold`: while a file runs, and while its defers unwind, everything
  its registered clean-ups count on is still there. Not claimed for a dep that two
  scopes or files install into one place (`Contended`): there the first
  teardown takes it from the other, in the model as in the code.
* `LeftoversHaveCause`: when `RunApply` returns without `--keep-cluster`, what is in
  the cluster is a cluster-scoped dep, or a thing the code removes nowhere
  (`Unowned`: objects a chart has outside its test's namespace, namespaces that
  deps made), or was left by a call that failed. That no early return of `runFile`
  or `runTest` adds to this list is the point. It is weaker than what
  `apply.go:61-62` says; the difference is `InFlightCleanUp`, see section 5.
* `BackendCoversWork`, `Terminates`, `PoolSpec`: as their comments say.
  `OneResultPerTest`: every selected test has a result and never two that differ
  (results are a set here, so the same entry twice would not be seen).
* `GreenMeansGood`, `RedMeansBad`: the two directions of the apply tier's verdict.
  Under faults, and where an object of another test's chart may be in the way, a
  bare `rejected:` test is left out of the first, since the code takes any install
  error for a rejection; otherwise it is included. The second is for runs where
  nothing fails by itself or because something is installed twice.
* `GreenMeansAll`: in the template tier, exit code 0 accounts for every test the
  user wrote. `SkipIsHonest` and `FailIsBroken`: withheld means "needs a
  cluster", failed does not. The last is about assertions with one matcher key:
  with two, the first registered counts for the gate, and a test may then be
  run and fail for want of a cluster.
* `ExpansionExact`, `ValuesApart`: the expansion against a definition without
  order, accumulation or sharing. A suite may say one thing twice (a test, an axis
  value, a case's name), and it is then run twice; that nothing else is run twice
  is said of suites that do not (`Apart`). `FileWhole`: fail-fast stops at file
  borders. `PassHasSubject`: no pass, negated or not, without a document, for the
  document that the target selects, or that has the `documentIndex`; that an index
  looks at nothing else of the target is `IndexedSubjectMatches`, see section 5.
  Under `forEach` an index is ignored, as in the code. `RunEnds`.
* `HeldIsNoticed` says from when on a condition must hold for a call to succeed,
  and that nobody gives up before; `StopsInTime` bounds the overshoot of each loop;
  `VerdictHasEvidence` ties a verdict to the state in which it is given;
  `PatternDecides`, `StoppedOnce` and `CallEnds` are about the goroutines.
* `DependenciesFirst`, `EveryCallReturns`. `PrerequisitesOutlive`: while a dep is in
  the cluster, so is what it depends on, unless its own removal has failed, after
  which `Teardown` goes on all the same (`engine.go:115-119`).
* `CacheTruth`, `PremisesReady`: recorded or promised deps are there, and have been
  ready if everybody who may have recorded them waits for them on a kind that is
  looked at (`Vouched`). All three not for a dep that another caller will tear down.
* `PrerequisitesFirst`, `BatchesAreRounds`, `RefusedForCause`, `RefsResolved`.
* `NothingLeftBehind`, `HandleMeansStable`, `StartReturns`. `KeptClusterIsWhole` is
  about kind and k3d, whose kubeconfig stays with the cluster.
* `CacheIsWhole`, `FoundUnlessRefused`: both with two processes and crashes, as
  long as downloads do not overlap; `tools_race` shows what an overlap does.
* `StoredAsAccepted`, `OnlyFirstRunWrites`. `UnchangedStaysGreen`: the next run on
  the documents of a green run is green, unless that run updated one key with
  several values (`OneValue`), of which it keeps the last; see section 5.

## 4. The proofs

Eight modules; the theorems hold for all values of the constants that satisfy the
named assumptions: any number of files, workers, tests, dependencies, pods and
processes, any plans, lists, suites, matrices, assertions and timeouts, with and
without faults, crashes and interrupts. Every invariant of every passing run is the
statement of a theorem, and so are the refinement `PoolSpec` and the action property
`OnlyFirstRunWrites`; what is left to TLC is liveness.

| Module | Theorem | What holds |
| --- | --- | --- |
| `ApplyRun_proofs` | `TypeCorrect`, `ParallelismBounded` | `TypeOK`, `WithinParallelism` |
| | `BackendOutlivesWork` | `BackendCoversWork` |
| | `CleanedUp` | `LeftoversHaveCause` |
| | `PremisesStay` | `PremisesHold` |
| | `OneResultForEach` | `OneResultPerTest` |
| | `GreenIsGood`, `RedIsBad` | `GreenMeansGood`, `RedMeansBad` |
| | `ImplementsPool` | `PoolSpec`: `ApplyRun` implements `WorkerPool` |
| `DepEngine_proofs` | `EngineTyped`, `PoolBounded` | `TypeOK`, `PoolBound` |
| | `InstallsInOrder`, `RemovesInOrder` | `DependenciesFirst`, `PrerequisitesOutlive` |
| | `RecordsTrue`, `PremisesMet` | `CacheTruth`, `PremisesReady` |
| | `TeardownComplete` | `TornDown`: where no call fails, a teardown leaves nothing |
| `DepDag_proofs` | `SortedInOrder`, `BatchesRounds` | `PrerequisitesFirst`, `BatchesAreRounds` |
| | `RefusalsHaveCause`, `RefsAreResolved` | `RefusedForCause`, `RefsResolved` |
| | `DagTypes` | `TypeOK`: no in-degree goes below zero where names are used once |
| `BackendTools_proofs` | `BackendTyped`, `NothingLeft` | `TypeOK`, `NothingLeftBehind` of `ClusterBackend` |
| | `KeptWhole`, `HandleStable` | `KeptClusterIsWhole`, `HandleMeansStable` |
| | `ToolTypeCorrect` | `ToolTypeOK` of `ToolDownload` |
| | `CacheStaysWhole`, `ToolIsFound` | `CacheIsWhole`, `FoundUnlessRefused` |
| | `BackendPart`, `ToolPart` | the invariants of both, of the two together |
| | `ToolBeforeCommand` | `ToolFirst`: no command of kind or k3d before the tool was found |
| `SnapshotStore_proofs` | `AcceptedIsStored`, `StoredNeverReplaced` | `StoredAsAccepted`, `OnlyFirstRunWrites`, under `OneFileEach` |
| | `RepeatedRunGreen` | `UnchangedStaysGreen`, under `OneFileEach` |
| `LiveMatcher_proofs` | `TypeCorrect`, `SuccessNoticed` | `TypeOK`, `HeldIsNoticed` |
| | `DeadlineKept`, `VerdictGrounded` | `StopsInTime`, `VerdictHasEvidence` |
| | `LogsDecided`, `ForwardStopped` | `PatternDecides`, `StoppedOnce` |
| `TemplateRun_proofs` | `DeclaredTierRuns` | no test that the ceiling accepts is withheld at the declared tier |
| | `HintsHelp`, `LetThroughIsMet` | a skip's hint helps; what the gate lets through has what it needs |
| | `ExpandedExactly`, `CasesKeptApart` | `ExpansionExact`, `ValuesApart` |
| | `GreenMeansEverything`, `FilesAreWhole` | `GreenMeansAll`, `FileWhole` |
| | `GatedHonestly`, `FailuresAreReal` | `SkipIsHonest`, `FailIsBroken` |
| | `PassesHaveSubjects`, `RunTyped` | `PassHasSubject`, `TypeOK` |
| | `RunImplementsPool` | `PoolSpec`: `TemplateRun` implements `WorkerPool` |
| `InductionTheorems` | lemmas only | induction and recursion over numbers, see below |

**`ApplyRun`.** The semaphore's count can be typed only by saying what it counts:
the files that hold a token (`TokenInv`). Files are at work only while the main
goroutine waits for them (`MainInv`). For `CleanedUp`, every resource that no
failed call left and that the code removes somewhere (`Tracked`) is *owed*: some
file has a clean-up registered that will remove it (`Accounted`); this is inductive
together with the position of each file in its stack of defers (`DefersInv`), because
a set-up and the registration of its clean-up are one step, as nothing lies between
`deps.Install` returning and the `defer`. What a chart puts into its namespace is
owed through the namespace, which is deferred before the chart is installed.
`CauseInv` follows `stranded` back to a fault, to fail-fast, or to a second install
of a Helm dep. For `PremisesStay`, a removal can reach into another file or scope
only through a shared place, and then two different scopes want the dep and one
of them gives it up, which is what `Contended` says (`TwoWants`, by
cardinality). For the verdict, `Progress` ties the place where a file is to the
tests that have a result, `Sound` says of each result what it tells about its
test, and `CancelInv` that only fail-fast cancels a run that is still on, and only
after a failure; each early return of `runTest` is one use of the lemma
`EarlyReturn`. `ImplementsPool` maps `Acquire` to `Begin`, `Report` to `Finish`,
`Join` to `Join`, and everything else to a stutter.

**`DepEngine`.** Parts: `Launched`, `Collected` and `Placed` (where each goroutine of
a batch may be), `Reached` (what Install has got to), `Recorded` (only a caller with
cluster scope stores a record), `Removed`, and `NeverTornDown` for the deps that only
one caller tears down. `PrerequisitesOutlive` is inductive with these: an install
begins when its prerequisites are there, and a removal takes what no remaining batch
lies outside of. One assumption is about the input, `Accepted`: the list is one that
`BuildBatches` accepts, so of any of its deps one has no prerequisite among them,
and the next batch is never empty.

**Induction.** The library states its induction theorems with an operator as a
parameter. `InductionTheorems` says them in first-order form: what is to be shown
of all numbers is the *set* of the numbers it holds of, and a set that is not
everything has a least number outside it (`NatHasLeast`, from the library's
`NatLessThanWellFounded` and `WFMin`). From that follow `SetInduction`,
`IntervalInduction` (over `0..n`), and that a function defined by recursion exists
and satisfies its equation (`PrimitiveRecursion`, `BoundedRecursion`,
`CourseOfValues`), which is what a `LET upto[n \in 0..N] == ...` of the models means.

**`DepDag`.** An in-degree is the number of mentions that still wait (`Counting`);
one turn of the sort subtracts the mentions of one name, which by a bijection are
the entries of one `dependsOn` (`MentionsCount`). What is ready therefore waits for
nothing (`PrerequisitesFirst`), and conversely what waits for nothing is ready or
emitted (`Waiting`): when the queue is empty and a dep is left, all that is
left waits for something left, so no round ever holds it, which is the cause
`RefusedForCause` asks for. For `BatchesRounds` the levels are computed by course of
values along the sorted list; by induction on the place in that list, a dep's level
is the number of its round, and the batches up to `r` are what the rounds up to `r`
hold. A list with a repeated name is sorted into something shorter than itself and
refused; the order is claimed for lists without (`Distinct`), the batches and
refusals for all. For `RefsAreResolved`, what has been taken off the work list is
*dealt with* (`DealtWith(V)`): it is in the result, or all that its file holds is
dealt with or waiting; when the work list is empty, `V` is closed, and induction
on the depth shows that it is all that can be found.

**`ClusterBackend`.** `NothingYet` before the first command, `Made` after it,
`StreakTells` (how many pings in a row), `Running`.

**`SnapshotStore`.** `Stored` and `Pending` say what the file and the write that is
under way hold of each key. `OneFileEach`: no two test files share a snapshot
file, without which `snapshot_shared` is the counterexample. `Passed` and `Kept`:
a green run leaves a file that agrees with all its evaluations, so a repeat has
nothing to write. A run without `--update-snapshots` that is green has found one
value for each key, since it compares; a run with it need not have, which is the
case that `UnchangedStaysGreen` leaves out (`Comparable`).

**`LiveMatcher`.** `Places`, `Forwarding`, `Streams` (types and who may be where),
`Timely` (no sleep begins after the deadline), `Fresh` (a verdict rests on the last
look) and `Watching` (a condition that holds is seen at the next tick).

**`ToolDownload` and `BackendTools`.** `Opened` and, as long as no two downloads have
overlapped, `Alone`: one process owns the `.partial` file, which holds what that
process has written so far (`Owner`, `Filled`), and what was renamed is whole
(`Delivered`). `Permitted` carries the refusals. A free inode always exists, by
cardinality (`FreeExists`). A step of one part is a stutter for the other, so the
invariants of the parts hold of the whole.

**`TierRules`.** What an assertion reaches is the least set closed under its
children, first-order, so no recursion is unfolded. The gate's walk stays inside
the ceiling's, and the ladder of tiers only adds. `LetThroughIsMet` assumes one
matcher key per assertion and that only `lookup` nests.

**`Expansion`.** A chain of lemmas from the inside out, each by induction on the loop
it is about. `ExpandIs`: for every order of the axes the list holds the combinations
that are meant (`Combinations`), and each once if no axis names a value twice; the
invariant of the loop over the axes is that the combinations so far are all functions
on the axes so far. `EntriesAre` and `JobsAre`: the same for what a test, and a suite,
is run as. `InterpolateIs`, `AddEntryIs`, `ExpandTestsIs`: one turn of `expandTests`
leaves the map of the suite's defaults as it was, because `interpolateTest` hands
back a copy; hence a test's values depend on its own entry and the defaults only
(`PromiseKept`). `LoadIs` puts together what a loaded file is.

**`TemplateRun`.** `RunInv` has five parts. `Typing`. `FilesInv`: each file is either
untouched, with nothing loaded or reported, or in work: some load of its suite
and a place `n` in it account for it, its results being reports on the first `n`
tests (those that `--match` selects) and the rest still expanded (`Place`); this is
what ties results to what the user wrote, and it is inductive because one turn of the
loop moves `n` by one. `CancelInv`: a cancelled run has a failed file, so an exit
code 0 was not cut short. `Phases`: which files may be at work when, and that what
was discovered is what the main goroutine waits for. `PoolInv`: the pool's bound.
`GreenMeansEverything` then needs that what discovery drops was withheld for a demand
that this tier does not meet (`WithheldDemands`), `GatedHonestly` and
`FailuresAreReal` use the lemmas on tiers, and `ExpandedExactly` counts, by a
bijection, the names under which the tests were loaded. `RunImplementsPool` maps
`LoadFile` to `Begin`, or to `Pass` if the file does not load, `CancelFile` to
`Pass`, `EndFile` to `Finish`; the parallelism that `Run` was given becomes the
pool's slots, one for zero and less.

**Only model-checked.** Liveness (`Terminates`, `RunEnds`, `EveryCallReturns`,
`StartReturns`, `CallEnds`), which the prover does not reach: a temporal argument from
fairness needs `ENABLED`. The disagreements below are found by TLC.

## 5. Disagreements between code and text

1. **Fail-fast is felt by files in flight** (`apply_inflight`). `apply.go:61-62`
   promises that "In-flight tests run to completion and clean up". `cancelRun` at
   184 cancels the context under which they install, so a good test is reported
   as failed.
2. **`onFail` does nothing** (`dep_onfail`). `dsl/types.go:416` documents clean
   as the default; `Install` returns a nil state on error, so nobody tears
   down what its earlier batches installed, and no code reads the field.
3. **Snapshot files are not locked** (`snapshot_shared`). Two test files with one
   sanitised suite name lose each other's snapshots; the next run then stores
   a changed document as new where `dsl/types.go:266` promises a comparison.
4. **A download is atomic for one process only** (`tools_race`).
   `k8s_binary_download.go:95` says "atomically via a *.partial file". The file
   has one name for all processes: one truncates it between another's checksum
   and rename, and if its own connection then breaks, a part of a binary stays in
   the cache. With more than two processes the binary that one is about to run
   can be replaced by such a file.

Six more, each a property of its module that a configuration kept with the modules
shows to be violated:

| Configuration | Module | Property violated |
| --- | --- | --- |
| `MCApplyRun_leftover.cfg` | `MCApplyRun` | `InFlightCleanUp` |
| `MCDepEngine_blind.cfg` | `MCDepEngine` | `UnknownKindExists` |
| `MCDepEngine_cached.cfg` | `MCDepEngine` | `CachedIsHealthy` |
| `MCSnapshotStore_foreach.cfg` | `MCSnapshotStore` | `UpdatedStaysGreen` |
| `MCBackend_envtest.cfg` | `ClusterBackend` | `EnvtestTornDown` |
| `MCTemplateRun_index.cfg` | `MCTemplateRun` | `IndexedSubjectMatches` |

5. **Nor do they always clean up** (`InFlightCleanUp`). The same cancellation makes a
   namespace's `Create` or a deps' `Install` fail half-way, and their removal is
   deferred only after they have succeeded (`apply.go:353-358`, `366-378`): what was
   made by then stays.
6. **An unknown kind is not looked at** (`UnknownKindExists`). `wait.go:107` calls what it
   does for a kind that `checkReadiness` does not know "a simple existence check",
   and `dsl/types.go:404` speaks of conditions that must hold. It returns true
   without asking the cluster.
7. **A cached dep need not be healthy** (`CachedIsHealthy`). `cache.go:72-73` says of a hit
   "meaning the dep is already installed and healthy". The hash leaves out
   `waitFor`, so a record stored by a suite that did not wait is a hit for one
   that does.
8. **`forEach` has one snapshot for all documents** (`UpdatedStaysGreen`).
   `dsl/types.go:124` says "one test per rendered document"; all are evaluated with
   one key, an update run keeps the last, and the next run on the same documents
   fails.
9. **envtest is kept** (`EnvtestTornDown`). `apply.go:64-65` says of `--keep-cluster`
   "envtest tears down regardless". `stopBackend` does not look at the backend; the
   control plane stays up, and the credentials that reach it are gone with the
   process.
10. **An index ignores its target** (`IndexedSubjectMatches`). `dsl/types.go:167` says that
   `documentIndex` is used "when multiple documents match". `selectDoc` takes that
   document of all that were rendered, so an assertion on an Ingress passes on a
   Deployment, with no Ingress anywhere.

Also noticed, with no run of its own:

* `apply.go:140-141` says that `stopBackend` runs after Ctrl-C; no handler is
  registered, so the process ends with no deferred call (`Interrupt`).
  Exit code 4 is documented and never used.
* What a chart puts outside the test's namespace is never removed, and neither are
  the namespaces that Helm and secret dependencies make for themselves; a later
  test whose chart has the same object is refused, and `rejected:` passes on that.
* `src/README.md:286` says that matchers which need more than the tier offers "are
  reported as skips". A file all of whose tests need more is dropped by discovery
  and not reported at all.
* "Check cache and skip if already installed" (`engine.go:152`) does not hold for
  two callers that check before either has recorded; a second Helm install is then
  an error.
* In `http.go` an ingress without an address is an error before the node address
  of a simulated backend is tried; the first failing `Get` ends the wait. A
  `timeout: 0s` is no limit. `eventEmitted` gives up at the first error of a
  `List`, where the other loops go on. `logsContain` selects pods once. The
  `labelSelector` of a dependency's wait is not read.
* `not: true` turns a matcher's refusal into a pass. Of two matcher keys in one
  assertion only the first registered is evaluated. A test with no assertions
  passes also when its chart does not render, and so does `hasDocuments: 0`.
* `inputs.values`, `inputs.setJson`, `inputs.setLiteral` and some `release` fields
  are parsed and never reach the renderer; `skip:` takes any non-empty string,
  where the type's comment speaks of a CEL expression; `on:` and `documentIndex`
  are ignored under `forEach`; a case's own values are not interpolated.
* A secret whose first source fails is not tried from the next one, as the
  documentation has it.

## 6. What is not modelled, and the plan

Not modelled: rendering, lint rules, `validate`, the JSON schema, configuration,
reporters and scaffolding are pure functions or thin I/O, without
interleavings or state that a model checker would add to their table tests; of
the document matchers one comparison stands for all predicates on a single
document. Dependency exports are fixed strings copied into values. `procutil`'s
managed processes have no caller among the backends. `HashDep` is reduced to the
dep's name: that it leaves out `waitFor` is modelled (`CachedIsHealthy`), that it leaves
out the content of manifest files is not. Outside `LiveMatcher` a timeout is a call
that may fail. Of `LiveMatcher`, the floor of five seconds for an ingress's address
(`http.go:158-161`) and the look-up of a node under `context.Background`
(`http.go:237`) are left out, and of `ToolDownload` errors of `MkdirAll`, `Chmod` and
`Rename`.

What the plan has left, most important first:

1. The composition of `ApplyRun` with `DepEngine`: the latter implements the one
   action that `deps.Install` is in the former, and two files that share a
   cluster-scoped dep meet in it.
2. A common abstract runner ("one result per selected test, then a verdict") that
   `TemplateRun` and `ApplyRun` both implement, beside the pool that they share.
