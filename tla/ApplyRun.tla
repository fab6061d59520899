------------------------------ MODULE ApplyRun ------------------------------
(***************************************************************************)
(* The apply tier of `vigie test --cluster ...`: RunApply starts a cluster *)
(* backend, runs the test files in parallel, stops the backend, and        *)
(* runTestCmd turns the outcome into an exit code.  Each file is the state *)
(* machine of runFile and runTest, one action per external call, with the  *)
(* deferred clean-ups as a stack that is unwound on every way out.         *)
(***************************************************************************)
EXTENDS Integers, Sequences, FiniteSets

CONSTANTS
    NumFiles,     \* discovered test files
    Parallelism,  \* --parallelism as given; zero or less means NumCPU
    NumCPU,
    Dep,          \* dependency names
    HelmDeps,     \* those whose source is a Helm chart: a second install errors
    PinnedDeps,   \* those with places of their own: a namespace named, or a manifest
    NsDeps,       \* those that make the namespace they go to: Helm charts and secrets
    Outside,      \* objects the chart under test puts outside the test's namespace
    NsObject,     \* stands for a namespace object itself
    ReleaseObject,  \* stands for what a chart puts into the test's namespace
    Plans,        \* what a test file may contain
    FlagSets,     \* combinations of --fail-fast, --keep-cluster, --pass-on-warning
    Faults,       \* may an external call fail on its own account?
    Interrupts    \* may the user press Ctrl-C?

Files   == 1..NumFiles
Workers == IF Parallelism <= 0 THEN NumCPU ELSE Parallelism

\* What becomes of a test: filtered by --match, skipped by the tier gate or by
\* skip:, a helper test, or a test that goes to the cluster.
Kinds     == {"unmatched", "gated", "skip", "helper", "rendered", "live", "rejects"}
\* good: left alone, the test passes.  For "rejects" (a bare rejected: matcher)
\* that means the API server refuses the chart.
\* outside: what its chart, under its values, puts at cluster scope or into a
\* namespace that the chart names.
TestShape == [kind : Kinds, good : BOOLEAN, outside : SUBSET Outside]
\* loads: the file parses, expands and its chart loads.  gated: the suite
\* declares dependencies or hooks that the backend's tier cannot provide.
PlanShape == [loads : BOOLEAN, gated : BOOLEAN,
              clusterDeps : SUBSET Dep, suiteDeps : SUBSET Dep, testDeps : SUBSET Dep,
              hooks : SUBSET {"beforeAll", "setup"}, tests : Seq(TestShape)]
FlagShape == [failFast : BOOLEAN, keepCluster : BOOLEAN, passOnWarning : BOOLEAN]

ASSUME FilesAssumption == NumFiles \in Nat \ {0}
ASSUME WorkersAssumption == Parallelism \in Int /\ NumCPU \in Nat \ {0}
ASSUME DepAssumption ==
    /\ HelmDeps \subseteq Dep /\ PinnedDeps \subseteq Dep /\ NsDeps \subseteq Dep
    /\ NsObject \notin Dep
ASSUME PlansAssumption == Plans \subseteq PlanShape /\ FlagSets \subseteq FlagShape
ASSUME EnvironmentAssumption == Faults \in BOOLEAN /\ Interrupts \in BOOLEAN

VARIABLES
    plan,       \* [Files -> Plans]: the files' contents
    flags,      \* the command line
    main,       \* the main goroutine
    backend,    \* the cluster backend: "down" or "up"
    runErr,     \* RunApply's error result
    exitCode,   \* the process's exit code, -1 while it lives
    sem,        \* tokens in runParallel's semaphore channel
    cancelled,  \* runCtx.Done() is closed
    stage,      \* [Files -> Stages]: where each file's goroutine is
    defers,     \* [Files -> 0..5]: how many of Cleanup are registered
    cursor,     \* [Files -> Nat]: index of the test being run
    installErr, \* [Files -> BOOLEAN]: the test's helm install error
    results,    \* [Files -> SUBSET Result]: sr.Results, keyed by test
    fileErr,    \* [Files -> BOOLEAN]: runFile's error result
    live,       \* resources in the cluster: <<namespace, name>>
    stranded    \* (auxiliary) those left by an install or removal that failed

mainVars == <<main, backend, runErr, exitCode>>
fileVars == <<stage, defers, cursor, installErr, results, fileErr>>
worldVars == <<live, stranded>>
vars == <<plan, flags, mainVars, sem, cancelled, fileVars, worldVars>>

\* The functions runFile and runTest defer, in the order they register them.
\* (Mutant: the namespace's clean-up registered after the deps'.)
Cleanup_NamespaceFirst == <<"suiteDeps", "afterAll", "testDeps", "namespace", "teardown">>
Cleanup == <<"suiteDeps", "afterAll", "namespace", "testDeps", "teardown">>
FileDefers == 2  \* the first two belong to runFile, the rest to runTest

Stages == {"queued", "gate", "load", "clusterDeps", "suiteDeps", "beforeAll", "loop",
           "namespace", "testDeps", "setup", "install", "assert",
           "testExit", "fileExit", "report", "done"}
InTest == {"namespace", "testDeps", "setup", "install", "assert"}
Result == [test : Nat, status : {"pass", "fail", "skip"}, live : BOOLEAN]

Holding  == {f \in Files : stage[f] \notin {"queued", "done"}}
Test(f)  == plan[f].tests[cursor[f]]
Entry(f, s, l) == [test |-> cursor[f], status |-> s, live |-> l]

\* Namespaces.  allocateNamespace appends six random bytes to the test's name:
\* two tests never share one.
Shared == <<0, 0>>
Ns(f)  == <<f, cursor[f]>>
Contents(ns) == {r \in live : r[1] = ns}
Thing == Dep \cup Outside \cup {NsObject, ReleaseObject} \cup ({NsObject} \X NsDeps)

ClusterPlaces(f) == {Shared} \X plan[f].clusterDeps
SuitePlaces(f)   == {Shared} \X plan[f].suiteDeps
\* narrowTestDepsToNamespace: the test's own namespace unless the dep names one.
TestPlaces(f)    == {<<IF d \in PinnedDeps THEN Shared ELSE Ns(f), d>> : d \in plan[f].testDeps}
Cached           == live \ stranded  \* for cluster-scoped deps: a record was stored

\* What a chart installs, and the namespaces that deps make for themselves (a
\* test's own namespace is there already).  Nothing ever removes the latter.
ReleasePlaces(f) == {<<Ns(f), ReleaseObject>>} \cup ({Shared} \X Test(f).outside)
Spaces(places) ==
    {<<Shared, <<NsObject, d>>>> : d \in {e \in NsDeps : <<Shared, e>> \in places}}
-----------------------------------------------------------------------------
Init ==
    /\ plan \in [Files -> Plans]
    /\ flags \in FlagSets
    /\ main = "idle" /\ backend = "down" /\ runErr = FALSE /\ exitCode = -1
    /\ sem = 0 /\ cancelled = FALSE
    /\ stage      = [f \in Files |-> "queued"]
    /\ defers     = [f \in Files |-> 0]
    /\ cursor     = [f \in Files |-> 0]
    /\ installErr = [f \in Files |-> FALSE]
    /\ results    = [f \in Files |-> {}]
    /\ fileErr    = [f \in Files |-> FALSE]
    /\ live = {} /\ stranded = {}

\* A call made under runCtx: once the context is cancelled it can only fail.
CallSucceeds == ~cancelled
CallFails    == cancelled \/ Faults

GoTo(f, s)   == stage' = [stage EXCEPT ![f] = s]
Record(f, r) == results' = [results EXCEPT ![f] = @ \cup {r}]
Defer(f, n)  == defers' = [defers EXCEPT ![f] = n]

-----------------------------------------------------------------------------
(* RunApply: before and after the parallel part. *)

\* A bad --match or a failing Backend.Start returns at once; the deferred
\* stopBackend is registered only after Start succeeds.
RefuseStart ==
    /\ main = "idle" /\ Faults
    /\ main' = "returned" /\ runErr' = TRUE
    /\ UNCHANGED <<plan, flags, backend, exitCode, sem, cancelled, fileVars, worldVars>>

\* A nil REST config or a clientset error returns through stopBackend.
StartBackend ==
    /\ main = "idle"
    /\ backend' = "up"
    /\ \/ main' = "running" /\ UNCHANGED runErr
       \/ Faults /\ main' = "stopping" /\ runErr' = TRUE
    /\ UNCHANGED <<plan, flags, exitCode, sem, cancelled, fileVars, worldVars>>

\* (Mutant: the pool returns as soon as one file reports an error.)
AllDone_FirstError == \/ \A f \in Files : stage[f] = "done"
                      \/ \E f \in Files : stage[f] = "done" /\ fileErr[f]
AllDone == \A f \in Files : stage[f] = "done"

\* wg.Wait returns, runParallel picks the first error, cancelRun runs.
Join ==
    /\ main = "running" /\ AllDone
    /\ main' = "stopping"
    /\ runErr' = \E f \in Files : fileErr[f]
    /\ cancelled' = TRUE
    /\ UNCHANGED <<plan, flags, backend, exitCode, sem, fileVars, worldVars>>

\* stopBackend: skipped under --keep-cluster, its error only logged.
StopBackend ==
    /\ main = "stopping"
    /\ main' = "returned"
    /\ backend' \in (IF flags.keepCluster THEN {"up"}
                     ELSE {"down"} \cup (IF Faults THEN {"up"} ELSE {}))
    /\ UNCHANGED <<plan, flags, runErr, exitCode, sem, cancelled, fileVars, worldVars>>

Recorded == UNION {results[f] : f \in Files}
Executed == {r \in Recorded : r.status # "skip"}
Warned   == ~\E r \in Executed : r.live  \* nothing ran, or nothing read the cluster

\* (Mutant: an error that comes with results does not count.)
Status_IgnoresError ==
    IF runErr /\ Recorded = {} THEN 2
    ELSE IF \E r \in Recorded : r.status = "fail" THEN 1
    ELSE IF Warned /\ ~flags.passOnWarning THEN 5
    ELSE 0

\* runTestCmd: error, then failures, then warnings.
Status ==
    IF runErr THEN 2
    ELSE IF \E r \in Recorded : r.status = "fail" THEN 1
    ELSE IF Warned /\ ~flags.passOnWarning THEN 5
    ELSE 0

Exit ==
    /\ main = "returned"
    /\ main' = "exited"
    /\ exitCode' = Status
    /\ UNCHANGED <<plan, flags, backend, runErr, sem, cancelled, fileVars, worldVars>>

\* External: SIGINT.  cmd/vigie installs no handler, so the process dies where
\* it stands and no deferred call runs.
Interrupt ==
    /\ Interrupts /\ main \notin {"exited", "killed"}
    /\ main' = "killed"
    /\ UNCHANGED <<plan, flags, backend, runErr, exitCode, sem, cancelled, fileVars, worldVars>>

-----------------------------------------------------------------------------
(* One file's goroutine, from the semaphore to wg.Done. *)

\* (Mutant: the channel has one slot too many.)
TokenFree_OneMore == sem <= Workers
TokenFree == sem < Workers

Acquire(f) ==
    /\ stage[f] = "queued" /\ TokenFree
    /\ sem' = sem + 1
    /\ GoTo(f, "gate")
    /\ UNCHANGED <<cancelled, defers, cursor, installErr, results, fileErr, worldVars>>

\* The closure's select on runCtx.Done().
AfterGate == IF cancelled THEN "report" ELSE "load"

Gate(f) ==
    /\ stage[f] = "gate"
    /\ GoTo(f, AfterGate)
    /\ UNCHANGED <<sem, cancelled, defers, cursor, installErr, results, fileErr, worldVars>>

Matched(f) == {k \in DOMAIN plan[f].tests : plan[f].tests[k].kind # "unmatched"}
\* (Mutant: a skipped suite reports the tests that --match filters out too.)
SkippedSuite_IgnoresMatch(f) ==
    {[test |-> k, status |-> "skip", live |-> FALSE] : k \in DOMAIN plan[f].tests}
SkippedSuite(f) == {[test |-> k, status |-> "skip", live |-> FALSE] : k \in Matched(f)}

\* Parse, expand, load the chart, and the suite-level tier gate.
Load(f) ==
    /\ stage[f] = "load"
    /\ \/ /\ ~plan[f].loads
          /\ fileErr' = [fileErr EXCEPT ![f] = TRUE]
          /\ GoTo(f, "fileExit") /\ UNCHANGED results
       \/ /\ plan[f].loads /\ plan[f].gated
          /\ results' = [results EXCEPT ![f] = SkippedSuite(f)]
          /\ GoTo(f, "fileExit") /\ UNCHANGED fileErr
       \/ /\ plan[f].loads /\ ~plan[f].gated
          /\ GoTo(f, "clusterDeps") /\ UNCHANGED <<results, fileErr>>
    /\ UNCHANGED <<sem, cancelled, defers, cursor, installErr, worldVars>>

\* deps.Install as runFile sees it: everything in place, or an error with any
\* part of what was tried left behind.
Installed(places) ==
    /\ CallSucceeds \/ places = {}
    /\ places \cap ({Shared} \X HelmDeps) \cap live = {}
    /\ live' = live \cup places \cup Spaces(places)
    /\ stranded' = stranded \ places

NotInstalled(places) ==
    /\ places # {}
    /\ CallFails \/ places \cap ({Shared} \X HelmDeps) \cap live # {}
    /\ \E tried \in SUBSET (places \ live) : \E part \in SUBSET tried :
          /\ live' = live \cup part \cup Spaces(tried)
          /\ stranded' = stranded \cup part

\* Under a cancelled context the cache lookup fails too, and a file with
\* cluster-scoped deps goes on to an install that cannot succeed.
MissingClusterDeps(f) == IF cancelled THEN ClusterPlaces(f) ELSE ClusterPlaces(f) \ Cached

InstallClusterDeps(f) ==
    /\ stage[f] = "clusterDeps"
    /\ \/ Installed(MissingClusterDeps(f)) /\ GoTo(f, "suiteDeps") /\ UNCHANGED fileErr
       \/ /\ NotInstalled(MissingClusterDeps(f))
          /\ GoTo(f, "fileExit")
          /\ fileErr' = [fileErr EXCEPT ![f] = TRUE]
    /\ UNCHANGED <<sem, cancelled, defers, cursor, installErr, results>>

InstallSuiteDeps(f) ==
    /\ stage[f] = "suiteDeps"
    /\ \/ Installed(SuitePlaces(f)) /\ GoTo(f, "beforeAll") /\ Defer(f, 1) /\ UNCHANGED fileErr
       \/ /\ NotInstalled(SuitePlaces(f))
          /\ GoTo(f, "fileExit")
          /\ fileErr' = [fileErr EXCEPT ![f] = TRUE]
          /\ UNCHANGED defers
    /\ UNCHANGED <<sem, cancelled, cursor, installErr, results>>

\* A failing beforeAll hook ends the file before afterAll is registered.
BeforeAll(f) ==
    /\ stage[f] = "beforeAll"
    /\ \/ /\ CallSucceeds \/ "beforeAll" \notin plan[f].hooks
          /\ GoTo(f, "loop") /\ Defer(f, 2) /\ UNCHANGED fileErr
       \/ /\ CallFails /\ "beforeAll" \in plan[f].hooks
          /\ GoTo(f, "fileExit")
          /\ fileErr' = [fileErr EXCEPT ![f] = TRUE]
          /\ UNCHANGED defers
    /\ UNCHANGED <<sem, cancelled, cursor, installErr, results, worldVars>>

\* The head of runFile's loop and of runTest: filter, tier gate, skip:, helper.
NextTest(f) ==
    /\ stage[f] = "loop" /\ cursor[f] < Len(plan[f].tests)
    /\ cursor' = [cursor EXCEPT ![f] = @ + 1]
    /\ LET k == cursor[f] + 1
           t == plan[f].tests[k]
           entry(s) == [test |-> k, status |-> s, live |-> FALSE]
       IN  \/ t.kind = "unmatched" /\ UNCHANGED <<stage, results>>
           \/ t.kind \in {"gated", "skip"} /\ Record(f, entry("skip")) /\ UNCHANGED stage
           \/ /\ t.kind = "helper" /\ UNCHANGED stage
              /\ Record(f, entry(IF t.good THEN "pass" ELSE "fail"))
           \/ t.kind \in {"rendered", "live", "rejects"} /\ GoTo(f, "namespace") /\ UNCHANGED results
    /\ UNCHANGED <<sem, cancelled, defers, installErr, fileErr, worldVars>>

EndTests(f) ==
    /\ stage[f] = "loop" /\ cursor[f] = Len(plan[f].tests)
    /\ GoTo(f, "fileExit")
    /\ UNCHANGED <<sem, cancelled, defers, cursor, installErr, results, fileErr, worldVars>>

\* runTest returns early: the verdict is fixed and the defers so far unwind.
FailTest(f) == Record(f, Entry(f, "fail", FALSE)) /\ GoTo(f, "testExit")

\* The API server may have created the namespace although the call failed.
CreateNamespace(f) ==
    /\ stage[f] = "namespace"
    /\ \/ /\ CallSucceeds
          /\ live' = live \cup {<<Ns(f), NsObject>>}
          /\ GoTo(f, "testDeps") /\ Defer(f, 3) /\ UNCHANGED <<results, stranded>>
       \/ /\ CallFails /\ FailTest(f) /\ UNCHANGED defers
          /\ \E part \in SUBSET {<<Ns(f), NsObject>>} :
                live' = live \cup part /\ stranded' = stranded \cup part
    /\ UNCHANGED <<sem, cancelled, cursor, installErr, fileErr>>

InstallTestDeps(f) ==
    /\ stage[f] = "testDeps"
    /\ \/ Installed(TestPlaces(f)) /\ GoTo(f, "setup") /\ Defer(f, 4) /\ UNCHANGED results
       \/ NotInstalled(TestPlaces(f)) /\ FailTest(f) /\ UNCHANGED defers
    /\ UNCHANGED <<sem, cancelled, cursor, installErr, fileErr>>

\* A failing setup hook ends the test before the teardown hooks are registered.
Setup(f) ==
    /\ stage[f] = "setup"
    /\ \/ /\ CallSucceeds \/ "setup" \notin plan[f].hooks
          /\ GoTo(f, "install") /\ Defer(f, 5) /\ UNCHANGED results
       \/ CallFails /\ "setup" \in plan[f].hooks /\ FailTest(f) /\ UNCHANGED defers
    /\ UNCHANGED <<sem, cancelled, cursor, installErr, fileErr, worldVars>>

\* Helm refuses a chart the API server rejects, and one with an object that is
\* there already and belongs to another release.
Refused(f) ==
    \/ Test(f).kind = "rejects" /\ Test(f).good
    \/ ({Shared} \X Test(f).outside) \cap live # {}

\* Render and helm install.  A chart that does not render is not installed and
\* leaves no install error; a failing install leaves any part of the release.
InstallChart(f) ==
    /\ stage[f] = "install"
    /\ \/ /\ ~Test(f).good
          /\ installErr' = [installErr EXCEPT ![f] = FALSE] /\ UNCHANGED live
       \/ /\ CallSucceeds /\ ~Refused(f)
          /\ installErr' = [installErr EXCEPT ![f] = FALSE]
          /\ live' = live \cup ReleasePlaces(f)
       \/ /\ CallFails \/ Refused(f)
          /\ installErr' = [installErr EXCEPT ![f] = TRUE]
          /\ \E part \in SUBSET ReleasePlaces(f) : live' = live \cup part
    /\ GoTo(f, "assert")
    /\ UNCHANGED <<sem, cancelled, defers, cursor, results, fileErr, stranded>>

\* A bare rejected: matcher passes on any install error; every other test
\* fails on one.  Live matchers query the cluster under a context of their own.
Assert(f) ==
    /\ stage[f] = "assert"
    /\ LET pass == IF Test(f).kind = "rejects" THEN {installErr[f]}
                   ELSE {~installErr[f] /\ Test(f).good}
                        \cup (IF Faults /\ Test(f).kind = "live" THEN {FALSE} ELSE {})
       IN  \E p \in pass : Record(f, Entry(f, IF p THEN "pass" ELSE "fail", Test(f).kind # "rendered"))
    /\ GoTo(f, "testExit")
    /\ UNCHANGED <<sem, cancelled, defers, cursor, installErr, fileErr, worldVars>>

\* (Mutant: the removal runs under the run's context instead of a detached one.)
NoRemoval_UnderRunCtx == flags.keepCluster \/ cancelled
NoRemoval == flags.keepCluster

\* A removal under a detached context: it may leave some of the targets, and
\* then only logs that it did.
Remove(targets, leavable) ==
    IF NoRemoval THEN UNCHANGED worldVars
    ELSE \E left \in {{}} \cup (IF Faults THEN leavable ELSE {}) :
            /\ live' = live \ (targets \ left)
            /\ stranded' = (stranded \ targets) \cup left

\* One deferred call, last registered first.
RunDeferred(f) ==
    /\ \/ stage[f] = "testExit" /\ defers[f] > FileDefers
       \/ stage[f] = "fileExit" /\ defers[f] > 0
    /\ Defer(f, defers[f] - 1)
    /\ LET what == Cleanup[defers[f]]
       IN  \/ /\ what = "testDeps"
              /\ Remove(TestPlaces(f), SUBSET (TestPlaces(f) \cap live))
           \/ /\ what = "namespace"
              /\ Remove(Contents(Ns(f)), {Contents(Ns(f))})
           \/ /\ what = "suiteDeps"
              /\ Remove(SuitePlaces(f), SUBSET (SuitePlaces(f) \cap live))
           \/ what \in {"afterAll", "teardown"} /\ UNCHANGED worldVars
    /\ UNCHANGED <<sem, cancelled, stage, cursor, installErr, results, fileErr>>

EndTest(f) ==
    /\ stage[f] = "testExit" /\ defers[f] = FileDefers
    /\ GoTo(f, "loop")
    /\ installErr' = [installErr EXCEPT ![f] = FALSE]
    /\ UNCHANGED <<sem, cancelled, defers, cursor, results, fileErr, worldVars>>

EndFile(f) ==
    /\ stage[f] = "fileExit" /\ defers[f] = 0
    /\ GoTo(f, "report")
    /\ UNCHANGED <<sem, cancelled, defers, cursor, installErr, results, fileErr, worldVars>>

\* (Mutant: a skipped test counts as a failure.)
SuiteHasFailure_CountsSkips(f) == \E r \in results[f] : r.status # "pass"
SuiteHasFailure(f) == \E r \in results[f] : r.status = "fail"

\* (Mutant: the token is released on the successful path only.)
Release_OnSuccess(f) == sem' = IF fileErr[f] \/ SuiteHasFailure(f) THEN sem ELSE sem - 1
Release(f) == sem' = sem - 1

\* Back in the closure: the fail-fast trigger, then the token is given back.
Report(f) ==
    /\ stage[f] = "report"
    /\ cancelled' = (cancelled \/ (flags.failFast /\ ~fileErr[f] /\ SuiteHasFailure(f)))
    /\ Release(f)
    /\ GoTo(f, "done")
    /\ UNCHANGED <<defers, cursor, installErr, results, fileErr, worldVars>>

FileStep(f) ==
    /\ main = "running"
    /\ \/ Acquire(f) \/ Gate(f) \/ Load(f)
       \/ InstallClusterDeps(f) \/ InstallSuiteDeps(f) \/ BeforeAll(f)
       \/ NextTest(f) \/ EndTests(f)
       \/ CreateNamespace(f) \/ InstallTestDeps(f) \/ Setup(f) \/ InstallChart(f) \/ Assert(f)
       \/ RunDeferred(f) \/ EndTest(f) \/ EndFile(f) \/ Report(f)
    /\ UNCHANGED <<plan, flags, mainVars>>

MainStep == RefuseStart \/ StartBackend \/ Join \/ StopBackend \/ Exit

Terminated == main \in {"exited", "killed"} /\ UNCHANGED vars

Next == MainStep \/ (\E f \in Files : FileStep(f)) \/ Interrupt \/ Terminated

Spec == Init /\ [][Next]_vars

\* Waits, hooks and removals have timeouts, and a call without one is taken to be
\* answered or refused in the end, so no goroutine stalls: each file and the main
\* goroutine keep taking the steps they can.
Fairness == WF_vars(MainStep) /\ \A f \in Files : WF_vars(FileStep(f))

FairSpec == Spec /\ Fairness
-----------------------------------------------------------------------------
(* Properties. *)

\* Types of the state.
TypeOK ==
    /\ plan \in [Files -> Plans] /\ flags \in FlagSets
    /\ main \in {"idle", "running", "stopping", "returned", "exited", "killed"}
    /\ backend \in {"down", "up"} /\ runErr \in BOOLEAN /\ exitCode \in {-1, 0, 1, 2, 5}
    /\ sem \in 0..Workers /\ cancelled \in BOOLEAN
    /\ stage \in [Files -> Stages] /\ defers \in [Files -> 0..5]
    /\ cursor \in [Files -> Nat] /\ \A f \in Files : cursor[f] <= Len(plan[f].tests)
    /\ \A f \in Files : stage[f] \in InTest => cursor[f] > 0
    /\ installErr \in [Files -> BOOLEAN] /\ fileErr \in [Files -> BOOLEAN]
    /\ results \in [Files -> SUBSET Result]
    /\ live \subseteq (Nat \X Nat) \X Thing
    /\ stranded \subseteq live

\* runParallel runs no more files at once than --parallelism asks for
\* (parallel.go:23-30), whatever way each file leaves runFile.
WithinParallelism == Cardinality(Holding) <= Workers

\* The backend outlives every piece of work that needs it: while any file is
\* between its semaphore token and its last deferred clean-up, stopBackend has
\* not run (apply.go:97, parallel.go:34).
BackendCoversWork ==
    \A f \in Files : stage[f] \notin {"queued", "done"} => backend = "up" /\ main \in {"running", "killed"}

\* What no clean-up is ever registered for: the chart's objects outside the
\* test's namespace (its release is not uninstalled) and the deps' namespaces.
Unowned == {Shared} \X (Outside \cup ({NsObject} \X NsDeps))

\* When RunApply returns without --keep-cluster, what is left in the cluster has
\* one of three causes (apply.go:253-276, 349-378, 403-471): it is a
\* cluster-scoped dep; nobody removes it; or a call failed over it, which takes a
\* fault, fail-fast or a second install of a Helm dep.  No early return of
\* runFile or runTest is a fourth.
LeftoversHaveCause ==
    main \in {"returned", "exited"} /\ ~flags.keepCluster =>
        \A r \in live : \/ \E f \in Files : r \in ClusterPlaces(f)
                        \/ r \in Unowned
                        \/ r \in stranded /\ (Faults \/ flags.failFast \/ HelmDeps # {})

\* What a file or test counts on while it runs and while its clean-ups run: its
\* deferred functions registered so far say what must still be in place.
Scopes == {"clusterDeps", "suiteDeps", "testDeps"}
Wants(d) == {w \in Files \X Scopes : d \in plan[w[1]][w[2]]}
Contended == {<<Shared, d>> : d \in {e \in Dep :
                 Cardinality(Wants(e)) > 1 /\ \E w \in Wants(e) : w[2] # "clusterDeps"}}
Premises(f) ==
    (IF defers[f] >= 1 THEN ClusterPlaces(f) \cup SuitePlaces(f) ELSE {})
        \cup (IF defers[f] >= 3 THEN {<<Ns(f), NsObject>>} ELSE {})
        \cup (IF defers[f] >= 4 THEN TestPlaces(f) ELSE {})

\* A test never runs, and no clean-up runs, after something it was set up on
\* has been removed: clean-ups unwind in reverse order and no other file's
\* clean-up reaches in (apply.go:266-291, 358-401).  Not claimed of a dep that
\* two scopes or two files install into one place: the first teardown there
\* takes it from the other.
PremisesHold == \A f \in Files : Premises(f) \ Contended \subseteq live


\* Exit code 0 means something: every file loaded, every test that was not
\* skipped is a good one, and unless --pass-on-warning is given some assertion
\* read the cluster (test.go:135-163).  A bare rejected: test may pass on an
\* unrelated error, a fault or an object that another test's chart has left, so
\* it is left out where there can be one.
GreenMeansGood ==
    exitCode = 0 =>
        /\ \A f \in Files : plan[f].loads
        /\ \A f \in Files : \A k \in DOMAIN plan[f].tests :
              LET t == plan[f].tests[k]
              IN  /\ t.kind \in {"helper", "rendered", "live", "rejects"} /\ ~plan[f].gated
                  /\ t.kind = "rejects" => ~Faults /\ t.outside = {}
                  => t.good
        /\ ~flags.passOnWarning =>
              \E f \in Files : \E k \in DOMAIN plan[f].tests : plan[f].tests[k].kind \in {"live", "rejects"}

\* No test is lost: a run that ends with a verdict, and was not cut short by
\* fail-fast, holds a result for every test that --match lets through, and never
\* two that differ, whichever of runTest's early returns it took
\* (apply.go:296-318).
OneResultPerTest ==
    exitCode \in {0, 5} \/ (exitCode = 1 /\ ~flags.failFast) =>
        \A f \in Files : \A k \in DOMAIN plan[f].tests :
            Cardinality({r \in results[f] : r.test = k}) = (IF k \in Matched(f) THEN 1 ELSE 0)

\* In a run with no environment faults, no two installs of a Helm dep in one
\* place and no chart with objects outside its namespace, exit code 1 comes from
\* a test that is bad by itself, never from another file's fail-fast alone
\* (apply.go:181-186).
RedMeansBad ==
    exitCode = 1 /\ ~Faults /\ HelmDeps = {} /\ Outside = {} =>
        \E f \in Files : \E k \in DOMAIN plan[f].tests : ~plan[f].tests[k].good

\* Every run ends with an exit code, with every clean-up done: no file waits
\* for ever for a token or for another file (parallel.go:25-34).
Terminates == <>(main = "exited" /\ \A f \in Files : defers[f] = 0)

\* The file loop implements the worker pool that runParallel promises
\* (parallel.go:5-14): tokens, cancellation and error paths included.
Pool == INSTANCE WorkerPool WITH
    Item   <- Files,
    items  <- Files,
    slots  <- Workers,
    job    <- [f \in Files |-> IF stage[f] = "queued" THEN "waiting"
                              ELSE IF stage[f] = "done" THEN "finished" ELSE "running"],
    joined <- main \notin {"idle", "running"} /\ \A f \in Files : stage[f] = "done"
PoolSpec == Pool!Spec

\* apply.go:61-62: "FailFast cancels queued tests after the first test failure.
\* In-flight tests run to completion and clean up."  A test that fails, in a
\* run with no faults, fails for a reason of its own.
InFlightRunToCompletion ==
    ~Faults => \A f \in Files : \A r \in results[f] :
        r.status = "fail" => ~plan[f].tests[r.test].good

\* apply.go:61-62, the other half of the sentence: "In-flight tests run to
\* completion and clean up."  Without faults, nothing but cluster-scoped deps is
\* left of them, whether the run failed fast or not.
InFlightCleanUp ==
    ~Faults /\ main \in {"returned", "exited"} /\ ~flags.keepCluster =>
        \A r \in live : \E f \in Files : r \in ClusterPlaces(f)
=============================================================================
