---------------------------- MODULE TemplateRun ----------------------------
(***************************************************************************)
(* `vigie test` without a cluster: discovery of the test files, the pool   *)
(* that runs them, and per file parsing, expansion and one test after the  *)
(* other: filter, tier gate, skip:, rendering, schemas, selection of a     *)
(* document and assertions; then the exit code.                            *)
(***************************************************************************)
EXTENDS TierRules, Expansion

CONSTANTS
    Files,
    SuiteChoices,  \* what a test file may contain
    FlagChoices,   \* command lines
    Not, On, Want, \* functions on Assertion: its not:, on: and expected value
    NoTarget,
    NoDoc,
    AnyName,       \* no --match
    Chart(_),      \* the chart: [ok, docs] for given values
    Valid(_)       \* does the document conform to its Kubernetes schema?

ASSUME SuitesAssumption ==
    \A s \in SuiteChoices :
        /\ s.defaults \in Map \cup {NoSet} /\ s.tests \in Seq(Range(s.tests))
        /\ \A t \in Range(s.tests) : TestGiven(t) /\ t.asserts \subseteq Assertion
ASSUME FlagsAssumption == IsFiniteSet(Files) /\ \A o \in FlagChoices : o.parallelism \in Int /\ o.failFast \in BOOLEAN
ASSUME ChartAssumption == \A v \in Map : Chart(v).docs \in Seq(Range(Chart(v).docs))

Active == "template"

VARIABLES
    suite,      \* [Files -> SuiteChoices]
    flags,      \* [failFast, passOnWarning, schema, bad, parallelism, file, match]
    main,       \* the main goroutine
    todo,       \* the files discovered
    stage,      \* [Files -> {"queued", "running", "done"}]
    cancelled,  \* runCtx is done
    expanded,   \* [Files -> Seq]: what expandTests returned, from the next test on
    shared,     \* [Files -> set]: the map of the suite's defaults
    results,    \* [Files -> Seq([test, label, values, status])]
    fileErr,    \* [Files -> BOOLEAN]
    exitCode

runVars  == <<main, todo, exitCode>>
fileVars == <<stage, cancelled, expanded, shared, results, fileErr>>
vars     == <<suite, flags, runVars, fileVars>>

Asserts(s) == UNION {s.tests[i].asserts : i \in DOMAIN s.tests}

\* ParseFile: the schema, then the ceiling.
Parses(s) == s.wellFormed /\ WithinCeiling(Asserts(s), s.tier)

\* SetFor: what inputs.set holds when the request is built.
SetFor(f, t) == CASE t.set = NoSet -> Nothing [] t.set = Shared -> shared[f] [] OTHER -> t.set

\* A parallelism of zero or less is treated as one.  (Mutant: it is not.)
Slots_AsGiven == flags.parallelism
Slots == IF flags.parallelism <= 0 THEN 1 ELSE flags.parallelism
Running == {f \in Files : stage[f] = "running"}
SlotFree == Cardinality(Running) < Slots
-----------------------------------------------------------------------------
(* Selection of documents. *)

\* expr wins over the other fields; one that fails to evaluate selects nothing.
MatchesTarget(doc, target) ==
    IF target.expr # "" THEN doc.kind = target.expr
    ELSE /\ target.kind = "" \/ doc.kind = target.kind
         /\ target.name = "" \/ doc.name = target.name

Selected(target, docs) ==
    IF target = NoTarget THEN docs ELSE Only(docs, {d \in Range(docs) : MatchesTarget(d, target)})

Effective(a, target) == IF On[a] # NoTarget THEN On[a] ELSE target
NeedsNoDoc(a) == Sets[a] \cap {"failedTemplate", "hasDocuments"} # {}

\* selectDoc: candidates, of which the first is taken; none is a failure of its
\* own.  documentIndex counts all documents, from zero.
Candidates(a, target, docs) ==
    LET e == Effective(a, target)
    IN  IF e # NoTarget /\ e.index >= 0
        THEN IF e.index < Len(docs) THEN <<docs[e.index + 1]>> ELSE <<>>
        ELSE Selected(e, docs)

\* (Mutant: no diagnosis for an empty selection.)
Diagnosed_Never(a, target, docs) == FALSE
Diagnosed(a, target, docs) == ~NeedsNoDoc(a) /\ Candidates(a, target, docs) = <<>>
Subject(a, target, docs) ==
    IF NeedsNoDoc(a) \/ Candidates(a, target, docs) = <<>> THEN NoDoc ELSE Candidates(a, target, docs)[1]
-----------------------------------------------------------------------------
(* Assertions. *)

\* What a matcher finds; the live ones refuse to look without a cluster.
Holds(m, want, ctx) ==
    CASE m = "hasDocuments"   -> want = Lit(Len(ctx.docs))
      [] m = "failedTemplate" -> ~ctx.rendered
      [] m = "equal"          -> ctx.doc # NoDoc /\ ctx.doc.size = want
      [] OTHER                -> FALSE

Evaluate(a, ctx) ==
    LET pass[b \in Assertion] ==
          LET m == Claimant(b)
              found == CASE ~Claimed(b) -> FALSE
                         [] m = "allOf" -> \A c \in AllOf[b] : pass[c]
                         [] m = "anyOf" -> \E c \in AnyOf[b] : pass[c]
                         [] OTHER -> Holds(m, Filled(Want[b], ctx.bindings), ctx)
          IN  found # Not[b]
    IN  pass[a]

\* evaluateAssertions.
AssertionsPass(et, render) ==
    LET t == et.test
        ctx(doc) == [docs |-> render.docs, doc |-> doc, rendered |-> render.ok, bindings |-> et.bindings]
        chosen   == Selected(t.target, render.docs)
    IN  IF t.forEach
        THEN chosen # <<>> /\ \A i \in DOMAIN chosen, a \in t.asserts : Evaluate(a, ctx(chosen[i]))
        ELSE \A a \in t.asserts :
               /\ ~Diagnosed(a, t.target, render.docs)
               /\ Evaluate(a, ctx(Subject(a, t.target, render.docs)))

HelperPasses(et) ==
    LET ctx == [docs |-> <<>>, doc |-> [size |-> Lit(1)], rendered |-> TRUE, bindings |-> et.bindings]
    IN  et.test.call = "works" /\ \A a \in et.test.asserts : Evaluate(a, ctx)

SchemaPasses(render) ==
    flags.schema /\ render.ok => \A i \in DOMAIN render.docs : Valid(render.docs[i])

\* runTest, after the gate.
Outcome(f, et) ==
    LET render == Chart(SetFor(f, et))
        passes == IF et.test.call # "" THEN HelperPasses(et)
                  ELSE SchemaPasses(render) /\ AssertionsPass(et, render)
    IN  IF et.test.skip THEN "skip" ELSE IF passes THEN "pass" ELSE "fail"
-----------------------------------------------------------------------------
(* The run. *)

Init ==
    /\ suite \in [Files -> SuiteChoices]
    /\ flags \in FlagChoices
    /\ main = "idle" /\ todo = {} /\ exitCode = -1
    /\ stage    = [f \in Files |-> "queued"]
    /\ cancelled = FALSE
    /\ expanded = [f \in Files |-> <<>>]
    /\ shared   = [f \in Files |-> NoSet]
    /\ results  = [f \in Files |-> <<>>]
    /\ fileErr  = [f \in Files |-> FALSE]

\* discoverTestFiles keeps a file that does not parse, for the runner to report.
Kept == {f \in Files : Parses(suite[f]) => ~UnrunnableAt(suite[f].features, suite[f].tests, Active)}
Named == flags.file \in Files

\* refuseUnrunnableFile: a file the user named, and that parses, must be able to run.
Refuse ==
    /\ main = "idle" /\ Named /\ flags.file \notin Kept
    /\ main' = "exited" /\ exitCode' = 3
    /\ UNCHANGED <<suite, flags, todo, fileVars>>

Discover ==
    /\ main = "idle" /\ (Named => flags.file \in Kept)
    /\ todo' = IF Named THEN {flags.file} ELSE Kept
    /\ main' = IF todo' = {} THEN "joined" ELSE "start"
    /\ UNCHANGED <<suite, flags, exitCode, fileVars>>

\* Run: the schema validators and the regular expression of --match.
StartPool ==
    /\ main = "start"
    /\ IF flags.bad THEN main' = "exited" /\ exitCode' = 2 ELSE main' = "running" /\ UNCHANGED exitCode
    /\ UNCHANGED <<suite, flags, todo, fileVars>>

\* A file whose turn comes after fail-fast is left out, without an error.
CancelFile(f) ==
    /\ main = "running" /\ f \in todo /\ stage[f] = "queued" /\ SlotFree
    /\ cancelled
    /\ stage' = [stage EXCEPT ![f] = "done"]
    /\ UNCHANGED <<suite, flags, runVars, cancelled, expanded, shared, results, fileErr>>

Wanted(test) == {Want[b] : b \in UNION {Below[a] : a \in test.asserts}}
LoadFails(s, order) ==
    ~Parses(s) \/ \E i \in DOMAIN s.tests : ExpandFails(s.tests[i], s.defaults, order, Wanted(s.tests[i]))

\* What loading a file can come to, in the orders in which Go may take the axes.
Loads == [s \in SuiteChoices |->
            {IF LoadFails(s, order) THEN [ok |-> FALSE, tests |-> <<>>, shared |-> NoSet]
             ELSE LET all == ExpandTests(s.tests, s.defaults, order)
                  IN  [ok |-> TRUE, tests |-> all.tests, shared |-> all.shared] :
             order \in Orders(s.tests)}]

\* runFile up to its loop.
LoadFile(f) ==
    /\ main = "running" /\ f \in todo /\ stage[f] = "queued" /\ SlotFree
    /\ ~cancelled
    /\ \E load \in Loads[suite[f]] :
         /\ fileErr'  = [fileErr EXCEPT ![f] = ~load.ok]
         /\ stage'    = [stage EXCEPT ![f] = IF load.ok THEN "running" ELSE "done"]
         /\ expanded' = [expanded EXCEPT ![f] = load.tests]
         /\ shared'   = [shared EXCEPT ![f] = load.shared]
    /\ UNCHANGED <<suite, flags, runVars, cancelled, results>>

\* (Mutant: fail-fast reaches into a running file.)
MoreTests_UntilCancelled(f) == expanded[f] # <<>> /\ ~cancelled
MoreTests(f) == expanded[f] # <<>>

\* One test of runFile's loop.
Report(f, et) ==
    [test |-> et.test, label |-> et.label, values |-> SetFor(f, et),
     status |-> IF MatcherTierSkip(et.test.asserts, Active) THEN "gated" ELSE Outcome(f, et)]

RunTest(f) ==
    /\ stage[f] = "running" /\ MoreTests(f)
    /\ LET et == Head(expanded[f])
       IN  results' = IF flags.match # AnyName /\ DisplayName(et) \notin flags.match THEN results
                      ELSE [results EXCEPT ![f] = Append(@, Report(f, et))]
    /\ expanded' = [expanded EXCEPT ![f] = Tail(@)]
    /\ UNCHANGED <<suite, flags, runVars, stage, cancelled, shared, fileErr>>

FailedIn(f) == \E i \in DOMAIN results[f] : results[f][i].status = "fail"

\* runFile returns to the closure in Run, which may cut off the queue.
EndFile(f) ==
    /\ stage[f] = "running" /\ ~MoreTests(f)
    /\ stage' = [stage EXCEPT ![f] = "done"]
    /\ cancelled' = (cancelled \/ (flags.failFast /\ FailedIn(f)))
    /\ UNCHANGED <<suite, flags, runVars, expanded, shared, results, fileErr>>

Join ==
    /\ main = "running" /\ \A f \in todo : stage[f] = "done"
    /\ main' = "joined"
    /\ UNCHANGED <<suite, flags, todo, exitCode, fileVars>>

Statuses == UNION {{r.status : r \in Range(results[f])} : f \in Files}
\* No files, no tests, or every one of them skipped.
Warned == Statuses \cap {"pass", "fail"} = {}

ExitCode == IF \E f \in Files : fileErr[f] THEN 2
            ELSE IF "fail" \in Statuses THEN 1
            ELSE IF Warned /\ ~flags.passOnWarning THEN 5 ELSE 0

\* runTestCmd after runTests.
Exit ==
    /\ main = "joined"
    /\ main' = "exited" /\ exitCode' = ExitCode
    /\ UNCHANGED <<suite, flags, todo, fileVars>>

Done == main = "exited" /\ UNCHANGED vars

Next ==
    \/ Refuse \/ Discover \/ StartPool \/ Join \/ Exit \/ Done
    \/ \E f \in Files : CancelFile(f) \/ LoadFile(f) \/ RunTest(f) \/ EndFile(f)

Spec == Init /\ [][Next]_vars
FairSpec == Spec /\ WF_vars(Next)
-----------------------------------------------------------------------------
(* Properties.                                                             *)

\* A state of the program.
TypeOK ==
    /\ main \in {"idle", "start", "running", "joined", "exited"}
    /\ todo \subseteq Files /\ cancelled \in BOOLEAN
    /\ stage \in [Files -> {"queued", "running", "done"}] /\ fileErr \in [Files -> BOOLEAN]
    /\ Cardinality(Running) <= Slots
    /\ \A f \in Files : {r.status : r \in Range(results[f])} \subseteq {"pass", "fail", "skip", "gated"}
    /\ exitCode \in {-1, 0, 1, 2, 3, 5}

\* What the tests of a suite are run as, said without order or accumulation.
Product(m) ==
    IF DOMAIN m.axes = {} THEN {}
    ELSE {c \in [DOMAIN m.axes -> UNION {Range(m.axes[k]) : k \in DOMAIN m.axes}] :
            \A k \in DOMAIN m.axes : c[k] \in Range(m.axes[k])}
Within(part, whole) == \A k \in DOMAIN part : k \in DOMAIN whole /\ whole[k] = part[k]
Combinations(m) ==
    LET kept == {c \in Product(m) : ~\E rule \in m.exclude : Within(rule, c)}
    IN  kept \cup {m.include[i] : i \in {j \in DOMAIN m.include :
                     /\ ~\E c \in kept : Within(m.include[j], c)
                     /\ ~\E h \in 1..(j - 1) : Within(m.include[j], m.include[h])}}
Labels(t) == CASE t.kind = "matrix" -> Combinations(t.matrix)
               [] t.kind = "cases"  -> {Sole("name", Text(c.name)) : c \in Range(t.cases)}
               [] OTHER             -> {Nothing}
Due(s) == UNION {{<<t, l>> : l \in Labels(t)} : t \in Range(s.tests)}
Which(et) == <<et.test, et.label>>

\* Nothing is written twice.
Apart(s) ==
    /\ IsInjective(s.tests)
    /\ \A t \in Range(s.tests) :
         /\ \A k \in DOMAIN t.matrix.axes : IsInjective(t.matrix.axes[k])
         /\ IsInjective([i \in DOMAIN t.cases |-> t.cases[i].name])

\* A matrix or a list of cases is run for every combination that it means, whatever
\* order Go takes the axes in: none is forgotten, and none is run twice unless it is
\* written twice (expandTests, matrix.Expand).
ExpansionExact ==
    \A f \in Files : stage[f] = "running" /\ flags.match = AnyName =>
        LET all == [i \in DOMAIN results[f] |-> Which(results[f][i])]
                   \o [i \in DOMAIN expanded[f] |-> Which(expanded[f][i])]
        IN  Range(all) = Due(suite[f]) /\ (Apart(suite[f]) => Len(all) = Cardinality(Due(suite[f])))

\* The values that the documentation promises for a test, one for each case of the name.
Promised(s, t, label) ==
    LET base == IF t.set # NoSet THEN t.set ELSE IF s.defaults # NoSet THEN s.defaults ELSE Nothing
        filled(c) == Interpolate(base, Over(label, c.extra))
    IN  CASE t.kind = "plain"  -> {base}
          [] t.kind = "matrix" -> {Interpolate(base, label)}
          [] t.kind = "cases"  ->
                {IF c.set = NoSet THEN filled(c) ELSE Over(c.set, filled(c)) :
                   c \in {x \in Range(t.cases) : label = Sole("name", Text(x.name))}}

\* What one case sets reaches that case alone, although MergeInputs lets tests
\* share the map of the suite's defaults (MergeInputs, interpolateTest).
ValuesApart ==
    \A f \in Files : \A r \in Range(results[f]) : r.values \in Promised(suite[f], r.test, r.label)

OneKey(a) == Cardinality(Claimants(a)) <= 1
Plain(asserts)  == \A a \in asserts : \A b \in Below[a] : OneKey(b)
Demands(asserts) == {b \in UNION {Below[a] : a \in asserts} : ~Met(b, Active)}

\* Everything the user wrote is accounted for by exit code 0: each file parsed and
\* expanded, each test was run or needs a cluster or is marked, none failed, and
\* at least one ran (discoverTestFiles, Run, runTestCmd).
GreenMeansAll ==
    exitCode = 0 =>
        /\ ~flags.passOnWarning => "pass" \in Statuses
        /\ "fail" \notin Statuses
        /\ \A f \in (IF Named THEN {flags.file} ELSE Files) :
             /\ Parses(suite[f]) /\ ~fileErr[f]
             /\ flags.match = AnyName /\ ~suite[f].features => \A due \in Due(suite[f]) :
                    \/ Demands(due[1].asserts) # {}
                    \/ \E r \in Range(results[f]) : Which(r) = due

\* A test that is withheld is one that needs a cluster, in a suite that declares
\* as much, and the reason names only backends that would run the assertion
\* (matcherTierSkip, clusterHintForTier).
SkipIsHonest ==
    \A f \in Files : \A r \in Range(results[f]) : r.status = "gated" =>
        /\ suite[f].tier # Active
        /\ \A b \in Blamed(r.test.asserts, Active) :
              /\ Hint(b) # {}
              /\ \A k \in Hint(b) : ~Unsupported(b, BackendTier(k)) /\ (OneKey(b) => Met(b, BackendTier(k)))

\* A test that is reported broken does not merely need a cluster (runFile), where
\* every assertion has one matcher key at most, as the schema has it (types.go:174).
FailIsBroken ==
    \A f \in Files : \A r \in Range(results[f]) :
        r.status = "fail" /\ Plain(r.test.asserts) => Demands(r.test.asserts) = {}

\* Fail-fast stops the queue: a file that was begun is reported whole (Run).
FileWhole ==
    main = "joined" /\ flags.match = AnyName => \A f \in todo :
        \/ {Which(r) : r \in Range(results[f])} = Due(suite[f])
        \/ results[f] = <<>> /\ (cancelled \/ fileErr[f])

Indexed(e)     == e # NoTarget /\ e.index >= 0
There(e, docs) == \E d \in Range(docs) : e = NoTarget \/ MatchesTarget(d, e)

\* An assertion on a document passes only if there is one for it, negated or not
\* (selectDoc, evaluateAssertions).  Of a target with an index no more is claimed
\* than that a document has it: what the target says besides is not looked at, see
\* IndexedSubjectMatches.
PassHasSubject ==
    \A f \in Files : \A r \in Range(results[f]) :
        LET t    == r.test
            docs == Chart(r.values).docs
        IN  r.status = "pass" /\ t.call = "" =>
               IF t.forEach THEN There(t.target, docs)
               ELSE \A a \in t.asserts :
                      LET e == Effective(a, t.target)
                      IN  \/ NeedsNoDoc(a)
                          \/ IF Indexed(e) THEN Len(docs) > e.index ELSE There(e, docs)

\* types.go:167, documentIndex: "Zero-based index of the document to select when
\* multiple documents match."  An assertion whose target matches no document does
\* not pass, with an index or without.
IndexedSubjectMatches ==
    \A f \in Files : \A r \in Range(results[f]) :
        r.status = "pass" /\ r.test.call = "" /\ ~r.test.forEach =>
            \A a \in r.test.asserts :
                NeedsNoDoc(a) \/ There(Effective(a, r.test.target), Chart(r.values).docs)

\* Every run ends, --parallelism 0 included (runParallel).
RunEnds == <>(main = "exited")

\* The files go through the worker pool that runParallel promises, with fail-fast,
\* files that do not load and --parallelism 0 included (parallel.go:5-14).
Pool == INSTANCE WorkerPool WITH
    Item   <- Files,
    items  <- IF Named THEN {flags.file} ELSE Kept,
    slots  <- Slots,
    job    <- [f \in IF Named THEN {flags.file} ELSE Kept |->
                 CASE stage[f] = "queued" -> "waiting" [] stage[f] = "done" -> "finished" [] OTHER -> "running"],
    joined <- main \in {"joined", "exited"}
              /\ \A f \in IF Named THEN {flags.file} ELSE Kept : stage[f] = "done"
PoolSpec == Pool!Spec
=============================================================================
