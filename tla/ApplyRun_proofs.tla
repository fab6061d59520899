-------------------------- MODULE ApplyRun_proofs ---------------------------
(***************************************************************************)
(* Proofs about ApplyRun, for every number of files, every parallelism and *)
(* every content of the test files.                                        *)
(***************************************************************************)
EXTENDS ApplyRun, FiniteSetTheorems, SequenceTheorems, TLAPS

\* The semaphore's tokens are exactly the files between Acquire and Report.
TokenInv == sem = Cardinality(Holding)

LEMMA FilesFinite == IsFiniteSet(Files)
  BY FilesAssumption, FS_Interval DEF Files

LEMMA WorkersPositive == Workers \in Nat \ {0}
  BY WorkersAssumption DEF Workers

\* The places that installs and removals name are well typed.
Place == (Nat \X Nat) \X Thing

LEMMA PlacesType ==
  ASSUME TypeOK, NEW f \in Files
  PROVE  /\ plan[f] \in PlanShape /\ f \in Nat /\ cursor[f] \in Nat
         /\ ClusterPlaces(f) \subseteq Place
         /\ SuitePlaces(f) \subseteq Place
         /\ TestPlaces(f) \subseteq Place
         /\ Ns(f) \in Nat \X Nat
         /\ <<Ns(f), NsObject>> \in Place
<1>1. plan[f] \in PlanShape
  BY PlansAssumption DEF TypeOK
<1>2. f \in Nat /\ cursor[f] \in Nat
  BY DEF TypeOK, Files
<1>3. Ns(f) \in Nat \X Nat /\ Shared \in Nat \X Nat
  BY <1>2 DEF Ns, Shared
<1>4. /\ plan[f].clusterDeps \subseteq Dep
      /\ plan[f].suiteDeps \subseteq Dep
      /\ plan[f].testDeps \subseteq Dep
  BY <1>1 DEF PlanShape
<1> QED
  BY <1>1, <1>2, <1>3, <1>4 DEF ClusterPlaces, SuitePlaces, TestPlaces, Place, Thing

\* So are those of a chart, once there is a test at work.
LEMMA ReleaseType ==
  ASSUME TypeOK, NEW f \in Files, stage[f] \in InTest
  PROVE  ReleasePlaces(f) \subseteq Place /\ Test(f).outside \subseteq Outside
<1>1. plan[f].tests \in Seq(TestShape)
  BY PlacesType DEF PlanShape
<1>2. cursor[f] \in 1..Len(plan[f].tests)
  BY <1>1 DEF TypeOK
<1>3. Test(f) \in TestShape
  BY <1>1, <1>2 DEF Test
<1>4. Test(f).outside \subseteq Outside
  BY <1>3 DEF TestShape
<1>5. Ns(f) \in Nat \X Nat /\ Shared \in Nat \X Nat
  BY PlacesType DEF Shared
<1> QED
  BY <1>4, <1>5 DEF ReleasePlaces, Place, Thing

LEMMA InitTypeOK == Init => TypeOK /\ TokenInv
<1> SUFFICES ASSUME Init PROVE TypeOK /\ TokenInv
  OBVIOUS
<1>1. Holding = {}
  BY DEF Init, Holding
<1>2. TokenInv
  BY <1>1, FS_EmptySet DEF Init, TokenInv
<1>3. plan \in [Files -> Plans] /\ flags \in FlagSets
  BY DEF Init
<1>4. \A f \in Files : Len(plan[f].tests) \in Nat /\ cursor[f] = 0
  <2> TAKE f \in Files
  <2>1. plan[f] \in PlanShape
    BY <1>3, PlansAssumption
  <2>2. plan[f].tests \in Seq(TestShape)
    BY <2>1 DEF PlanShape
  <2> QED
    BY <2>2 DEF Init
<1>5. sem \in 0..Workers
  BY WorkersPositive DEF Init
<1>6. /\ stage \in [Files -> Stages] /\ defers \in [Files -> 0..5]
      /\ cursor \in [Files -> Nat] /\ results \in [Files -> SUBSET Result]
      /\ installErr \in [Files -> BOOLEAN] /\ fileErr \in [Files -> BOOLEAN]
  BY DEF Init, Stages
<1>7. \A f \in Files : cursor[f] <= Len(plan[f].tests)
  BY <1>4
<1>8. runErr \in BOOLEAN /\ cancelled \in BOOLEAN /\ exitCode \in {-1, 0, 1, 2, 5}
  BY DEF Init
<1>9. /\ main \in {"idle", "running", "stopping", "returned", "exited", "killed"}
      /\ backend \in {"down", "up"}
      /\ live \subseteq (Nat \X Nat) \X Thing /\ stranded \subseteq live
      /\ \A f \in Files : stage[f] \notin InTest
  BY DEF Init, InTest
<1>10. TypeOK
  BY <1>3, <1>5, <1>6, <1>7, <1>8, <1>9 DEF TypeOK
<1> QED
  BY <1>2, <1>10

\* Moving one file between two stages that hold a token leaves Holding alone.
LEMMA HoldingSame ==
  ASSUME TypeOK, NEW f \in Files, NEW s, GoTo(f, s),
         stage[f] \notin {"queued", "done"}, s \notin {"queued", "done"}
  PROVE  Holding' = Holding
  BY DEF Holding, GoTo, TypeOK

LEMMA HoldingFinite == IsFiniteSet(Holding)
  BY FilesFinite, FS_Subset DEF Holding

\* The namespaces that deps make are typed, and nobody's.
LEMMA SpacesType ==
  ASSUME NEW places
  PROVE  Spaces(places) \subseteq Unowned /\ Spaces(places) \subseteq Place
<1> SUFFICES ASSUME NEW r \in Spaces(places) PROVE r \in Unowned /\ r \in Place
  OBVIOUS
<1>1. PICK d \in NsDeps : r = <<Shared, <<NsObject, d>>>>
  BY DEF Spaces
<1>2. <<NsObject, d>> \in {NsObject} \X NsDeps
  OBVIOUS
<1>3. <<NsObject, d>> \in Thing /\ Shared \in Nat \X Nat
  BY <1>2 DEF Thing, Shared
<1>4. r \in Unowned
  BY <1>1, <1>2 DEF Unowned
<1>5. r \in Place
  BY <1>1, <1>3 DEF Place
<1> QED
  BY <1>4, <1>5

\* Installs and removals keep the resource sets well typed.
WorldOK == live \subseteq Place /\ stranded \subseteq live

LEMMA InstallKeepsWorld ==
  ASSUME WorldOK, NEW places \in SUBSET Place,
         Installed(places) \/ NotInstalled(places)
  PROVE  WorldOK'
<1>1. \A some \in SUBSET places : Spaces(some) \subseteq Place
  BY SpacesType
<1> QED
  BY <1>1 DEF WorldOK, Installed, NotInstalled

LEMMA RemoveKeepsWorld ==
  ASSUME WorldOK, NEW targets, NEW leavable,
         \A left \in leavable : left \subseteq targets \cap live,
         Remove(targets, leavable)
  PROVE  WorldOK'
<1>1. CASE flags.keepCluster
  BY <1>1 DEF Remove, NoRemoval, WorldOK, worldVars
<1>2. CASE ~flags.keepCluster
  <2>1. PICK left \in {{}} \cup leavable :
           /\ live' = live \ (targets \ left)
           /\ stranded' = (stranded \ targets) \cup left
    BY <1>2 DEF Remove, NoRemoval
  <2>2. left \subseteq targets \cap live
    BY <2>1
  <2> QED
    BY <2>1, <2>2 DEF WorldOK
<1> QED
  BY <1>1, <1>2

FileVarsOK ==
    /\ stage \in [Files -> Stages] /\ defers \in [Files -> 0..5]
    /\ cursor \in [Files -> Nat] /\ \A f \in Files : cursor[f] <= Len(plan[f].tests)
    /\ installErr \in [Files -> BOOLEAN] /\ fileErr \in [Files -> BOOLEAN]
    /\ results \in [Files -> SUBSET Result]

LEMMA GoToType ==
  ASSUME FileVarsOK, NEW f \in Files, NEW s \in Stages, GoTo(f, s)
  PROVE  stage' \in [Files -> Stages]
  BY DEF FileVarsOK, GoTo

LEMMA DeferType ==
  ASSUME FileVarsOK, NEW f \in Files, NEW n \in 0..5, Defer(f, n)
  PROVE  defers' \in [Files -> 0..5]
  BY DEF FileVarsOK, Defer

LEMMA RecordType ==
  ASSUME FileVarsOK, NEW f \in Files, NEW r \in Result, Record(f, r)
  PROVE  results' \in [Files -> SUBSET Result]
  BY DEF FileVarsOK, Record

LEMMA EntryType ==
  ASSUME FileVarsOK, NEW f \in Files, NEW s \in {"pass", "fail", "skip"}, NEW l \in BOOLEAN
  PROVE  Entry(f, s, l) \in Result
  BY DEF FileVarsOK, Entry, Result

\* A test that returns early keeps its file well typed.
LEMMA FailTestType ==
  ASSUME FileVarsOK, NEW f \in Files, FailTest(f)
  PROVE  stage' \in [Files -> Stages] /\ results' \in [Files -> SUBSET Result]
<1>1. Entry(f, "fail", FALSE) \in Result
  BY EntryType
<1>2. "testExit" \in Stages
  BY DEF Stages
<1>3. Record(f, Entry(f, "fail", FALSE)) /\ GoTo(f, "testExit")
  BY DEF FailTest
<1> QED
  BY <1>1, <1>2, <1>3, RecordType, GoToType

\* A file's steps keep the goroutines' variables well typed.
LEMMA FileVarsStep ==
  ASSUME TypeOK, NEW f \in Files, FileStep(f)
  PROVE  FileVarsOK'
<1>a. FileVarsOK
  BY DEF TypeOK, FileVarsOK
<1>b. UNCHANGED plan
  BY DEF FileStep
<1>c. /\ "suiteDeps" \in Stages /\ "beforeAll" \in Stages /\ "loop" \in Stages
      /\ "namespace" \in Stages /\ "testDeps" \in Stages /\ "setup" \in Stages
      /\ "install" \in Stages /\ "testExit" \in Stages /\ "fileExit" \in Stages
  BY DEF Stages
<1>d. 0 \in 0..5 /\ 1 \in 0..5 /\ 2 \in 0..5 /\ 3 \in 0..5 /\ 4 \in 0..5 /\ 5 \in 0..5
  OBVIOUS
<1>1. CASE Acquire(f)
  BY <1>a, <1>b, <1>1 DEF Acquire, FileVarsOK, GoTo, Stages
<1>2. CASE Gate(f)
  BY <1>a, <1>b, <1>2 DEF Gate, AfterGate, FileVarsOK, GoTo, Stages
<1>3. CASE Load(f)
  <2>1. SkippedSuite(f) \subseteq Result
    <3>1. plan[f] \in PlanShape
      BY PlacesType
    <3>2. plan[f].tests \in Seq(TestShape)
      BY <3>1 DEF PlanShape
    <3>3. DOMAIN plan[f].tests \subseteq Nat
      <4>1. DOMAIN plan[f].tests = 1..Len(plan[f].tests) /\ Len(plan[f].tests) \in Nat
        BY <3>2, LenProperties
      <4> QED
        BY <4>1
    <3>4. Matched(f) \subseteq Nat
      BY <3>3 DEF Matched
    <3>5. \A k \in Nat : [test |-> k, status |-> "skip", live |-> FALSE] \in Result
      BY DEF Result
    <3> QED
      BY <3>4, <3>5 DEF SkippedSuite
  <2> QED
    BY <1>a, <1>b, <1>3, <2>1 DEF Load, FileVarsOK, GoTo, Stages
<1>4. CASE InstallClusterDeps(f)
  BY <1>a, <1>b, <1>4 DEF InstallClusterDeps, FileVarsOK, GoTo, Stages
<1>5. CASE InstallSuiteDeps(f)
  <2>1. stage' \in [Files -> Stages] /\ defers' \in [Files -> 0..5]
    BY <1>a, <1>c, <1>d, <1>5, GoToType, DeferType DEF InstallSuiteDeps, FileVarsOK
  <2> QED
    BY <1>a, <1>b, <1>5, <2>1 DEF InstallSuiteDeps, FileVarsOK
<1>6. CASE BeforeAll(f)
  <2>1. stage' \in [Files -> Stages] /\ defers' \in [Files -> 0..5]
    BY <1>a, <1>c, <1>d, <1>6, GoToType, DeferType DEF BeforeAll, FileVarsOK
  <2> QED
    BY <1>a, <1>b, <1>6, <2>1 DEF BeforeAll, FileVarsOK
<1>7. CASE NextTest(f)
  <2>1. stage' \in [Files -> Stages]
    BY <1>a, <1>c, <1>7, GoToType DEF NextTest, FileVarsOK
  <2>2. cursor[f] + 1 \in Nat /\ cursor[f] + 1 <= Len(plan[f].tests)
    <3>1. plan[f].tests \in Seq(TestShape)
      BY PlacesType DEF PlanShape
    <3>2. Len(plan[f].tests) \in Nat /\ cursor[f] \in Nat
      BY <1>a, <3>1 DEF FileVarsOK
    <3> QED
      BY <1>7, <3>2 DEF NextTest
  <2>3. \A s \in {"pass", "fail", "skip"} :
           [test |-> cursor[f] + 1, status |-> s, live |-> FALSE] \in Result
    BY <2>2 DEF Result
  <2>4. results' \in [Files -> SUBSET Result]
    BY <1>a, <1>7, <2>3, RecordType DEF NextTest, FileVarsOK
  <2>5. cursor' \in [Files -> Nat] /\ \A g \in Files : cursor'[g] <= Len(plan'[g].tests)
    BY <1>a, <1>b, <1>7, <2>2 DEF NextTest, FileVarsOK
  <2> QED
    BY <1>a, <1>7, <2>1, <2>4, <2>5 DEF NextTest, FileVarsOK
<1>8. CASE EndTests(f)
  BY <1>a, <1>b, <1>8 DEF EndTests, FileVarsOK, GoTo, Stages
<1>9. CASE CreateNamespace(f)
  <2>1. stage' \in [Files -> Stages] /\ defers' \in [Files -> 0..5]
        /\ results' \in [Files -> SUBSET Result]
    BY <1>a, <1>c, <1>d, <1>9, GoToType, DeferType, FailTestType DEF CreateNamespace, FileVarsOK
  <2> QED
    BY <1>a, <1>b, <1>9, <2>1 DEF CreateNamespace, FileVarsOK
<1>10. CASE InstallTestDeps(f)
  <2>1. stage' \in [Files -> Stages] /\ defers' \in [Files -> 0..5]
        /\ results' \in [Files -> SUBSET Result]
    BY <1>a, <1>c, <1>d, <1>10, GoToType, DeferType, FailTestType DEF InstallTestDeps, FileVarsOK
  <2> QED
    BY <1>a, <1>b, <1>10, <2>1 DEF InstallTestDeps, FileVarsOK
<1>11. CASE Setup(f)
  <2>1. stage' \in [Files -> Stages] /\ defers' \in [Files -> 0..5]
        /\ results' \in [Files -> SUBSET Result]
    BY <1>a, <1>c, <1>d, <1>11, GoToType, DeferType, FailTestType DEF Setup, FileVarsOK
  <2> QED
    BY <1>a, <1>b, <1>11, <2>1 DEF Setup, FileVarsOK
<1>12. CASE InstallChart(f)
  BY <1>a, <1>b, <1>12 DEF InstallChart, FileVarsOK, GoTo, Stages
<1>13. CASE Assert(f)
  <2>1. PICK s \in {"pass", "fail"}, l \in BOOLEAN : Record(f, Entry(f, s, l))
    BY <1>13 DEF Assert
  <2>2. results' \in [Files -> SUBSET Result]
    BY <1>a, <2>1, EntryType, RecordType
  <2>3. stage' \in [Files -> Stages]
    BY <1>a, <1>c, <1>13, GoToType DEF Assert
  <2> QED
    BY <1>a, <1>b, <1>13, <2>2, <2>3 DEF Assert, FileVarsOK
<1>14. CASE RunDeferred(f)
  <2>1. defers[f] - 1 \in 0..5
    BY <1>a, <1>14 DEF RunDeferred, FileVarsOK, FileDefers
  <2>2. defers' \in [Files -> 0..5]
    BY <1>a, <1>14, <2>1, DeferType DEF RunDeferred
  <2> QED
    BY <1>a, <1>b, <1>14, <2>2 DEF RunDeferred, FileVarsOK
<1>15. CASE EndTest(f)
  BY <1>a, <1>b, <1>15 DEF EndTest, FileVarsOK, GoTo, Stages
<1>16. CASE EndFile(f)
  BY <1>a, <1>b, <1>16 DEF EndFile, FileVarsOK, GoTo, Stages
<1>17. CASE Report(f)
  BY <1>a, <1>b, <1>17 DEF Report, FileVarsOK, GoTo, Stages
<1> QED
  BY <1>1, <1>2, <1>3, <1>4, <1>5, <1>6, <1>7, <1>8, <1>9, <1>10, <1>11, <1>12,
     <1>13, <1>14, <1>15, <1>16, <1>17 DEF FileStep

\* A file's steps keep the cluster's resources well typed.
LEMMA WorldStep ==
  ASSUME TypeOK, NEW f \in Files, FileStep(f)
  PROVE  WorldOK'
<1>a. WorldOK
  BY DEF TypeOK, WorldOK, Place
<1>b. /\ ClusterPlaces(f) \subseteq Place /\ SuitePlaces(f) \subseteq Place
      /\ TestPlaces(f) \subseteq Place /\ <<Ns(f), NsObject>> \in Place
  BY PlacesType
<1>1. CASE UNCHANGED worldVars
  BY <1>a, <1>1 DEF WorldOK, worldVars
<1>2. CASE InstallClusterDeps(f)
  <2>1. MissingClusterDeps(f) \in SUBSET Place
    BY <1>b DEF MissingClusterDeps
  <2>2. Installed(MissingClusterDeps(f)) \/ NotInstalled(MissingClusterDeps(f))
    BY <1>2 DEF InstallClusterDeps
  <2> QED
    BY <1>a, <2>1, <2>2, InstallKeepsWorld
<1>3. CASE InstallSuiteDeps(f)
  <2>1. Installed(SuitePlaces(f)) \/ NotInstalled(SuitePlaces(f))
    BY <1>3 DEF InstallSuiteDeps
  <2> QED
    BY <1>a, <1>b, <2>1, InstallKeepsWorld
<1>4. CASE InstallTestDeps(f)
  <2>1. Installed(TestPlaces(f)) \/ NotInstalled(TestPlaces(f))
    BY <1>4 DEF InstallTestDeps
  <2> QED
    BY <1>a, <1>b, <2>1, InstallKeepsWorld
<1>5. CASE CreateNamespace(f)
  BY <1>a, <1>b, <1>5 DEF CreateNamespace, WorldOK
<1>6. CASE RunDeferred(f)
  <2>1. \/ Remove(TestPlaces(f), SUBSET (TestPlaces(f) \cap live))
        \/ Remove(Contents(Ns(f)), {Contents(Ns(f))})
        \/ Remove(SuitePlaces(f), SUBSET (SuitePlaces(f) \cap live))
        \/ UNCHANGED worldVars
    BY <1>6 DEF RunDeferred
  <2>2. Contents(Ns(f)) \subseteq live
    BY DEF Contents
  <2> QED
    BY <1>a, <1>1, <2>1, <2>2, RemoveKeepsWorld
<1>7. CASE InstallChart(f)
  <2>1. ReleasePlaces(f) \subseteq Place
    BY <1>7, ReleaseType DEF InstallChart, InTest
  <2>2. live \subseteq live' /\ live' \subseteq live \cup ReleasePlaces(f) /\ stranded' = stranded
    BY <1>7 DEF InstallChart
  <2> QED
    BY <1>a, <2>1, <2>2 DEF WorldOK
<1>8. \/ InstallClusterDeps(f) \/ InstallSuiteDeps(f) \/ InstallTestDeps(f)
      \/ CreateNamespace(f) \/ InstallChart(f) \/ RunDeferred(f) \/ UNCHANGED worldVars
  BY DEF FileStep, Acquire, Gate, Load, BeforeAll, NextTest, EndTests, Setup,
         Assert, EndTest, EndFile, Report, worldVars
<1> QED
  BY <1>1, <1>2, <1>3, <1>4, <1>5, <1>6, <1>7, <1>8

\* A test is at work only after the cursor has reached it.
LEMMA CursorStep ==
  ASSUME TypeOK, NEW f \in Files, FileStep(f)
  PROVE  (\A g \in Files : stage[g] \in InTest => cursor[g] > 0)'
<1>0. \A g \in Files : stage[g] \in InTest => cursor[g] > 0
  BY DEF TypeOK
<1> SUFFICES ASSUME NEW g \in Files, stage'[g] \in InTest
             PROVE  cursor'[g] > 0
  OBVIOUS
<1>1. CASE g # f
  <2>1. stage'[g] = stage[g] /\ cursor'[g] = cursor[g]
    BY <1>1 DEF FileStep, Acquire, Gate, Load, InstallClusterDeps, InstallSuiteDeps, BeforeAll,
           NextTest, EndTests, CreateNamespace, InstallTestDeps, Setup, InstallChart,
           Assert, FailTest, RunDeferred, EndTest, EndFile, Report, GoTo, TypeOK
  <2> QED
    BY <1>0, <2>1
<1>2. CASE g = f /\ NextTest(f)
  <2>1. cursor'[f] = cursor[f] + 1 /\ cursor[f] \in Nat
    BY <1>2 DEF NextTest, TypeOK
  <2> QED
    BY <1>2, <2>1
<1>3. CASE g = f /\ ~NextTest(f)
  <2>1. cursor'[f] = cursor[f]
    BY <1>3 DEF FileStep, Acquire, Gate, Load, InstallClusterDeps, InstallSuiteDeps, BeforeAll,
           EndTests, CreateNamespace, InstallTestDeps, Setup, InstallChart,
           Assert, RunDeferred, EndTest, EndFile, Report
  <2>2. stage'[f] \in InTest => stage[f] \in InTest
    BY <1>3 DEF FileStep, Acquire, Gate, AfterGate, Load, InstallClusterDeps, InstallSuiteDeps,
           BeforeAll, EndTests, CreateNamespace, InstallTestDeps, Setup, InstallChart,
           Assert, FailTest, RunDeferred, EndTest, EndFile, Report, GoTo, InTest, TypeOK
  <2> QED
    BY <1>0, <1>3, <2>1, <2>2
<1> QED
  BY <1>1, <1>2, <1>3

\* A file's steps keep the tokens equal to the files that hold one.
LEMMA TokenStep ==
  ASSUME TypeOK, TokenInv, NEW f \in Files, FileStep(f)
  PROVE  TokenInv' /\ sem' \in 0..Workers /\ cancelled' \in BOOLEAN
<1>1. CASE Acquire(f)
  <2>1. stage[f] = "queued" /\ stage' = [stage EXCEPT ![f] = "gate"]
    BY <1>1 DEF Acquire, GoTo
  <2>2. f \notin Holding /\ Holding' = Holding \cup {f}
    BY <2>1 DEF Holding, TypeOK
  <2>3. Cardinality(Holding') = Cardinality(Holding) + 1
    BY <2>2, HoldingFinite, FS_AddElement
  <2> QED
    BY <1>1, <2>3, WorkersPositive DEF Acquire, TokenFree, TokenInv, TypeOK
<1>2. CASE Report(f)
  <2>1. stage[f] = "report" /\ stage' = [stage EXCEPT ![f] = "done"]
    BY <1>2 DEF Report, GoTo
  <2>2. f \in Holding /\ Holding' = Holding \ {f}
    BY <2>1 DEF Holding, TypeOK
  <2>3. Cardinality(Holding') = Cardinality(Holding) - 1
    BY <2>2, HoldingFinite, FS_RemoveElement
  <2>4. Cardinality(Holding') \in Nat
    BY <2>2, HoldingFinite, FS_RemoveElement, FS_CardinalityType
  <2>5. sem' = sem - 1 /\ sem' \in 0..Workers
    BY <1>2, <2>3, <2>4, WorkersPositive DEF Report, Release, TokenInv, TypeOK
  <2>6. cancelled' \in BOOLEAN
    BY <1>2 DEF Report
  <2> QED
    BY <2>3, <2>5, <2>6 DEF TokenInv
<1>3. CASE ~Acquire(f) /\ ~Report(f)
  <2>1. UNCHANGED <<sem, cancelled>>
    BY <1>3 DEF FileStep, Gate, AfterGate, Load, InstallClusterDeps, InstallSuiteDeps, BeforeAll,
                NextTest, EndTests, CreateNamespace, InstallTestDeps, Setup, InstallChart,
                Assert, RunDeferred, EndTest, EndFile
  <2>2. CASE UNCHANGED stage
    BY <2>1, <2>2 DEF TokenInv, Holding, TypeOK
  <2>3. CASE \E s \in Stages \ {"queued", "done"} : GoTo(f, s)
    <3>1. stage[f] \notin {"queued", "done"}
      BY <1>3 DEF FileStep, Gate, AfterGate, Load, InstallClusterDeps, InstallSuiteDeps, BeforeAll,
                  NextTest, EndTests, CreateNamespace, InstallTestDeps, Setup, InstallChart,
                  Assert, RunDeferred, EndTest, EndFile
    <3> QED
      BY <2>1, <2>3, <3>1, HoldingSame DEF TokenInv, TypeOK
  <2>4. UNCHANGED stage \/ \E s \in Stages \ {"queued", "done"} : GoTo(f, s)
    <3>1. UNCHANGED stage \/ \E s \in {"load", "clusterDeps", "suiteDeps", "beforeAll", "loop",
             "namespace", "testDeps", "setup", "install", "assert", "testExit", "fileExit",
             "report"} : GoTo(f, s)
      BY <1>3 DEF FileStep, Gate, AfterGate, Load, InstallClusterDeps, InstallSuiteDeps, BeforeAll,
                  NextTest, EndTests, CreateNamespace, InstallTestDeps, Setup, InstallChart,
                  Assert, FailTest, RunDeferred, EndTest, EndFile
    <3> QED
      BY <3>1 DEF Stages
  <2> QED
    BY <2>2, <2>3, <2>4
<1> QED
  BY <1>1, <1>2, <1>3

\* The types are preserved by every step.
LEMMA TypeOKStep ==
  ASSUME TypeOK, TokenInv, [Next]_vars
  PROVE  TypeOK' /\ TokenInv'
<1>1. CASE UNCHANGED vars
  BY <1>1 DEF vars, mainVars, fileVars, worldVars, TypeOK, TokenInv, Holding
<1>2. CASE MainStep
  <2>1. UNCHANGED <<plan, flags, sem, fileVars, worldVars>>
    BY <1>2 DEF MainStep, RefuseStart, StartBackend, Join, StopBackend, Exit
  <2>2. cancelled' \in BOOLEAN
    BY <1>2 DEF MainStep, RefuseStart, StartBackend, Join, StopBackend, Exit, TypeOK
  <2>3. main' \in {"idle", "running", "stopping", "returned", "exited", "killed"}
    BY <1>2 DEF MainStep, RefuseStart, StartBackend, Join, StopBackend, Exit, TypeOK
  <2>4. backend' \in {"down", "up"}
    BY <1>2 DEF MainStep, RefuseStart, StartBackend, Join, StopBackend, Exit, TypeOK
  <2>5. runErr' \in BOOLEAN
    BY <1>2 DEF MainStep, RefuseStart, StartBackend, Join, StopBackend, Exit, TypeOK
  <2>6. exitCode' \in {-1, 0, 1, 2, 5}
    BY <1>2 DEF MainStep, RefuseStart, StartBackend, Join, StopBackend, Exit, Status, TypeOK
  <2> QED
    BY <2>1, <2>2, <2>3, <2>4, <2>5, <2>6 DEF TypeOK, TokenInv, Holding, fileVars, worldVars
<1>3. ASSUME NEW f \in Files, FileStep(f)
      PROVE  TypeOK' /\ TokenInv'
  <2>1. FileVarsOK' /\ WorldOK' /\ (\A g \in Files : stage[g] \in InTest => cursor[g] > 0)'
    BY <1>3, FileVarsStep, WorldStep, CursorStep
  <2>2. TokenInv' /\ sem' \in 0..Workers /\ cancelled' \in BOOLEAN
    BY <1>3, TokenStep
  <2>3. UNCHANGED <<plan, flags, main, backend, runErr, exitCode>>
    BY <1>3 DEF FileStep, mainVars
  <2> QED
    BY <2>1, <2>2, <2>3 DEF TypeOK, FileVarsOK, WorldOK, Place
<1>4. CASE Interrupt
  BY <1>4 DEF Interrupt, TypeOK, TokenInv, Holding, fileVars, worldVars
<1>5. CASE Terminated
  BY <1>1, <1>5 DEF Terminated
<1> QED
  BY <1>1, <1>2, <1>3, <1>4, <1>5 DEF Next

\* The state of the apply tier keeps its types.
THEOREM TypeCorrect == Spec => []TypeOK
<1>1. Init => TypeOK /\ TokenInv
  BY InitTypeOK
<1>2. TypeOK /\ TokenInv /\ [Next]_vars => TypeOK' /\ TokenInv'
  BY TypeOKStep
<1> QED
  BY <1>1, <1>2, PTL DEF Spec

\* runParallel's bound: no more files at work than --parallelism (or the
\* number of CPUs when it is zero or less), on every path out of runFile.
THEOREM ParallelismBounded == Spec => []WithinParallelism
<1>1. Init => TypeOK /\ TokenInv
  BY InitTypeOK
<1>2. TypeOK /\ TokenInv /\ [Next]_vars => TypeOK' /\ TokenInv'
  BY TypeOKStep
<1>3. TypeOK /\ TokenInv => WithinParallelism
  BY WorkersPositive DEF TypeOK, TokenInv, WithinParallelism
<1> QED
  BY <1>1, <1>2, <1>3, PTL DEF Spec

-----------------------------------------------------------------------------
(* The backend covers the work. *)

\* Which deferred functions are registered is determined by where the file is.
StageDefers(f) ==
    /\ stage[f] \in {"queued", "gate", "load", "clusterDeps", "suiteDeps", "report", "done"}
          => defers[f] = 0
    /\ stage[f] = "beforeAll" => defers[f] = 1
    /\ stage[f] \in {"loop", "namespace"} => defers[f] = 2
    /\ stage[f] = "testDeps" => defers[f] = 3
    /\ stage[f] = "setup" => defers[f] = 4
    /\ stage[f] \in {"install", "assert"} => defers[f] = 5
    /\ stage[f] = "testExit" => defers[f] >= 2
    /\ stage[f] = "fileExit" => defers[f] <= 2

DefersInv == \A f \in Files : StageDefers(f)

\* Files are at work only while the main goroutine waits for them.
MainInv ==
    /\ main \notin {"running", "killed"} => \A f \in Files : stage[f] \in {"queued", "done"}
    /\ main = "running" => backend = "up"
    /\ \A f \in Files : stage[f] \notin {"queued", "done"} => backend = "up"

LEMMA DefersStep ==
  ASSUME TypeOK, DefersInv, [Next]_vars
  PROVE  DefersInv'
<1>1. CASE UNCHANGED <<stage, defers>>
  BY <1>1 DEF DefersInv, StageDefers
<1>2. ASSUME NEW f \in Files, FileStep(f)
      PROVE  DefersInv'
  <2>0. StageDefers(f) /\ defers[f] \in 0..5 /\ FileDefers = 2
    BY DEF DefersInv, TypeOK, FileDefers
  <2>1. \A g \in Files \ {f} : stage'[g] = stage[g] /\ defers'[g] = defers[g]
    BY <1>2 DEF FileStep, Acquire, Gate, Load, InstallClusterDeps, InstallSuiteDeps, BeforeAll,
                NextTest, EndTests, CreateNamespace, InstallTestDeps, Setup, InstallChart,
                Assert, FailTest, RunDeferred, EndTest, EndFile, Report, GoTo, Defer, TypeOK
  <2>2. StageDefers(f)'
    <3>1. CASE Acquire(f) \/ Gate(f) \/ Load(f) \/ InstallClusterDeps(f) \/ Report(f) \/ EndFile(f)
      BY <2>0, <3>1 DEF Acquire, Gate, AfterGate, Load, InstallClusterDeps, Report, EndFile, StageDefers, GoTo, Defer, TypeOK
    <3>2. CASE InstallSuiteDeps(f)
      BY <2>0, <3>2 DEF InstallSuiteDeps, StageDefers, GoTo, Defer, TypeOK
    <3>3. CASE BeforeAll(f)
      BY <2>0, <3>3 DEF BeforeAll, StageDefers, GoTo, Defer, TypeOK
    <3>4. CASE NextTest(f) \/ EndTests(f)
      BY <2>0, <3>4 DEF NextTest, EndTests, StageDefers, GoTo, Defer, TypeOK
    <3>5. CASE CreateNamespace(f)
      <4>1. \/ GoTo(f, "testDeps") /\ Defer(f, 3)
            \/ GoTo(f, "testExit") /\ UNCHANGED defers /\ defers[f] = 2
        BY <3>5, <2>0 DEF CreateNamespace, FailTest, StageDefers
      <4>2. (stage'[f] = "testDeps" /\ defers'[f] = 3) \/ (stage'[f] = "testExit" /\ defers'[f] = 2)
        BY <4>1 DEF GoTo, Defer, TypeOK
      <4> QED
        BY <4>2 DEF StageDefers
    <3>6. CASE InstallTestDeps(f)
      <4>1. \/ GoTo(f, "setup") /\ Defer(f, 4)
            \/ GoTo(f, "testExit") /\ UNCHANGED defers /\ defers[f] = 3
        BY <3>6, <2>0 DEF InstallTestDeps, FailTest, StageDefers
      <4>2. (stage'[f] = "setup" /\ defers'[f] = 4) \/ (stage'[f] = "testExit" /\ defers'[f] = 3)
        BY <4>1 DEF GoTo, Defer, TypeOK
      <4> QED
        BY <4>2 DEF StageDefers
    <3>7. CASE Setup(f)
      <4>1. \/ GoTo(f, "install") /\ Defer(f, 5)
            \/ GoTo(f, "testExit") /\ UNCHANGED defers /\ defers[f] = 4
        BY <3>7, <2>0 DEF Setup, FailTest, StageDefers
      <4>2. (stage'[f] = "install" /\ defers'[f] = 5) \/ (stage'[f] = "testExit" /\ defers'[f] = 4)
        BY <4>1 DEF GoTo, Defer, TypeOK
      <4> QED
        BY <4>2 DEF StageDefers
    <3>8. CASE InstallChart(f) \/ Assert(f)
      <4>1. /\ GoTo(f, "assert") \/ GoTo(f, "testExit")
            /\ UNCHANGED defers /\ defers[f] = 5
        BY <2>0, <3>8 DEF InstallChart, Assert, StageDefers
      <4>2. stage'[f] \in {"assert", "testExit"} /\ defers'[f] = 5
        BY <4>1 DEF GoTo, TypeOK
      <4> QED
        BY <4>2 DEF StageDefers
    <3>9. CASE RunDeferred(f)
      BY <2>0, <3>9 DEF RunDeferred, StageDefers, GoTo, Defer, TypeOK
    <3>10. CASE EndTest(f)
      BY <2>0, <3>10 DEF EndTest, StageDefers, GoTo, Defer, TypeOK
    <3> QED
      BY <1>2, <3>1, <3>2, <3>3, <3>4, <3>5, <3>6, <3>7, <3>8, <3>9, <3>10 DEF FileStep
  <2> QED
    BY <2>1, <2>2 DEF DefersInv, StageDefers
<1> QED
  BY <1>1, <1>2 DEF Next, MainStep, RefuseStart, StartBackend, Join, StopBackend, Exit,
                    Interrupt, Terminated, vars, fileVars

LEMMA MainInvStep ==
  ASSUME TypeOK, MainInv, [Next]_vars
  PROVE  MainInv'
<1>1. CASE UNCHANGED <<main, backend, stage>>
  BY <1>1 DEF MainInv
<1>2. CASE MainStep \/ Interrupt
  BY <1>2 DEF MainStep, RefuseStart, StartBackend, Join, AllDone, StopBackend, Exit, Interrupt,
              MainInv, fileVars, TypeOK
<1>3. CASE \E f \in Files : FileStep(f)
  BY <1>3 DEF FileStep, mainVars, MainInv
<1> QED
  BY <1>1, <1>2, <1>3 DEF Next, Terminated, vars, fileVars, mainVars

\* stopBackend never runs under a file that is still at work, on any path.
THEOREM BackendOutlivesWork == Spec => []BackendCoversWork
<1>1. Init => TypeOK /\ TokenInv
  BY InitTypeOK
<1>2. Init => MainInv
  BY DEF Init, MainInv
<1>3. TypeOK /\ TokenInv /\ [Next]_vars => TypeOK' /\ TokenInv'
  BY TypeOKStep
<1>4. TypeOK /\ MainInv /\ [Next]_vars => MainInv'
  BY MainInvStep
<1>5. TypeOK /\ MainInv => BackendCoversWork
  BY DEF MainInv, BackendCoversWork, TypeOK
<1> QED
  BY <1>1, <1>2, <1>3, <1>4, <1>5, PTL DEF Spec

-----------------------------------------------------------------------------
(* What is left in the cluster has a cause. *)

\* File f has a clean-up registered that removes r, or r may stay.
Owed(f, r) ==
    \/ r \in ClusterPlaces(f)
    \/ defers[f] >= 1 /\ r \in SuitePlaces(f)
    \/ defers[f] >= 3 /\ r[1] = Ns(f)
    \/ defers[f] >= 4 /\ r \in TestPlaces(f)

\* What somebody is still to remove, and what a call has failed over.
Tracked == live \ (stranded \cup Unowned)

Accounted == ~flags.keepCluster => \A r \in Tracked : \E f \in Files : Owed(f, r)

Causes   == Faults \/ flags.failFast \/ HelmDeps # {}
CauseInv == /\ main \in {"idle", "running"} /\ cancelled => flags.failFast
            /\ stranded # {} => Causes

\* A clean-up stays owed while its file registers more, and while a file with
\* no namespace moves to its next test.
LEMMA OwedStays ==
  ASSUME TypeOK, NEW f \in Files, NEW r, Owed(f, r), UNCHANGED plan,
         defers'[f] >= defers[f], defers'[f] \in 0..5,
         cursor'[f] = cursor[f] \/ defers[f] < 3
  PROVE  Owed(f, r)'
<1>1. defers[f] \in 0..5
  BY DEF TypeOK
<1>2. ClusterPlaces(f)' = ClusterPlaces(f) /\ SuitePlaces(f)' = SuitePlaces(f)
  BY DEF ClusterPlaces, SuitePlaces, Shared
<1>3. CASE cursor'[f] = cursor[f]
  <2>1. Ns(f)' = Ns(f) /\ TestPlaces(f)' = TestPlaces(f)
    BY <1>3 DEF Ns, TestPlaces, Shared
  <2> QED
    BY <1>1, <1>2, <2>1 DEF Owed
<1>4. CASE defers[f] < 3
  BY <1>1, <1>2, <1>4 DEF Owed
<1> QED
  BY <1>3, <1>4

\* Removing the places of one clean-up leaves only what other clean-ups owe.
LEMMA RemoveAccounts ==
  ASSUME NEW targets, NEW leavable, ~flags.keepCluster, Remove(targets, leavable)
  PROVE  Tracked' \subseteq Tracked \ targets
  BY DEF Remove, NoRemoval, Tracked, Unowned, Shared

\* An install adds what it was asked for, and a failed one nothing that is not
\* stranded; the namespaces that deps make are nobody's.
LEMMA InstallAccounts ==
  ASSUME NEW places
  PROVE  /\ Installed(places) => Tracked' \subseteq Tracked \cup places
         /\ NotInstalled(places) => Tracked' \subseteq Tracked
<1>1. \A some : Spaces(some) \subseteq Unowned
  BY SpacesType
<1>2. Unowned' = Unowned
  BY DEF Unowned, Shared
<1> QED
  BY <1>1, <1>2 DEF Installed, NotInstalled, Tracked

\* What a file's step does to the clean-ups the other files owe: nothing.
LEMMA OthersOwed ==
  ASSUME TypeOK, NEW f \in Files, FileStep(f), NEW g \in Files \ {f}, NEW r, Owed(g, r)
  PROVE  Owed(g, r)'
<1>1. defers'[g] = defers[g] /\ cursor'[g] = cursor[g] /\ UNCHANGED plan
  BY DEF FileStep, Acquire, Gate, Load, InstallClusterDeps, InstallSuiteDeps, BeforeAll,
         NextTest, EndTests, CreateNamespace, InstallTestDeps, Setup, InstallChart,
         Assert, RunDeferred, EndTest, EndFile, Report, Defer, TypeOK
<1> QED
  <2>1. defers'[g] = defers[g] /\ cursor'[g] = cursor[g] /\ g \in Files
    BY <1>1
  <2>2. defers[g] \in 0..5
    BY DEF TypeOK
  <2> QED
    BY <1>1, <2>1, <2>2, OwedStays

\* It is enough that what is new, or what f alone owed, is owed by f afterwards.
LEMMA AccountedBy ==
  ASSUME TypeOK, Accounted, NEW f \in Files, FileStep(f), ~flags.keepCluster,
         \A r \in Tracked' :
            \/ Owed(f, r)'
            \/ r \in Tracked /\ ~Owed(f, r)
  PROVE  Accounted'
<1> SUFFICES ASSUME NEW r \in Tracked'
             PROVE  \E g \in Files : Owed(g, r)'
  BY DEF Accounted
<1>1. CASE Owed(f, r)'
  BY <1>1
<1>2. CASE r \in Tracked /\ ~Owed(f, r)
  <2>1. PICK g \in Files : Owed(g, r)
    BY <1>2 DEF Accounted
  <2>2. g # f
    BY <1>2, <2>1
  <2> QED
    BY <2>1, <2>2, OthersOwed
<1> QED
  BY <1>1, <1>2

LEMMA TrackedSame == UNCHANGED worldVars => Tracked' = Tracked
  BY DEF Tracked, Unowned, Shared, worldVars

LEMMA AccountedFileStep ==
  ASSUME TypeOK, DefersInv, Accounted, NEW f \in Files, FileStep(f)
  PROVE  Accounted'
<1>0. UNCHANGED <<plan, flags>> /\ FileVarsOK'
  BY FileVarsStep DEF FileStep
<1>1. CASE flags.keepCluster
  BY <1>0, <1>1 DEF Accounted
<1> SUFFICES ASSUME ~flags.keepCluster
             PROVE  Accounted'
  BY <1>1
<1>2. defers[f] \in 0..5 /\ defers'[f] \in 0..5 /\ StageDefers(f)
  BY <1>0 DEF TypeOK, FileVarsOK, DefersInv
<1>3. ClusterPlaces(f)' = ClusterPlaces(f) /\ SuitePlaces(f)' = SuitePlaces(f)
  BY <1>0 DEF ClusterPlaces, SuitePlaces, Shared
<1>4. cursor'[f] = cursor[f] => Ns(f)' = Ns(f) /\ TestPlaces(f)' = TestPlaces(f)
  BY <1>0 DEF Ns, TestPlaces, Shared
\* Steps that touch no resource and take no clean-up away.
<1>5. CASE /\ UNCHANGED worldVars /\ defers'[f] >= defers[f]
           /\ cursor'[f] = cursor[f] \/ defers[f] < 3
  <2>1. \A r : Owed(f, r) => Owed(f, r)'
    BY <1>0, <1>2, <1>5, OwedStays
  <2> QED
    BY <1>5, <2>1, AccountedBy, TrackedSame
\* Steps that put resources in place and register their clean-up.
<1>6. CASE InstallClusterDeps(f)
  <2>1. Tracked' \subseteq Tracked \cup ClusterPlaces(f)
    BY <1>6, InstallAccounts DEF InstallClusterDeps, MissingClusterDeps
  <2>2. \A r : Owed(f, r) => Owed(f, r)'
    <3>1. UNCHANGED <<defers, cursor>>
      BY <1>6 DEF InstallClusterDeps
    <3> QED
      BY <1>0, <1>2, <3>1, OwedStays
  <2> QED
    BY <1>3, <2>1, <2>2, AccountedBy DEF Owed
<1>7. CASE InstallSuiteDeps(f)
  <2>1. CASE Installed(SuitePlaces(f)) /\ Defer(f, 1)
    <3>1. Tracked' \subseteq Tracked \cup SuitePlaces(f)
      BY <2>1, InstallAccounts
    <3>2. defers'[f] = 1 /\ defers[f] = 0 /\ UNCHANGED cursor
      BY <1>2, <1>7, <2>1 DEF InstallSuiteDeps, StageDefers, Defer, TypeOK
    <3>3. \A r : Owed(f, r) => Owed(f, r)'
      BY <1>0, <3>2, OwedStays
    <3> QED
      BY <1>3, <3>1, <3>2, <3>3, AccountedBy DEF Owed
  <2>2. CASE NotInstalled(SuitePlaces(f)) /\ UNCHANGED defers
    <3>1. Tracked' \subseteq Tracked
      BY <2>2, InstallAccounts
    <3>2. \A r : Owed(f, r) => Owed(f, r)'
      BY <1>0, <1>2, <1>7, <2>2, OwedStays DEF InstallSuiteDeps
    <3> QED
      BY <3>1, <3>2, AccountedBy
  <2> QED
    BY <1>7, <2>1, <2>2 DEF InstallSuiteDeps
<1>8. CASE CreateNamespace(f)
  <2>1. UNCHANGED cursor /\ defers[f] = 2
    BY <1>2, <1>8 DEF CreateNamespace, StageDefers
  <2>2. CASE live' = live \cup {<<Ns(f), NsObject>>} /\ Defer(f, 3) /\ UNCHANGED stranded
    <3>1. defers'[f] = 3
      BY <2>2 DEF Defer, TypeOK
    <3>2. \A r : Owed(f, r) => Owed(f, r)'
      BY <1>0, <2>1, <3>1, OwedStays
    <3>3. \A r : r = <<Ns(f), NsObject>> => Owed(f, r)'
      BY <1>4, <2>1, <3>1 DEF Owed
    <3>4. ASSUME NEW r \in Tracked'
          PROVE  Owed(f, r)' \/ (r \in Tracked /\ ~Owed(f, r))
      <4>1. r = <<Ns(f), NsObject>> \/ r \in Tracked
        BY <2>2 DEF Tracked, Unowned, Shared
      <4> QED
        BY <3>2, <3>3, <4>1
    <3> QED
      BY <3>4, AccountedBy
  <2>3. CASE UNCHANGED defers /\ Tracked' \subseteq Tracked
    <3>1. \A r : Owed(f, r) => Owed(f, r)'
      BY <1>0, <1>2, <2>1, <2>3, OwedStays
    <3> QED
      BY <2>3, <3>1, AccountedBy
  <2>4. ASSUME NEW part, live' = live \cup part, stranded' = stranded \cup part
        PROVE  Tracked' \subseteq Tracked
    BY <2>4 DEF Tracked, Unowned, Shared
  <2> QED
    BY <1>8, <2>2, <2>3, <2>4 DEF CreateNamespace
<1>9. CASE InstallTestDeps(f)
  <2>1. UNCHANGED cursor /\ defers[f] = 3
    BY <1>2, <1>9 DEF InstallTestDeps, StageDefers
  <2>2. CASE Installed(TestPlaces(f)) /\ Defer(f, 4)
    <3>1. Tracked' \subseteq Tracked \cup TestPlaces(f)
      BY <2>2, InstallAccounts
    <3>2. defers'[f] = 4
      BY <2>2 DEF Defer, TypeOK
    <3>3. \A r : Owed(f, r) => Owed(f, r)'
      BY <1>0, <2>1, <3>2, OwedStays
    <3> QED
      BY <1>4, <2>1, <3>1, <3>2, <3>3, AccountedBy DEF Owed
  <2>3. CASE NotInstalled(TestPlaces(f)) /\ UNCHANGED defers
    <3>1. Tracked' \subseteq Tracked
      BY <2>3, InstallAccounts
    <3>2. \A r : Owed(f, r) => Owed(f, r)'
      BY <1>0, <1>2, <2>1, <2>3, OwedStays
    <3> QED
      BY <3>1, <3>2, AccountedBy
  <2> QED
    BY <1>9, <2>2, <2>3 DEF InstallTestDeps
\* A deferred call: what it was there to remove is gone or stranded.
<1>10. CASE RunDeferred(f)
  <2>1. UNCHANGED cursor /\ defers'[f] = defers[f] - 1 /\ defers[f] \in 1..5
    BY <1>2, <1>10 DEF RunDeferred, Defer, FileDefers, TypeOK
  <2>2. /\ Cleanup[1] = "suiteDeps" /\ Cleanup[2] = "afterAll" /\ Cleanup[3] = "namespace"
        /\ Cleanup[4] = "testDeps" /\ Cleanup[5] = "teardown"
    BY DEF Cleanup
  <2>3. CASE defers[f] \in {2, 5}
    <3>1. UNCHANGED worldVars
      BY <1>10, <2>2, <2>3 DEF RunDeferred
    <3>2. \A r : Owed(f, r) => Owed(f, r)'
      BY <1>3, <1>4, <2>1, <2>3 DEF Owed
    <3> QED
      BY <3>1, <3>2, AccountedBy, TrackedSame
  <2>4. CASE defers[f] = 1
    <3>1. Tracked' \subseteq Tracked \ SuitePlaces(f)
      BY <1>10, <2>2, <2>4, RemoveAccounts DEF RunDeferred
    <3>2. \A r : Owed(f, r) => r \in SuitePlaces(f) \/ Owed(f, r)'
      BY <1>3, <2>1, <2>4 DEF Owed
    <3> QED
      BY <3>1, <3>2, AccountedBy
  <2>5. CASE defers[f] = 3
    <3>1. Tracked' \subseteq Tracked \ Contents(Ns(f))
      BY <1>10, <2>2, <2>5, RemoveAccounts DEF RunDeferred
    <3>2. \A r \in Tracked : Owed(f, r) => r \in Contents(Ns(f)) \/ Owed(f, r)'
      BY <1>3, <2>1, <2>5 DEF Owed, Contents, Tracked
    <3> QED
      BY <3>1, <3>2, AccountedBy
  <2>6. CASE defers[f] = 4
    <3>1. Tracked' \subseteq Tracked \ TestPlaces(f)
      BY <1>10, <2>2, <2>6, RemoveAccounts DEF RunDeferred
    <3>2. \A r : Owed(f, r) => r \in TestPlaces(f) \/ Owed(f, r)'
      <4>1. defers[f] = 4 /\ defers'[f] = 3 /\ Ns(f)' = Ns(f)
        BY <1>4, <2>1, <2>6
      <4> QED
        BY <1>3, <4>1 DEF Owed
    <3> QED
      BY <3>1, <3>2, AccountedBy
  <2> QED
    BY <2>1, <2>3, <2>4, <2>5, <2>6
<1>11. CASE NextTest(f)
  <2>1. defers[f] = 2 /\ UNCHANGED <<worldVars, defers>>
    BY <1>2, <1>11 DEF NextTest, StageDefers
  <2> QED
    BY <1>5, <2>1
<1>12. CASE BeforeAll(f) \/ Setup(f)
  <2>1. UNCHANGED <<worldVars, cursor>> /\ defers'[f] >= defers[f]
    BY <1>2, <1>12 DEF BeforeAll, Setup, StageDefers, Defer, TypeOK
  <2> QED
    BY <1>5, <2>1
\* The release goes with the test's namespace; what it has outside is nobody's.
<1>13. CASE InstallChart(f)
  <2>1. UNCHANGED <<cursor, defers>> /\ defers[f] = 5
    BY <1>2, <1>13 DEF InstallChart, StageDefers
  <2>2. Test(f).outside \subseteq Outside
    BY <1>13, ReleaseType DEF InstallChart, InTest
  <2>3. ReleasePlaces(f) \subseteq {<<Ns(f), ReleaseObject>>} \cup Unowned
    BY <2>2 DEF ReleasePlaces, Unowned
  <2>4. live' \subseteq live \cup ReleasePlaces(f) /\ stranded' = stranded
    BY <1>13 DEF InstallChart
  <2>5. Tracked' \subseteq Tracked \cup {<<Ns(f), ReleaseObject>>}
    BY <2>3, <2>4 DEF Tracked, Unowned, Shared
  <2>6. Owed(f, <<Ns(f), ReleaseObject>>)' /\ \A r : Owed(f, r) => Owed(f, r)'
    BY <1>0, <1>2, <1>4, <2>1, OwedStays DEF Owed
  <2>7. ASSUME NEW r \in Tracked' PROVE Owed(f, r)' \/ (r \in Tracked /\ ~Owed(f, r))
    <3>1. CASE r = <<Ns(f), ReleaseObject>>
      <4>1. Ns(f)' = Ns(f) /\ defers'[f] >= 3
        BY <1>4, <2>1
      <4> QED
        BY <3>1, <4>1 DEF Owed
    <3>2. CASE r \in Tracked
      BY <2>6, <3>2
    <3> QED
      BY <2>5, <3>1, <3>2
  <2> QED
    BY <2>7, AccountedBy
<1>14. CASE \/ Acquire(f) \/ Gate(f) \/ Load(f) \/ EndTests(f)
            \/ Assert(f) \/ EndTest(f) \/ EndFile(f) \/ Report(f)
  <2>1. UNCHANGED <<worldVars, cursor, defers>>
    BY <1>14 DEF Acquire, Gate, Load, EndTests, Assert, EndTest, EndFile, Report
  <2> QED
    BY <1>2, <1>5, <2>1
<1> QED
  BY <1>6, <1>7, <1>8, <1>9, <1>10, <1>11, <1>12, <1>13, <1>14 DEF FileStep

LEMMA AccountedStep ==
  ASSUME TypeOK, DefersInv, Accounted, [Next]_vars
  PROVE  Accounted'
<1>1. CASE UNCHANGED <<plan, flags, cursor, defers, live, stranded>>
  BY <1>1 DEF Accounted, Tracked, Unowned, Owed, ClusterPlaces, SuitePlaces, TestPlaces, Ns
<1>2. CASE \E f \in Files : FileStep(f)
  BY <1>2, AccountedFileStep
<1> QED
  BY <1>1, <1>2 DEF Next, MainStep, RefuseStart, StartBackend, Join, StopBackend, Exit,
                    Interrupt, Terminated, vars, fileVars, worldVars

\* Something is stranded only where a call fails: by a fault, in a run that
\* fail-fast has cancelled, or over a Helm release that is there already.
LEMMA CauseStep ==
  ASSUME TypeOK, CauseInv, [Next]_vars
  PROVE  CauseInv'
<1>1. CASE UNCHANGED vars
  BY <1>1 DEF CauseInv, Causes, vars, mainVars, worldVars
<1>2. CASE MainStep \/ Interrupt
  <2>1. UNCHANGED <<flags, stranded>>
    BY <1>2 DEF MainStep, RefuseStart, StartBackend, Join, StopBackend, Exit, Interrupt, worldVars
  <2>2. main' \in {"idle", "running"} => main = "idle" /\ cancelled' = cancelled
    BY <1>2 DEF MainStep, RefuseStart, StartBackend, Join, StopBackend, Exit, Interrupt
  <2> QED
    BY <2>1, <2>2 DEF CauseInv, Causes
<1>3. ASSUME NEW f \in Files, FileStep(f) PROVE CauseInv'
  <2>1. main = "running" /\ main' = main /\ UNCHANGED flags
    BY <1>3 DEF FileStep, mainVars
  <2>2. CallFails => Causes
    BY <2>1 DEF CauseInv, CallFails, Causes
  <2>3. \A places : NotInstalled(places) => Causes
    BY <2>2 DEF NotInstalled, Causes
  <2>4. cancelled' => flags.failFast
    <3>1. CASE Report(f)
      BY <2>1, <3>1 DEF Report, CauseInv
    <3>2. CASE ~Report(f)
      BY <1>3, <2>1, <3>2 DEF FileStep, Acquire, Gate, Load, InstallClusterDeps, InstallSuiteDeps,
           BeforeAll, NextTest, EndTests, CreateNamespace, InstallTestDeps, Setup, InstallChart,
           Assert, RunDeferred, EndTest, EndFile, CauseInv
    <3> QED
      BY <3>1, <3>2
  <2>5. stranded' # {} => Causes
    <3>1. CASE InstallClusterDeps(f) \/ InstallSuiteDeps(f) \/ InstallTestDeps(f)
      <4>1. Causes \/ stranded' \subseteq stranded
        BY <2>3, <3>1 DEF InstallClusterDeps, InstallSuiteDeps, InstallTestDeps, Installed
      <4> QED
        BY <4>1 DEF CauseInv
    <3>2. CASE CreateNamespace(f)
      BY <2>2, <3>2 DEF CreateNamespace, CauseInv
    <3>3. CASE RunDeferred(f)
      <4>1. \A targets, leavable : Remove(targets, leavable) => Causes \/ stranded' \subseteq stranded
        BY DEF Remove, NoRemoval, Causes, worldVars
      <4>2. Causes \/ stranded' \subseteq stranded
        BY <3>3, <4>1 DEF RunDeferred, worldVars
      <4> QED
        BY <4>2 DEF CauseInv
    <3>4. CASE UNCHANGED stranded
      BY <3>4 DEF CauseInv
    <3> QED
      BY <1>3, <3>1, <3>2, <3>3, <3>4 DEF FileStep, Acquire, Gate, Load, BeforeAll, NextTest,
         EndTests, Setup, InstallChart, Assert, EndTest, EndFile, Report, worldVars
  <2> QED
    BY <2>1, <2>4, <2>5 DEF CauseInv, Causes
<1> QED
  BY <1>1, <1>2, <1>3 DEF Next, Terminated

\* On every path out of every test and every file: what a finished run leaves in
\* the cluster, its own chart's objects included, is a cluster-scoped dep, or a
\* thing nobody removes, or a call failed over it, and then for a cause
\* (apply.go:253-276, 349-378, 403-471).
THEOREM CleanedUp == Spec => []LeftoversHaveCause
<1> DEFINE IInv == TypeOK /\ TokenInv /\ MainInv /\ DefersInv /\ Accounted /\ CauseInv
<1>1. Init => IInv
  BY InitTypeOK DEF Init, MainInv, DefersInv, StageDefers, Accounted, Tracked, CauseInv
<1>2. IInv /\ [Next]_vars => IInv'
  BY TypeOKStep, MainInvStep, DefersStep, AccountedStep, CauseStep
<1>3. IInv => LeftoversHaveCause
  <2> SUFFICES ASSUME IInv, main \in {"returned", "exited"}, ~flags.keepCluster,
                      NEW r \in live, r \notin Unowned, ~(r \in stranded /\ Causes)
               PROVE  \E f \in Files : r \in ClusterPlaces(f)
    BY DEF LeftoversHaveCause, Causes
  <2>1. r \in Tracked
    BY DEF CauseInv, Tracked
  <2>2. PICK f \in Files : Owed(f, r)
    BY <2>1 DEF Accounted
  <2>3. defers[f] = 0
    BY DEF MainInv, DefersInv, StageDefers
  <2> QED
    BY <2>2, <2>3 DEF Owed
<1> QED
  BY <1>1, <1>2, <1>3, PTL DEF Spec

-----------------------------------------------------------------------------
(* The file loop implements the worker pool. *)

\* The pool's state as the files' stages show it.
Job == [f \in Files |-> IF stage[f] = "queued" THEN "waiting"
                       ELSE IF stage[f] = "done" THEN "finished" ELSE "running"]
Joined == main \notin {"idle", "running"} /\ \A f \in Files : stage[f] = "done"

LEMMA PoolRunning == Pool!Running = Holding
  BY DEF Pool!Running, Holding

LEMMA PoolCardinality == \A S : Pool!Cardinality(S) = Cardinality(S)
  BY DEF Pool!Cardinality, Cardinality

\* A stage change that keeps a file between token and wg.Done is a stutter.
LEMMA PoolStutter ==
  ASSUME UNCHANGED Job, UNCHANGED Joined
  PROVE  UNCHANGED Pool!vars
  BY DEF Pool!vars, Pool!call, Job, Joined

LEMMA PoolFileStep ==
  ASSUME TypeOK, TokenInv, NEW f \in Files, FileStep(f)
  PROVE  [Pool!Next]_(Pool!vars)
<1>0. main = "running" /\ UNCHANGED main
  BY DEF FileStep, mainVars
<1>1. ~Joined /\ UNCHANGED Joined
  BY <1>0 DEF Joined
<1>2. CASE Acquire(f)
  <2>1. stage[f] = "queued" /\ stage' = [stage EXCEPT ![f] = "gate"]
    BY <1>2 DEF Acquire, GoTo
  <2>2. Job[f] = "waiting" /\ Job' = [Job EXCEPT ![f] = "running"]
    BY <2>1 DEF Job, TypeOK
  <2>3. Pool!Cardinality(Pool!Running) < Workers
    BY <1>2, PoolRunning, PoolCardinality DEF Acquire, TokenFree, TokenInv
  <2>4. Pool!Begin(f)
    BY <1>1, <2>2, <2>3 DEF Pool!Begin, Pool!SlotFree, Pool!call, Job, Joined
  <2> QED
    BY <2>4 DEF Pool!Next
<1>3. CASE Report(f)
  <2>1. stage[f] = "report" /\ stage' = [stage EXCEPT ![f] = "done"]
    BY <1>3 DEF Report, GoTo
  <2>2. Job[f] = "running" /\ Job' = [Job EXCEPT ![f] = "finished"]
    BY <2>1 DEF Job, TypeOK
  <2>3. Pool!Finish(f)
    BY <1>1, <2>2 DEF Pool!Finish, Pool!call, Job, Joined
  <2> QED
    BY <2>3 DEF Pool!Next
<1>4. CASE ~Acquire(f) /\ ~Report(f)
  <2>1. stage[f] \notin {"queued", "done"}
    BY <1>4 DEF FileStep, Gate, AfterGate, Load, InstallClusterDeps, InstallSuiteDeps, BeforeAll,
                NextTest, EndTests, CreateNamespace, InstallTestDeps, Setup, InstallChart,
                Assert, RunDeferred, EndTest, EndFile
  <2>2. UNCHANGED stage \/ \E s \in {"load", "clusterDeps", "suiteDeps", "beforeAll", "loop",
           "namespace", "testDeps", "setup", "install", "assert", "testExit", "fileExit",
           "report"} : GoTo(f, s)
    BY <1>4 DEF FileStep, Gate, AfterGate, Load, InstallClusterDeps, InstallSuiteDeps, BeforeAll,
                NextTest, EndTests, CreateNamespace, InstallTestDeps, Setup, InstallChart,
                Assert, FailTest, RunDeferred, EndTest, EndFile
  <2>3. CASE UNCHANGED stage
    BY <1>1, <2>3, PoolStutter DEF Job
  <2>4. CASE \E s \in {"load", "clusterDeps", "suiteDeps", "beforeAll", "loop",
           "namespace", "testDeps", "setup", "install", "assert", "testExit", "fileExit",
           "report"} : GoTo(f, s)
    <3>1. PICK s : s \notin {"queued", "done"} /\ stage' = [stage EXCEPT ![f] = s]
      BY <2>4 DEF GoTo
    <3>2. \A g \in Files : (stage'[g] = "queued" <=> stage[g] = "queued")
                          /\ (stage'[g] = "done" <=> stage[g] = "done")
      BY <2>1, <3>1 DEF TypeOK
    <3>3. UNCHANGED Job
      BY <3>2 DEF Job
    <3> QED
      BY <1>1, <3>3, PoolStutter
  <2> QED
    BY <2>2, <2>3, <2>4
<1> QED
  BY <1>2, <1>3, <1>4

LEMMA PoolMainStep ==
  ASSUME TypeOK, MainInv, MainStep \/ Interrupt
  PROVE  [Pool!Next]_(Pool!vars)
<1>1. UNCHANGED stage
  BY DEF MainStep, RefuseStart, StartBackend, Join, StopBackend, Exit, Interrupt, fileVars
<1>2. UNCHANGED Job
  BY <1>1 DEF Job
<1>3. CASE Joined' = Joined
  BY <1>2, <1>3, PoolStutter
<1>4. CASE Joined' # Joined
  <2>1. main \in {"idle", "running"} \/ main' \notin {"idle", "running"}
    BY DEF MainStep, RefuseStart, StartBackend, Join, StopBackend, Exit, Interrupt
  <2>2. ~Joined /\ Joined' /\ \A f \in Files : stage[f] = "done"
    BY <1>1, <1>4, <2>1 DEF Joined
  <2>3. Pool!Join
    BY <1>2, <2>2 DEF Pool!Join, Pool!call, Job, Joined
  <2> QED
    BY <2>3 DEF Pool!Next
<1> QED
  BY <1>3, <1>4

\* The apply tier's loop over the files, with its fail-fast and error exits, is
\* an implementation of the pool that runParallel promises.
THEOREM ImplementsPool == Spec => PoolSpec
<1> DEFINE IInv == TypeOK /\ TokenInv /\ MainInv
<1>1. Init => IInv /\ Pool!Init
  <2>1. Init => Pool!Init
    BY WorkersAssumption DEF Workers, Init, Pool!Init
  <2> QED
    BY <2>1, InitTypeOK DEF Init, MainInv
<1>2. IInv /\ [Next]_vars => IInv'
  BY TypeOKStep, MainInvStep
<1>3. IInv /\ [Next]_vars => [Pool!Next]_(Pool!vars)
  <2> SUFFICES ASSUME IInv, [Next]_vars
               PROVE  [Pool!Next]_(Pool!vars)
    OBVIOUS
  <2>1. CASE UNCHANGED <<main, stage>>
    BY <2>1, PoolStutter DEF Job, Joined
  <2>2. CASE MainStep \/ Interrupt
    BY <2>2, PoolMainStep
  <2>3. CASE \E f \in Files : FileStep(f)
    BY <2>3, PoolFileStep
  <2> QED
    BY <2>1, <2>2, <2>3 DEF Next, Terminated, vars, mainVars, fileVars
<1> QED
  BY <1>1, <1>2, <1>3, PTL DEF Spec, PoolSpec, Pool!Spec

-----------------------------------------------------------------------------
(* What the results and the exit code say of the tests. *)

\* The results of test k of file f.
EntriesOf(f, k) == {r \in results[f] : r.test = k}

\* The first n tests have a result each if --match lets them through; there is no other.
Counted(f, n) ==
    /\ \A k \in Matched(f) : k <= n => \E r : EntriesOf(f, k) = {r}
    /\ \A k \in Nat : k > n \/ k \notin Matched(f) => EntriesOf(f, k) = {}

\* Fail-fast had a reason.
Cut == flags.failFast /\ \E g \in Files : SuiteHasFailure(g)

\* Some test is bad by itself.
SomeBad == \E f \in Files : \E k \in DOMAIN plan[f].tests : ~plan[f].tests[k].good
Calm    == ~Faults /\ HelmDeps = {} /\ Outside = {}

Early    == {"queued", "gate", "load", "clusterDeps", "suiteDeps", "beforeAll"}
Leaving  == {"fileExit", "report", "done"}
OnClusterKinds == {"rendered", "live", "rejects"}

\* Where a file is tells which of its tests have a result.
Progress(f) ==
    /\ stage[f] \in Early => results[f] = {} /\ cursor[f] = 0
    /\ stage[f] \in {"clusterDeps", "suiteDeps", "beforeAll", "loop", "testExit"} \cup InTest
          => plan[f].loads /\ ~plan[f].gated
    /\ stage[f] \in {"loop", "testExit"} => Counted(f, cursor[f])
    /\ stage[f] \in InTest => /\ cursor[f] \in DOMAIN plan[f].tests /\ Test(f).kind \in OnClusterKinds
                              /\ Counted(f, cursor[f] - 1)
    /\ stage[f] \in Leaving => \/ fileErr[f] \/ Cut
                               \/ plan[f].loads /\ Counted(f, Len(plan[f].tests))

\* What a result says of its test.
Sound(f, r) ==
    LET t == plan[f].tests[r.test]
    IN  /\ r.test \in DOMAIN plan[f].tests
        /\ r.status = "pass" /\ (t.kind = "rejects" => ~Faults /\ t.outside = {}) => t.good \/ Cut
        /\ r.status = "skip" => t.kind \in {"gated", "skip"} \/ plan[f].gated
        /\ r.status = "fail" /\ Calm => SomeBad
        /\ r.live => t.kind \in {"live", "rejects"}

\* What the install says of the test at work.
InstallSays(f) ==
    stage[f] = "assert" =>
        /\ /\ installErr[f] /\ Test(f).kind = "rejects" /\ ~Faults /\ Test(f).outside = {}
           => Test(f).good \/ Cut
        /\ ~installErr[f] /\ Test(f).kind = "rejects" => ~Test(f).good
        /\ installErr[f] /\ Calm /\ Test(f).kind # "rejects" => SomeBad

FileVerdict(f) == Progress(f) /\ (\A r \in results[f] : Sound(f, r)) /\ InstallSays(f)

\* Only fail-fast cancels a run that is still on, and only after a failure.
CancelInv == main \in {"idle", "running"} /\ cancelled => Cut /\ (Calm => SomeBad)

VerdictInv == CancelInv /\ \A f \in Files : FileVerdict(f)

\* The error and the exit code of a run that is over.
OutcomeInv ==
    /\ main # "exited" => exitCode = -1
    /\ main = "exited" => exitCode = Status
    /\ main \in {"stopping", "returned", "exited"} /\ ~runErr => \A f \in Files : stage[f] = "done" /\ ~fileErr[f]

-----------------------------------------------------------------------------
LEMMA TestsType ==
  ASSUME TypeOK, NEW f \in Files
  PROVE  /\ plan[f].tests \in Seq(TestShape) /\ Len(plan[f].tests) \in Nat
         /\ DOMAIN plan[f].tests = 1..Len(plan[f].tests)
         /\ \A k \in DOMAIN plan[f].tests : plan[f].tests[k].good \in BOOLEAN /\ plan[f].tests[k].kind \in Kinds
         /\ plan[f].loads \in BOOLEAN /\ plan[f].gated \in BOOLEAN
         /\ Matched(f) \subseteq DOMAIN plan[f].tests
         /\ cursor[f] \in Nat /\ cursor[f] <= Len(plan[f].tests)
         /\ fileErr[f] \in BOOLEAN /\ installErr[f] \in BOOLEAN /\ results[f] \in SUBSET Result
<1>1. plan[f] \in PlanShape
  BY PlansAssumption DEF TypeOK
<1>2. plan[f].tests \in Seq(TestShape) /\ plan[f].loads \in BOOLEAN /\ plan[f].gated \in BOOLEAN
  BY <1>1 DEF PlanShape
<1>3. \A k \in DOMAIN plan[f].tests : plan[f].tests[k] \in TestShape
  BY <1>2
<1>4. \A k \in DOMAIN plan[f].tests : plan[f].tests[k].good \in BOOLEAN /\ plan[f].tests[k].kind \in Kinds
  BY <1>3 DEF TestShape
<1>5. Len(plan[f].tests) \in Nat /\ DOMAIN plan[f].tests = 1..Len(plan[f].tests)
  BY <1>2, LenProperties
<1>6. Matched(f) \subseteq DOMAIN plan[f].tests
  BY DEF Matched
<1>7. /\ cursor[f] \in Nat /\ cursor[f] <= Len(plan[f].tests)
      /\ fileErr[f] \in BOOLEAN /\ installErr[f] \in BOOLEAN /\ results[f] \in SUBSET Result
  BY DEF TypeOK
<1> QED
  BY <1>2, <1>4, <1>5, <1>6, <1>7

\* A file without results has counted none.
LEMMA CountedNone ==
  ASSUME TypeOK, NEW f \in Files, results[f] = {}
  PROVE  Counted(f, 0)
  BY TestsType DEF Counted, EntriesOf

\* One more test, with one more result.
LEMMA CountedNext ==
  ASSUME TypeOK, NEW f \in Files, NEW n \in Nat, Counted(f, n), NEW r, r.test = n + 1,
         n + 1 \in Matched(f), UNCHANGED plan, results'[f] = results[f] \cup {r}
  PROVE  Counted(f, n + 1)'
<1>1. Matched(f)' = Matched(f) /\ Matched(f) \subseteq Nat
  BY TestsType DEF Matched
<1>2. EntriesOf(f, n + 1)' = {r}
  BY DEF Counted, EntriesOf
<1>3. \A k : k # n + 1 => EntriesOf(f, k)' = EntriesOf(f, k)
  BY DEF EntriesOf
<1>4. ASSUME NEW k \in Matched(f), k <= n + 1 PROVE \E s : EntriesOf(f, k)' = {s}
  <2>1. k = n + 1 \/ (k # n + 1 /\ k <= n)
    BY <1>1, <1>4
  <2>2. CASE k = n + 1
    BY <1>2, <2>2
  <2>3. CASE k # n + 1 /\ k <= n
    BY <1>3, <2>3 DEF Counted
  <2> QED
    BY <2>1, <2>2, <2>3
<1>5. ASSUME NEW k \in Nat, k > n + 1 \/ k \notin Matched(f) PROVE EntriesOf(f, k)' = {}
  <2>1. k # n + 1 /\ (k > n \/ k \notin Matched(f))
    BY <1>5
  <2> QED
    BY <1>3, <2>1 DEF Counted
<1> QED
  BY <1>1, <1>4, <1>5 DEF Counted

\* One more test, which is filtered out.
LEMMA CountedSkip ==
  ASSUME TypeOK, NEW f \in Files, NEW n \in Nat, Counted(f, n), n + 1 \notin Matched(f)
  PROVE  Counted(f, n + 1)
<1>1. Matched(f) \subseteq Nat
  BY TestsType
<1>2. \A k \in Matched(f) : k <= n + 1 => k <= n
  BY <1>1
<1>3. \A k \in Nat : k > n + 1 => k > n
  OBVIOUS
<1>4. \A k \in Nat : k > n + 1 \/ k \notin Matched(f) => EntriesOf(f, k) = {}
  BY <1>3 DEF Counted
<1> QED
  BY <1>2, <1>4 DEF Counted

\* What is counted of f depends on its contents and its results alone.
LEMMA CountedSame ==
  ASSUME NEW f \in Files, NEW n, Counted(f, n), UNCHANGED plan, results'[f] = results[f]
  PROVE  Counted(f, n)'
<1>1. Matched(f)' = Matched(f)
  BY DEF Matched
<1>2. \A k : EntriesOf(f, k)' = EntriesOf(f, k)
  BY DEF EntriesOf
<1> QED
  BY <1>1, <1>2 DEF Counted

\* A step of one file leaves the variables of the others alone.
LEMMA OthersSame ==
  ASSUME TypeOK, NEW f \in Files, FileStep(f), NEW g \in Files \ {f}
  PROVE  /\ stage'[g] = stage[g] /\ cursor'[g] = cursor[g] /\ results'[g] = results[g]
         /\ fileErr'[g] = fileErr[g] /\ installErr'[g] = installErr[g]
<1>1. stage'[g] = stage[g] /\ cursor'[g] = cursor[g]
  BY DEF FileStep, Acquire, Gate, Load, InstallClusterDeps, InstallSuiteDeps, BeforeAll,
         NextTest, EndTests, CreateNamespace, InstallTestDeps, Setup, InstallChart,
         Assert, FailTest, RunDeferred, EndTest, EndFile, Report, GoTo, TypeOK
<1>2. results'[g] = results[g]
  BY DEF FileStep, Acquire, Gate, Load, InstallClusterDeps, InstallSuiteDeps, BeforeAll,
         NextTest, EndTests, CreateNamespace, InstallTestDeps, Setup, InstallChart,
         Assert, FailTest, RunDeferred, EndTest, EndFile, Report, Record, TypeOK
<1>3. fileErr'[g] = fileErr[g] /\ installErr'[g] = installErr[g]
  BY DEF FileStep, Acquire, Gate, Load, InstallClusterDeps, InstallSuiteDeps, BeforeAll,
         NextTest, EndTests, CreateNamespace, InstallTestDeps, Setup, InstallChart,
         Assert, FailTest, RunDeferred, EndTest, EndFile, Report, TypeOK
<1> QED
  BY <1>1, <1>2, <1>3

\* Results are only added.
LEMMA ResultsGrow ==
  ASSUME TypeOK, NEW f \in Files, FileStep(f), Progress(f)
  PROVE  results[f] \subseteq results'[f]
<1>1. CASE Load(f)
  BY <1>1 DEF Load, Progress, Early
<1>2. CASE ~Load(f)
  <2>1. UNCHANGED results \/ \E r : Record(f, r)
    BY <1>2 DEF FileStep, Acquire, Gate, InstallClusterDeps, InstallSuiteDeps, BeforeAll,
           NextTest, EndTests, CreateNamespace, InstallTestDeps, Setup, InstallChart,
           Assert, FailTest, RunDeferred, EndTest, EndFile, Report
  <2> QED
    BY <2>1 DEF Record, TypeOK
<1> QED
  BY <1>1, <1>2

LEMMA CutStays ==
  ASSUME TypeOK, NEW f \in Files, FileStep(f), Progress(f)
  PROVE  (Cut => Cut') /\ SomeBad' = SomeBad
<1>1. UNCHANGED <<plan, flags>>
  BY DEF FileStep
<1>2. SomeBad' = SomeBad
  BY <1>1 DEF SomeBad
<1>3. \A g \in Files : results[g] \subseteq results'[g]
  BY ResultsGrow, OthersSame
<1> QED
  BY <1>1, <1>2, <1>3 DEF Cut, SuiteHasFailure

LEMMA OthersVerdict ==
  ASSUME TypeOK, NEW f \in Files, FileStep(f), Progress(f), NEW g \in Files \ {f}, FileVerdict(g)
  PROVE  FileVerdict(g)'
<1>1. UNCHANGED <<plan, flags>> /\ (Cut => Cut') /\ SomeBad' = SomeBad
  BY CutStays DEF FileStep
<1>2. /\ stage'[g] = stage[g] /\ cursor'[g] = cursor[g] /\ results'[g] = results[g]
      /\ fileErr'[g] = fileErr[g] /\ installErr'[g] = installErr[g]
  BY OthersSame
<1>3. Progress(g)'
  BY <1>1, <1>2, CountedSame DEF FileVerdict, Progress, Test
<1>4. \A r \in results'[g] : Sound(g, r)'
  BY <1>1, <1>2 DEF FileVerdict, Sound
<1>5. InstallSays(g)'
  BY <1>1, <1>2 DEF FileVerdict, InstallSays, Test
<1> QED
  BY <1>3, <1>4, <1>5 DEF FileVerdict

\* A step that adds no result keeps the old ones sound.
LEMMA SoundSame ==
  ASSUME TypeOK, NEW f \in Files, FileStep(f), FileVerdict(f)
  PROVE  \A r \in results[f] : Sound(f, r)'
<1> SUFFICES ASSUME NEW r \in results[f] PROVE Sound(f, r)'
  OBVIOUS
<1>1. UNCHANGED plan /\ (Cut => Cut') /\ SomeBad' = SomeBad /\ Sound(f, r)
  BY CutStays DEF FileStep, FileVerdict
<1> QED
  BY <1>1 DEF Sound, Calm

\* Without faults a call fails, or a dep is not installed, only when fail-fast has cut in.
LEMMA FailsForCause ==
  ASSUME VerdictInv, main = "running", Calm
  PROVE  /\ CallFails => SomeBad
         /\ \A places : NotInstalled(places) => SomeBad
  BY DEF VerdictInv, CancelInv, Calm, CallFails, NotInstalled

\* A test that returns early has its result, and it is a failure.
LEMMA EarlyReturn ==
  ASSUME TypeOK, VerdictInv, NEW f \in Files, FileStep(f), stage[f] \in InTest,
         FailTest(f), UNCHANGED <<cursor, fileErr>>, Calm => SomeBad
  PROVE  FileVerdict(f)'
<1>1. FileVerdict(f) /\ Progress(f)
  BY DEF VerdictInv, FileVerdict
<1>2. /\ cursor[f] \in DOMAIN plan[f].tests /\ cursor[f] - 1 \in Nat
      /\ Test(f).kind \in OnClusterKinds /\ Counted(f, cursor[f] - 1)
      /\ plan[f].loads /\ ~plan[f].gated
  BY <1>1, TestsType DEF Progress
<1>3. cursor[f] \in Matched(f)
  BY <1>2 DEF Matched, Test, OnClusterKinds
<1>4. stage'[f] = "testExit" /\ results'[f] = results[f] \cup {Entry(f, "fail", FALSE)}
  BY DEF FailTest, GoTo, Record, TypeOK
<1>5. UNCHANGED <<plan, flags>> /\ SomeBad' = SomeBad
  BY <1>1, CutStays DEF FileStep
<1>6. Counted(f, cursor[f])'
  <2>1. cursor[f] \in Nat
    BY TestsType
  <2>2. Entry(f, "fail", FALSE).test = (cursor[f] - 1) + 1 /\ (cursor[f] - 1) + 1 = cursor[f]
    BY <2>1 DEF Entry
  <2>3. Counted(f, (cursor[f] - 1) + 1)'
    BY <1>2, <1>3, <1>4, <1>5, <2>2, CountedNext
  <2> QED
    BY <2>2, <2>3
<1>7. Progress(f)'
  BY <1>2, <1>4, <1>5, <1>6 DEF Progress, Early, InTest, Leaving
<1>8. ASSUME NEW r, r = Entry(f, "fail", FALSE) PROVE Sound(f, r)'
  BY <1>2, <1>5, <1>8 DEF Sound, Entry, Calm
<1>9. ASSUME NEW r \in results'[f] PROVE Sound(f, r)'
  <2>1. CASE r \in results[f]
    <3>1. \A s \in results[f] : Sound(f, s)'
      BY <1>1, SoundSame
    <3> QED
      BY <2>1, <3>1 DEF Sound
  <2>2. CASE r = Entry(f, "fail", FALSE)
    BY <1>8, <2>2
  <2> QED
    BY <1>4, <2>1, <2>2
<1>10. InstallSays(f)'
  BY <1>4 DEF InstallSays
<1> QED
  BY <1>7, <1>9, <1>10 DEF FileVerdict

LEMMA GoesTo ==
  ASSUME TypeOK, NEW f \in Files, NEW s, GoTo(f, s)
  PROVE  stage'[f] = s
  BY DEF GoTo, TypeOK

\* What every step of a file at work can count on.
LEMMA StepFacts ==
  ASSUME TypeOK, VerdictInv, NEW f \in Files, FileStep(f)
  PROVE  /\ FileVerdict(f) /\ Progress(f) /\ InstallSays(f)
         /\ main = "running" /\ UNCHANGED <<plan, flags, main>>
         /\ (Cut => Cut') /\ SomeBad' = SomeBad
<1>1. FileVerdict(f) /\ Progress(f) /\ InstallSays(f)
  BY DEF VerdictInv, FileVerdict
<1>2. main = "running" /\ UNCHANGED <<plan, flags, main>>
  BY DEF FileStep, mainVars
<1> QED
  BY <1>1, <1>2, CutStays

\* A step that changes neither the results nor the test at work, from one stage
\* to another of the same part of the file.
LEMMA VerdictStays ==
  ASSUME TypeOK, VerdictInv, NEW f \in Files, FileStep(f),
         results'[f] = results[f], cursor'[f] = cursor[f], fileErr'[f] = fileErr[f],
         \/ stage[f] \in Leaving /\ stage'[f] \in Leaving
         \/ stage[f] \in {"loop", "testExit"} /\ stage'[f] \in {"loop", "testExit"}
         \/ stage[f] \in InTest /\ stage'[f] \in InTest,
         InstallSays(f)'
  PROVE  FileVerdict(f)'
<1>1. /\ FileVerdict(f) /\ Progress(f) /\ (Cut => Cut')
      /\ UNCHANGED plan
  BY StepFacts
<1>2. \A n : Counted(f, n) => Counted(f, n)'
  BY <1>1, CountedSame
<1>3. Progress(f)'
  <2>1. CASE stage[f] \in Leaving /\ stage'[f] \in Leaving
    <3>1. fileErr[f] \/ Cut \/ (plan[f].loads /\ Counted(f, Len(plan[f].tests)))
      BY <1>1, <2>1 DEF Progress
    <3>2. Counted(f, Len(plan[f].tests)) => Counted(f, Len(plan[f].tests))'
      BY <1>1, CountedSame
    <3> QED
      BY <1>1, <2>1, <3>1, <3>2 DEF Progress, Leaving, InTest, Early
  <2>2. CASE stage[f] \in {"loop", "testExit"} /\ stage'[f] \in {"loop", "testExit"}
    <3>1. Counted(f, cursor[f]) /\ plan[f].loads /\ ~plan[f].gated
      BY <1>1, <2>2 DEF Progress
    <3>2. Counted(f, cursor[f])'
      BY <1>1, <3>1, CountedSame
    <3> QED
      BY <1>1, <2>2, <3>1, <3>2 DEF Progress, Leaving, InTest, Early
  <2>3. CASE stage[f] \in InTest /\ stage'[f] \in InTest
    <3>1. /\ Counted(f, cursor[f] - 1) /\ plan[f].loads /\ ~plan[f].gated
          /\ cursor[f] \in DOMAIN plan[f].tests /\ Test(f).kind \in OnClusterKinds
      BY <1>1, <2>3 DEF Progress
    <3>2. Counted(f, cursor[f] - 1)'
      BY <1>1, <3>1, CountedSame
    <3> QED
      BY <1>1, <2>3, <3>1, <3>2 DEF Progress, Leaving, InTest, Early, Test
  <2> QED
    BY <2>1, <2>2, <2>3
<1>4. \A r \in results'[f] : Sound(f, r)'
  BY <1>1, SoundSame
<1> QED
  BY <1>3, <1>4 DEF FileVerdict

\* From the semaphore to the first test.
LEMMA VerdictStart ==
  ASSUME TypeOK, VerdictInv, NEW f \in Files, FileStep(f),
         \/ Acquire(f) \/ Gate(f) \/ InstallClusterDeps(f) \/ InstallSuiteDeps(f) \/ BeforeAll(f)
  PROVE  FileVerdict(f)'
<1>1. /\ FileVerdict(f) /\ Progress(f) /\ (Cut => Cut')
      /\ main = "running" /\ UNCHANGED <<plan, flags, main>>
  BY StepFacts
<1>2. /\ stage[f] \in Early /\ results'[f] = {} /\ cursor'[f] = 0
      /\ results[f] = {} /\ cursor[f] = 0
  BY <1>1 DEF Acquire, Gate, InstallClusterDeps, InstallSuiteDeps, BeforeAll, Progress, Early
<1>3. Progress(f)'
  <2>1. CASE Acquire(f)
    <3>1. stage'[f] = "gate"
      BY <2>1, GoesTo DEF Acquire
    <3> QED
      BY <1>2, <3>1 DEF Progress, Early, InTest, Leaving
  <2>2. CASE Gate(f)
    <3>1. CASE cancelled
      <4>1. stage'[f] = "report" /\ Cut'
        BY <1>1, <2>2, <3>1, GoesTo DEF Gate, AfterGate, VerdictInv, CancelInv
      <4> QED
        BY <4>1 DEF Progress, Early, InTest, Leaving
    <3>2. CASE ~cancelled
      <4>1. stage'[f] = "load"
        BY <2>2, <3>2, GoesTo DEF Gate, AfterGate
      <4> QED
        BY <1>2, <4>1 DEF Progress, Early, InTest, Leaving
    <3> QED
      BY <3>1, <3>2
  <2>3. CASE InstallClusterDeps(f) \/ InstallSuiteDeps(f) \/ BeforeAll(f)
    <3>1. plan[f].loads /\ ~plan[f].gated
      BY <1>1, <2>3 DEF InstallClusterDeps, InstallSuiteDeps, BeforeAll, Progress
    <3>2. \/ stage'[f] = "fileExit" /\ fileErr'[f]
          \/ stage'[f] \in {"suiteDeps", "beforeAll", "loop"}
      BY <2>3, GoesTo DEF InstallClusterDeps, InstallSuiteDeps, BeforeAll, TypeOK
    <3>3. Counted(f, 0)'
      BY <1>1, <1>2, CountedNone, CountedSame
    <3> QED
      BY <1>1, <1>2, <3>1, <3>2, <3>3 DEF Progress, Early, InTest, Leaving
  <2> QED
    BY <2>1, <2>2, <2>3
<1>4. stage'[f] # "assert"
  BY GoesTo DEF Acquire, Gate, AfterGate, InstallClusterDeps, InstallSuiteDeps, BeforeAll
<1> QED
  BY <1>2, <1>3, <1>4 DEF FileVerdict, InstallSays

\* A suite that the gate skips has one skip for every test that --match lets through.
LEMMA VerdictLoad ==
  ASSUME TypeOK, VerdictInv, NEW f \in Files, FileStep(f), Load(f)
  PROVE  FileVerdict(f)'
<1>1. /\ FileVerdict(f) /\ Progress(f) /\ (Cut => Cut')
      /\ UNCHANGED <<plan, flags, cursor>>
  BY StepFacts DEF Load
<1>2. results[f] = {} /\ cursor[f] = 0
  BY <1>1 DEF Load, Progress, Early
<1>3. CASE ~plan[f].loads
  <2>1. stage'[f] = "fileExit" /\ fileErr'[f] /\ results' = results
    BY <1>3, GoesTo DEF Load, TypeOK
  <2>2. Progress(f)' /\ InstallSays(f)'
    BY <2>1 DEF Progress, InstallSays, Early, InTest, Leaving
  <2> QED
    BY <1>2, <2>1, <2>2 DEF FileVerdict
<1>4. CASE plan[f].loads /\ plan[f].gated
  <2>1. stage'[f] = "fileExit" /\ results'[f] = SkippedSuite(f)
    BY <1>4, GoesTo DEF Load, TypeOK
  <2>2. Matched(f)' = Matched(f) /\ Matched(f) \subseteq DOMAIN plan[f].tests
    BY <1>1 DEF Matched
  <2>3. ASSUME NEW k \in Matched(f)
        PROVE  EntriesOf(f, k)' = {[test |-> k, status |-> "skip", live |-> FALSE]}
    BY <2>1 DEF EntriesOf, SkippedSuite
  <2>4. ASSUME NEW k \in Nat, k \notin Matched(f)
        PROVE  EntriesOf(f, k)' = {}
    BY <2>1, <2>4 DEF EntriesOf, SkippedSuite
  <2>5. \A k \in Nat : k > Len(plan[f].tests) => k \notin Matched(f)
    BY <2>2, TestsType
  <2>6. Counted(f, Len(plan[f].tests))'
    <3>1. \A k \in Matched(f) : \E r : EntriesOf(f, k)' = {r}
      BY <2>3
    <3>2. \A k \in Nat : k > Len(plan[f].tests) \/ k \notin Matched(f) => EntriesOf(f, k)' = {}
      BY <2>4, <2>5
    <3> QED
      BY <1>1, <2>2, <3>1, <3>2 DEF Counted
  <2>7. Progress(f)' /\ InstallSays(f)'
    BY <1>1, <1>4, <2>1, <2>6 DEF Progress, InstallSays, Early, InTest, Leaving
  <2>8. ASSUME NEW r \in results'[f] PROVE Sound(f, r)'
    <3>1. r.test \in Matched(f) /\ r.status = "skip" /\ r.live = FALSE
      BY <2>1 DEF SkippedSuite
    <3> QED
      BY <1>1, <1>4, <2>2, <3>1 DEF Sound
  <2> QED
    BY <2>7, <2>8 DEF FileVerdict
<1>5. CASE plan[f].loads /\ ~plan[f].gated
  <2>1. stage'[f] = "clusterDeps" /\ results' = results
    BY <1>5, GoesTo DEF Load
  <2>2. Progress(f)' /\ InstallSays(f)'
    BY <1>1, <1>2, <1>5, <2>1 DEF Progress, InstallSays, Early, InTest, Leaving
  <2> QED
    BY <1>2, <2>1, <2>2 DEF FileVerdict
<1> QED
  BY <1>3, <1>4, <1>5, TestsType

\* A test that takes its result at once, or that is filtered out, or that goes
\* to the cluster.
LEMMA VerdictNext ==
  ASSUME TypeOK, VerdictInv, NEW f \in Files, FileStep(f), NextTest(f)
  PROVE  FileVerdict(f)'
<1> DEFINE k == cursor[f] + 1
           t == plan[f].tests[k]
           entry(s) == [test |-> k, status |-> s, live |-> FALSE]
<1>1. /\ FileVerdict(f) /\ Progress(f) /\ (Cut => Cut') /\ SomeBad' = SomeBad
      /\ UNCHANGED <<plan, flags>>
  BY StepFacts
<1>2. Counted(f, cursor[f]) /\ plan[f].loads /\ ~plan[f].gated /\ stage[f] = "loop"
  BY <1>1 DEF Progress, NextTest
<1>3. cursor[f] \in Nat /\ k \in DOMAIN plan[f].tests /\ cursor'[f] = k /\ k - 1 = cursor[f]
  BY TestsType DEF NextTest, TypeOK
<1>4. CASE t.kind = "unmatched" /\ UNCHANGED <<stage, results>>
  <2>1. k \notin Matched(f)
    BY <1>4 DEF Matched
  <2>2. Counted(f, cursor[f] + 1)
    BY <1>2, <1>3, <2>1, CountedSkip
  <2>3. ASSUME NEW n, n = k PROVE Counted(f, n)'
    BY <1>1, <1>4, <2>2, <2>3, CountedSame
  <2>4. Progress(f)' /\ InstallSays(f)'
    BY <1>1, <1>2, <1>3, <1>4, <2>3 DEF Progress, InstallSays, Early, InTest, Leaving
  <2>5. \A r \in results'[f] : Sound(f, r)'
    BY <1>1, <1>4, SoundSame
  <2> QED
    BY <2>4, <2>5 DEF FileVerdict
<1>5. ASSUME NEW s \in {"pass", "fail", "skip"}, Record(f, entry(s)), UNCHANGED stage, t.kind # "unmatched",
             s = "skip" => t.kind \in {"gated", "skip"},
             s = "pass" => t.good, s = "fail" => ~t.good
      PROVE  FileVerdict(f)'
  <2>1. k \in Matched(f)
    BY <1>3, <1>5 DEF Matched
  <2>2. results'[f] = results[f] \cup {entry(s)} /\ stage'[f] = "loop"
    BY <1>2, <1>5 DEF Record, TypeOK
  <2>3. PICK m \in Nat : m = cursor[f]
    BY <1>3
  <2>4. ASSUME NEW n, n = k PROVE Counted(f, n)'
    <3>1. Counted(f, m + 1)'
      BY <1>1, <1>2, <1>3, <2>1, <2>2, <2>3, CountedNext
    <3>2. n = m + 1
      BY <2>3, <2>4
    <3> QED
      BY <3>1, <3>2
  <2>5. Progress(f)' /\ InstallSays(f)'
    BY <1>1, <1>2, <1>3, <2>2, <2>4 DEF Progress, InstallSays, Early, InTest, Leaving
  <2>6. ~t.good => SomeBad
    BY <1>3 DEF SomeBad
  <2>7. ASSUME NEW r, r = entry(s) PROVE Sound(f, r)'
    BY <1>1, <1>3, <1>5, <2>6, <2>7 DEF Sound, Calm
  <2>8. \A r \in results[f] : Sound(f, r)'
    BY <1>1, SoundSame
  <2> QED
    BY <2>2, <2>5, <2>7, <2>8 DEF FileVerdict
<1>6. CASE t.kind \in OnClusterKinds /\ GoTo(f, "namespace") /\ UNCHANGED results
  <2>1. stage'[f] = "namespace"
    BY <1>6, GoesTo
  <2>2. ASSUME NEW n, n = cursor[f] PROVE Counted(f, n)'
    BY <1>1, <1>2, <1>6, <2>2, CountedSame
  <2>3. cursor'[f] - 1 = cursor[f] /\ Test(f)' = t
    BY <1>1, <1>3 DEF Test
  <2>4. Counted(f, cursor[f] - 1)'
    BY <2>2, <2>3 DEF Counted
  <2>5. Progress(f)' /\ InstallSays(f)'
    BY <1>1, <1>2, <1>3, <1>6, <2>1, <2>3, <2>4 DEF Progress, InstallSays, Early, InTest, Leaving
  <2>6. \A r \in results'[f] : Sound(f, r)'
    BY <1>1, <1>6, SoundSame
  <2> QED
    BY <2>5, <2>6 DEF FileVerdict
<1>7. NextTest(f) => \/ t.kind = "unmatched" /\ UNCHANGED <<stage, results>>
                     \/ t.kind \in {"gated", "skip"} /\ Record(f, entry("skip")) /\ UNCHANGED stage
                     \/ /\ t.kind = "helper" /\ UNCHANGED stage
                        /\ Record(f, entry(IF t.good THEN "pass" ELSE "fail"))
                     \/ t.kind \in OnClusterKinds /\ GoTo(f, "namespace") /\ UNCHANGED results
  BY DEF NextTest, OnClusterKinds
<1>8. CASE t.kind \in {"gated", "skip"} /\ Record(f, entry("skip")) /\ UNCHANGED stage
  <2>1. \A s : s = "skip" => entry(s) = entry("skip")
    OBVIOUS
  <2> QED
    BY <1>5, <1>8
<1>9. CASE t.kind = "helper" /\ UNCHANGED stage /\ Record(f, entry(IF t.good THEN "pass" ELSE "fail"))
  <2>1. CASE t.good
    BY <1>5, <1>9, <2>1
  <2>2. CASE ~t.good
    BY <1>5, <1>9, <2>2
  <2> QED
    BY <2>1, <2>2
<1> QED
  BY <1>4, <1>6, <1>7, <1>8, <1>9

\* Before the chart is installed: the step succeeds, or the test returns early.
LEMMA VerdictSetup ==
  ASSUME TypeOK, VerdictInv, NEW f \in Files, FileStep(f),
         CreateNamespace(f) \/ InstallTestDeps(f) \/ Setup(f)
  PROVE  FileVerdict(f)'
<1>1. stage[f] \in InTest /\ main = "running" /\ UNCHANGED <<cursor, fileErr>>
  BY StepFacts DEF CreateNamespace, InstallTestDeps, Setup, InTest
<1>2. CASE FailTest(f)
  <2>1. CASE CreateNamespace(f) /\ stage'[f] = "testExit"
    <3>1. CallFails
      BY <2>1, GoesTo DEF CreateNamespace
    <3> QED
      BY <1>1, <1>2, <3>1, FailsForCause, EarlyReturn
  <2>2. CASE InstallTestDeps(f) /\ stage'[f] = "testExit"
    <3>1. NotInstalled(TestPlaces(f))
      BY <2>2, GoesTo DEF InstallTestDeps
    <3> QED
      BY <1>1, <1>2, <3>1, FailsForCause, EarlyReturn
  <2>3. CASE Setup(f) /\ stage'[f] = "testExit"
    <3>1. CallFails
      BY <2>3, GoesTo DEF Setup
    <3> QED
      BY <1>1, <1>2, <3>1, FailsForCause, EarlyReturn
  <2>4. stage'[f] = "testExit"
    BY <1>2, GoesTo DEF FailTest
  <2> QED
    BY <2>1, <2>2, <2>3, <2>4
<1>3. CASE ~FailTest(f)
  <2>1. results' = results /\ stage'[f] \in {"testDeps", "setup", "install"}
    BY <1>3, GoesTo DEF CreateNamespace, InstallTestDeps, Setup
  <2> QED
    BY <1>1, <2>1, VerdictStays DEF InTest, InstallSays
<1> QED
  BY <1>2, <1>3

\* The install error tells a refused chart from an accepted one.
LEMMA VerdictInstall ==
  ASSUME TypeOK, VerdictInv, NEW f \in Files, FileStep(f), InstallChart(f)
  PROVE  FileVerdict(f)'
<1>1. /\ stage[f] = "install" /\ stage'[f] = "assert" /\ UNCHANGED <<cursor, fileErr, results>>
      /\ main = "running" /\ UNCHANGED <<plan, flags, main>> /\ (Cut => Cut') /\ SomeBad' = SomeBad
  BY StepFacts, GoesTo DEF InstallChart
<1>2. /\ Test(f)' = Test(f) /\ cursor[f] \in DOMAIN plan[f].tests
      /\ Test(f).good \in BOOLEAN /\ (~Test(f).good => SomeBad)
  BY <1>1, StepFacts, TestsType DEF Test, Progress, InTest, SomeBad
<1>3. InstallSays(f)'
  <2>1. CASE ~Test(f).good /\ ~installErr'[f]
    BY <1>1, <1>2, <2>1 DEF InstallSays
  <2>2. CASE ~Refused(f) /\ ~installErr'[f]
    BY <1>1, <1>2, <2>2 DEF InstallSays, Refused
  <2>3. CASE CallFails /\ installErr'[f] = TRUE
    <3>1. ~Faults => Cut
      BY <1>1, <2>3 DEF CallFails, VerdictInv, CancelInv
    <3>2. Calm => SomeBad
      BY <1>1, <2>3, FailsForCause
    <3> QED
      BY <1>1, <1>2, <2>3, <3>1, <3>2 DEF InstallSays, Calm
  <2>4. CASE Refused(f) /\ installErr'[f] = TRUE
    <3>1. Test(f).outside \subseteq Outside
      BY <1>1, ReleaseType DEF InTest
    <3> QED
      BY <1>1, <1>2, <2>4, <3>1 DEF InstallSays, Refused, Calm
  <2> QED
    BY <2>1, <2>2, <2>3, <2>4 DEF InstallChart, TypeOK
<1> QED
  BY <1>1, <1>3, VerdictStays DEF InTest

\* The verdict on a test follows from the install error and the chart.
LEMMA VerdictAssert ==
  ASSUME TypeOK, VerdictInv, NEW f \in Files, FileStep(f), Assert(f)
  PROVE  FileVerdict(f)'
<1>1. /\ FileVerdict(f) /\ stage[f] = "assert" /\ stage'[f] = "testExit"
      /\ UNCHANGED <<cursor, plan, flags>> /\ (Cut => Cut') /\ SomeBad' = SomeBad
  BY StepFacts, GoesTo DEF Assert
<1>2. /\ cursor[f] \in DOMAIN plan[f].tests /\ Test(f).kind \in OnClusterKinds
      /\ plan[f].loads /\ ~plan[f].gated /\ Counted(f, cursor[f] - 1)
      /\ Test(f).good \in BOOLEAN /\ (~Test(f).good => SomeBad)
  BY <1>1, StepFacts, TestsType DEF Test, Progress, InTest, SomeBad
<1>3. PICK p \in BOOLEAN :
        /\ Record(f, Entry(f, IF p THEN "pass" ELSE "fail", Test(f).kind # "rendered"))
        /\ Test(f).kind = "rejects" => p = installErr[f]
        /\ Test(f).kind # "rejects" /\ p => ~installErr[f] /\ Test(f).good
        /\ Test(f).kind # "rejects" /\ ~p /\ ~Faults => installErr[f] \/ ~Test(f).good
  BY TestsType DEF Assert
<1>4. PICK e : e = Entry(f, IF p THEN "pass" ELSE "fail", Test(f).kind # "rendered")
  OBVIOUS
<1>5. /\ e.test = cursor[f] /\ e.status = (IF p THEN "pass" ELSE "fail")
      /\ e.live = (Test(f).kind # "rendered")
  BY <1>4 DEF Entry
<1>6. results'[f] = results[f] \cup {e}
  BY <1>3, <1>4 DEF Record, TypeOK
<1>7. ASSUME NEW n, n = cursor[f] PROVE Counted(f, n)'
  <2>1. PICK m \in Nat : m = cursor[f] - 1 /\ n = m + 1
    BY <1>2, <1>7, TestsType
  <2>2. n \in Matched(f)
    BY <1>2, <1>7 DEF Matched, Test, OnClusterKinds
  <2> QED
    BY <1>1, <1>2, <1>5, <1>6, <1>7, <2>1, <2>2, CountedNext
<1>8. Progress(f)' /\ InstallSays(f)'
  BY <1>1, <1>2, <1>7 DEF Progress, InstallSays, Early, InTest, Leaving
<1>9. Sound(f, e)'
  <2>1. InstallSays(f)
    BY <1>1 DEF FileVerdict
  <2>2. p /\ (Test(f).kind = "rejects" => ~Faults /\ Test(f).outside = {}) => Test(f).good \/ Cut
    BY <1>1, <1>3, <2>1 DEF InstallSays
  <2>3. ~p /\ Calm => SomeBad
    BY <1>1, <1>2, <1>3, <2>1 DEF InstallSays, Calm
  <2>4. Test(f) = plan[f].tests[e.test] /\ e.test \in DOMAIN plan[f].tests
    BY <1>2, <1>5 DEF Test
  <2> QED
    BY <1>1, <1>2, <1>5, <2>2, <2>3, <2>4 DEF Sound, OnClusterKinds, Calm
<1>10. \A r \in results[f] : Sound(f, r)'
  BY <1>1, SoundSame
<1> QED
  BY <1>6, <1>8, <1>9, <1>10 DEF FileVerdict

\* Unwinding and the way out.
LEMMA VerdictEnd ==
  ASSUME TypeOK, VerdictInv, NEW f \in Files, FileStep(f),
         EndTests(f) \/ RunDeferred(f) \/ EndTest(f) \/ EndFile(f) \/ Report(f)
  PROVE  FileVerdict(f)'
<1>1. CASE EndTests(f)
  <2>1. /\ FileVerdict(f) /\ Progress(f) /\ UNCHANGED <<plan, flags, results>>
        /\ stage'[f] = "fileExit" /\ cursor[f] = Len(plan[f].tests)
    BY <1>1, StepFacts, GoesTo DEF EndTests
  <2>2. plan[f].loads /\ Counted(f, Len(plan[f].tests))
    BY <1>1, <2>1 DEF Progress, EndTests
  <2>3. Counted(f, Len(plan[f].tests))'
    BY <2>1, <2>2, CountedSame
  <2>4. Progress(f)' /\ InstallSays(f)'
    BY <2>1, <2>2, <2>3 DEF Progress, InstallSays, Early, InTest, Leaving
  <2>5. \A r \in results'[f] : Sound(f, r)'
    BY <2>1, SoundSame
  <2> QED
    BY <2>4, <2>5 DEF FileVerdict
<1>2. CASE RunDeferred(f) \/ EndTest(f)
  <2>1. stage[f] \in {"testExit", "fileExit"} /\ stage'[f] \in {"loop", "testExit", "fileExit"}
        /\ UNCHANGED <<cursor, results, fileErr>>
        /\ (stage'[f] = "fileExit" <=> stage[f] = "fileExit")
    BY <1>2, GoesTo DEF RunDeferred, EndTest
  <2> QED
    BY <2>1, VerdictStays DEF Leaving, InstallSays
<1>3. CASE EndFile(f) \/ Report(f)
  <2>1. stage[f] \in Leaving /\ stage'[f] \in {"report", "done"} /\ UNCHANGED <<cursor, results, fileErr>>
    BY <1>3, GoesTo DEF EndFile, Report, Leaving
  <2> QED
    BY <2>1, VerdictStays DEF Leaving, InstallSays
<1> QED
  BY <1>1, <1>2, <1>3

LEMMA VerdictFileStep ==
  ASSUME TypeOK, VerdictInv, NEW f \in Files, FileStep(f)
  PROVE  VerdictInv'
<1>1. FileVerdict(f)'
  BY VerdictStart, VerdictLoad, VerdictNext, VerdictSetup, VerdictInstall, VerdictAssert, VerdictEnd DEF FileStep
<1>2. \A g \in Files \ {f} : FileVerdict(g)'
  BY StepFacts, OthersVerdict DEF VerdictInv
<1>3. CancelInv'
  <2>1. /\ main = "running" /\ UNCHANGED <<plan, flags, main>> /\ (Cut => Cut')
        /\ SomeBad' = SomeBad /\ FileVerdict(f)
    BY StepFacts
  <2>2. CASE cancelled
    BY <2>1, <2>2 DEF VerdictInv, CancelInv, Calm
  <2>3. CASE Report(f) /\ flags.failFast /\ SuiteHasFailure(f)
    <3>1. Cut
      BY <2>3 DEF Cut
    <3>2. Calm => SomeBad
      BY <2>1, <2>3 DEF SuiteHasFailure, FileVerdict, Sound
    <3> QED
      BY <2>1, <3>1, <3>2 DEF CancelInv, Calm
  <2>4. cancelled' => cancelled \/ (Report(f) /\ flags.failFast /\ SuiteHasFailure(f))
    BY DEF FileStep, Acquire, Gate, Load, InstallClusterDeps, InstallSuiteDeps, BeforeAll,
           NextTest, EndTests, CreateNamespace, InstallTestDeps, Setup, InstallChart,
           Assert, RunDeferred, EndTest, EndFile, Report
  <2> QED
    BY <2>2, <2>3, <2>4 DEF CancelInv
<1> QED
  BY <1>1, <1>2, <1>3 DEF VerdictInv

LEMMA VerdictInit == Init => VerdictInv /\ OutcomeInv
<1> SUFFICES ASSUME Init PROVE VerdictInv /\ OutcomeInv
  OBVIOUS
<1>1. CancelInv /\ OutcomeInv
  BY DEF Init, CancelInv, OutcomeInv
<1>2. ASSUME NEW f \in Files PROVE FileVerdict(f)
  BY DEF Init, FileVerdict, Progress, InstallSays, Early, InTest, Leaving
<1> QED
  BY <1>1, <1>2 DEF VerdictInv

\* The main goroutine and an interrupt leave the files alone.
LEMMA VerdictMainStep ==
  ASSUME TypeOK, VerdictInv, UNCHANGED <<plan, flags, fileVars>>, CancelInv'
  PROVE  VerdictInv'
<1>1. Cut' = Cut /\ SomeBad' = SomeBad
  BY DEF Cut, SuiteHasFailure, SomeBad, fileVars
<1> SUFFICES ASSUME NEW f \in Files PROVE FileVerdict(f)'
  BY DEF VerdictInv
<1>2. FileVerdict(f)
  BY DEF VerdictInv
<1>3. \A n : Counted(f, n)' <=> Counted(f, n)
  BY DEF Counted, EntriesOf, Matched, fileVars
<1>4. Progress(f)'
  <2>1. UNCHANGED <<plan, stage, cursor, fileErr, results>> /\ Test(f)' = Test(f)
    BY DEF fileVars, Test
  <2>2. /\ Counted(f, cursor[f])' <=> Counted(f, cursor[f])
        /\ Counted(f, cursor[f] - 1)' <=> Counted(f, cursor[f] - 1)
        /\ Counted(f, Len(plan[f].tests))' <=> Counted(f, Len(plan[f].tests))
    BY <2>1 DEF Counted, EntriesOf, Matched
  <2> QED
    BY <1>1, <1>2, <2>1, <2>2 DEF FileVerdict, Progress
<1>5. \A r \in results'[f] : Sound(f, r)'
  BY <1>1, <1>2 DEF FileVerdict, Sound, Calm, fileVars
<1>6. InstallSays(f)'
  BY <1>1, <1>2 DEF FileVerdict, InstallSays, Test, Calm, fileVars
<1> QED
  BY <1>4, <1>5, <1>6 DEF FileVerdict

LEMMA VerdictStep ==
  ASSUME TypeOK, VerdictInv, [Next]_vars
  PROVE  VerdictInv'
<1>1. CASE \E f \in Files : FileStep(f)
  BY <1>1, VerdictFileStep
<1>2. CASE MainStep \/ Interrupt \/ UNCHANGED vars
  <2>1. UNCHANGED <<plan, flags, fileVars>>
    BY <1>2 DEF MainStep, RefuseStart, StartBackend, Join, StopBackend, Exit, Interrupt, vars
  <2>2. Cut' = Cut /\ SomeBad' = SomeBad
    BY <2>1 DEF Cut, SuiteHasFailure, SomeBad, fileVars
  <2>3. main' \in {"idle", "running"} => main \in {"idle", "running"} /\ UNCHANGED cancelled
    BY <1>2 DEF MainStep, RefuseStart, StartBackend, Join, StopBackend, Exit, Interrupt, vars, mainVars
  <2>4. CancelInv'
    BY <2>2, <2>3 DEF VerdictInv, CancelInv, Calm
  <2> QED
    BY <2>1, <2>4, VerdictMainStep
<1> QED
  BY <1>1, <1>2 DEF Next, Terminated

LEMMA OutcomeStep ==
  ASSUME TypeOK, MainInv, OutcomeInv, [Next]_vars
  PROVE  OutcomeInv'
<1>1. CASE MainStep
  <2>1. UNCHANGED <<plan, flags, fileVars>>
    BY <1>1 DEF MainStep, RefuseStart, StartBackend, Join, StopBackend, Exit
  <2>2. Recorded' = Recorded /\ Warned' = Warned
    BY <2>1 DEF Recorded, Warned, Executed, fileVars
  <2>3. main # "exited"
    BY <1>1 DEF MainStep, RefuseStart, StartBackend, Join, StopBackend, Exit
  <2>4. main' # "exited" => exitCode' = -1
    BY <1>1, <2>3 DEF MainStep, RefuseStart, StartBackend, Join, StopBackend, Exit, OutcomeInv
  <2>5. main' = "exited" => exitCode' = Status'
    <3>1. main' = "exited" => Exit
      BY <1>1 DEF MainStep, RefuseStart, StartBackend, Join, StopBackend, Exit
    <3> QED
      BY <2>1, <2>2, <3>1 DEF Exit, Status
  <2>6. main' \in {"stopping", "returned", "exited"} /\ ~runErr'
            => \A f \in Files : stage'[f] = "done" /\ ~fileErr'[f]
    <3>1. CASE Join
      BY <2>1, <3>1 DEF Join, AllDone, fileVars
    <3>2. CASE ~Join
      BY <1>1, <2>1, <3>2 DEF MainStep, RefuseStart, StartBackend, StopBackend, Exit, OutcomeInv, fileVars
    <3> QED
      BY <3>1, <3>2
  <2> QED
    BY <2>4, <2>5, <2>6 DEF OutcomeInv
<1>2. CASE \E f \in Files : FileStep(f)
  BY <1>2 DEF FileStep, mainVars, OutcomeInv
<1>3. CASE Interrupt
  BY <1>3 DEF Interrupt, OutcomeInv
<1>4. CASE UNCHANGED vars
  BY <1>4 DEF vars, mainVars, fileVars, OutcomeInv, Status, Recorded, Warned, Executed
<1> QED
  BY <1>1, <1>2, <1>3, <1>4 DEF Next, Terminated

\* The verdict of a run whose exit code is not an error.
LEMMA VerdictReached ==
  ASSUME TypeOK, VerdictInv, OutcomeInv, exitCode \in {0, 1, 5}
  PROVE  /\ \A f \in Files : Cut \/ (plan[f].loads /\ Counted(f, Len(plan[f].tests)))
         /\ exitCode = 1 <=> \E r \in Recorded : r.status = "fail"
         /\ exitCode = 0 => flags.passOnWarning \/ ~Warned
<1>1. main = "exited" /\ exitCode = Status
  BY DEF OutcomeInv
<1>2. ~runErr
  BY <1>1 DEF Status
<1>3. \A f \in Files : stage[f] = "done" /\ ~fileErr[f]
  BY <1>1, <1>2 DEF OutcomeInv
<1>4. \A f \in Files : Cut \/ (plan[f].loads /\ Counted(f, Len(plan[f].tests)))
  BY <1>3 DEF VerdictInv, FileVerdict, Progress, Leaving
<1>5. exitCode = 1 <=> \E r \in Recorded : r.status = "fail"
  BY <1>1, <1>2 DEF Status
<1>6. exitCode = 0 => flags.passOnWarning \/ ~Warned
  BY <1>1, <1>2 DEF Status
<1> QED
  BY <1>4, <1>5, <1>6

\* Together: what is known of the verdict in every reachable state.
LEMMA VerdictAlways == Spec => [](TypeOK /\ VerdictInv /\ OutcomeInv)
<1>1. Init => TypeOK /\ TokenInv /\ MainInv /\ VerdictInv /\ OutcomeInv
  BY InitTypeOK, VerdictInit DEF Init, MainInv
<1>2. TypeOK /\ TokenInv /\ [Next]_vars => TypeOK' /\ TokenInv'
  BY TypeOKStep
<1>3. TypeOK /\ MainInv /\ [Next]_vars => MainInv'
  BY MainInvStep
<1>4. TypeOK /\ VerdictInv /\ [Next]_vars => VerdictInv'
  BY VerdictStep
<1>5. TypeOK /\ MainInv /\ OutcomeInv /\ [Next]_vars => OutcomeInv'
  BY OutcomeStep
<1> QED
  BY <1>1, <1>2, <1>3, <1>4, <1>5, PTL DEF Spec

\* Whatever way each test leaves runTest, a run that is not cut short gives
\* every test that --match lets through a result, and never two that differ
\* (apply.go:296-318).
THEOREM OneResultForEach == Spec => []OneResultPerTest
<1>1. ASSUME TypeOK, VerdictInv, OutcomeInv PROVE OneResultPerTest
  <2> SUFFICES ASSUME exitCode \in {0, 5} \/ (exitCode = 1 /\ ~flags.failFast),
                      NEW f \in Files, NEW k \in DOMAIN plan[f].tests
               PROVE  Cardinality(EntriesOf(f, k)) = (IF k \in Matched(f) THEN 1 ELSE 0)
    BY DEF OneResultPerTest, EntriesOf
  <2>1. ~Cut
    BY <1>1, VerdictReached DEF Cut, SuiteHasFailure, Recorded
  <2>2. Counted(f, Len(plan[f].tests))
    BY <1>1, <2>1, VerdictReached
  <2>3. k \in Nat /\ k <= Len(plan[f].tests)
    BY <1>1, TestsType
  <2>4. CASE k \in Matched(f)
    <3>1. PICK r : EntriesOf(f, k) = {r}
      BY <2>2, <2>3, <2>4 DEF Counted
    <3> QED
      BY <2>4, <3>1, FS_Singleton
  <2>5. CASE k \notin Matched(f)
    <3>1. EntriesOf(f, k) = {}
      BY <2>2, <2>3, <2>5 DEF Counted
    <3> QED
      BY <2>5, <3>1, FS_EmptySet
  <2> QED
    BY <2>4, <2>5
<1> QED
  BY <1>1, VerdictAlways, PTL

\* Exit code 0 stands for what it says: every file loaded, every test that ran
\* is a good one and some assertion read the cluster (test.go:135-163).
THEOREM GreenIsGood == Spec => []GreenMeansGood
<1>1. ASSUME TypeOK, VerdictInv, OutcomeInv PROVE GreenMeansGood
  <2> SUFFICES ASSUME exitCode = 0 PROVE GreenMeansGood
    BY DEF GreenMeansGood
  <2>1. \A r \in Recorded : r.status # "fail"
    BY <1>1, VerdictReached
  <2>2. ~Cut
    BY <2>1 DEF Cut, SuiteHasFailure, Recorded
  <2>3. \A f \in Files : plan[f].loads /\ Counted(f, Len(plan[f].tests))
    BY <1>1, <2>2, VerdictReached
  <2>4. ASSUME NEW f \in Files, NEW k \in DOMAIN plan[f].tests,
               plan[f].tests[k].kind \in {"helper", "rendered", "live", "rejects"}, ~plan[f].gated,
               plan[f].tests[k].kind = "rejects" => ~Faults /\ plan[f].tests[k].outside = {}
        PROVE  plan[f].tests[k].good
    <3>1. k \in Matched(f) /\ k <= Len(plan[f].tests)
      BY <1>1, <2>4, TestsType DEF Matched
    <3>2. PICK r : EntriesOf(f, k) = {r}
      BY <2>3, <3>1 DEF Counted
    <3>3. r \in results[f] /\ r.test = k
      BY <3>2 DEF EntriesOf
    <3>4. r.status \in {"pass", "fail", "skip"}
      BY <1>1, <3>3, TestsType DEF Result
    <3>5. Sound(f, r) /\ r.status # "fail"
      BY <1>1, <2>1, <3>3 DEF VerdictInv, FileVerdict, Recorded
    <3>6. r.status = "pass"
      BY <2>4, <3>3, <3>4, <3>5 DEF Sound
    <3> QED
      BY <2>2, <2>4, <3>3, <3>5, <3>6 DEF Sound
  <2>5. ASSUME ~flags.passOnWarning
        PROVE  \E f \in Files : \E k \in DOMAIN plan[f].tests : plan[f].tests[k].kind \in {"live", "rejects"}
    <3>1. PICK f \in Files : \E r \in results[f] : r.live
      BY <1>1, <2>5, VerdictReached DEF Warned, Executed, Recorded
    <3>2. PICK r \in results[f] : r.live
      BY <3>1
    <3>3. Sound(f, r)
      BY <1>1 DEF VerdictInv, FileVerdict
    <3> QED
      BY <3>2, <3>3 DEF Sound
  <2> QED
    BY <2>3, <2>4, <2>5 DEF GreenMeansGood
<1> QED
  BY <1>1, VerdictAlways, PTL

\* Exit code 1 has a culprit: where nothing fails on its own account and no chart
\* leaves objects behind, some test is bad by itself, and fail-fast alone never
\* turns a run red (apply.go:181-186).
THEOREM RedIsBad == Spec => []RedMeansBad
<1>1. ASSUME TypeOK, VerdictInv, OutcomeInv PROVE RedMeansBad
  <2> SUFFICES ASSUME exitCode = 1, Calm PROVE SomeBad
    BY DEF RedMeansBad, SomeBad, Calm
  <2>1. PICK f \in Files : \E r \in results[f] : r.status = "fail"
    BY <1>1, VerdictReached DEF Recorded
  <2> QED
    BY <1>1, <2>1 DEF VerdictInv, FileVerdict, Sound
<1> QED
  BY <1>1, VerdictAlways, PTL

-----------------------------------------------------------------------------
(* What a test stands on stays in place. *)

FilePremises(f) ==
    /\ Premises(f) \ Contended \subseteq live
    /\ stage[f] = "suiteDeps" => ClusterPlaces(f) \ Contended \subseteq live

PremiseInv == DefersInv /\ \A f \in Files : FilePremises(f)

\* A dep that two scopes want, of which one gives it up before the backend stops.
LEMMA TwoWants ==
  ASSUME NEW d \in Dep, NEW v \in Wants(d), NEW w \in Wants(d), v # w, w[2] # "clusterDeps"
  PROVE  <<Shared, d>> \in Contended
<1>1. IsFiniteSet(Scopes)
  <2>1. Scopes = {"clusterDeps"} \cup ({"suiteDeps"} \cup {"testDeps"})
    BY DEF Scopes
  <2> QED
    BY <2>1, FS_Singleton, FS_Union
<1>2. IsFiniteSet(Files \X Scopes)
  BY <1>1, FilesFinite, FS_Product
<1>3. IsFiniteSet(Wants(d))
  BY <1>2, FS_Subset DEF Wants
<1>4. Cardinality({v}) = 1 /\ IsFiniteSet({v})
  BY FS_Singleton
<1>5. Cardinality({v} \cup {w}) = 2
  <2>1. Cardinality({v} \cup {w}) = Cardinality({v}) + 1
    BY <1>4, FS_AddElement
  <2> QED
    BY <1>4, <2>1
<1>6. {v} \cup {w} \subseteq Wants(d)
  OBVIOUS
<1>7. Cardinality(Wants(d)) \in Nat /\ Cardinality({v} \cup {w}) <= Cardinality(Wants(d))
  BY <1>3, <1>6, FS_Subset, FS_CardinalityType
<1>8. Cardinality(Wants(d)) > 1
  BY <1>5, <1>7
<1> QED
  BY <1>8 DEF Contended

\* The namespaces of the tests at work differ, and none of them is shared.
LEMMA NsApart ==
  ASSUME TypeOK, NEW f \in Files
  PROVE  Ns(f) # Shared /\ \A g \in Files \ {f} : Ns(f) # Ns(g)
  BY FilesAssumption DEF Ns, Shared, Files

LEMMA PlanDeps ==
  ASSUME TypeOK, NEW f \in Files
  PROVE  /\ plan[f].clusterDeps \subseteq Dep /\ plan[f].suiteDeps \subseteq Dep
         /\ plan[f].testDeps \subseteq Dep
         /\ \A d \in plan[f].clusterDeps : <<f, "clusterDeps">> \in Wants(d)
         /\ \A d \in plan[f].suiteDeps : <<f, "suiteDeps">> \in Wants(d)
         /\ \A d \in plan[f].testDeps : <<f, "testDeps">> \in Wants(d)
<1>1. plan[f] \in PlanShape
  BY PlacesType
<1>2. /\ plan[f].clusterDeps \subseteq Dep /\ plan[f].suiteDeps \subseteq Dep
      /\ plan[f].testDeps \subseteq Dep
  BY <1>1 DEF PlanShape
<1>3. \A s \in Scopes : \A d : d \in plan[f][s] => <<f, s>> \in Wants(d)
  BY DEF Wants
<1> QED
  BY <1>2, <1>3 DEF Scopes

\* Who wants what stands in a shared place.
LEMMA SharedWants ==
  ASSUME TypeOK, NEW f \in Files
  PROVE  /\ \A r \in ClusterPlaces(f) : \E d \in Dep : r = <<Shared, d>> /\ <<f, "clusterDeps">> \in Wants(d)
         /\ \A r \in SuitePlaces(f) : \E d \in Dep : r = <<Shared, d>> /\ <<f, "suiteDeps">> \in Wants(d)
         /\ \A r \in TestPlaces(f) : r[1] = Shared =>
               \E d \in Dep : r = <<Shared, d>> /\ <<f, "testDeps">> \in Wants(d)
<1>1. ASSUME NEW r \in ClusterPlaces(f)
      PROVE  \E d \in Dep : r = <<Shared, d>> /\ <<f, "clusterDeps">> \in Wants(d)
  <2>1. PICK d \in plan[f].clusterDeps : r = <<Shared, d>>
    BY DEF ClusterPlaces
  <2> QED
    BY <2>1, PlanDeps
<1>2. ASSUME NEW r \in SuitePlaces(f)
      PROVE  \E d \in Dep : r = <<Shared, d>> /\ <<f, "suiteDeps">> \in Wants(d)
  <2>1. PICK d \in plan[f].suiteDeps : r = <<Shared, d>>
    BY DEF SuitePlaces
  <2> QED
    BY <2>1, PlanDeps
<1>3. ASSUME NEW r \in TestPlaces(f), r[1] = Shared
      PROVE  \E d \in Dep : r = <<Shared, d>> /\ <<f, "testDeps">> \in Wants(d)
  <2>1. PICK d \in plan[f].testDeps : r = <<IF d \in PinnedDeps THEN Shared ELSE Ns(f), d>>
    BY DEF TestPlaces
  <2>2. r = <<Shared, d>>
    BY <1>3, <2>1
  <2> QED
    BY <2>2, PlanDeps
<1> QED
  BY <1>1, <1>2, <1>3

\* What the clean-ups of a file remove is another file's premise only where it is contended.
LEMMA OthersUntouched ==
  ASSUME TypeOK, NEW f \in Files, NEW g \in Files \ {f},
         NEW r \in ClusterPlaces(g) \cup SuitePlaces(g) \cup TestPlaces(g) \cup {<<Ns(g), NsObject>>},
         r \in SuitePlaces(f) \cup TestPlaces(f) \cup Contents(Ns(f))
  PROVE  r \in Contended
<1>1. /\ Ns(f) # Ns(g) /\ Ns(f) # Shared /\ Ns(g) # Shared
  BY NsApart
<1>2. r[1] \in {Shared, Ns(g)}
  BY DEF ClusterPlaces, SuitePlaces, TestPlaces
<1>3. r[1] \in {Shared, Ns(f)}
  BY DEF SuitePlaces, TestPlaces, Contents
<1>4. r[1] = Shared
  BY <1>1, <1>2, <1>3
<1>5. PICK d \in Dep, s \in Scopes : r = <<Shared, d>> /\ <<g, s>> \in Wants(d)
  <2>1. CASE r \in ClusterPlaces(g)
    BY <2>1, SharedWants DEF Scopes
  <2>2. CASE r \in SuitePlaces(g)
    BY <2>2, SharedWants DEF Scopes
  <2>3. CASE r \in TestPlaces(g)
    BY <1>4, <2>3, SharedWants DEF Scopes
  <2>4. r # <<Ns(g), NsObject>>
    BY <1>1, <1>4
  <2> QED
    BY <2>1, <2>2, <2>3, <2>4
<1>6. PICK t \in {"suiteDeps", "testDeps"} : <<f, t>> \in Wants(d)
  <2>1. CASE r \in SuitePlaces(f)
    BY <1>5, <2>1, SharedWants
  <2>2. CASE r \in TestPlaces(f)
    <3>1. PICK e \in Dep : r = <<Shared, e>> /\ <<f, "testDeps">> \in Wants(e)
      BY <1>4, <2>2, SharedWants
    <3>2. e = d
      BY <1>5, <3>1
    <3> QED
      BY <3>1, <3>2
  <2>3. r \notin Contents(Ns(f))
    BY <1>1, <1>4 DEF Contents
  <2> QED
    BY <2>1, <2>2, <2>3
<1>7. <<g, s>> # <<f, t>> /\ <<f, t>>[2] # "clusterDeps"
  OBVIOUS
<1> QED
  BY <1>5, <1>6, <1>7, TwoWants

\* A file's own test scope, too.
LEMMA OwnUntouched ==
  ASSUME TypeOK, NEW f \in Files
  PROVE  /\ \A r \in TestPlaces(f) \cap (ClusterPlaces(f) \cup SuitePlaces(f)) : r \in Contended
         /\ <<Ns(f), NsObject>> \notin TestPlaces(f)
         /\ Contents(Ns(f)) \cap (ClusterPlaces(f) \cup SuitePlaces(f)) = {}
<1>1. Ns(f) # Shared
  BY NsApart
<1>2. ASSUME NEW r \in TestPlaces(f) \cap (ClusterPlaces(f) \cup SuitePlaces(f))
      PROVE  r \in Contended
  <2>1. PICK d \in Dep, s \in {"clusterDeps", "suiteDeps"} : r = <<Shared, d>> /\ <<f, s>> \in Wants(d)
    <3>1. CASE r \in ClusterPlaces(f)
      BY <3>1, SharedWants
    <3>2. CASE r \in SuitePlaces(f)
      BY <3>2, SharedWants
    <3> QED
      BY <3>1, <3>2
  <2>2. <<f, "testDeps">> \in Wants(d)
    BY <2>1, SharedWants
  <2>3. <<f, s>> # <<f, "testDeps">> /\ <<f, "testDeps">>[2] # "clusterDeps"
    OBVIOUS
  <2> QED
    BY <2>1, <2>2, <2>3, TwoWants
<1>3. <<Ns(f), NsObject>> \notin TestPlaces(f)
  BY PlanDeps, DepAssumption DEF TestPlaces
<1>4. Contents(Ns(f)) \cap (ClusterPlaces(f) \cup SuitePlaces(f)) = {}
  BY <1>1 DEF Contents, ClusterPlaces, SuitePlaces
<1> QED
  BY <1>2, <1>3, <1>4

LEMMA RemoveSpares ==
  ASSUME NEW targets, NEW leavable, Remove(targets, leavable)
  PROVE  live \ targets \subseteq live'
<1>1. CASE flags.keepCluster
  BY <1>1 DEF Remove, NoRemoval, worldVars
<1>2. CASE ~flags.keepCluster
  BY <1>2 DEF Remove, NoRemoval
<1> QED
  BY <1>1, <1>2

\* Only a deferred call takes anything away, and only these.
LEMMA LiveKept ==
  ASSUME TypeOK, NEW f \in Files, FileStep(f)
  PROVE  /\ ~RunDeferred(f) => live \subseteq live'
         /\ live \ (SuitePlaces(f) \cup TestPlaces(f) \cup Contents(Ns(f))) \subseteq live'
<1>1. CASE RunDeferred(f)
  BY <1>1, RemoveSpares DEF RunDeferred, worldVars
<1>2. CASE ~RunDeferred(f)
  BY <1>2 DEF FileStep, Acquire, Gate, Load, InstallClusterDeps, InstallSuiteDeps, BeforeAll,
         NextTest, EndTests, CreateNamespace, InstallTestDeps, Setup, InstallChart,
         Assert, EndTest, EndFile, Report, Installed, NotInstalled, worldVars
<1> QED
  BY <1>1, <1>2

LEMMA OthersPremises ==
  ASSUME TypeOK, PremiseInv, NEW f \in Files, FileStep(f), NEW g \in Files \ {f}
  PROVE  FilePremises(g)'
<1>1. /\ stage'[g] = stage[g] /\ cursor'[g] = cursor[g] /\ UNCHANGED plan
  BY OthersSame DEF FileStep
<1>2. defers'[g] = defers[g]
  BY DEF FileStep, Acquire, Gate, Load, InstallClusterDeps, InstallSuiteDeps, BeforeAll,
         NextTest, EndTests, CreateNamespace, InstallTestDeps, Setup, InstallChart,
         Assert, FailTest, RunDeferred, EndTest, EndFile, Report, Defer, TypeOK
<1>3. /\ Contended' = Contended /\ ClusterPlaces(g)' = ClusterPlaces(g)
      /\ Premises(g)' = Premises(g)
  BY <1>1, <1>2 DEF Contended, Wants, ClusterPlaces, SuitePlaces, TestPlaces, Premises, Ns
<1>4. Premises(g) \subseteq ClusterPlaces(g) \cup SuitePlaces(g) \cup TestPlaces(g) \cup {<<Ns(g), NsObject>>}
  BY DEF Premises
<1>5. FilePremises(g)
  BY DEF PremiseInv
<1>6. live \ (SuitePlaces(f) \cup TestPlaces(f) \cup Contents(Ns(f))) \subseteq live'
  BY LiveKept
<1>7. \A r \in Premises(g) \cup ClusterPlaces(g) :
         r \in SuitePlaces(f) \cup TestPlaces(f) \cup Contents(Ns(f)) => r \in Contended
  BY <1>4, OthersUntouched
<1> QED
  BY <1>1, <1>3, <1>5, <1>6, <1>7 DEF FilePremises

\* The file's own premises: each set-up step adds what it has just put in place.
LEMMA OwnPremises ==
  ASSUME TypeOK, PremiseInv, NEW f \in Files, FileStep(f)
  PROVE  FilePremises(f)'
<1>1. FilePremises(f) /\ StageDefers(f) /\ UNCHANGED plan
  BY DEF PremiseInv, DefersInv, FileStep
<1>2. /\ Contended' = Contended /\ ClusterPlaces(f)' = ClusterPlaces(f)
      /\ SuitePlaces(f)' = SuitePlaces(f)
  BY <1>1 DEF Contended, Wants, ClusterPlaces, SuitePlaces
<1>3. cursor'[f] = cursor[f] => TestPlaces(f)' = TestPlaces(f) /\ Ns(f)' = Ns(f)
  BY <1>1 DEF TestPlaces, Ns
<1>4. CASE /\ Acquire(f) \/ Gate(f) \/ Load(f) \/ EndTests(f) \/ Assert(f)
              \/ EndTest(f) \/ EndFile(f) \/ Report(f)
  <2>1. live' = live /\ defers' = defers /\ cursor' = cursor /\ stage'[f] # "suiteDeps"
    BY <1>4, GoesTo DEF Acquire, Gate, AfterGate, Load, EndTests, Assert,
                        EndTest, EndFile, Report, worldVars
  <2>2. Premises(f)' = Premises(f)
    BY <1>2, <1>3, <2>1 DEF Premises
  <2> QED
    BY <1>1, <1>2, <2>1, <2>2 DEF FilePremises
<1>12. CASE InstallChart(f)
  <2>1. live \subseteq live' /\ defers' = defers /\ cursor' = cursor /\ stage'[f] # "suiteDeps"
    BY <1>12, GoesTo DEF InstallChart
  <2>2. Premises(f)' = Premises(f)
    BY <1>2, <1>3, <2>1 DEF Premises
  <2> QED
    BY <1>1, <1>2, <2>1, <2>2 DEF FilePremises
<1>5. CASE NextTest(f)
  <2>1. live' = live /\ defers' = defers /\ defers[f] = 2 /\ stage'[f] # "suiteDeps"
    BY <1>1, <1>5, GoesTo DEF NextTest, StageDefers, worldVars
  <2>2. Premises(f)' = Premises(f)
    BY <1>2, <2>1 DEF Premises
  <2> QED
    BY <1>1, <1>2, <2>1, <2>2 DEF FilePremises
<1>6. CASE InstallClusterDeps(f)
  <2>1. defers'[f] = 0 /\ (stage'[f] = "suiteDeps" => ClusterPlaces(f) \subseteq live')
    BY <1>1, <1>6, GoesTo DEF InstallClusterDeps, StageDefers, Installed, MissingClusterDeps, Cached
  <2>2. Premises(f)' = {}
    BY <2>1 DEF Premises
  <2> QED
    BY <1>2, <2>1, <2>2 DEF FilePremises
<1>7. CASE InstallSuiteDeps(f)
  <2>1. ClusterPlaces(f) \ Contended \subseteq live /\ stage[f] = "suiteDeps" /\ defers[f] = 0
    BY <1>1, <1>7 DEF InstallSuiteDeps, FilePremises, StageDefers
  <2>2. stage'[f] \in {"beforeAll", "fileExit"}
    BY <1>7, GoesTo DEF InstallSuiteDeps
  <2>3. \/ defers'[f] = 0
        \/ defers'[f] = 1 /\ live \subseteq live' /\ SuitePlaces(f) \subseteq live'
    BY <1>7, <2>1 DEF InstallSuiteDeps, Installed, Defer, TypeOK
  <2>4. Premises(f)' \subseteq IF defers'[f] = 0 THEN {} ELSE ClusterPlaces(f) \cup SuitePlaces(f)
    BY <1>2, <2>3 DEF Premises
  <2> QED
    BY <1>2, <2>1, <2>2, <2>3, <2>4 DEF FilePremises
<1>8. CASE BeforeAll(f) \/ Setup(f)
  <2>1. live' = live /\ cursor' = cursor /\ stage'[f] # "suiteDeps"
    BY <1>8, GoesTo DEF BeforeAll, Setup, FailTest, worldVars
  <2>2. \/ defers[f] = 1 /\ defers'[f] \in {1, 2}
        \/ defers[f] = 4 /\ defers'[f] \in {4, 5}
    BY <1>1, <1>8 DEF BeforeAll, Setup, StageDefers, Defer, TypeOK
  <2>3. Premises(f)' = Premises(f)
    BY <1>2, <1>3, <2>1, <2>2 DEF Premises
  <2> QED
    BY <1>1, <1>2, <2>1, <2>3 DEF FilePremises
<1>9. CASE CreateNamespace(f)
  <2>1. cursor' = cursor /\ stage'[f] # "suiteDeps" /\ live \subseteq live' /\ defers[f] = 2
    BY <1>1, <1>9, GoesTo DEF CreateNamespace, FailTest, StageDefers
  <2>2. \/ defers'[f] = 2
        \/ defers'[f] = 3 /\ <<Ns(f), NsObject>> \in live'
    BY <1>9, <2>1 DEF CreateNamespace, Defer, TypeOK
  <2>3. Premises(f)' \subseteq Premises(f) \cup (IF defers'[f] = 3 THEN {<<Ns(f), NsObject>>} ELSE {})
    BY <1>2, <1>3, <2>1, <2>2 DEF Premises
  <2> QED
    BY <1>1, <1>2, <2>1, <2>2, <2>3 DEF FilePremises
<1>10. CASE InstallTestDeps(f)
  <2>1. cursor' = cursor /\ stage'[f] # "suiteDeps" /\ live \subseteq live' /\ defers[f] = 3
    BY <1>1, <1>10, GoesTo DEF InstallTestDeps, FailTest, StageDefers, Installed, NotInstalled
  <2>2. \/ defers'[f] = 3
        \/ defers'[f] = 4 /\ TestPlaces(f) \subseteq live'
    BY <1>10, <2>1 DEF InstallTestDeps, Installed, Defer, TypeOK
  <2>3. Premises(f)' \subseteq Premises(f) \cup (IF defers'[f] = 4 THEN TestPlaces(f) ELSE {})
    BY <1>2, <1>3, <2>1, <2>2 DEF Premises
  <2> QED
    BY <1>1, <1>2, <2>1, <2>2, <2>3 DEF FilePremises
<1>11. CASE RunDeferred(f)
  <2>1. /\ cursor' = cursor /\ stage'[f] # "suiteDeps" /\ defers[f] \in 1..5
        /\ defers'[f] = defers[f] - 1
    BY <1>11 DEF RunDeferred, Defer, FileDefers, TypeOK
  <2>2. /\ TestPlaces(f)' = TestPlaces(f) /\ <<Ns(f), NsObject>>' = <<Ns(f), NsObject>>
    BY <1>3, <2>1
  <2>3. CASE defers[f] = 1
    <3>1. Premises(f)' = {}
      BY <2>1, <2>3 DEF Premises
    <3> QED
      BY <2>1, <3>1 DEF FilePremises
  <2>4. CASE defers[f] \in {2, 5}
    <3>1. live' = live
      BY <1>11, <2>4 DEF RunDeferred, Cleanup, worldVars
    <3>2. Premises(f)' \subseteq Premises(f)
      BY <1>2, <2>1, <2>2, <2>4 DEF Premises
    <3> QED
      BY <1>1, <1>2, <2>1, <3>1, <3>2 DEF FilePremises
  <2>5. CASE defers[f] = 3
    <3>1. live \ Contents(Ns(f)) \subseteq live'
      BY <1>11, <2>5, RemoveSpares DEF RunDeferred, Cleanup
    <3>2. Premises(f)' = ClusterPlaces(f) \cup SuitePlaces(f) /\ Premises(f)' \subseteq Premises(f)
      BY <1>2, <2>1, <2>5 DEF Premises
    <3>3. Contents(Ns(f)) \cap (ClusterPlaces(f) \cup SuitePlaces(f)) = {}
      BY OwnUntouched
    <3> QED
      BY <1>1, <1>2, <2>1, <3>1, <3>2, <3>3 DEF FilePremises
  <2>6. CASE defers[f] = 4
    <3>1. live \ TestPlaces(f) \subseteq live'
      BY <1>11, <2>6, RemoveSpares DEF RunDeferred, Cleanup
    <3>2. /\ Premises(f)' = ClusterPlaces(f) \cup SuitePlaces(f) \cup {<<Ns(f), NsObject>>}
          /\ Premises(f)' \subseteq Premises(f)
      BY <1>2, <2>1, <2>2, <2>6 DEF Premises
    <3>3. \A r \in Premises(f)' : r \in TestPlaces(f) => r \in Contended
      BY <3>2, OwnUntouched
    <3> QED
      BY <1>1, <1>2, <2>1, <3>1, <3>2, <3>3 DEF FilePremises
  <2> QED
    BY <2>1, <2>3, <2>4, <2>5, <2>6
<1> QED
  BY <1>4, <1>5, <1>6, <1>7, <1>8, <1>9, <1>10, <1>11, <1>12 DEF FileStep

LEMMA PremiseStep ==
  ASSUME TypeOK, PremiseInv, [Next]_vars
  PROVE  PremiseInv'
<1>1. DefersInv'
  BY DefersStep DEF PremiseInv
<1>2. CASE \E f \in Files : FileStep(f)
  BY <1>1, <1>2, OthersPremises, OwnPremises DEF PremiseInv
<1>3. CASE MainStep \/ Interrupt \/ UNCHANGED vars
  <2>1. UNCHANGED <<plan, fileVars, worldVars>>
    BY <1>3 DEF MainStep, RefuseStart, StartBackend, Join, StopBackend, Exit, Interrupt, vars
  <2>2. ASSUME NEW f \in Files PROVE FilePremises(f)'
    <3>1. UNCHANGED <<plan, live, stage, defers, cursor>>
      BY <2>1 DEF fileVars, worldVars
    <3>2. \A d : Wants(d)' = Wants(d)
      BY <3>1 DEF Wants
    <3>3. Contended' = Contended
      BY <3>2 DEF Contended
    <3>4. /\ ClusterPlaces(f)' = ClusterPlaces(f) /\ SuitePlaces(f)' = SuitePlaces(f)
          /\ TestPlaces(f)' = TestPlaces(f) /\ Ns(f)' = Ns(f)
      BY <3>1 DEF ClusterPlaces, SuitePlaces, TestPlaces, Ns
    <3>5. Premises(f)' = Premises(f)
      BY <3>1, <3>4 DEF Premises
    <3> QED
      BY <3>1, <3>3, <3>4, <3>5 DEF PremiseInv, FilePremises
  <2> QED
    BY <1>1, <2>2 DEF PremiseInv
<1> QED
  BY <1>2, <1>3 DEF Next, Terminated

\* Nothing a test or a pending clean-up counts on is removed before its turn, by
\* whatever file and on whatever way out, except from a place that two scopes or
\* two files share (apply.go:266-291, 358-401).
THEOREM PremisesStay == Spec => []PremisesHold
<1>1. Init => TypeOK /\ TokenInv
  BY InitTypeOK
<1>2. Init => PremiseInv
  BY DEF Init, PremiseInv, DefersInv, StageDefers, FilePremises, Premises
<1>3. TypeOK /\ TokenInv /\ [Next]_vars => TypeOK' /\ TokenInv'
  BY TypeOKStep
<1>4. TypeOK /\ PremiseInv /\ [Next]_vars => PremiseInv'
  BY PremiseStep
<1>5. PremiseInv => PremisesHold
  BY DEF PremiseInv, FilePremises, PremisesHold
<1> QED
  BY <1>1, <1>2, <1>3, <1>4, <1>5, PTL DEF Spec
=============================================================================
