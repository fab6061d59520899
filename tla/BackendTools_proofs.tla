------------------------ MODULE BackendTools_proofs ------------------------
(***************************************************************************)
(* Proofs about ClusterBackend, for any set of backend types, any number   *)
(* of pings before waitAPIStable gives up, with or without faults; about   *)
(* ToolDownload, for any number of processes, pieces and crashes, with or  *)
(* without a network that fails; and that what is proved of the two holds  *)
(* of them together.                                                       *)
(***************************************************************************)
EXTENDS BackendTools, FiniteSetTheorems, TLAPS

-----------------------------------------------------------------------------
(* The backend. *)

\* TypeOK in two parts: the Boolean variables, and the rest.
BoolOK ==
    /\ keep \in BOOLEAN /\ started \in BOOLEAN /\ path \in BOOLEAN /\ handle \in BOOLEAN
    /\ dir \in BOOLEAN /\ cluster \in BOOLEAN /\ failedCmd \in BOOLEAN
DataOK ==
    /\ type \in Types /\ (started => path)
    /\ pc \in {"resolve", "mkdir", "create", "kubeconfig", "config", "settle", "ping",
               "rollback", "running", "stop", "failed", "over"}
    /\ api \in {"off", "fresh", "blip", "reset", "up"}
    /\ streak \in 0..StableAfter /\ pings \in 0..MaxPings

LEMMA TypeParts == TypeOK <=> BoolOK /\ DataOK
  BY DEF TypeOK, BoolOK, DataOK

\* Until a create command has succeeded there is nothing of the run's own in
\* the world but, for kind and k3d, the directory that MakeDir has just made.
NothingYet ==
    /\ pc \in {"resolve", "mkdir", "create"} =>
          ~started /\ ~handle /\ (type \in Owning => ~cluster)
    /\ pc \in {"resolve", "mkdir"} \/ type \notin CLI => ~dir
    /\ pc = "create" => type \in Owning /\ (type \in CLI => dir /\ path)
    /\ pc = "mkdir" => type \in CLI
    /\ pc = "ping" => type = "kubeconfig"
    /\ type = "kubeconfig" => cluster /\ api = "up"

\* Between creation and the end of Start everything that a roll-back removes is
\* there, and started says so.
Made ==
    /\ pc \in {"kubeconfig", "config", "settle", "rollback"} =>
          type \in CLI /\ started /\ path /\ dir /\ cluster
    /\ pc \in {"kubeconfig", "settle"} => type = "k3d"
    /\ pc = "config" /\ type = "kind" => api = "up"

\* A streak survives from one ping to the next only if no reset lies between.
StreakTells ==
    /\ pc \in {"resolve", "mkdir", "create", "kubeconfig", "config"} => streak = 0
    /\ pc = "settle" => streak < StableAfter /\ (api \in {"fresh", "blip"} => streak = 0)

Running ==
    pc \in {"running", "stop"} =>
        handle /\ cluster /\ api = "up" /\ (type \in CLI => started /\ dir /\ path)

IInv == /\ TypeOK /\ NothingYet /\ Made /\ StreakTells /\ Running
        /\ NothingLeftBehind /\ KeptClusterIsWhole

\* What stopLocked does with a started backend.
LEMMA StopLockedEffect ==
  ASSUME TypeOK, started, StopLocked
  PROVE  \/ /\ ~cluster' /\ api' = "off" /\ ~dir'
            /\ ~started' /\ ~path' /\ ~handle' /\ failedCmd' = failedCmd
         \/ failedCmd' /\ UNCHANGED <<objVars, worldVars>>
  BY DEF TypeOK, StopLocked, Reset, objVars, worldVars

LEMMA StopLockedTyped ==
  ASSUME TypeOK, started, StopLocked
  PROVE  /\ started' \in BOOLEAN /\ path' \in BOOLEAN /\ handle' \in BOOLEAN
         /\ dir' \in BOOLEAN /\ cluster' \in BOOLEAN /\ failedCmd' \in BOOLEAN
         /\ (started' => path') /\ api' \in {"off", "fresh", "blip", "reset", "up"}
<1>1. CASE ~failedCmd' \/ ~cluster'
  BY <1>1 DEF StopLocked, Reset, TypeOK, objVars, worldVars
<1>2. CASE UNCHANGED <<objVars, worldVars>>
  BY <1>2 DEF StopLocked, Reset, TypeOK, objVars, worldVars
<1> QED
  BY <1>1, <1>2 DEF StopLocked

LEMMA InitIInv == Init => IInv
<1> SUFFICES ASSUME Init PROVE IInv
  OBVIOUS
<1>1. TypeOK
  <2>1. BoolOK
    BY DEF Init, BoolOK
  <2>2. DataOK
    BY TypesAssumption, PingsAssumption DEF Init, DataOK, Owning, StableAfter
  <2> QED
    BY <2>1, <2>2, TypeParts
<1>2. NothingYet
  BY DEF Init, NothingYet, Owning, CLI
<1>3. Made /\ Running /\ NothingLeftBehind /\ KeptClusterIsWhole
  BY DEF Init, Made, Running, NothingLeftBehind, KeptClusterIsWhole
<1>4. StreakTells
  BY DEF Init, StreakTells
<1> QED
  BY <1>1, <1>2, <1>3, <1>4 DEF IInv

LEMMA NextIInv == IInv /\ [Next]_vars => IInv'
<1> SUFFICES ASSUME IInv, [Next]_vars PROVE IInv'
  OBVIOUS
<1> USE DEF Owning, CLI, StableAfter, Fail, flagVars, objVars, worldVars, waitVars
<1>1. CASE Resolve
  BY <1>1 DEF Resolve, IInv, TypeOK, NothingYet, Made, StreakTells,
     Running, NothingLeftBehind, KeptClusterIsWhole
<1>2. CASE MakeDir
  <2>1. TypeOK'
    <3>1. BoolOK'
      BY <1>2, TypeParts DEF MakeDir, IInv, BoolOK
    <3>2. DataOK'
      BY <1>2, TypeParts DEF MakeDir, IInv, DataOK, NothingYet, Made, StreakTells
    <3> QED
      BY <3>1, <3>2 DEF TypeOK, BoolOK, DataOK
  <2>2. NothingYet'
    BY <1>2 DEF MakeDir, IInv, TypeOK, NothingYet, Made, Running
  <2>3. Made'
    BY <1>2 DEF MakeDir, IInv, TypeOK, NothingYet, Made
  <2>4. StreakTells'
    BY <1>2 DEF MakeDir, IInv, TypeOK, StreakTells
  <2>5. Running'
    BY <1>2 DEF MakeDir, IInv, TypeOK, NothingYet, Made, StreakTells, Running
  <2>6. NothingLeftBehind' /\ KeptClusterIsWhole'
    BY <1>2 DEF MakeDir, IInv, TypeOK, NothingYet, Made, Running,
            NothingLeftBehind, KeptClusterIsWhole
  <2> QED
    BY <2>1, <2>2, <2>3, <2>4, <2>5, <2>6 DEF IInv
<1>3. CASE Create
  <2>1. TypeOK'
    <3>1. keep' \in BOOLEAN /\ path' \in BOOLEAN
      BY <1>3, TypeParts DEF Create, IInv, BoolOK
    <3>2. started' \in BOOLEAN
      <4>1. started' = StartedAfterCreate \/ started' = started
        BY <1>3 DEF Create
      <4>2. started \in BOOLEAN
        BY TypeParts DEF IInv, BoolOK
      <4>3. CASE started' = started
        BY <4>2, <4>3
      <4>4. CASE started' = StartedAfterCreate
        <5>1. CASE type \in CLI
          BY <4>4, <5>1 DEF StartedAfterCreate
        <5>2. CASE type \notin CLI
          BY <4>4, <5>2 DEF StartedAfterCreate
        <5> QED
          BY <5>1, <5>2
      <4> QED
        BY <4>1, <4>3, <4>4
    <3>3. handle' \in BOOLEAN
      <4>1. handle' = (type = "envtest") \/ handle' = handle
        BY <1>3 DEF Create
      <4>2. handle \in BOOLEAN
        BY TypeParts DEF IInv, BoolOK
      <4> QED
        BY <4>1, <4>2
    <3>4. dir' \in BOOLEAN /\ cluster' \in BOOLEAN /\ failedCmd' \in BOOLEAN
      BY <1>3, TypeParts DEF Create, IInv, BoolOK
    <3>5. started' => path'
      BY <1>3, TypeParts DEF Create, IInv, NothingYet, StartedAfterCreate
    <3>6. /\ type' \in Types /\ api' \in {"off", "fresh", "blip", "reset", "up"}
          /\ streak' \in 0..StableAfter /\ pings' \in 0..MaxPings
      BY <1>3, TypeParts DEF Create, IInv, DataOK
    <3>7. pc' \in {"kubeconfig", "config", "running", "failed"}
      BY <1>3 DEF Create, AfterCreate
    <3> QED
      BY <3>1, <3>2, <3>3, <3>4, <3>5, <3>6, <3>7 DEF TypeOK
  <2>2. NothingYet'
    BY <1>3 DEF Create, AfterCreate, StartedAfterCreate, IInv, TypeOK, NothingYet, Made, Running
  <2>3. Made'
    BY <1>3 DEF Create, AfterCreate, StartedAfterCreate, IInv, TypeOK, NothingYet, Made
  <2>4. StreakTells'
    BY <1>3 DEF Create, AfterCreate, StartedAfterCreate, IInv, TypeOK, StreakTells
  <2>5. Running'
    BY <1>3 DEF Create, AfterCreate, StartedAfterCreate, IInv, TypeOK, NothingYet, Made, StreakTells, Running
  <2>6. NothingLeftBehind' /\ KeptClusterIsWhole'
    BY <1>3 DEF Create, AfterCreate, StartedAfterCreate, IInv, TypeOK, NothingYet, Made, Running,
            NothingLeftBehind, KeptClusterIsWhole
  <2> QED
    BY <2>1, <2>2, <2>3, <2>4, <2>5, <2>6 DEF IInv
<1>4. CASE WriteKubeconfig
  BY <1>4 DEF WriteKubeconfig, IInv, TypeOK, NothingYet, Made, StreakTells,
     Running, NothingLeftBehind, KeptClusterIsWhole
<1>5. CASE BuildConfig
  <2>1. TypeOK'
    <3>1. BoolOK'
      BY <1>5, TypeParts DEF BuildConfig, IInv, BoolOK
    <3>2. DataOK'
      BY <1>5, TypeParts DEF BuildConfig, IInv, DataOK, NothingYet, Made, StreakTells
    <3> QED
      BY <3>1, <3>2 DEF TypeOK, BoolOK, DataOK
  <2>2. NothingYet'
    BY <1>5 DEF BuildConfig, IInv, TypeOK, NothingYet, Made, Running
  <2>3. Made'
    BY <1>5 DEF BuildConfig, IInv, TypeOK, NothingYet, Made
  <2>4. StreakTells'
    BY <1>5 DEF BuildConfig, IInv, TypeOK, StreakTells
  <2>5. Running'
    BY <1>5 DEF BuildConfig, IInv, TypeOK, NothingYet, Made, StreakTells, Running
  <2>6. NothingLeftBehind' /\ KeptClusterIsWhole'
    BY <1>5 DEF BuildConfig, IInv, TypeOK, NothingYet, Made, Running,
            NothingLeftBehind, KeptClusterIsWhole
  <2> QED
    BY <2>1, <2>2, <2>3, <2>4, <2>5, <2>6 DEF IInv
<1>6. CASE Settle
  BY <1>6 DEF Settle, IInv, TypeOK, NothingYet, Made, StreakTells,
     Running, NothingLeftBehind, KeptClusterIsWhole
<1>7. CASE Ping
  <2>1. TypeOK'
    <3>1. BoolOK'
      BY <1>7, PingsAssumption, TypeParts DEF Ping, IInv, BoolOK
    <3>2. DataOK'
      BY <1>7, PingsAssumption, TypeParts DEF Ping, IInv, DataOK, NothingYet, Made, StreakTells
    <3> QED
      BY <3>1, <3>2 DEF TypeOK, BoolOK, DataOK
  <2>2. NothingYet'
    BY <1>7, PingsAssumption DEF Ping, IInv, TypeOK, NothingYet, Made, Running
  <2>3. Made'
    BY <1>7, PingsAssumption DEF Ping, IInv, TypeOK, NothingYet, Made
  <2>4. StreakTells'
    BY <1>7, PingsAssumption DEF Ping, IInv, TypeOK, StreakTells
  <2>5. Running'
    BY <1>7, PingsAssumption DEF Ping, IInv, TypeOK, NothingYet, Made, StreakTells, Running
  <2>6. NothingLeftBehind' /\ KeptClusterIsWhole'
    BY <1>7, PingsAssumption DEF Ping, IInv, TypeOK, NothingYet, Made, Running,
            NothingLeftBehind, KeptClusterIsWhole
  <2> QED
    BY <2>1, <2>2, <2>3, <2>4, <2>5, <2>6 DEF IInv
<1>8. CASE GiveUp
  BY <1>8 DEF GiveUp, IInv, TypeOK, NothingYet, Made, StreakTells,
     Running, NothingLeftBehind, KeptClusterIsWhole
<1>9. CASE PingExternal
  BY <1>9 DEF PingExternal, IInv, TypeOK, NothingYet, Made, StreakTells,
     Running, NothingLeftBehind, KeptClusterIsWhole
<1>10. CASE RollBack
  <2>1. TypeOK'
    <3>1. started /\ TypeOK
      BY <1>10 DEF RollBack, IInv, Made
    <3>2. /\ keep' = keep /\ type' = type /\ streak' = streak /\ pings' = pings
          /\ pc' = "failed"
      BY <1>10 DEF RollBack
    <3> QED
      BY <1>10, <3>1, <3>2, StopLockedTyped DEF RollBack, TypeOK
  <2>2. NothingYet'
    BY <1>10, StopLockedEffect DEF RollBack, IInv, TypeOK, NothingYet, Made, Running
  <2>3. Made'
    BY <1>10, StopLockedEffect DEF RollBack, IInv, TypeOK, NothingYet, Made
  <2>4. StreakTells'
    BY <1>10, StopLockedEffect DEF RollBack, IInv, TypeOK, StreakTells
  <2>5. Running'
    BY <1>10, StopLockedEffect DEF RollBack, IInv, TypeOK, NothingYet, Made, StreakTells, Running
  <2>6. NothingLeftBehind' /\ KeptClusterIsWhole'
    BY <1>10, StopLockedEffect DEF RollBack, IInv, TypeOK, NothingYet, Made, Running,
            NothingLeftBehind, KeptClusterIsWhole
  <2> QED
    BY <2>1, <2>2, <2>3, <2>4, <2>5, <2>6 DEF IInv
<1>11. CASE Finish
  BY <1>11 DEF Finish, IInv, TypeOK, NothingYet, Made, StreakTells,
     Running, NothingLeftBehind, KeptClusterIsWhole
<1>12. CASE Stop
  <2> USE <1>12
  <2>1. /\ TypeOK /\ keep' = keep /\ type' = type /\ streak' = streak /\ pings' = pings
        /\ pc' = "over" /\ pc = "stop" /\ handle /\ cluster /\ api = "up"
        /\ (type \in CLI => started /\ dir /\ path) /\ (type \notin CLI => ~dir)
    BY DEF Stop, IInv, Running, NothingYet
  <2>2. CASE keep
    <3>1. UNCHANGED <<objVars, worldVars, failedCmd>>
      BY <2>2 DEF Stop, Kept
    <3>2. TypeOK'
      BY <2>1, <3>1 DEF TypeOK
    <3> QED
      BY <2>1, <2>2, <3>1, <3>2 DEF IInv, NothingYet, Made, StreakTells, Running,
         NothingLeftBehind, KeptClusterIsWhole
  <2>3. CASE ~keep /\ type \in CLI
    <3>1. StopLocked /\ started
      BY <2>1, <2>3 DEF Stop, Kept
    <3>2. TypeOK'
      BY <2>1, <3>1, StopLockedTyped DEF TypeOK
    <3>3. (~cluster' /\ ~dir') \/ failedCmd'
      BY <2>1, <3>1, StopLockedEffect
    <3> QED
      BY <2>1, <2>3, <3>2, <3>3 DEF IInv, NothingYet, Made, StreakTells, Running,
         NothingLeftBehind, KeptClusterIsWhole
  <2>4. CASE ~keep /\ type = "kubeconfig"
    <3>1. UNCHANGED <<objVars, worldVars, failedCmd>>
      BY <2>1, <2>4 DEF Stop, Kept
    <3>2. TypeOK'
      BY <2>1, <3>1 DEF TypeOK
    <3> QED
      BY <2>1, <2>4, <3>1, <3>2 DEF IInv, NothingYet, Made, StreakTells, Running,
         NothingLeftBehind, KeptClusterIsWhole
  <2>5. CASE ~keep /\ type = "envtest"
    <3>1. /\ UNCHANGED <<objVars, dir>>
          /\ \/ cluster' = FALSE /\ api' = "off" /\ failedCmd' = failedCmd
             \/ failedCmd' = TRUE /\ cluster' = cluster /\ api' = api
      BY <2>1, <2>5 DEF Stop, Kept
    <3>2. TypeOK'
      <4>1. cluster' \in BOOLEAN /\ failedCmd' \in BOOLEAN
        BY <2>1, <3>1 DEF TypeOK
      <4> QED
        BY <2>1, <3>1, <4>1 DEF TypeOK
    <3>3. ~dir' /\ (~cluster' \/ failedCmd')
      BY <2>1, <2>5, <3>1
    <3> QED
      BY <2>1, <2>5, <3>2, <3>3 DEF IInv, NothingYet, Made, StreakTells, Running,
         NothingLeftBehind, KeptClusterIsWhole
  <2> QED
    BY <2>1, <2>2, <2>3, <2>4, <2>5, TypesAssumption DEF TypeOK
<1>13. CASE Terminated \/ UNCHANGED vars
  BY <1>13 DEF Terminated, vars, IInv, TypeOK, NothingYet, Made, StreakTells,
     Running, NothingLeftBehind, KeptClusterIsWhole
<1> QED
  BY <1>1, <1>2, <1>3, <1>4, <1>5, <1>6, <1>7, <1>8, <1>9, <1>10, <1>11, <1>12, <1>13
     DEF Next, Code

LEMMA Invariance == Spec => []IInv
  BY InitIInv, NextIInv, PTL DEF Spec

\* TypeOK: types, and a started backend has the path its Stop removes.
THEOREM BackendTyped == Spec => []TypeOK
<1>1. IInv => TypeOK
  BY DEF IInv
<1> QED
  BY <1>1, Invariance, PTL

\* A Start that fails after it has created a cluster removes it; a run without
\* --keep-cluster ends with nothing of it left, unless a create or delete command
\* itself failed (k3d.go:111-134, kind.go:93-100).
THEOREM NothingLeft == Spec => []NothingLeftBehind
<1>1. IInv => NothingLeftBehind
  BY DEF IInv
<1> QED
  BY <1>1, Invariance, PTL

\* A kind or k3d cluster kept by --keep-cluster is up and reached by the kubeconfig
\* that is kept with it (apply.go:142-150).
THEOREM KeptWhole == Spec => []KeptClusterIsWhole
<1>1. IInv => KeptClusterIsWhole
  BY DEF IInv
<1> QED
  BY <1>1, Invariance, PTL

\* Whoever has been given a REST config has a stable API server behind it: two
\* answers in a row cannot straddle a reset (k3d.go:165-179).
THEOREM HandleStable == Spec => []HandleMeansStable
<1>1. IInv => HandleMeansStable
  BY DEF IInv, Running, HandleMeansStable
<1> QED
  BY <1>1, Invariance, PTL

-----------------------------------------------------------------------------
(* The tool. *)

\* Who has a file open is copying, and Old is nobody's download.
Opened ==
    /\ \A p \in Proc : fd[p] # None <=> at[p] \in {"copy", "close"}
    /\ \A p \in Proc : at[p] = "copy" => written[p] < Pieces
    /\ partial # Old

\* Where nobody has interfered, one process owns the .partial file.
Owner ==
    /\ \A p, q \in Proc : at[p] \in Downloading /\ at[q] \in Downloading => p = q
    /\ \A p \in Proc : at[p] \in Downloading => partial # None
    /\ \A p \in Proc : fd[p] # None => fd[p] = partial
    /\ partial # None => partial # cached

\* What it holds is what the owner has written so far.
Filled ==
    /\ \A p \in Proc : at[p] = "copy" => \A n \in 1..written[p] : content[partial][n] = body[p]
    /\ \A p \in Proc : at[p] \in {"close", "verify"} => \A n \in Piece : content[partial][n] = body[p]
    /\ \A p \in Proc : at[p] = "rename" => \A n \in Piece : content[partial][n] = "good"

\* What has been renamed is whole, and there for who renamed it.
Delivered ==
    /\ cached \notin {None, Old} => \A n \in Piece : content[cached][n] = "good"
    /\ \A p \in Proc : at[p] = "probe" => cached \notin {None, Old}

Alone == ~overlapped => Owner /\ Filled /\ Delivered

\* How far a process comes depends on what it was given.
Permitted ==
    /\ \A p \in Proc : at[p] \notin {"named", "resolved", "failed"} => named[p] # "broken"
    /\ \A p \in Proc : at[p] \in {"request", "probe"} \cup Downloading => may[p]

LEMMA PiecesType == Pieces \in Nat /\ Pieces > 0 /\ Unreliable \in BOOLEAN
  BY PiecesAssumption

LEMMA InodeFacts == None \notin Inode /\ Old \in Inode
<1>1. Cardinality(Proc) \in Nat
  BY ProcAssumption, FS_CardinalityType
<1> QED
  BY <1>1, ProcAssumption DEF Inode, Old

\* There are more inodes than names and open files.
LEMMA FreeExists ==
  ASSUME ToolTypeOK, partial = None
  PROVE  Free \in Inode \ {Old} /\ Free \notin {partial, cached} /\ \A p \in Proc : fd[p] # Free
<1> DEFINE Used == {fd[p] : p \in Proc}
           Taken == Used \cup {cached}
           N == Cardinality(Proc)
<1>1. IsFiniteSet(Proc) /\ N \in Nat
  BY ProcAssumption, FS_CardinalityType
<1>2. fd \in Surjection(Proc, Used)
  BY DEF ToolTypeOK, Surjection
<1>3. IsFiniteSet(Used) /\ Cardinality(Used) <= N
  <2> HIDE DEF Used
  <2> QED
    BY <1>1, <1>2, FS_Surjection
<1>4. IsFiniteSet(Taken) /\ Cardinality(Taken) <= N + 1
  <2> HIDE DEF Used
  <2>1. Cardinality(Used) \in Nat
    BY <1>3, FS_CardinalityType
  <2>2. IsFiniteSet(Taken) /\ (Cardinality(Taken) = Cardinality(Used) \/ Cardinality(Taken) = Cardinality(Used) + 1)
    BY <1>3, FS_AddElement
  <2> HIDE DEF N, Taken
  <2> QED
    BY <1>1, <1>3, <2>1, <2>2
<1>5. IsFiniteSet(1..(N + 2)) /\ Cardinality(1..(N + 2)) = N + 2
  <2> HIDE DEF N
  <2> QED
    BY <1>1, FS_Interval
<1>6. PICK i \in 1..(N + 2) : i \notin Taken
  <2>1. SUFFICES ASSUME 1..(N + 2) \subseteq Taken PROVE FALSE
    OBVIOUS
  <2> HIDE DEF Taken, N
  <2>2. Cardinality(1..(N + 2)) <= Cardinality(Taken)
    BY <2>1, <1>4, FS_Subset
  <2>3. Cardinality(Taken) \in Nat
    BY <1>4, FS_CardinalityType
  <2> QED
    BY <1>1, <1>4, <1>5, <2>2, <2>3
<1>7. i \in Inode \ {Old}
  BY <1>1, <1>6 DEF Inode, Old
<1>8. i \notin {partial, cached}
  BY <1>6, <1>7, InodeFacts
<1>9. \A p \in Proc : fd[p] # i
  BY <1>6
<1> QED
  BY <1>7, <1>8, <1>9 DEF Free

\* What the probes come to.
LEMMA TryCacheEffect ==
  ASSUME NEW p \in Proc, TryCache(p)
  PROVE  /\ \E s \in {"ask", "resolved"} : at' = [at EXCEPT ![p] = s]
         /\ at[p] = "cache" /\ UNCHANGED <<given, files, overlapped, excused>>
<1>1. CASE cached = None
  BY <1>1 DEF TryCache, Go
<1>2. CASE cached # None
  <2>1. PICK runs \in Runs(cached) : Go(p, IF runs THEN "resolved" ELSE AfterBadCache)
    BY <1>2 DEF TryCache
  <2>2. CASE runs
    BY <2>1, <2>2 DEF TryCache, Go
  <2>3. CASE ~runs
    BY <2>1, <2>3 DEF TryCache, Go, AfterBadCache
  <2> QED
    BY <2>2, <2>3
<1> QED
  BY <1>1, <1>2

LEMMA ProbeNewEffect ==
  ASSUME NEW p \in Proc, ProbeNew(p)
  PROVE  /\ \/ at' = [at EXCEPT ![p] = "resolved"]
            \/ at' = [at EXCEPT ![p] = "failed"] /\ Runs(cached) # {TRUE}
         /\ at[p] = "probe" /\ UNCHANGED <<given, files, overlapped, excused>>
<1>1. PICK runs \in Runs(cached) : Go(p, IF runs THEN "resolved" ELSE "failed")
  BY DEF ProbeNew
<1>2. CASE runs
  BY <1>1, <1>2 DEF ProbeNew, Go
<1>3. CASE ~runs
  <2>1. ASSUME Runs(cached) = {TRUE} PROVE FALSE
    <3>1. runs \in {TRUE}
      BY <2>1
    <3>2. runs = TRUE
      BY <3>1
    <3> QED
      BY <1>3, <3>2
  <2> QED
    BY <1>1, <1>3, <2>1 DEF ProbeNew, Go
<1> QED
  BY <1>2, <1>3

LEMMA OpenAlone ==
  ASSUME NEW p \in Proc, Open(p), ~overlapped'
  PROVE  ~overlapped /\ \A q \in Proc \ {p} : at[q] \notin Downloading
  BY Zenon DEF Open

\* The excuses grow.
LEMMA VerifyEffect ==
  ASSUME ToolTypeOK, NEW p \in Proc, Verify(p)
  PROVE  /\ at[p] = "verify" /\ UNCHANGED <<given, fd, written, body, content, cached, overlapped>>
         /\ \/ /\ partial # None /\ \A n \in Piece : content[partial][n] = "good"
               /\ at' = [at EXCEPT ![p] = "rename"] /\ UNCHANGED <<partial, excused>>
            \/ /\ ~(partial # None /\ \A n \in Piece : content[partial][n] = "good")
               /\ at' = [at EXCEPT ![p] = "failed"] /\ partial' = None
               /\ \A q \in Proc : excused[q] => excused'[q]
               /\ body[p] = "bad" => excused'[p]
<1>1. CASE partial # None /\ Matches(partial)
  BY <1>1 DEF Verify, Matches, Go
<1>2. CASE ~(partial # None /\ Matches(partial))
  <2>1. excused' = [excused EXCEPT ![p] = excused[p] \/ body[p] = "bad"]
    BY <1>2 DEF Verify
  <2>2. \A q \in Proc : excused[q] => excused'[q]
    BY <2>1, Zenon DEF ToolTypeOK
  <2>3. body[p] = "bad" => excused'[p]
    BY <2>1, Zenon DEF ToolTypeOK
  <2> QED
    BY <1>2, <2>2, <2>3 DEF Verify, Matches, Go
<1> QED
  BY <1>1, <1>2

\* A whole file that nobody has open runs.
LEMMA WholeRuns ==
  ASSUME ToolTypeOK, Opened, Owner, Delivered, NEW p \in Proc, at[p] = "probe"
  PROVE  Runs(cached) = {TRUE}
<1>1. cached \notin {None, Old} /\ \A n \in Piece : content[cached][n] = "good"
  BY DEF Delivered
<1>2. \A q \in Proc : fd[q] # cached
  BY <1>1 DEF Owner
<1> QED
  BY <1>1, <1>2 DEF Runs

\* Alone, a process fails after its checksum only with an excuse.
LEMMA VerifyFails ==
  ASSUME ToolTypeOK, Opened, Alone, NEW p \in Proc, Verify(p), at'[p] = "failed"
  PROVE  overlapped \/ excused'[p]
<1> SUFFICES ASSUME ~overlapped PROVE excused'[p]
  OBVIOUS
<1>1. partial # None /\ \A n \in Piece : content[partial][n] = body[p]
  BY VerifyEffect DEF Alone, Owner, Filled, Downloading
<1>2. body[p] \in {"good", "bad"}
  BY DEF ToolTypeOK
<1>3. at' # [at EXCEPT ![p] = "rename"]
  BY DEF ToolTypeOK
<1> QED
  BY <1>1, <1>2, <1>3, VerifyEffect

LEMMA ProbeFails ==
  ASSUME ToolTypeOK, Opened, Alone, NEW p \in Proc, ProbeNew(p), at'[p] = "failed"
  PROVE  overlapped
<1> SUFFICES ASSUME ~overlapped PROVE FALSE
  OBVIOUS
<1>1. Runs(cached) = {TRUE}
  BY WholeRuns, ProbeNewEffect DEF Alone
<1>2. at'[p] = "resolved"
  BY <1>1, ProbeNewEffect DEF ToolTypeOK
<1> QED
  BY <1>2

\* Every step keeps the types.
LEMMA TypesStay ==
  ASSUME ToolTypeOK, Opened, NEW p \in Proc, ToolStep(p) \/ Crash(p)
  PROVE  ToolTypeOK'
<1> USE PiecesType, InodeFacts DEF ToolTypeOK, Opened, Downloading, Settled, Piece, Go,
       given, files
<1>1. CASE TryNamed(p)
  BY <1>1 DEF TryNamed
<1>2. CASE TryPath(p)
  BY <1>2 DEF TryPath
<1>3. CASE TryCache(p)
  BY <1>3 DEF TryCache, AfterBadCache
<1>4. CASE Ask(p)
  BY <1>4 DEF Ask
<1>5. CASE NoResponse(p)
  BY <1>5 DEF NoResponse
<1>6. CASE Open(p)
  BY <1>6, FreeExists DEF Open
<1>7. CASE Copy(p)
  BY <1>7 DEF Copy
<1>8. CASE BreakOff(p)
  BY <1>8 DEF BreakOff
<1>9. CASE CloseFile(p)
  BY <1>9 DEF CloseFile
<1>10. CASE Verify(p)
  BY <1>10 DEF Verify, Matches
<1>11. CASE Rename(p)
  BY <1>11 DEF Rename
<1>12. CASE ProbeNew(p)
  BY <1>12 DEF ProbeNew
<1>13. CASE Crash(p)
  BY <1>13 DEF Crash
<1> QED
  BY <1>1, <1>2, <1>3, <1>4, <1>5, <1>6, <1>7, <1>8, <1>9, <1>10, <1>11, <1>12, <1>13 DEF
     ToolStep

\* A file is closed on every way out of the copy.
LEMMA OpenedStays ==
  ASSUME ToolTypeOK, Opened, NEW p \in Proc, ToolStep(p) \/ Crash(p)
  PROVE  Opened'
<1> USE PiecesType, InodeFacts DEF ToolTypeOK, Opened, Downloading, Settled, Go, given,
       files
<1>1. CASE TryNamed(p)
  BY <1>1 DEF TryNamed
<1>2. CASE TryPath(p)
  BY <1>2 DEF TryPath
<1>3. CASE TryCache(p)
  BY <1>3, TryCacheEffect
<1>4. CASE Ask(p)
  BY <1>4 DEF Ask
<1>5. CASE NoResponse(p)
  BY <1>5 DEF NoResponse
<1>6. CASE Open(p)
  BY <1>6, FreeExists DEF Open
<1>7. CASE Copy(p)
  <2>1. written'[p] = written[p] + 1 /\ \A q \in Proc : q # p => written'[q] = written[q]
    BY <1>7 DEF Copy
  <2>2. CASE written'[p] = Pieces
    BY <1>7, <2>1, <2>2 DEF Copy
  <2>3. CASE written'[p] # Pieces
    <3>1. at' = at /\ fd' = fd /\ partial' = partial
      BY <1>7, <2>3 DEF Copy
    <3>2. written'[p] < Pieces
      BY <1>7, <2>1, <2>3 DEF Copy
    <3> QED
      BY <2>1, <3>1, <3>2
  <2> QED
    BY <2>2, <2>3
<1>8. CASE BreakOff(p)
  BY <1>8 DEF BreakOff
<1>9. CASE CloseFile(p)
  BY <1>9 DEF CloseFile
<1>10. CASE Verify(p)
  BY <1>10 DEF Verify, Matches
<1>11. CASE Rename(p)
  BY <1>11 DEF Rename
<1>12. CASE ProbeNew(p)
  <2>1. PICK s \in {"resolved", "failed"} : at' = [at EXCEPT ![p] = s]
    BY <1>12, ProbeNewEffect
  <2>2. UNCHANGED files /\ at[p] = "probe"
    BY <1>12, ProbeNewEffect
  <2> QED
    BY <2>1, <2>2
<1>13. CASE Crash(p)
  BY <1>13 DEF Crash
<1> QED
  BY <1>1, <1>2, <1>3, <1>4, <1>5, <1>6, <1>7, <1>8, <1>9, <1>10, <1>11, <1>12, <1>13 DEF
     ToolStep

\* Only the owner touches the file, until it has another name.
LEMMA AloneStays ==
  ASSUME ToolTypeOK, Opened, Alone, NEW p \in Proc, ToolStep(p) \/ Crash(p)
  PROVE  Alone'
<1> USE PiecesType, InodeFacts DEF ToolTypeOK, Opened, Alone, Owner, Filled, Delivered,
       Downloading, Settled, Piece, Go, given, files
<1>1. CASE TryNamed(p)
  BY <1>1 DEF TryNamed
<1>2. CASE TryPath(p)
  BY <1>2 DEF TryPath
<1>3. CASE TryCache(p)
  <2>1. PICK s \in {"ask", "resolved"} : at' = [at EXCEPT ![p] = s]
    BY <1>3, TryCacheEffect
  <2>2. UNCHANGED <<given, files, overlapped, excused>>
    BY <1>3, TryCacheEffect
  <2> QED
    BY <1>3, <2>1, <2>2, TryCacheEffect
<1>4. CASE Ask(p)
  BY <1>4 DEF Ask
<1>5. CASE NoResponse(p)
  BY <1>5 DEF NoResponse
<1>6. CASE Open(p)
  <2>1. SUFFICES ASSUME ~overlapped' PROVE (Owner /\ Filled /\ Delivered)'
    OBVIOUS
  <2>2. ~overlapped /\ \A q \in Proc \ {p} : at[q] \notin Downloading
    BY <1>6, <2>1, OpenAlone DEF Downloading
  <2>7. Owner'
    BY <1>6, <2>1, <2>2, FreeExists DEF Open
  <2>8. Filled'
    BY <1>6, <2>1, <2>2, FreeExists DEF Open
  <2>9. Delivered'
    BY <1>6, <2>1, <2>2, FreeExists DEF Open
  <2> QED
    BY <2>7, <2>8, <2>9
<1>7. CASE Copy(p)
  BY <1>7 DEF Copy
<1>8. CASE BreakOff(p)
  BY <1>8 DEF BreakOff
<1>9. CASE CloseFile(p)
  BY <1>9 DEF CloseFile
<1>10. CASE Verify(p)
  <2>1. SUFFICES ASSUME ~overlapped' PROVE (Owner /\ Filled /\ Delivered)'
    OBVIOUS
  <2>2. UNCHANGED <<fd, written, body, content, cached, overlapped>> /\ at[p] = "verify"
    BY <1>10 DEF Verify
  <2>3. \A q \in Proc \ {p} : at'[q] = at[q] /\ at[q] \notin Downloading
    BY <1>10, <2>1, <2>2 DEF Verify
  <2>4. \/ at'[p] = "failed" /\ partial' = None
        \/ at'[p] = "rename" /\ partial' = partial /\ Matches(partial)
    <3>1. CASE partial # None /\ Matches(partial)
      BY <1>10, <3>1 DEF Verify
    <3>2. CASE ~(partial # None /\ Matches(partial))
      BY <1>10, <3>2 DEF Verify
    <3> QED
      BY <3>1, <3>2
  <2>7. Owner'
    BY <1>10, <2>1, <2>2, <2>3, <2>4 DEF Matches
  <2>8. Filled'
    <3>1. CASE at'[p] = "failed"
      <4>1. \A q \in Proc : at'[q] \notin Downloading
        BY <2>3, <3>1
      <4> QED
        BY <4>1
    <3>2. CASE at'[p] = "rename" /\ partial' = partial /\ Matches(partial)
      <4>1. \A q \in Proc : at'[q] \notin {"copy", "close", "verify"}
        BY <2>3, <3>2
      <4>2. \A n \in Piece : content'[partial'][n] = "good"
        BY <2>2, <3>2 DEF Matches
      <4> QED
        BY <4>1, <4>2
    <3> QED
      BY <2>4, <3>1, <3>2
  <2>9. Delivered'
    BY <1>10, <2>1, <2>2, <2>3, <2>4 DEF Matches
  <2> QED
    BY <2>7, <2>8, <2>9
<1>11. CASE Rename(p)
  <2>1. SUFFICES ASSUME ~overlapped' PROVE (Owner /\ Filled /\ Delivered)'
    OBVIOUS
  <2>2. \A q \in Proc \ {p} : at[q] \notin Downloading /\ at'[q] = at[q]
    BY <1>11, <2>1 DEF Rename
  <2>3. partial # None /\ partial # Old /\ at'[p] = "probe" /\ cached' = partial /\ partial' = None
    BY <1>11, <2>1 DEF Rename
  <2>4. UNCHANGED <<fd, written, body, content, overlapped>> /\ at[p] = "rename"
    BY <1>11 DEF Rename
  <2>5. \A q \in Proc : fd[q] = None
    BY <2>1, <2>2, <2>4
  <2>6. \A n \in Piece : content[partial][n] = "good"
    BY <2>1, <2>4
  <2>7. Owner'
    BY <1>11, <2>1, <2>2, <2>3, <2>4, <2>5, <2>6
  <2>8. Filled'
    BY <1>11, <2>1, <2>2, <2>3, <2>4, <2>5, <2>6
  <2>9. Delivered'
    BY <1>11, <2>1, <2>2, <2>3, <2>4, <2>5, <2>6
  <2> QED
    BY <2>7, <2>8, <2>9
<1>12. CASE ProbeNew(p)
  <2>1. PICK s \in {"failed", "resolved"} : at' = [at EXCEPT ![p] = s]
    BY <1>12, ProbeNewEffect
  <2>2. UNCHANGED <<given, files, overlapped, excused>>
    BY <1>12, ProbeNewEffect
  <2> QED
    BY <1>12, <2>1, <2>2, ProbeNewEffect
<1>13. CASE Crash(p)
  BY <1>13 DEF Crash
<1> QED
  BY <1>1, <1>2, <1>3, <1>4, <1>5, <1>6, <1>7, <1>8, <1>9, <1>10, <1>11, <1>12, <1>13 DEF
     ToolStep

\* Nobody downloads who may not, nor who was given a broken path.
LEMMA PermittedStays ==
  ASSUME ToolTypeOK, Permitted, NEW p \in Proc, ToolStep(p) \/ Crash(p)
  PROVE  Permitted'
<1> USE PiecesType DEF ToolTypeOK, Permitted, Downloading, Settled, Go, given, files
<1>1. CASE TryNamed(p)
  BY <1>1 DEF TryNamed
<1>2. CASE TryPath(p)
  BY <1>2 DEF TryPath
<1>3. CASE TryCache(p)
  BY <1>3 DEF TryCache, AfterBadCache
<1>4. CASE Ask(p)
  BY <1>4 DEF Ask
<1>5. CASE NoResponse(p)
  BY <1>5 DEF NoResponse
<1>6. CASE Open(p)
  BY <1>6 DEF Open
<1>7. CASE Copy(p)
  BY <1>7 DEF Copy
<1>8. CASE BreakOff(p)
  BY <1>8 DEF BreakOff
<1>9. CASE CloseFile(p)
  BY <1>9 DEF CloseFile
<1>10. CASE Verify(p)
  BY <1>10 DEF Verify, Matches
<1>11. CASE Rename(p)
  BY <1>11 DEF Rename
<1>12. CASE ProbeNew(p)
  BY <1>12 DEF ProbeNew
<1>13. CASE Crash(p)
  BY <1>13 DEF Crash
<1> QED
  BY <1>1, <1>2, <1>3, <1>4, <1>5, <1>6, <1>7, <1>8, <1>9, <1>10, <1>11, <1>12, <1>13 DEF
     ToolStep

\* Each way to fail has its excuse.
LEMMA FoundStays ==
  ASSUME ToolTypeOK, Opened, Alone, Permitted, FoundUnlessRefused, NEW p \in Proc, ToolStep(p) \/ Crash(p)
  PROVE  FoundUnlessRefused'
<1> USE PiecesType, InodeFacts DEF ToolTypeOK, Opened, Alone, Owner, Filled, Delivered,
       Permitted, FoundUnlessRefused, Downloading, Settled, Piece, Go, given, files
<1>1. CASE TryNamed(p)
  BY <1>1 DEF TryNamed
<1>2. CASE TryPath(p)
  BY <1>2 DEF TryPath
<1>3. CASE TryCache(p)
  <2>1. PICK s \in {"ask", "resolved"} : at' = [at EXCEPT ![p] = s]
    BY <1>3, TryCacheEffect
  <2>2. UNCHANGED <<given, files, overlapped, excused>>
    BY <1>3, TryCacheEffect
  <2> QED
    BY <1>3, <2>1, <2>2, TryCacheEffect
<1>4. CASE Ask(p)
  BY <1>4 DEF Ask
<1>5. CASE NoResponse(p)
  BY <1>5 DEF NoResponse
<1>6. CASE Open(p)
  BY <1>6 DEF Open
<1>7. CASE Copy(p)
  BY <1>7 DEF Copy
<1>8. CASE BreakOff(p)
  BY <1>8 DEF BreakOff
<1>9. CASE CloseFile(p)
  BY <1>9 DEF CloseFile
<1>10. CASE Verify(p)
  <2>1. at'[p] = "failed" => overlapped \/ excused'[p]
    <3> HIDE DEF ToolTypeOK, Opened, Alone
    <3> QED
      BY <1>10, VerifyFails
  <2>2. \A q \in Proc : q # p => at'[q] = at[q]
    BY <1>10 DEF Verify
  <2>3. \A q \in Proc : excused[q] => excused'[q]
    <3> HIDE DEF ToolTypeOK
    <3> QED
      BY <1>10, VerifyEffect
  <2>4. UNCHANGED <<named, may, overlapped>>
    BY <1>10 DEF Verify
  <2> QED
    BY <2>1, <2>2, <2>3, <2>4
<1>11. CASE Rename(p)
  BY <1>11 DEF Rename
<1>12. CASE ProbeNew(p)
  <2>1. PICK s \in {"failed", "resolved"} : at' = [at EXCEPT ![p] = s]
    BY <1>12, ProbeNewEffect
  <2>2. UNCHANGED <<given, files, overlapped, excused>>
    BY <1>12, ProbeNewEffect
  <2>3. s = "failed" => overlapped
    <3> HIDE DEF ToolTypeOK, Opened, Alone
    <3>1. s = "failed" => at'[p] = "failed"
      BY <2>1 DEF ToolTypeOK
    <3> QED
      BY <1>12, <3>1, ProbeFails
  <2> QED
    BY <1>12, <2>1, <2>2, <2>3
<1>13. CASE Crash(p)
  BY <1>13 DEF Crash
<1> QED
  BY <1>1, <1>2, <1>3, <1>4, <1>5, <1>6, <1>7, <1>8, <1>9, <1>10, <1>11, <1>12, <1>13 DEF
     ToolStep

ToolInv == ToolTypeOK /\ Opened /\ Alone /\ Permitted /\ FoundUnlessRefused

LEMMA ToolInitInv == ToolInit => ToolInv
<1> SUFFICES ASSUME ToolInit PROVE ToolInv
  OBVIOUS
<1> USE PiecesType, InodeFacts DEF ToolInit
<1>1. ToolTypeOK
  <2>1. written \in [Proc -> 0..Pieces]
    OBVIOUS
  <2>2. content \in [Inode -> [Piece -> {"none", "good", "bad"}]]
    OBVIOUS
  <2>3. at \in [Proc -> {"named"}] /\ fd \in [Proc -> Inode \cup {None}] /\ body \in [Proc -> {"good", "bad"}]
    OBVIOUS
  <2>4. partial \in Inode \cup {None} /\ cached \in Inode \cup {None}
    OBVIOUS
  <2>5. overlapped \in BOOLEAN /\ excused \in [Proc -> BOOLEAN]
    OBVIOUS
  <2> QED
    BY <2>1, <2>2, <2>3, <2>4, <2>5 DEF ToolTypeOK
<1>2. Opened
  BY DEF Opened
<1>3. Alone
  BY DEF Alone, Owner, Filled, Delivered, Downloading
<1>4. Permitted /\ FoundUnlessRefused
  BY DEF Permitted, FoundUnlessRefused, Downloading
<1> QED
  BY <1>1, <1>2, <1>3, <1>4 DEF ToolInv

LEMMA ToolNextInv == ToolInv /\ [ToolNext]_toolVars => ToolInv'
<1> SUFFICES ASSUME ToolInv, [ToolNext]_toolVars PROVE ToolInv'
  OBVIOUS
<1>1. ASSUME NEW p \in Proc, ToolStep(p) \/ Crash(p) PROVE ToolInv'
  BY <1>1, TypesStay, OpenedStays, AloneStays, PermittedStays, FoundStays DEF ToolInv
<1>2. CASE UNCHANGED toolVars
  <2>1. ToolTypeOK' /\ Opened'
    BY <1>2 DEF toolVars, ToolInv, ToolTypeOK, Opened
  <2>2. Alone'
    BY <1>2 DEF toolVars, ToolInv, Alone, Owner, Filled, Delivered
  <2>3. Permitted' /\ FoundUnlessRefused'
    BY <1>2 DEF toolVars, ToolInv, Permitted, FoundUnlessRefused
  <2> QED
    BY <2>1, <2>2, <2>3 DEF ToolInv
<1> QED
  BY <1>1, <1>2 DEF ToolNext

LEMMA ToolInvariance == ToolSpec => []ToolInv
<1>1. ToolInv /\ [ToolNext \/ ToolDone]_toolVars => ToolInv'
  BY ToolNextInv DEF ToolDone
<1> QED
  BY <1>1, ToolInitInv, PTL DEF ToolSpec

LEMMA ToolInvImplies == ToolInv => ToolTypeOK /\ CacheIsWhole /\ FoundUnlessRefused
  BY DEF ToolInv, Alone, Delivered, CacheIsWhole

\* Types, for any number of processes: there is always an inode for a new file.
THEOREM ToolTypeCorrect == ToolSpec => []ToolTypeOK
  BY ToolInvariance, ToolInvImplies, PTL

\* A tool that is in the cache is all there and matches its checksum, unless two
\* processes have downloaded it at a time (downloadExecutable).
THEOREM CacheStaysWhole == ToolSpec => []CacheIsWhole
  BY ToolInvariance, ToolInvImplies, PTL

\* ResolveTool fails only for a reason: a broken path of the user's, a refused
\* download, the network, or a second download (ResolveTool).
THEOREM ToolIsFound == ToolSpec => []FoundUnlessRefused
  BY ToolInvariance, ToolInvImplies, PTL

-----------------------------------------------------------------------------
(* The backend and its tool together. *)


\* A command of kind or k3d is run only after the tool was found.
ToolFirst == type \in CLI /\ pc \notin {"resolve", "failed"} => at[Me] = "resolved"

BothInv == IInv /\ ToolInv /\ ToolFirst

LEMMA BothInitInv == BothInit => BothInv
<1> SUFFICES ASSUME BothInit PROVE BothInv
  OBVIOUS
<1>1. IInv /\ ToolInv
  BY InitIInv, ToolInitInv DEF BothInit
<1>2. ToolFirst
  BY DEF BothInit, Init, ToolFirst
<1> QED
  BY <1>1, <1>2 DEF BothInv

\* A process that has its tool keeps it.
LEMMA SettledStays ==
  ASSUME ToolTypeOK, ToolNext, at[Me] = "resolved"
  PROVE  at'[Me] = "resolved"
<1> USE MeAssumption
<1>1. PICK p \in Proc : ToolStep(p) \/ Crash(p)
  BY DEF ToolNext
<1>2. CASE Crash(p)
  BY <1>2 DEF Crash, Go, Settled, ToolTypeOK
<1>3. CASE TryNamed(p) \/ TryPath(p) \/ Ask(p) \/ NoResponse(p)
  BY <1>3 DEF TryNamed, TryPath, Ask, NoResponse, Go, ToolTypeOK
<1>4. CASE TryCache(p) \/ ProbeNew(p)
  BY <1>4, TryCacheEffect, ProbeNewEffect DEF ToolTypeOK
<1>5. CASE Open(p) \/ Copy(p) \/ BreakOff(p)
  BY <1>5 DEF Open, Copy, BreakOff, Go, ToolTypeOK
<1>6. CASE CloseFile(p) \/ Rename(p)
  BY <1>6 DEF CloseFile, Rename, Go, ToolTypeOK
<1>7. CASE Verify(p)
  BY <1>7, VerifyEffect DEF ToolTypeOK
<1> QED
  BY <1>1, <1>2, <1>3, <1>4, <1>5, <1>6, <1>7 DEF ToolStep

\* Where a backend can come from where it stands.
LEMMA PcMoves ==
  ASSUME Next
  PROVE  /\ type' = type
         /\ pc = "resolve" /\ type \in CLI => pc' \in {"resolve", "mkdir", "failed"}
         /\ pc = "failed" => pc' = "failed"
<1> USE DEF Fail, flagVars, vars
<1>1. CASE Resolve
  BY <1>1 DEF Resolve, CLI
<1>2. CASE MakeDir \/ Create \/ WriteKubeconfig
  BY <1>2 DEF MakeDir, Create, WriteKubeconfig
<1>3. CASE BuildConfig \/ Ping \/ GiveUp
  BY <1>3 DEF BuildConfig, Ping, GiveUp
<1>4. CASE PingExternal \/ RollBack \/ Finish \/ Stop
  BY <1>4 DEF PingExternal, RollBack, Finish, Stop
<1>5. CASE Settle \/ Terminated
  BY <1>5 DEF Settle, Terminated
<1> QED
  BY <1>1, <1>2, <1>3, <1>4, <1>5 DEF Next, Code

LEMMA BothNextInv == BothInv /\ [BothNext]_<<vars, toolVars>> => BothInv'
<1> SUFFICES ASSUME BothInv, [BothNext]_<<vars, toolVars>> PROVE BothInv'
  OBVIOUS
<1>1. [Next]_vars /\ [ToolNext]_toolVars
  BY DEF BothNext, BackendNext, ToolsNext
<1>2. IInv' /\ ToolInv'
  BY <1>1, NextIInv, ToolNextInv DEF BothInv
<1>3. CASE BackendNext
  <2> SUFFICES ToolFirst'
    BY <1>2 DEF BothInv
  <2>1. at' = at
    BY <1>3 DEF BackendNext, toolVars
  <2>2. type' = type
    BY <1>3, PcMoves DEF BackendNext
  <2>3. CASE type \in CLI /\ pc = "resolve"
    <3>1. pc' = "mkdir" => at[Me] = "resolved"
      BY <1>3, <2>3 DEF BackendNext, ResolvedBy
    <3>2. pc' \in {"resolve", "mkdir", "failed"}
      BY <1>3, <2>3, PcMoves DEF BackendNext
    <3> QED
      BY <2>1, <3>1, <3>2 DEF ToolFirst
  <2>4. CASE type \notin CLI \/ pc \notin {"resolve", "failed"}
    BY <2>1, <2>2, <2>4 DEF BothInv, ToolFirst, CLI
  <2>5. CASE pc = "failed"
    BY <1>3, <2>5, PcMoves DEF BackendNext, ToolFirst
  <2> QED
    BY <2>3, <2>4, <2>5
<1>4. CASE ToolsNext
  <2>1. ToolTypeOK /\ UNCHANGED <<type, pc>>
    BY <1>4 DEF ToolsNext, vars, BothInv, ToolInv, flagVars
  <2>2. ToolFirst'
    BY <1>4, <2>1, SettledStays DEF ToolsNext, BothInv, ToolFirst
  <2> QED
    BY <1>2, <2>2 DEF BothInv
<1>5. CASE UNCHANGED <<vars, toolVars>>
  BY <1>2, <1>5 DEF vars, flagVars, toolVars, BothInv, ToolFirst
<1> QED
  BY <1>3, <1>4, <1>5 DEF BothNext

LEMMA BothInvariance == BothSpec => []BothInv
  BY BothInitInv, BothNextInv, PTL DEF BothSpec

\* The composition is a behaviour of the backend, with its properties.
THEOREM BackendPart == BothSpec => []TypeOK /\ []NothingLeftBehind /\ []KeptClusterIsWhole /\ []HandleMeansStable
<1>1. BothInv => TypeOK /\ NothingLeftBehind /\ KeptClusterIsWhole /\ HandleMeansStable
  BY DEF BothInv, IInv, Running, HandleMeansStable
<1> QED
  BY <1>1, BothInvariance, PTL

\* It is one of the processes that share a cache, with theirs.
THEOREM ToolPart == BothSpec => []CacheIsWhole /\ []FoundUnlessRefused
<1>1. BothInv => CacheIsWhole /\ FoundUnlessRefused
  BY ToolInvImplies DEF BothInv
<1> QED
  BY <1>1, BothInvariance, PTL

\* kind and k3d run no command before their binary was found, and none at all if it
\* was not (k3d.go:79-95, kind.go:70-84).
THEOREM ToolBeforeCommand == BothSpec => []ToolFirst
<1>1. BothInv => ToolFirst
  BY DEF BothInv
<1> QED
  BY <1>1, BothInvariance, PTL
=============================================================================
