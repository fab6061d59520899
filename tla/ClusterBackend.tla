--------------------------- MODULE ClusterBackend ---------------------------
(***************************************************************************)
(* The life of one cluster.Backend in a `vigie test --cluster` run: Start  *)
(* as RunApply calls it, command by command, the wait for a stable API     *)
(* server, the roll-back of a Start that fails half-way, and stopBackend.  *)
(* The commands' effects outside the process (containers, control plane,   *)
(* temporary directory) are state of their own.                            *)
(***************************************************************************)
EXTENDS Integers

CONSTANTS
    Types,     \* backend types tried: subset of {"envtest", "kind", "k3d", "kubeconfig"}
    MaxPings,  \* pings that fit into waitAPIStable's 90 seconds
    Faults     \* may commands fail?

Owning == {"envtest", "kind", "k3d"}  \* those that create a cluster
CLI    == {"kind", "k3d"}             \* those that do it with a command

ASSUME TypesAssumption == Types \subseteq Owning \cup {"kubeconfig"}
ASSUME PingsAssumption == MaxPings \in Nat \ {0}
ASSUME EnvironmentAssumption == Faults \in BOOLEAN

VARIABLES
    type, keep,  \* the command line: --cluster, --keep-cluster
    pc,
    started,     \* Backend.started
    path,        \* Backend.kubecfgPath is set
    handle,      \* Backend.restConfig (envtest: cfg) is set
    dir,         \* the temporary directory exists
    cluster,     \* containers or control plane exist
    api,         \* its API server: "off", "fresh", "blip" (one answer), "reset", "up"
    streak,      \* successes in a row
    pings,       \* pings made
    failedCmd    \* (auxiliary) a create or delete command failed

vars == <<type, keep, pc, started, path, handle, dir, cluster, api, streak, pings, failedCmd>>

objVars   == <<started, path, handle>>
worldVars == <<dir, cluster, api>>
waitVars  == <<streak, pings>>
flagVars  == <<type, keep>>

Init ==
    /\ type \in Types /\ keep \in BOOLEAN /\ pc = "resolve"
    /\ started = FALSE /\ path = FALSE /\ handle = FALSE
    /\ dir = FALSE /\ cluster = (type = "kubeconfig") /\ api = (IF type = "kubeconfig" THEN "up" ELSE "off")
    /\ streak = 0 /\ pings = 0 /\ failedCmd = FALSE

\* Start returns an error.  RunApply has deferred nothing yet.
Fail == pc' = "failed"

\* ResolveKind, ResolveK3d; EnsureEnvtestBinaries; the kubeconfig file.
Resolve ==
    /\ pc = "resolve"
    /\ \/ Faults /\ Fail
       \/ type \in CLI /\ pc' = "mkdir"
       \/ type = "envtest" /\ pc' = "create"
       \/ type = "kubeconfig" /\ pc' = "ping"
    /\ UNCHANGED <<flagVars, objVars, worldVars, waitVars, failedCmd>>

\* MkdirTemp, and for k3d PickFreePort, which on failure removes the directory.
\* kubecfgPath stays set either way.
MakeDir ==
    /\ pc = "mkdir"
    /\ \/ dir' = TRUE /\ path' = TRUE /\ pc' = "create"
       \/ Faults /\ Fail /\ UNCHANGED <<dir, path>>
       \/ Faults /\ type = "k3d" /\ Fail /\ path' = TRUE /\ UNCHANGED dir
    /\ UNCHANGED <<flagVars, started, handle, cluster, api, waitVars, failedCmd>>

\* (Mutant: started is set only when Start is about to return.)
StartedAfterCreate_Late == FALSE
StartedAfterCreate == type \in CLI

AfterCreate == IF type = "envtest" THEN "running"
               ELSE IF type = "kind" THEN "config" ELSE "kubeconfig"

\* `kind create cluster`, `k3d cluster create`, envtest.Environment.Start.  A
\* failing command may leave a part of the cluster behind.
Create ==
    /\ pc = "create"
    /\ \/ /\ cluster' = TRUE /\ started' = StartedAfterCreate
          /\ api' = IF type = "k3d" THEN "fresh" ELSE "up"
          /\ handle' = (type = "envtest")
          /\ pc' = AfterCreate /\ UNCHANGED <<dir, failedCmd>>
       \/ /\ Faults /\ Fail
          /\ cluster' \in BOOLEAN /\ failedCmd' = TRUE
          /\ dir' = FALSE /\ UNCHANGED <<started, handle, api>>
    /\ UNCHANGED <<flagVars, path, waitVars>>

\* writeKubeconfig
WriteKubeconfig ==
    /\ pc = "kubeconfig"
    /\ pc' = "config" \/ (Faults /\ pc' = "rollback")
    /\ UNCHANGED <<flagVars, objVars, worldVars, waitVars, failedCmd>>

\* BuildConfigFromFlags
BuildConfig ==
    /\ pc = "config"
    /\ \/ type = "k3d" /\ pc' = "settle" /\ UNCHANGED handle
       \/ type = "kind" /\ pc' = "running" /\ handle' = TRUE
       \/ Faults /\ pc' = "rollback" /\ UNCHANGED handle
    /\ UNCHANGED <<flagVars, started, path, worldVars, waitVars, failedCmd>>

\* External: the API server of a new k3d cluster comes up, at once or after one
\* answer that is followed by resets.
Settle ==
    /\ \/ api = "fresh" /\ api' \in {"blip", "up"}
       \/ api = "reset" /\ api' = "up"
    /\ UNCHANGED <<flagVars, pc, objVars, dir, cluster, waitVars, failedCmd>>

\* (Mutant: one answer is enough.)
StableAfter_One == 1
StableAfter == 2

\* One turn of waitAPIStable's loop: a ping, then the interval.  Cancelling the
\* context, or the deadline, ends it with an error.
Ping ==
    /\ pc = "settle" /\ pings < MaxPings
    /\ pings' = pings + 1
    /\ streak' = IF api \in {"blip", "up"} THEN streak + 1 ELSE 0
    /\ api' = IF api = "blip" THEN "reset" ELSE api
    /\ IF streak' >= StableAfter THEN pc' = "running" /\ handle' = TRUE
       ELSE UNCHANGED <<pc, handle>>
    /\ UNCHANGED <<flagVars, started, path, dir, cluster, failedCmd>>

\* (Mutant: the deadline is not looked at.)
GiveUpNow_Never == FALSE
GiveUpNow == pings = MaxPings \/ Faults

GiveUp ==
    /\ pc = "settle" /\ GiveUpNow
    /\ pc' = "rollback"
    /\ UNCHANGED <<flagVars, objVars, worldVars, waitVars, failedCmd>>

\* kubeconfig's version ping.
PingExternal ==
    /\ pc = "ping"
    /\ \/ handle' = TRUE /\ pc' = "running"
       \/ Faults /\ Fail /\ UNCHANGED handle
    /\ UNCHANGED <<flagVars, started, path, worldVars, waitVars, failedCmd>>

Reset == started' = FALSE /\ path' = FALSE /\ handle' = FALSE

\* stopLocked of kind and k3d: a no-op unless started; on error nothing is reset.
StopLocked ==
    \/ ~started /\ UNCHANGED <<objVars, worldVars, failedCmd>>
    \/ /\ started
       /\ cluster' = FALSE /\ api' = "off" /\ dir' = FALSE
       /\ Reset /\ UNCHANGED failedCmd
    \/ started /\ Faults /\ failedCmd' = TRUE /\ UNCHANGED <<objVars, worldVars>>

\* Start's own clean-up; its error is dropped.
RollBack ==
    /\ pc = "rollback"
    /\ StopLocked /\ Fail
    /\ UNCHANGED <<flagVars, waitVars>>

\* RunApply returns, early or late, into the deferred stopBackend.
Finish ==
    /\ pc = "running"
    /\ pc' = "stop"
    /\ UNCHANGED <<flagVars, objVars, worldVars, waitVars, failedCmd>>

\* (Mutant: the flag is read the wrong way round.)
Kept_Inverted == ~keep
Kept == keep

\* stopBackend; Backend.Stop of each type.
Stop ==
    /\ pc = "stop" /\ pc' = "over"
    /\ \/ Kept /\ UNCHANGED <<objVars, worldVars, failedCmd>>
       \/ ~Kept /\ type \in CLI /\ StopLocked
       \/ ~Kept /\ type = "kubeconfig" /\ UNCHANGED <<objVars, worldVars, failedCmd>>
       \/ /\ ~Kept /\ type = "envtest" /\ cluster' = FALSE /\ api' = "off"
          /\ UNCHANGED <<objVars, dir, failedCmd>>
       \/ /\ ~Kept /\ type = "envtest" /\ Faults /\ failedCmd' = TRUE
          /\ UNCHANGED <<objVars, worldVars>>
    /\ UNCHANGED <<flagVars, waitVars>>

Terminated == pc \in {"failed", "over"} /\ UNCHANGED vars

Code == \/ Resolve \/ MakeDir \/ Create \/ WriteKubeconfig \/ BuildConfig \/ Ping \/ GiveUp
        \/ PingExternal \/ RollBack \/ Finish \/ Stop
Next == Code \/ Settle \/ Terminated

Spec == Init /\ [][Next]_vars

\* Every command ends, by itself or by a context's timeout.  Nothing is assumed
\* of the API server.
FairSpec == Spec /\ WF_vars(Code)
-----------------------------------------------------------------------------
(* Properties. *)

\* Types of the state; a started backend has the path that its Stop removes, so
\* that a second Stop does nothing (k3d.go:192-217).
TypeOK ==
    /\ type \in Types /\ keep \in BOOLEAN
    /\ pc \in {"resolve", "mkdir", "create", "kubeconfig", "config", "settle", "ping",
               "rollback", "running", "stop", "failed", "over"}
    /\ started \in BOOLEAN /\ path \in BOOLEAN /\ handle \in BOOLEAN /\ (started => path)
    /\ dir \in BOOLEAN /\ cluster \in BOOLEAN /\ api \in {"off", "fresh", "blip", "reset", "up"}
    /\ streak \in 0..StableAfter /\ pings \in 0..MaxPings /\ failedCmd \in BOOLEAN

\* However Start and Stop end, a cluster or a directory made for the run is left
\* behind only under --keep-cluster or when a create or delete command failed
\* (k3d.go:96-127, kind.go:85-103): a Start that fails after creation removes it.
NothingLeftBehind ==
    pc = "failed" \/ (pc = "over" /\ ~keep) =>
        (type \in Owning /\ (cluster \/ dir) => failedCmd)

\* What --keep-cluster leaves of a kind or k3d cluster can be used from outside
\* the process, by the kubeconfig in the directory made for it: its API server is
\* up, at whatever point the run ends (apply.go:142-149, backend.go of each).
\* Nothing is claimed of envtest, whose credentials are in the process only.
KeptClusterIsWhole ==
    pc = "over" /\ keep /\ type \in CLI => cluster /\ api = "up" /\ dir /\ path /\ handle

\* A caller that has been given a REST config finds an API server behind it that
\* stays up, not one on its way through the resets that follow `k3d cluster
\* create` (k3d.go:117-129).
HandleMeansStable == pc = "running" => handle /\ cluster /\ api = "up"

\* Start and the run come to an end even if the API server never settles
\* (k3d.go:163-182).
StartReturns == <>(pc \in {"failed", "over"})

\* apply.go:64-65, KeepCluster: "Honoured by node-backed backends; envtest tears
\* down regardless."  The control plane of envtest does not outlive the run.
EnvtestTornDown == pc = "over" /\ type = "envtest" => ~cluster \/ failedCmd
=============================================================================
