---------------------------- MODULE BackendTools ----------------------------
(***************************************************************************)
(* A cluster backend and the tool it is driven with: Backend.Start of kind *)
(* and k3d begins with ResolveTool, in one of several processes that share *)
(* the cache, and every later command runs the binary that was found.      *)
(***************************************************************************)
EXTENDS ClusterBackend, ToolDownload

CONSTANT Me  \* the process whose backend this is

ASSUME MeAssumption == Me \in Proc

BothInit == Init /\ ToolInit

\* ResolveKind, ResolveK3d at the head of Start.
ResolvedBy == type \in CLI /\ pc = "resolve" =>
                 at[Me] \in Settled /\ (pc' = "mkdir") = (at[Me] = "resolved")

BackendNext == Next /\ ResolvedBy /\ UNCHANGED toolVars
\* The other backends take no tool from the cache.
ToolsNext == type \in CLI /\ ToolNext /\ UNCHANGED vars

BothNext == BackendNext \/ ToolsNext

BothSpec == /\ BothInit /\ [][BothNext]_<<vars, toolVars>>
            /\ WF_<<vars, toolVars>>(Code /\ ResolvedBy /\ UNCHANGED toolVars)
            /\ \A p \in Proc : WF_<<vars, toolVars>>(type \in CLI /\ ToolStep(p) /\ UNCHANGED vars)
=============================================================================
