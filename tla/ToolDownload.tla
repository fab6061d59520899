---------------------------- MODULE ToolDownload ----------------------------
(***************************************************************************)
(* ResolveTool for the kind or k3d CLI: a path the user names, $PATH, the  *)
(* vigie cache, a download.  Several vigie processes share the cache       *)
(* directory and with it the one `.partial` file of a tool's version;      *)
(* nothing locks it.  A file is an inode that names may point to and       *)
(* processes may have open.                                                *)
(***************************************************************************)
EXTENDS Integers, FiniteSets

CONSTANTS
    Proc,        \* vigie processes with a common cache
    Pieces,      \* a binary arrives in that many writes
    MaxCrashes,  \* processes that are killed and started again
    Unreliable,  \* may the network fail, or deliver the wrong bytes?
    None

ASSUME PiecesAssumption == Pieces \in Nat \ {0} /\ MaxCrashes \in Nat /\ Unreliable \in BOOLEAN
ASSUME ProcAssumption == IsFiniteSet(Proc) /\ None \notin Nat

Old   == 0  \* a file in the cache, not all there, that two runs of yesterday left
Inode == Old..(Cardinality(Proc) + 2)
Piece == 1..Pieces

VARIABLES
    named,      \* [Proc -> {"no", "works", "broken"}]: --kind-binary, --k3d-binary
    onPath,     \* what $PATH has: "nothing", "works", "broken"
    may,        \* [Proc -> BOOLEAN]: the policy, or the user, allows a download
    at,         \* [Proc -> where in ResolveTool and downloadExecutable]
    fd,         \* [Proc -> inode open for writing]
    written,    \* [Proc -> pieces written]
    body,       \* [Proc -> {"good", "bad"}]: the bytes its server sends
    content,    \* [Inode -> [Piece -> {"none", "good", "bad"}]]
    partial,    \* what the name *.partial points to
    cached,     \* what the name in the cache points to
    crashes,
    overlapped, \* (auxiliary) two downloads were under way at once
    excused     \* (auxiliary) [Proc -> the network failed it]

toolVars == <<named, onPath, may, at, fd, written, body, content, partial, cached, crashes,
              overlapped, excused>>
given  == <<named, onPath, may, crashes>>
files  == <<fd, written, body, content, partial, cached>>

Downloading == {"copy", "close", "verify", "rename"}
Settled == {"resolved", "failed"}

ToolInit ==
    /\ named \in [Proc -> {"no", "works", "broken"}]
    /\ onPath \in {"nothing", "works", "broken"} /\ may \in [Proc -> BOOLEAN]
    /\ at = [p \in Proc |-> "named"]
    /\ fd = [p \in Proc |-> None] /\ written = [p \in Proc |-> 0] /\ body = [p \in Proc |-> "good"]
    /\ content = [i \in Inode |-> [n \in Piece |-> "none"]]
    /\ partial = None /\ cached \in {None, Old}
    /\ crashes = 0 /\ overlapped = FALSE /\ excused = [p \in Proc |-> FALSE]

Go(p, s) == at' = [at EXCEPT ![p] = s]

\* probeTool: running it with its version argument.  A file that is open for
\* writing cannot be run, nor one that is not all there; wrong bytes may.
Runs(i) ==
    IF i = None \/ (\E p \in Proc : fd[p] = i) \/ (\E n \in Piece : content[i][n] = "none") THEN {FALSE}
    ELSE IF \E n \in Piece : content[i][n] = "bad" THEN BOOLEAN ELSE {TRUE}

\* 1. A path that the user names must work.
TryNamed(p) ==
    /\ at[p] = "named"
    /\ Go(p, CASE named[p] = "no" -> "path" [] named[p] = "works" -> "resolved" [] OTHER -> "failed")
    /\ UNCHANGED <<given, files, overlapped, excused>>

\* 2. $PATH; a tool that does not run or is too old is passed over.
TryPath(p) ==
    /\ at[p] = "path"
    /\ Go(p, IF onPath = "works" THEN "resolved" ELSE "cache")
    /\ UNCHANGED <<given, files, overlapped, excused>>

\* (Mutant: a broken file in the cache is an error.)
AfterBadCache_Error == "failed"
AfterBadCache == "ask"

\* 3. The cache.
TryCache(p) ==
    /\ at[p] = "cache"
    /\ IF cached = None THEN Go(p, "ask")
       ELSE \E runs \in Runs(cached) : Go(p, IF runs THEN "resolved" ELSE AfterBadCache)
    /\ UNCHANGED <<given, files, overlapped, excused>>

\* 4. allowDownload.
Ask(p) ==
    /\ at[p] = "ask"
    /\ Go(p, IF may[p] THEN "request" ELSE "failed")
    /\ UNCHANGED <<given, files, overlapped, excused>>

\* The checksum or the response does not come.
NoResponse(p) ==
    /\ at[p] = "request" /\ Unreliable
    /\ Go(p, "failed") /\ excused' = [excused EXCEPT ![p] = TRUE]
    /\ UNCHANGED <<given, files, overlapped>>

Free == CHOOSE i \in Inode \ {Old} : i \notin {partial, cached} /\ \A p \in Proc : fd[p] # i

\* OpenFile with O_CREATE and O_TRUNC: another process's file, if there is one.
Open(p) ==
    /\ at[p] = "request" /\ Go(p, "copy")
    /\ LET i == IF partial = None THEN Free ELSE partial
       IN  /\ partial' = i /\ fd' = [fd EXCEPT ![p] = i]
           /\ content' = [content EXCEPT ![i] = [n \in Piece |-> "none"]]
    /\ written' = [written EXCEPT ![p] = 0]
    /\ \E b \in {"good"} \cup (IF Unreliable THEN {"bad"} ELSE {}) : body' = [body EXCEPT ![p] = b]
    /\ overlapped' = (overlapped \/ \E q \in Proc \ {p} : at[q] \in Downloading)
    /\ UNCHANGED <<given, cached, excused>>

\* io.Copy, each write at the process's own offset.
Copy(p) ==
    /\ at[p] = "copy" /\ written[p] < Pieces
    /\ written' = [written EXCEPT ![p] = @ + 1]
    /\ content' = [content EXCEPT ![fd[p]][written'[p]] = body[p]]
    /\ at' = IF written'[p] = Pieces THEN [at EXCEPT ![p] = "close"] ELSE at
    /\ UNCHANGED <<given, fd, body, partial, cached, overlapped, excused>>

\* The connection breaks.  os.Remove takes the name away, whoever it belongs to.
BreakOff(p) ==
    /\ at[p] = "copy" /\ Unreliable
    /\ Go(p, "failed") /\ excused' = [excused EXCEPT ![p] = TRUE]
    /\ fd' = [fd EXCEPT ![p] = None] /\ partial' = None
    /\ UNCHANGED <<given, written, body, content, cached, overlapped>>

\* Close, and Chmod by name.
CloseFile(p) ==
    /\ at[p] = "close"
    /\ fd' = [fd EXCEPT ![p] = None]
    /\ Go(p, IF partial = None THEN "failed" ELSE "verify")
    /\ UNCHANGED <<given, written, body, content, partial, cached, overlapped, excused>>

\* (Mutant: the checksum is not compared.)
Matches_Unchecked(i) == TRUE
\* verifySHA256
Matches(i) == \A n \in Piece : content[i][n] = "good"

Verify(p) ==
    /\ at[p] = "verify"
    /\ IF partial # None /\ Matches(partial) THEN Go(p, "rename") /\ UNCHANGED <<partial, excused>>
       ELSE /\ Go(p, "failed") /\ partial' = None
            /\ excused' = [excused EXCEPT ![p] = @ \/ body[p] = "bad"]
    /\ UNCHANGED <<given, fd, written, body, content, cached, overlapped>>

Rename(p) ==
    /\ at[p] = "rename"
    /\ IF partial = None THEN Go(p, "failed") /\ UNCHANGED <<partial, cached>>
       ELSE Go(p, "probe") /\ cached' = partial /\ partial' = None
    /\ UNCHANGED <<given, fd, written, body, content, overlapped, excused>>

\* ResolveTool looks at what Download returned as at any other candidate.
ProbeNew(p) ==
    /\ at[p] = "probe"
    /\ \E runs \in Runs(cached) : Go(p, IF runs THEN "resolved" ELSE "failed")
    /\ UNCHANGED <<given, files, overlapped, excused>>

\* External: the process is killed and another is started in its place.
Crash(p) ==
    /\ crashes < MaxCrashes /\ at[p] \notin Settled
    /\ crashes' = crashes + 1 /\ Go(p, "named")
    /\ fd' = [fd EXCEPT ![p] = None]
    /\ UNCHANGED <<named, onPath, may, written, body, content, partial, cached, overlapped, excused>>

ToolStep(p) ==
    \/ TryNamed(p) \/ TryPath(p) \/ TryCache(p) \/ Ask(p) \/ NoResponse(p) \/ Open(p) \/ Copy(p)
    \/ BreakOff(p) \/ CloseFile(p) \/ Verify(p) \/ Rename(p) \/ ProbeNew(p)
ToolNext == \E p \in Proc : ToolStep(p) \/ Crash(p)

\* ResolveTool by itself.
ToolDone == (\A p \in Proc : at[p] \in Settled) /\ UNCHANGED toolVars
ToolSpec == ToolInit /\ [][ToolNext \/ ToolDone]_toolVars
-----------------------------------------------------------------------------
(* Properties. *)

ToolTypeOK ==
    /\ at \in [Proc -> {"named", "path", "cache", "ask", "request", "probe"} \cup Downloading \cup Settled]
    /\ named \in [Proc -> {"no", "works", "broken"}] /\ may \in [Proc -> BOOLEAN]
    /\ fd \in [Proc -> Inode \cup {None}] /\ written \in [Proc -> 0..Pieces]
    /\ body \in [Proc -> {"good", "bad"}]
    /\ content \in [Inode -> [Piece -> {"none", "good", "bad"}]]
    /\ partial \in Inode \cup {None} /\ cached \in Inode \cup {None}
    /\ overlapped \in BOOLEAN /\ excused \in [Proc -> BOOLEAN]

\* A download enters the cache whole or not at all, whatever the network does and
\* wherever a process dies, as long as no other process downloads the same tool
\* (downloadExecutable: "atomically via a *.partial file").
CacheIsWhole ==
    ~overlapped /\ cached \notin {None, Old} => \A n \in Piece : content[cached][n] = "good"

\* Without a failing network, a refusal or a second download, the tool is found:
\* what is broken in $PATH or in the cache, or was left by a process that died,
\* stands in nobody's way (ResolveTool).
FoundUnlessRefused ==
    \A p \in Proc : at[p] = "failed" =>
        named[p] = "broken" \/ ~may[p] \/ excused[p] \/ overlapped

\* What is said of downloadExecutable (k8s_binary_download.go:95): it streams "to
\* dst (atomically via a *.partial file)".  Two of them at a time share the file:
\* one truncates it between the other's checksum and rename, and if its own
\* connection then breaks, a part of a binary stays in the cache.
DownloadIsAtomic ==
    (\A p \in Proc : at[p] \in Settled) /\ cached \notin {None, Old} =>
        \A n \in Piece : content[cached][n] # "none"
=============================================================================
