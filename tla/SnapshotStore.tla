--------------------------- MODULE SnapshotStore ----------------------------
(***************************************************************************)
(* internal/snapshot as the test files use it.  Each matchSnapshot         *)
(* assertion loads the whole snapshot file, compares or inserts its key,   *)
(* and writes the whole file back (truncate, then write).  Test files run  *)
(* in parallel; successive runs of vigie see what earlier ones stored.     *)
(***************************************************************************)
EXTENDS Integers, Sequences

CONSTANTS
    Proc,      \* test files
    Suite,     \* snapshot files, one for each sanitised suite name
    FileOf,    \* [Proc -> Suite]
    Key,       \* snapshot keys: suite, test and assertion index
    Asserts,   \* [Proc -> Seq(Key)]: the matchSnapshot evaluations, in order; forEach
               \* evaluates one key on each document, and the children of one
               \* allOf or anyOf share their parent's
    Value,     \* normalised values
    MaxRuns,   \* runs of vigie, one after the other
    Faults     \* may a write to the disk fail?

ASSUME FilesAssumption == FileOf \in [Proc -> Suite] /\ Asserts \in [Proc -> Seq(Key)]
\* The key begins with the suite's name, and the file is named after the same part.
ASSUME KeysAssumption ==
    \A x, y \in Proc : \A i \in DOMAIN Asserts[x], j \in DOMAIN Asserts[y] :
        Asserts[x][i] = Asserts[y][j] => FileOf[x] = FileOf[y]
ASSUME BoundsAssumption == MaxRuns \in Nat \ {0} /\ Faults \in BOOLEAN

\* A snapshot file that does not exist and an empty one are loaded alike.
Contents == UNION {[K -> Value] : K \in SUBSET Key}
Empty    == [k \in {} |-> CHOOSE v \in Value : TRUE]

VARIABLES
    run,       \* which run of vigie this is
    update,    \* --update-snapshots
    got,       \* [Proc -> Seq(Value)]: what each assertion finds, this run
    disk,      \* [Suite -> Contents]
    pc,        \* [Proc -> {"load", "match", "truncate", "write", "done"}]
    at,        \* [Proc -> Nat]: the assertion being evaluated
    mem,       \* [Proc -> Contents]: the snapshots that Match loaded
    failed,    \* some assertion failed in this run
    accepted,  \* (history) the value that each key last passed with, until a write fails
    baseline   \* (history) [got |-> ..., green |-> ..., update |-> ...] of the run before

vars == <<run, update, got, disk, pc, at, mem, failed, accepted, baseline>>

KeyOf(p)   == Asserts[p][at[p]]
Found(p)   == got[p][at[p]]
KeysIn(f)  == {k \in Key : \E x \in Proc : FileOf[x] = f /\ \E i \in DOMAIN Asserts[x] : Asserts[x][i] = k}
Drop(c, K) == [k \in (DOMAIN c) \ K |-> c[k]]
Put(c, k, v) == [x \in (DOMAIN c) \cup {k} |-> IF x = k THEN v ELSE c[x]]

Start(p) == IF Asserts[p] = <<>> THEN "done" ELSE "load"
Values   == {g \in [Proc -> UNION {[1..n -> Value] : n \in {Len(Asserts[p]) : p \in Proc}}] :
                \A p \in Proc : DOMAIN g[p] = DOMAIN Asserts[p]}

Init ==
    /\ run = 1 /\ update \in BOOLEAN /\ got \in Values
    /\ disk = [s \in Suite |-> Empty]
    /\ pc = [p \in Proc |-> Start(p)] /\ at = [p \in Proc |-> 1]
    /\ mem = [p \in Proc |-> Empty] /\ failed = FALSE
    /\ accepted = Empty /\ baseline = [got |-> got, green |-> FALSE, update |-> FALSE]

\* The next assertion of the file.
Following(k) == k + 1
Advance(p) ==
    /\ at' = [at EXCEPT ![p] = Following(@)]
    /\ pc' = [pc EXCEPT ![p] = IF at'[p] > Len(Asserts[p]) THEN "done" ELSE "load"]

Load(p) ==
    /\ pc[p] = "load"
    /\ mem' = [mem EXCEPT ![p] = disk[FileOf[p]]]
    /\ pc' = [pc EXCEPT ![p] = "match"]
    /\ UNCHANGED <<run, update, got, disk, at, failed, accepted, baseline>>

\* (Mutant: a value that differs is stored like a new one.)
ToBeStored_Differs(p) == KeyOf(p) \in DOMAIN mem[p] => update \/ mem[p][KeyOf(p)] # Found(p)
ToBeStored(p) == KeyOf(p) \in DOMAIN mem[p] => update

\* (Mutants: the file is rewritten with the new key alone; an update does not
\* replace the old value.)
Inserted_Alone(p) == Put(Empty, KeyOf(p), Found(p))
Inserted_IfNew(p) == IF KeyOf(p) \in DOMAIN mem[p] THEN mem[p] ELSE Put(mem[p], KeyOf(p), Found(p))
Inserted(p) == Put(mem[p], KeyOf(p), Found(p))

Match(p) ==
    /\ pc[p] = "match"
    /\ \/ /\ ToBeStored(p)
          /\ mem' = [mem EXCEPT ![p] = Inserted(p)]
          /\ pc' = [pc EXCEPT ![p] = "truncate"]
          /\ UNCHANGED <<at, failed>>
       \/ /\ ~ToBeStored(p)
          /\ failed' = (failed \/ mem[p][KeyOf(p)] # Found(p))
          /\ Advance(p) /\ UNCHANGED mem
    /\ UNCHANGED <<run, update, got, disk, accepted, baseline>>

\* os.WriteFile truncates the file, then writes it; a failure fails the assertion,
\* and after the truncation it costs all that the file held.
Truncate(p) ==
    /\ pc[p] = "truncate"
    /\ \/ disk' = [disk EXCEPT ![FileOf[p]] = Empty]
          /\ pc' = [pc EXCEPT ![p] = "write"] /\ UNCHANGED <<at, failed>>
       \/ Faults /\ failed' = TRUE /\ Advance(p) /\ UNCHANGED disk
    /\ UNCHANGED <<run, update, got, mem, accepted, baseline>>

Write(p) ==
    /\ pc[p] = "write"
    /\ \/ disk' = [disk EXCEPT ![FileOf[p]] = mem[p]]
          /\ accepted' = Put(accepted, KeyOf(p), Found(p)) /\ UNCHANGED failed
       \/ /\ Faults /\ failed' = TRUE /\ UNCHANGED disk
          /\ accepted' = Drop(accepted, KeysIn(FileOf[p]))
    /\ Advance(p)
    /\ UNCHANGED <<run, update, got, mem, baseline>>

Finished == \A p \in Proc : pc[p] = "done"

\* The next run of vigie, on a chart that renders the same or something else.
NextRun ==
    /\ Finished /\ run < MaxRuns
    /\ run' = run + 1
    /\ baseline' = [got |-> got, green |-> ~failed, update |-> update]
    /\ update' \in BOOLEAN /\ got' \in Values
    /\ pc' = [p \in Proc |-> Start(p)] /\ at' = [p \in Proc |-> 1]
    /\ failed' = FALSE
    /\ UNCHANGED <<disk, mem, accepted>>

Terminated == Finished /\ run = MaxRuns /\ UNCHANGED vars

Next == (\E p \in Proc : Load(p) \/ Match(p) \/ Truncate(p) \/ Write(p)) \/ NextRun \/ Terminated

Spec == Init /\ [][Next]_vars
-----------------------------------------------------------------------------
(* Properties. *)

\* Types of the state.
TypeOK ==
    /\ run \in 1..MaxRuns /\ update \in BOOLEAN /\ got \in Values
    /\ disk \in [Suite -> Contents] /\ mem \in [Proc -> Contents]
    /\ pc \in [Proc -> {"load", "match", "truncate", "write", "done"}]
    /\ at \in [Proc -> Nat \ {0}] /\ \A p \in Proc : at[p] <= Len(Asserts[p]) + 1
    /\ failed \in BOOLEAN /\ accepted \in Contents /\ baseline.green \in BOOLEAN

\* types.go:266, matchSnapshot: "Asserts the document matches the stored snapshot;
\* writes on first run or with --update-snapshots."  Without the flag, a stored
\* snapshot is never replaced, so no changed document passes.
OnlyFirstRunWrites ==
    [][\A k \in DOMAIN accepted \cap DOMAIN accepted' : ~update => accepted'[k] = accepted[k]]_vars

\* What passed is stored: a file that nobody is writing holds the value that each
\* of its keys last passed with, so the next run compares with it
\* (snapshot.go:48-56).
StoredAsAccepted ==
    \A p \in Proc :
        (\A q \in Proc : FileOf[q] = FileOf[p] => pc[q] # "write") =>
            \A k \in DOMAIN accepted \cap KeysIn(FileOf[p]) :
                    k \in DOMAIN disk[FileOf[p]] /\ disk[FileOf[p]][k] = accepted[k]

\* Evaluations of one key find one value.
OneValue(g) ==
    \A p \in Proc : \A i, j \in DOMAIN Asserts[p] : Asserts[p][i] = Asserts[p][j] => g[p][i] = g[p][j]

\* A run whose documents are those of a green run before it is green again
\* (snapshot.go:45-68), also when that run was the one that updated them, unless
\* it updated one key with several values: the last one is stored.
UnchangedStaysGreen ==
    baseline.green /\ got = baseline.got /\ ~update /\ (baseline.update => OneValue(got)) => ~failed

\* types.go:266, matchSnapshot: "Asserts the document matches the stored snapshot;
\* writes on first run or with --update-snapshots."  With forEach (types.go:124:
\* "When true, runs one test per rendered document") too, what an update run has
\* written is what the next run on the same documents matches.
UpdatedStaysGreen == baseline.green /\ got = baseline.got /\ ~update => ~failed
=============================================================================
