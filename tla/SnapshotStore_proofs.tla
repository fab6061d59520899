------------------------ MODULE SnapshotStore_proofs ------------------------
(***************************************************************************)
(* Proofs about SnapshotStore: when every test file has a snapshot file of *)
(* its own, for any number of files, assertions, keys, values and runs,    *)
(* with or without writes that fail.                                       *)
(***************************************************************************)
EXTENDS SnapshotStore, TLAPS

\* No two test files share a snapshot file.
OneFileEach == \A p, q \in Proc : FileOf[p] = FileOf[q] => p = q

\* The file of p holds what its keys last passed with.
Stored(p) ==
    \A k \in DOMAIN accepted \cap KeysIn(FileOf[p]) :
        k \in DOMAIN disk[FileOf[p]] /\ disk[FileOf[p]][k] = accepted[k]

\* What p is about to write keeps every other snapshot, adds the new one, and
\* replaces one only under the flag.
Pending(p) ==
    /\ KeyOf(p) \in DOMAIN mem[p] /\ mem[p][KeyOf(p)] = Found(p)
    /\ \A k \in (DOMAIN accepted \cap KeysIn(FileOf[p])) \ {KeyOf(p)} :
          k \in DOMAIN mem[p] /\ mem[p][k] = accepted[k]
    /\ KeyOf(p) \in DOMAIN accepted => update

FileInv(p) ==
    /\ pc[p] # "write" => Stored(p)
    /\ pc[p] = "match" => mem[p] = disk[FileOf[p]]
    /\ pc[p] \in {"truncate", "write"} => Pending(p)
    /\ pc[p] # "done" => at[p] \in DOMAIN Asserts[p]

IInv == TypeOK /\ \A p \in Proc : FileInv(p)
-----------------------------------------------------------------------------
LEMMA EmptyContents == Empty \in Contents /\ DOMAIN Empty = {}
<1>1. Empty \in [{} -> Value]
  BY DEF Empty
<1> QED
  BY <1>1 DEF Contents

LEMMA PutContents ==
  ASSUME NEW c \in Contents, NEW k \in Key, NEW v \in Value
  PROVE  Put(c, k, v) \in Contents
<1>1. PICK K \in SUBSET Key : c \in [K -> Value]
  BY DEF Contents
<1>2. Put(c, k, v) \in [K \cup {k} -> Value]
  BY <1>1 DEF Put
<1> QED
  BY <1>2 DEF Contents

LEMMA DropContents ==
  ASSUME NEW c \in Contents, NEW L PROVE Drop(c, L) \in Contents
<1>1. PICK K \in SUBSET Key : c \in [K -> Value]
  BY DEF Contents
<1>2. Drop(c, L) \in [K \ L -> Value]
  BY <1>1 DEF Drop
<1> QED
  BY <1>2 DEF Contents

\* The assertion at work has a key of its file and a value.
LEMMA AtWork ==
  ASSUME TypeOK, NEW p \in Proc, at[p] \in DOMAIN Asserts[p]
  PROVE  /\ KeyOf(p) \in Key /\ Found(p) \in Value
         /\ KeyOf(p) \in KeysIn(FileOf[p])
<1>1. Asserts[p] \in Seq(Key)
  BY FilesAssumption
<1>2. KeyOf(p) \in Key
  BY <1>1 DEF KeyOf
<1>3. /\ got \in [Proc -> UNION {[1..n -> Value] : n \in {Len(Asserts[x]) : x \in Proc}}]
      /\ DOMAIN got[p] = DOMAIN Asserts[p]
  BY DEF TypeOK, Values
<1>4. PICK n : got[p] \in [1..n -> Value]
  BY <1>3
<1>5. Found(p) \in Value
  BY <1>3, <1>4 DEF Found
<1> QED
  BY <1>2, <1>5 DEF KeysIn, KeyOf

\* Different files have different keys.
LEMMA Separate ==
  ASSUME OneFileEach, NEW p \in Proc, NEW q \in Proc, p # q
  PROVE  /\ FileOf[p] # FileOf[q]
         /\ KeysIn(FileOf[p]) \cap KeysIn(FileOf[q]) = {}
<1>1. FileOf[p] # FileOf[q]
  BY DEF OneFileEach
<1>2. ASSUME NEW k \in KeysIn(FileOf[p]), k \in KeysIn(FileOf[q]) PROVE FALSE
  <2>1. PICK x \in Proc : FileOf[x] = FileOf[p] /\ \E i \in DOMAIN Asserts[x] : Asserts[x][i] = k
    BY DEF KeysIn
  <2>2. PICK y \in Proc : FileOf[y] = FileOf[q] /\ \E j \in DOMAIN Asserts[y] : Asserts[y][j] = k
    BY <1>2 DEF KeysIn
  <2> QED
    BY <2>1, <2>2, <1>1, KeysAssumption
<1> QED
  BY <1>1, <1>2

\* The file goes on to its next assertion, or is done.
LEMMA AdvanceEffect ==
  ASSUME TypeOK, NEW p \in Proc, at[p] \in DOMAIN Asserts[p], Advance(p)
  PROVE  /\ at' \in [Proc -> Nat \ {0}] /\ at'[p] <= Len(Asserts[p]) + 1
         /\ pc' \in [Proc -> {"load", "match", "truncate", "write", "done"}]
         /\ pc'[p] \in {"load", "done"}
         /\ pc'[p] # "done" => at'[p] \in DOMAIN Asserts[p]
         /\ \A q \in Proc \ {p} : at'[q] = at[q] /\ pc'[q] = pc[q]
<1>1. Asserts[p] \in Seq(Key)
  BY FilesAssumption
<1>2. /\ Len(Asserts[p]) \in Nat /\ DOMAIN Asserts[p] = 1..Len(Asserts[p])
      /\ at[p] \in Nat \ {0}
  BY <1>1 DEF TypeOK
<1>3. at' \in [Proc -> Nat \ {0}] /\ at'[p] = at[p] + 1
  BY <1>2 DEF Advance, Following, TypeOK
<1>4. pc' = [pc EXCEPT ![p] = IF at'[p] > Len(Asserts[p]) THEN "done" ELSE "load"]
  BY DEF Advance
<1> QED
  BY <1>2, <1>3, <1>4 DEF Advance, TypeOK

\* What one file does leaves the invariant of the others alone.
LEMMA OthersKept ==
  ASSUME NEW p \in Proc, NEW q \in Proc, OneFileEach, p # q, FileInv(q),
         update' = update, got' = got,
         at'[q] = at[q], pc'[q] = pc[q], mem'[q] = mem[q],
         disk'[FileOf[q]] = disk[FileOf[q]],
         \A k \in Key \ KeysIn(FileOf[p]) :
             /\ k \in DOMAIN accepted' <=> k \in DOMAIN accepted
             /\ k \in DOMAIN accepted => accepted'[k] = accepted[k]
  PROVE  FileInv(q)'
<1>1. \A k \in KeysIn(FileOf[q]) : k \in Key \ KeysIn(FileOf[p])
  BY Separate DEF KeysIn
<1>2. KeyOf(q)' = KeyOf(q) /\ Found(q)' = Found(q)
  BY DEF KeyOf, Found
<1>3. Stored(q) => Stored(q)'
  BY <1>1 DEF Stored
<1>4. at[q] \in DOMAIN Asserts[q] => KeyOf(q) \in KeysIn(FileOf[q])
  BY FilesAssumption DEF KeysIn, KeyOf
<1>5. at[q] \in DOMAIN Asserts[q] /\ Pending(q) => Pending(q)'
  BY <1>1, <1>2, <1>4 DEF Pending
<1> QED
  BY <1>3, <1>5 DEF FileInv
-----------------------------------------------------------------------------
\* A file with no assertion is done from the start.
LEMMA StartTyped ==
  ASSUME NEW p \in Proc
  PROVE  /\ Start(p) \in {"load", "done"}
         /\ Start(p) # "done" => 1 \in DOMAIN Asserts[p]
         /\ 1 <= Len(Asserts[p]) + 1
<1>1. Asserts[p] \in Seq(Key)
  BY FilesAssumption
<1>2. Asserts[p] # <<>> => 1 \in DOMAIN Asserts[p]
  BY <1>1
<1>3. Len(Asserts[p]) \in Nat
  BY <1>1
<1> QED
  BY <1>2, <1>3 DEF Start

LEMMA InitIInv == Init => IInv
<1> SUFFICES ASSUME Init PROVE IInv
  OBVIOUS
<1>1. TypeOK
  <2>1. update \in BOOLEAN /\ got \in Values /\ failed \in BOOLEAN /\ accepted \in Contents
    BY EmptyContents DEF Init
  <2>2. disk \in [Suite -> Contents] /\ mem \in [Proc -> Contents]
    BY EmptyContents DEF Init
  <2>3. pc \in [Proc -> {"load", "match", "truncate", "write", "done"}]
    BY StartTyped DEF Init
  <2>4. at \in [Proc -> Nat \ {0}] /\ \A p \in Proc : at[p] <= Len(Asserts[p]) + 1
    BY StartTyped DEF Init
  <2>5. run \in 1..MaxRuns
    BY BoundsAssumption DEF Init
  <2>6. baseline.green \in BOOLEAN
    BY DEF Init
  <2> QED
    BY <2>1, <2>2, <2>3, <2>4, <2>5, <2>6 DEF TypeOK
<1>2. \A p \in Proc : FileInv(p)
  <2> TAKE p \in Proc
  <2>1. pc[p] \in {"load", "done"} /\ at[p] = 1 /\ pc[p] = Start(p)
    BY StartTyped DEF Init
  <2>2. Stored(p)
    BY EmptyContents DEF Init, Stored
  <2> QED
    BY <2>1, <2>2, StartTyped DEF FileInv
<1> QED
  BY <1>1, <1>2 DEF IInv

LEMMA LoadIInv ==
  ASSUME OneFileEach, IInv, NEW p \in Proc, Load(p) PROVE IInv'
<1>1. /\ disk[FileOf[p]] \in Contents /\ at[p] \in DOMAIN Asserts[p]
  BY FilesAssumption DEF IInv, TypeOK, FileInv, Load
<1>2. TypeOK'
  BY <1>1 DEF IInv, TypeOK, Load, Values
<1>3. FileInv(p)'
  <2>1. pc'[p] = "match" /\ mem'[p] = disk[FileOf[p]] /\ at' = at /\ disk' = disk
    BY DEF Load, IInv, TypeOK
  <2>2. Stored(p)'
    BY DEF Load, IInv, FileInv, Stored
  <2> QED
    BY <1>1, <2>1, <2>2 DEF FileInv
<1>4. \A q \in Proc \ {p} : FileInv(q)'
  <2> TAKE q \in Proc \ {p}
  <2> QED
    BY OthersKept DEF Load, IInv, TypeOK
<1> QED
  BY <1>2, <1>3, <1>4 DEF IInv

LEMMA MatchIInv ==
  ASSUME OneFileEach, IInv, NEW p \in Proc, Match(p) PROVE IInv'
<1>1. /\ TypeOK /\ at[p] \in DOMAIN Asserts[p] /\ pc[p] = "match"
      /\ mem[p] = disk[FileOf[p]] /\ Stored(p) /\ mem[p] \in Contents
  BY DEF IInv, TypeOK, FileInv, Match
<1>2. KeyOf(p) \in Key /\ Found(p) \in Value /\ KeyOf(p) \in KeysIn(FileOf[p])
  BY <1>1, AtWork
<1>3. UNCHANGED <<run, update, got, disk, accepted, baseline>>
  BY DEF Match
<1>4. CASE ToBeStored(p)
  <2>1. /\ mem' = [mem EXCEPT ![p] = Put(mem[p], KeyOf(p), Found(p))]
        /\ pc' = [pc EXCEPT ![p] = "truncate"] /\ UNCHANGED <<at, failed>>
    BY <1>4 DEF Match, Inserted
  <2>2. TypeOK'
    BY <1>1, <1>2, <1>3, <2>1, PutContents DEF TypeOK, Values
  <2>3. Stored(p)'
    BY <1>1, <1>3 DEF Stored
  <2>4. Pending(p)'
    <3>1. mem'[p] = Put(mem[p], KeyOf(p), Found(p)) /\ KeyOf(p)' = KeyOf(p) /\ Found(p)' = Found(p)
      BY <1>1, <1>3, <2>1 DEF TypeOK, KeyOf, Found
    <3>2. KeyOf(p) \in DOMAIN accepted => update
      BY <1>1, <1>2, <1>4 DEF Stored, ToBeStored
    <3> QED
      BY <1>1, <1>3, <3>1, <3>2 DEF Pending, Put, Stored
  <2>5. FileInv(p)'
    BY <1>1, <2>1, <2>3, <2>4 DEF FileInv, TypeOK
  <2>6. \A q \in Proc \ {p} : FileInv(q)'
    <3> TAKE q \in Proc \ {p}
    <3> QED
      BY <1>1, <1>3, <2>1, OthersKept DEF IInv, TypeOK
  <2> QED
    BY <2>2, <2>5, <2>6 DEF IInv
<1>5. CASE ~ToBeStored(p)
  <2>1. Advance(p) /\ mem' = mem /\ failed' = (failed \/ mem[p][KeyOf(p)] # Found(p))
    BY <1>5 DEF Match
  <2>2. failed' \in BOOLEAN
    BY <1>1, <2>1 DEF TypeOK
  <2>3. TypeOK'
    BY <1>1, <1>3, <2>1, <2>2, AdvanceEffect DEF TypeOK, Values
  <2>4. FileInv(p)'
    BY <1>1, <1>3, <2>1, AdvanceEffect DEF FileInv, Stored
  <2>5. \A q \in Proc \ {p} : FileInv(q)'
    <3> TAKE q \in Proc \ {p}
    <3> QED
      BY <1>1, <1>3, <2>1, AdvanceEffect, OthersKept DEF IInv
  <2> QED
    BY <2>3, <2>4, <2>5 DEF IInv
<1> QED
  BY <1>4, <1>5

LEMMA TruncateIInv ==
  ASSUME OneFileEach, IInv, NEW p \in Proc, Truncate(p) PROVE IInv'
<1>1. /\ TypeOK /\ at[p] \in DOMAIN Asserts[p] /\ pc[p] = "truncate"
      /\ Stored(p) /\ Pending(p)
  BY DEF IInv, TypeOK, FileInv, Truncate
<1>2. UNCHANGED <<run, update, got, mem, accepted, baseline>>
  BY DEF Truncate
<1>3. CASE disk' = [disk EXCEPT ![FileOf[p]] = Empty]
           /\ pc' = [pc EXCEPT ![p] = "write"] /\ UNCHANGED <<at, failed>>
  <2>1. TypeOK'
    BY <1>1, <1>2, <1>3, EmptyContents DEF TypeOK, Values
  <2>2. FileInv(p)'
    <3>1. KeyOf(p)' = KeyOf(p) /\ Found(p)' = Found(p)
      BY <1>2, <1>3 DEF KeyOf, Found
    <3> QED
      BY <1>1, <1>2, <1>3, <3>1 DEF FileInv, Pending, TypeOK
  <2>3. \A q \in Proc \ {p} : FileInv(q)'
    <3> TAKE q \in Proc \ {p}
    <3>1. disk'[FileOf[q]] = disk[FileOf[q]]
      BY <1>1, <1>3, FilesAssumption, Separate DEF TypeOK
    <3> QED
      BY <1>1, <1>2, <1>3, <3>1, OthersKept DEF IInv, TypeOK
  <2> QED
    BY <2>1, <2>2, <2>3 DEF IInv
<1>4. CASE Advance(p) /\ disk' = disk /\ failed' = TRUE
  <2>1. TypeOK'
    BY <1>1, <1>2, <1>4, AdvanceEffect DEF TypeOK, Values
  <2>2. FileInv(p)'
    BY <1>1, <1>2, <1>4, AdvanceEffect DEF FileInv, Stored
  <2>3. \A q \in Proc \ {p} : FileInv(q)'
    <3> TAKE q \in Proc \ {p}
    <3> QED
      BY <1>1, <1>2, <1>4, AdvanceEffect, OthersKept DEF IInv
  <2> QED
    BY <2>1, <2>2, <2>3 DEF IInv
<1> QED
  BY <1>3, <1>4 DEF Truncate

LEMMA WriteIInv ==
  ASSUME OneFileEach, IInv, NEW p \in Proc, Write(p) PROVE IInv'
<1>1. /\ TypeOK /\ at[p] \in DOMAIN Asserts[p] /\ pc[p] = "write"
      /\ Pending(p) /\ mem[p] \in Contents /\ Advance(p)
  BY DEF IInv, TypeOK, FileInv, Write
<1>2. KeyOf(p) \in Key /\ Found(p) \in Value /\ KeyOf(p) \in KeysIn(FileOf[p])
  BY <1>1, AtWork
<1>3. UNCHANGED <<run, update, got, mem, baseline>>
  BY DEF Write
<1>4. CASE /\ disk' = [disk EXCEPT ![FileOf[p]] = mem[p]]
           /\ accepted' = Put(accepted, KeyOf(p), Found(p)) /\ UNCHANGED failed
  <2>1. TypeOK'
    BY <1>1, <1>2, <1>3, <1>4, AdvanceEffect, PutContents DEF TypeOK, Values
  <2>2. disk'[FileOf[p]] = mem[p]
    BY <1>1, <1>4, FilesAssumption DEF TypeOK
  <2>3. Stored(p)'
    BY <1>1, <1>4, <2>2 DEF Stored, Pending, Put
  <2>4. FileInv(p)'
    BY <1>1, <2>3, AdvanceEffect DEF FileInv
  <2>5. \A q \in Proc \ {p} : FileInv(q)'
    <3> TAKE q \in Proc \ {p}
    <3>1. disk'[FileOf[q]] = disk[FileOf[q]]
      BY <1>1, <1>4, FilesAssumption, Separate DEF TypeOK
    <3>2. \A k \in Key \ KeysIn(FileOf[p]) :
             /\ k \in DOMAIN accepted' <=> k \in DOMAIN accepted
             /\ k \in DOMAIN accepted => accepted'[k] = accepted[k]
      <4> SUFFICES ASSUME NEW k \in Key \ KeysIn(FileOf[p])
                   PROVE  /\ k \in DOMAIN accepted' <=> k \in DOMAIN accepted
                          /\ k \in DOMAIN accepted => accepted'[k] = accepted[k]
        OBVIOUS
      <4> QED
        BY <1>2, <1>4 DEF Put
    <3> QED
      BY <1>1, <1>3, <3>1, <3>2, AdvanceEffect, OthersKept DEF IInv
  <2> QED
    BY <2>1, <2>4, <2>5 DEF IInv
<1>5. CASE /\ failed' = TRUE /\ disk' = disk
           /\ accepted' = Drop(accepted, KeysIn(FileOf[p]))
  <2>1. TypeOK'
    BY <1>1, <1>3, <1>5, AdvanceEffect, DropContents DEF TypeOK, Values
  <2>2. Stored(p)'
    BY <1>5 DEF Stored, Drop
  <2>3. FileInv(p)'
    BY <1>1, <2>2, AdvanceEffect DEF FileInv
  <2>4. \A q \in Proc \ {p} : FileInv(q)'
    <3> TAKE q \in Proc \ {p}
    <3>1. \A k \in Key \ KeysIn(FileOf[p]) :
             /\ k \in DOMAIN accepted' <=> k \in DOMAIN accepted
             /\ k \in DOMAIN accepted => accepted'[k] = accepted[k]
      BY <1>5 DEF Drop
    <3> QED
      BY <1>1, <1>3, <1>5, <3>1, AdvanceEffect, OthersKept DEF IInv
  <2> QED
    BY <2>1, <2>3, <2>4 DEF IInv
<1> QED
  BY <1>4, <1>5 DEF Write

LEMMA NextRunIInv ==
  ASSUME IInv, NextRun PROVE IInv'
<1>1. TypeOK /\ UNCHANGED <<disk, mem, accepted>> /\ Finished
  BY DEF IInv, NextRun
<1>2. TypeOK'
  <2>1. update' \in BOOLEAN /\ got' \in Values /\ failed' \in BOOLEAN
    BY DEF NextRun
  <2>2. run' \in 1..MaxRuns
    BY <1>1, BoundsAssumption DEF NextRun, TypeOK
  <2>3. pc' \in [Proc -> {"load", "match", "truncate", "write", "done"}]
    BY StartTyped DEF NextRun
  <2>4. at' \in [Proc -> Nat \ {0}] /\ \A p \in Proc : at'[p] <= Len(Asserts[p]) + 1
    BY StartTyped DEF NextRun
  <2>5. baseline'.green \in BOOLEAN
    <3>1. baseline'.green = ~failed
      BY DEF NextRun
    <3> QED
      BY <3>1, <1>1 DEF TypeOK
  <2> QED
    BY <1>1, <2>1, <2>2, <2>3, <2>4, <2>5 DEF TypeOK
<1>3. \A p \in Proc : FileInv(p)'
  <2> TAKE p \in Proc
  <2>1. pc'[p] \in {"load", "done"} /\ pc'[p] = Start(p) /\ at'[p] = 1
    BY StartTyped DEF NextRun
  <2>2. Stored(p)'
    BY <1>1 DEF IInv, FileInv, Finished, Stored
  <2> QED
    BY <2>1, <2>2, StartTyped DEF FileInv
<1> QED
  BY <1>2, <1>3 DEF IInv

LEMMA StutterIInv ==
  ASSUME IInv, UNCHANGED vars PROVE IInv'
<1>1. TypeOK'
  BY DEF IInv, TypeOK, vars, Values
<1>2. \A p \in Proc : FileInv(p)'
  BY DEF IInv, FileInv, Stored, Pending, KeyOf, Found, vars
<1> QED
  BY <1>1, <1>2 DEF IInv

LEMMA NextIInv == ASSUME OneFileEach, IInv, [Next]_vars PROVE IInv'
<1>1. CASE \E p \in Proc : Load(p) \/ Match(p) \/ Truncate(p) \/ Write(p)
  BY <1>1, LoadIInv, MatchIInv, TruncateIInv, WriteIInv
<1>2. CASE NextRun
  BY <1>2, NextRunIInv
<1>3. CASE Terminated \/ UNCHANGED vars
  BY <1>3, StutterIInv DEF Terminated
<1> QED
  BY <1>1, <1>2, <1>3 DEF Next

LEMMA Invariance == ASSUME OneFileEach PROVE Spec => []IInv
<1>1. Init => IInv
  BY InitIInv
<1>2. IInv /\ [Next]_vars => IInv'
  BY NextIInv
<1> QED
  BY <1>1, <1>2, PTL DEF Spec

\* What a run accepted is on disk, for the next run to compare with, whatever
\* wrote in parallel and whichever write failed (snapshot.go:48-56), as long as
\* no two test files share a snapshot file.
THEOREM AcceptedIsStored == ASSUME OneFileEach PROVE Spec => []StoredAsAccepted
<1>1. IInv => StoredAsAccepted
  BY DEF IInv, FileInv, Stored, StoredAsAccepted
<1> QED
  BY <1>1, Invariance, PTL

\* A step that replaces an accepted snapshot is a write under the flag.
LEMMA StepWritesFirst ==
  ASSUME IInv, [Next]_vars, NEW k \in DOMAIN accepted \cap DOMAIN accepted', ~update
  PROVE  accepted'[k] = accepted[k]
<1>1. CASE \E p \in Proc : Write(p)
  <2>1. PICK p \in Proc : Write(p)
    BY <1>1
  <2>2. Pending(p)
    BY <2>1 DEF IInv, FileInv, Write
  <2>3. CASE accepted' = Put(accepted, KeyOf(p), Found(p))
    BY <2>2, <2>3 DEF Put, Pending
  <2>4. CASE accepted' = Drop(accepted, KeysIn(FileOf[p]))
    BY <2>4 DEF Drop
  <2> QED
    BY <2>1, <2>3, <2>4 DEF Write
<1>2. CASE UNCHANGED accepted
  BY <1>2
<1> QED
  BY <1>1, <1>2 DEF Next, Load, Match, Truncate, NextRun, Terminated, vars

\* Without --update-snapshots a stored snapshot is never replaced, so a changed
\* document cannot pass (snapshot.go:48-69), as long as no two test files share a
\* snapshot file.
THEOREM StoredNeverReplaced == ASSUME OneFileEach PROVE Spec => OnlyFirstRunWrites
<1>1. IInv /\ [Next]_vars =>
        [\A k \in DOMAIN accepted \cap DOMAIN accepted' : ~update => accepted'[k] = accepted[k]]_vars
  BY StepWritesFirst
<1> QED
  BY <1>1, Invariance, PTL DEF Spec, OnlyFirstRunWrites
-----------------------------------------------------------------------------
(* A run on unchanged documents. *)

\* The snapshots c agree with what the first n assertions of p find.
Agrees(c, p, n) ==
    \A i \in DOMAIN Asserts[p] : i <= n => Asserts[p][i] \in DOMAIN c /\ c[Asserts[p][i]] = got[p][i]

\* A run that updates stores one value for each key.
Comparable == update => OneValue(got)

\* As long as nothing failed, what p has passed agrees with its file, or with what
\* it is about to write to it.
Passed(p) ==
    /\ ~failed /\ Comparable /\ pc[p] # "write" => Agrees(disk[FileOf[p]], p, at[p] - 1)
    /\ ~failed /\ Comparable /\ pc[p] \in {"truncate", "write"} => Agrees(mem[p], p, at[p])
    /\ pc[p] = "done" => at[p] > Len(Asserts[p])

Replays == baseline.green /\ got = baseline.got /\ ~update /\ (baseline.update => OneValue(got))

\* In a run that repeats a green one, p has nothing to write: its file agrees with
\* all its assertions.
Kept(p) ==
    Replays => ~failed /\ pc[p] \notin {"truncate", "write"} /\ Agrees(disk[FileOf[p]], p, Len(Asserts[p]))

ReplayInv == \A p \in Proc : Passed(p) /\ Kept(p)

LEMMA InitReplay == Init => ReplayInv
<1> SUFFICES ASSUME Init, NEW p \in Proc PROVE Passed(p) /\ Kept(p)
  BY DEF ReplayInv
<1>1. Asserts[p] \in Seq(Key)
  BY FilesAssumption
<1>2. DOMAIN Asserts[p] = 1..Len(Asserts[p]) /\ Len(Asserts[p]) \in Nat
  BY <1>1
<1>3. Passed(p)
  BY <1>2, StartTyped DEF Init, Passed, Agrees, Start
<1>4. Kept(p)
  BY DEF Init, Kept, Replays
<1> QED
  BY <1>3, <1>4

\* What p does leaves the others alone, unless it fails a run that repeats a green one.
LEMMA OthersReplay ==
  ASSUME ReplayInv, NEW q \in Proc, UNCHANGED <<update, got, baseline>>,
         at'[q] = at[q], pc'[q] = pc[q], mem'[q] = mem[q], disk'[FileOf[q]] = disk[FileOf[q]],
         failed => failed', Replays => ~failed'
  PROVE  (Passed(q) /\ Kept(q))'
<1>1. Passed(q) /\ Kept(q)
  BY DEF ReplayInv
<1>2. Passed(q)'
  BY <1>1 DEF Passed, Agrees, Comparable, OneValue
<1>3. Kept(q)'
  BY <1>1 DEF Kept, Agrees, Replays, OneValue
<1> QED
  BY <1>2, <1>3

LEMMA LoadReplay == ASSUME IInv, ReplayInv, NEW p \in Proc, Load(p) PROVE ReplayInv'
<1>1. UNCHANGED <<update, got, baseline, at, disk, failed>> /\ pc'[p] = "match" /\ pc[p] = "load"
  BY DEF Load, IInv, TypeOK
<1>2. (Passed(p) /\ Kept(p))'
  BY <1>1 DEF ReplayInv, Passed, Kept, Agrees, Replays, Comparable, OneValue
<1>3. \A q \in Proc \ {p} : (Passed(q) /\ Kept(q))'
  <2> TAKE q \in Proc \ {p}
  <2>1. pc'[q] = pc[q] /\ mem'[q] = mem[q]
    BY DEF Load, IInv, TypeOK
  <2>2. Replays => ~failed'
    BY <1>1 DEF ReplayInv, Kept
  <2> QED
    BY <1>1, <2>1, <2>2, OthersReplay
<1> QED
  BY <1>2, <1>3 DEF ReplayInv

LEMMA MatchReplay == ASSUME IInv, ReplayInv, NEW p \in Proc, Match(p) PROVE ReplayInv'
<1>1. /\ TypeOK /\ at[p] \in DOMAIN Asserts[p] /\ pc[p] = "match"
      /\ mem[p] = disk[FileOf[p]] /\ Passed(p) /\ Kept(p)
  BY DEF IInv, TypeOK, FileInv, Match, ReplayInv
<1>2. UNCHANGED <<run, update, got, disk, accepted, baseline>>
  BY DEF Match
<1>3. /\ DOMAIN Asserts[p] = 1..Len(Asserts[p]) /\ Len(Asserts[p]) \in Nat
      /\ at[p] \in Nat /\ 1 <= at[p] /\ at[p] <= Len(Asserts[p])
  <2>1. Asserts[p] \in Seq(Key)
    BY FilesAssumption
  <2> QED
    BY <1>1, <2>1 DEF TypeOK
<1>4. CASE ToBeStored(p)
  <2>1. /\ mem' = [mem EXCEPT ![p] = Put(mem[p], KeyOf(p), Found(p))]
        /\ pc' = [pc EXCEPT ![p] = "truncate"] /\ UNCHANGED <<at, failed>>
    BY <1>4 DEF Match, Inserted
  <2>2. ~Replays
    BY <1>1, <1>3, <1>4 DEF Kept, Agrees, ToBeStored, KeyOf, Replays
  <2>3. ~failed /\ Comparable => Agrees(mem'[p], p, at[p])
    <3> SUFFICES ASSUME ~failed, Comparable, NEW i \in DOMAIN Asserts[p], i <= at[p]
                 PROVE  Asserts[p][i] \in DOMAIN mem'[p] /\ mem'[p][Asserts[p][i]] = got[p][i]
      BY DEF Agrees
    <3>1. mem'[p] = Put(mem[p], KeyOf(p), Found(p))
      BY <1>1, <2>1 DEF TypeOK
    <3>2. CASE i = at[p]
      BY <3>1, <3>2 DEF Put, KeyOf, Found
    <3>3. CASE i # at[p]
      <4>1. Asserts[p][i] \in DOMAIN mem[p] /\ mem[p][Asserts[p][i]] = got[p][i]
        BY <1>1, <1>3, <3>3 DEF Passed, Agrees
      <4>2. CASE Asserts[p][i] # KeyOf(p)
        BY <3>1, <4>1, <4>2 DEF Put
      <4>3. CASE Asserts[p][i] = KeyOf(p)
        <5>1. update
          BY <1>4, <4>1, <4>3 DEF ToBeStored
        <5>2. got[p][i] = Found(p)
          BY <1>1, <4>3, <5>1 DEF Comparable, OneValue, KeyOf, Found
        <5> QED
          BY <3>1, <4>3, <5>2 DEF Put
      <4> QED
        BY <4>2, <4>3
    <3> QED
      BY <3>2, <3>3
  <2>4. Passed(p)'
    BY <1>1, <1>2, <2>1, <2>3 DEF Passed, Agrees, TypeOK, Comparable, OneValue
  <2>5. ~Replays'
    BY <1>2, <2>2 DEF Replays, OneValue
  <2>6. \A q \in Proc \ {p} : (Passed(q) /\ Kept(q))'
    <3> TAKE q \in Proc \ {p}
    <3> QED
      BY <1>1, <1>2, <2>1, <2>2, OthersReplay DEF TypeOK
  <2> QED
    BY <2>4, <2>5, <2>6 DEF ReplayInv, Kept
<1>5. CASE ~ToBeStored(p)
  <2>1. Advance(p) /\ mem' = mem /\ failed' = (failed \/ mem[p][KeyOf(p)] # Found(p))
    BY <1>5 DEF Match
  <2>2. KeyOf(p) \in DOMAIN mem[p]
    BY <1>5 DEF ToBeStored
  <2>3. Replays => ~failed'
    BY <1>1, <1>3, <2>1 DEF Kept, Agrees, KeyOf, Found
  <2>4. at'[p] = at[p] + 1 /\ pc'[p] \in {"load", "done"} /\ (pc'[p] = "done" => at'[p] > Len(Asserts[p]))
    BY <1>1, <1>3, <2>1 DEF Advance, Following, TypeOK
  <2>5. ~failed' /\ Comparable => Agrees(disk[FileOf[p]], p, at[p])
    <3> SUFFICES ASSUME ~failed', Comparable, NEW i \in DOMAIN Asserts[p], i <= at[p]
                 PROVE  Asserts[p][i] \in DOMAIN mem[p] /\ mem[p][Asserts[p][i]] = got[p][i]
      BY <1>1 DEF Agrees
    <3>1. CASE i = at[p]
      BY <2>1, <2>2, <3>1 DEF KeyOf, Found
    <3>2. CASE i # at[p]
      <4>1. i <= at[p] - 1
        BY <1>3, <3>2
      <4>2. ~failed
        BY <2>1
      <4> QED
        BY <1>1, <4>1, <4>2 DEF Passed, Agrees
    <3> QED
      BY <3>1, <3>2
  <2>6. Passed(p)'
    BY <1>2, <1>3, <2>4, <2>5 DEF Passed, Agrees, Comparable, OneValue
  <2>7. Kept(p)'
    <3>1. Replays' <=> Replays
      BY <1>2 DEF Replays, OneValue
    <3> QED
      BY <1>1, <1>2, <2>3, <2>4, <3>1 DEF Kept, Agrees
  <2>8. \A q \in Proc \ {p} : (Passed(q) /\ Kept(q))'
    <3> TAKE q \in Proc \ {p}
    <3> QED
      BY <1>1, <1>2, <2>1, <2>3, AdvanceEffect, OthersReplay
  <2> QED
    BY <2>6, <2>7, <2>8 DEF ReplayInv
<1> QED
  BY <1>4, <1>5

LEMMA TruncateReplay ==
  ASSUME OneFileEach, IInv, ReplayInv, NEW p \in Proc, Truncate(p) PROVE ReplayInv'
<1>1. /\ TypeOK /\ at[p] \in DOMAIN Asserts[p] /\ pc[p] = "truncate" /\ Passed(p) /\ ~Replays
  BY DEF IInv, TypeOK, FileInv, Truncate, ReplayInv, Kept
<1>2. UNCHANGED <<run, update, got, mem, accepted, baseline>> /\ ~Replays'
  BY <1>1 DEF Truncate, Replays, OneValue
<1>3. CASE disk' = [disk EXCEPT ![FileOf[p]] = Empty]
           /\ pc' = [pc EXCEPT ![p] = "write"] /\ UNCHANGED <<at, failed>>
  <2>1. Passed(p)'
    BY <1>1, <1>2, <1>3 DEF Passed, Agrees, TypeOK, Comparable, OneValue
  <2>2. \A q \in Proc \ {p} : (Passed(q) /\ Kept(q))'
    <3> TAKE q \in Proc \ {p}
    <3>1. disk'[FileOf[q]] = disk[FileOf[q]]
      BY <1>1, <1>3, FilesAssumption, Separate DEF TypeOK
    <3> QED
      BY <1>1, <1>2, <1>3, <3>1, OthersReplay DEF TypeOK
  <2> QED
    BY <1>2, <2>1, <2>2 DEF ReplayInv, Kept
<1>4. CASE Advance(p) /\ disk' = disk /\ failed' = TRUE
  <2>1. Passed(p)'
    <3>1. pc'[p] = "done" => at'[p] > Len(Asserts[p])
      BY <1>1, <1>4 DEF Advance, Following, TypeOK
    <3> QED
      BY <1>4, <3>1 DEF Passed
  <2>2. \A q \in Proc \ {p} : (Passed(q) /\ Kept(q))'
    <3> TAKE q \in Proc \ {p}
    <3> QED
      BY <1>1, <1>2, <1>4, AdvanceEffect, OthersReplay
  <2> QED
    BY <1>2, <2>1, <2>2 DEF ReplayInv, Kept
<1> QED
  BY <1>3, <1>4 DEF Truncate

LEMMA WriteReplay ==
  ASSUME OneFileEach, IInv, ReplayInv, NEW p \in Proc, Write(p) PROVE ReplayInv'
<1>1. /\ TypeOK /\ at[p] \in DOMAIN Asserts[p] /\ pc[p] = "write" /\ Passed(p) /\ ~Replays /\ Advance(p)
  BY DEF IInv, TypeOK, FileInv, Write, ReplayInv, Kept
<1>2. UNCHANGED <<run, update, got, mem, baseline>> /\ ~Replays'
  BY <1>1 DEF Write, Replays, OneValue
<1>3. /\ at'[p] = at[p] + 1 /\ at[p] \in Nat /\ pc'[p] \in {"load", "done"}
      /\ pc'[p] = "done" => at'[p] > Len(Asserts[p])
  BY <1>1, AdvanceEffect DEF Advance, Following, TypeOK
<1>4. \A q \in Proc \ {p} : disk'[FileOf[q]] = disk[FileOf[q]]
  BY <1>1, FilesAssumption, Separate DEF TypeOK, Write
<1>5. failed' = failed \/ failed' = TRUE
  BY DEF Write
<1>6. Passed(p)'
  <2>1. CASE disk' = [disk EXCEPT ![FileOf[p]] = mem[p]] /\ UNCHANGED failed
    <3>1. disk'[FileOf[p]] = mem[p]
      BY <1>1, <2>1, FilesAssumption DEF TypeOK
    <3> QED
      BY <1>1, <1>2, <1>3, <2>1, <3>1 DEF Passed, Agrees, Comparable, OneValue
  <2>2. CASE failed' = TRUE
    BY <1>3, <2>2 DEF Passed
  <2> QED
    BY <2>1, <2>2 DEF Write
<1>7. \A q \in Proc \ {p} : (Passed(q) /\ Kept(q))'
  <2> TAKE q \in Proc \ {p}
  <2> QED
    BY <1>1, <1>2, <1>4, <1>5, AdvanceEffect, OthersReplay
<1> QED
  BY <1>2, <1>6, <1>7 DEF ReplayInv, Kept

LEMMA NextRunReplay == ASSUME IInv, ReplayInv, NextRun PROVE ReplayInv'
<1> SUFFICES ASSUME NEW p \in Proc PROVE (Passed(p) /\ Kept(p))'
  BY DEF ReplayInv
<1>1. /\ DOMAIN Asserts[p] = 1..Len(Asserts[p]) /\ Len(Asserts[p]) \in Nat
      /\ at[p] \in Nat /\ pc[p] = "done" /\ Passed(p)
  <2>1. Asserts[p] \in Seq(Key)
    BY FilesAssumption
  <2> QED
    BY <2>1 DEF IInv, TypeOK, NextRun, Finished, ReplayInv
<1>2. /\ pc'[p] = Start(p) /\ at'[p] = 1 /\ failed' = FALSE /\ disk' = disk
      /\ baseline' = [got |-> got, green |-> ~failed, update |-> update]
  BY DEF NextRun
<1>3. Passed(p)'
  BY <1>1, <1>2, StartTyped DEF Passed, Agrees, Start
<1>4. Kept(p)'
  <2> SUFFICES ASSUME Replays'
               PROVE  Agrees(disk[FileOf[p]], p, Len(Asserts[p]))'
    BY <1>2, StartTyped DEF Kept
  <2>1. ~failed /\ got' = got /\ Comparable
    BY <1>2 DEF Replays, Comparable, OneValue
  <2>2. \A i \in DOMAIN Asserts[p] : i <= at[p] - 1
    BY <1>1 DEF Passed
  <2> QED
    BY <1>1, <1>2, <2>1, <2>2 DEF Passed, Agrees
<1> QED
  BY <1>3, <1>4

LEMMA NextReplay == ASSUME OneFileEach, IInv, ReplayInv, [Next]_vars PROVE ReplayInv'
<1>1. CASE \E p \in Proc : Load(p) \/ Match(p) \/ Truncate(p) \/ Write(p)
  BY <1>1, LoadReplay, MatchReplay, TruncateReplay, WriteReplay
<1>2. CASE NextRun
  BY <1>2, NextRunReplay
<1>3. CASE Terminated \/ UNCHANGED vars
  BY <1>3 DEF Terminated, vars, ReplayInv, Passed, Kept, Agrees, Replays, Comparable, OneValue
<1> QED
  BY <1>1, <1>2, <1>3 DEF Next

\* A run on the documents of a green run before it is green again, although that
\* run may have written or updated every snapshot (snapshot.go:45-68), for any
\* number of assertions and runs, whether or not evaluations share keys, where no
\* two test files share a snapshot file; an update run that found several values
\* for one key is excepted.
THEOREM RepeatedRunGreen == ASSUME OneFileEach, Proc # {} PROVE Spec => []UnchangedStaysGreen
<1>1. Init => IInv /\ ReplayInv
  BY InitIInv, InitReplay
<1>2. IInv /\ ReplayInv /\ [Next]_vars => (IInv /\ ReplayInv)'
  BY NextIInv, NextReplay
<1>3. IInv /\ ReplayInv => UnchangedStaysGreen
  BY DEF ReplayInv, Kept, Replays, UnchangedStaysGreen
<1> QED
  BY <1>1, <1>2, <1>3, PTL DEF Spec
=============================================================================
