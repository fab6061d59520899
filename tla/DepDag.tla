------------------------------- MODULE DepDag -------------------------------
(***************************************************************************)
(* How deps.Install turns a list of dependencies into batches: ResolveRefs *)
(* inlines the files that ref entries name, validateNames and topoSort     *)
(* refuse what cannot be ordered, buildLevelBatches groups the rest.       *)
(***************************************************************************)
EXTENDS Integers, Sequences, FiniteSets

CONSTANTS
    Name,         \* names of dependencies
    File,         \* files that a ref may name
    NoFile,       \* the ref of an entry that is no ref
    Content,      \* their dependencies: lists; a file without one cannot be read
    Lists,        \* the lists that Install may be given
    MaxRefDepth   \* maxRefDepth, 8 in the code

\* dependsOn is a list: a name may occur in it twice.
Entry == [name : Name, after : Seq(Name), ref : File \cup {NoFile}]

ASSUME DepthAssumption == MaxRefDepth \in Nat
ASSUME ListsAssumption == Lists \subseteq Seq(Entry)
ASSUME ContentAssumption ==
    NoFile \notin File /\ DOMAIN Content \subseteq File /\ \A f \in DOMAIN Content : Content[f] \in Seq(Entry)

VARIABLES
    given,    \* the list that Install was called with
    pc,
    todo,     \* entries still to be resolved, with the depth they were found at
    deps,     \* the resolved list
    degree,   \* inDegree
    ready,    \* the queue of deps with nothing left to wait for
    sorted,   \* result of topoSort, as positions in deps
    batches   \* result of BuildBatches, as sets of positions

vars == <<given, pc, todo, deps, degree, ready, sorted, batches>>

At(list, depth) == [k \in DOMAIN list |-> [entry |-> list[k], depth |-> depth]]

Init ==
    /\ given \in Lists
    /\ pc = "resolve" /\ todo = At(given, 0)
    /\ deps = <<>> /\ degree = <<>> /\ ready = {} /\ sorted = <<>> /\ batches = <<>>

\* (Mutant: the depth is not handed down.)
FoundAt_Same(d) == d
FoundAt(d) == d + 1

\* resolveRefsDepth, depth first: an entry is kept, or replaced by the entries of
\* the file it names.  An empty file is not looked at any further.
ResolveEntry ==
    /\ pc = "resolve" /\ todo # <<>>
    /\ LET next == Head(todo)
           file == next.entry.ref
           below == IF file \in DOMAIN Content THEN At(Content[file], FoundAt(next.depth)) ELSE <<>>
       IN  \/ /\ file = NoFile
              /\ deps' = Append(deps, next.entry)
              /\ todo' = Tail(todo) /\ UNCHANGED pc
           \/ /\ file # NoFile /\ file \in DOMAIN Content
              /\ below = <<>> \/ FoundAt(next.depth) <= MaxRefDepth
              /\ todo' = below \o Tail(todo) /\ UNCHANGED <<pc, deps>>
           \/ /\ file # NoFile
              /\ file \notin DOMAIN Content \/ (below # <<>> /\ FoundAt(next.depth) > MaxRefDepth)
              /\ pc' = "bad ref" /\ UNCHANGED <<todo, deps>>
    /\ UNCHANGED <<given, degree, ready, sorted, batches>>

Names == {deps[k].name : k \in DOMAIN deps}
\* byName and inDegree are maps: of two deps with one name they keep the last.
Last(n) == CHOOSE k \in DOMAIN deps :
              deps[k].name = n /\ \A j \in DOMAIN deps : deps[j].name = n => j <= k

\* (Mutant: only the first entry of dependsOn is counted.)
InDegree_First(n) == IF deps[Last(n)].after = <<>> THEN 0 ELSE 1
InDegree(n) == Len(deps[Last(n)].after)

\* validateNames, and the first half of topoSort.
Validate ==
    /\ pc = "resolve" /\ todo = <<>>
    /\ IF \E k \in DOMAIN deps : \E j \in DOMAIN deps[k].after : deps[k].after[j] \notin Names
       THEN pc' = "unknown" /\ UNCHANGED <<degree, ready>>
       ELSE /\ pc' = "sort"
            /\ degree' = [n \in Names |-> InDegree(n)]
            /\ ready' = {n \in Names : InDegree(n) = 0}
    /\ UNCHANGED <<given, todo, deps, sorted, batches>>

\* dependents[n]: once for every mention of n in a dependsOn.
Mentions(m, n) ==
    Cardinality({p \in UNION {{k} \X DOMAIN deps[k].after : k \in DOMAIN deps} :
                    deps[p[1]].name = m /\ deps[p[1]].after[p[2]] = n})

\* One turn of Kahn's loop.  The roots come in Go's map order; the model lets any
\* dep that is ready go next.
Pop(n) ==
    /\ pc = "sort" /\ n \in ready
    /\ sorted' = Append(sorted, Last(n))
    /\ degree' = [m \in Names |-> degree[m] - Mentions(m, n)]
    /\ ready' = (ready \ {n}) \cup {m \in Names : degree[m] > 0 /\ degree'[m] <= 0}
    /\ UNCHANGED <<given, pc, todo, deps, batches>>

\* level[name], one more than the highest level of a prerequisite.
\* (Mutant: one more than the lowest.)
Least(S)  == CHOOSE x \in S : \A y \in S : x <= y
Most(S)   == CHOOSE x \in S : \A y \in S : y <= x
Prerequisites(k) == {Last(deps[k].after[j]) : j \in DOMAIN deps[k].after}
Height_Lowest(levels) == IF levels = {} THEN 0 ELSE 1 + Least(levels)
Height(levels) == IF levels = {} THEN 0 ELSE 1 + Most(levels)
Level == LET at[i \in DOMAIN sorted] ==
                 Height({at[j] : j \in {h \in 1..(i - 1) : sorted[h] \in Prerequisites(sorted[i])}})
         IN  at

\* (Mutant: the sorted list is compared with the set of names.)
Complete_Names == Len(sorted) = Cardinality(Names)
Complete == Len(sorted) = Len(deps)

\* The end of topoSort, and buildLevelBatches.
Group ==
    /\ pc = "sort" /\ ready = {}
    /\ IF ~Complete
       THEN pc' = "cycle" /\ UNCHANGED batches
       ELSE /\ pc' = "batched"
            /\ batches' = IF sorted = <<>> THEN <<>>
                          ELSE [l \in 1..(1 + Most({Level[i] : i \in DOMAIN sorted})) |->
                                   {sorted[i] : i \in {h \in DOMAIN sorted : Level[h] = l - 1}}]
    /\ UNCHANGED <<given, todo, deps, degree, ready, sorted>>

Terminated == pc \notin {"resolve", "sort"} /\ UNCHANGED vars

Next == ResolveEntry \/ Validate \/ (\E n \in Name : Pop(n)) \/ Group \/ Terminated

Spec == Init /\ [][Next]_vars
-----------------------------------------------------------------------------
(* Properties, against definitions that know nothing of degrees or levels. *)

Distinct == \A j, k \in DOMAIN deps : deps[j].name = deps[k].name => j = k
Waits(k) == {j \in DOMAIN deps : \E i \in DOMAIN deps[k].after : deps[k].after[i] = deps[j].name}

\* Types of the state; an in-degree never goes below zero unless a name is used twice.
TypeOK ==
    /\ given \in Lists /\ pc \in {"resolve", "bad ref", "unknown", "sort", "cycle", "batched"}
    /\ todo \in Seq([entry : Entry, depth : 0..MaxRefDepth]) /\ deps \in Seq(Entry)
    /\ pc = "sort" => degree \in [Names -> IF Distinct THEN Nat ELSE Int]
    /\ ready \subseteq Names /\ sorted \in Seq(DOMAIN deps) /\ batches \in Seq(SUBSET DOMAIN deps)

\* What can be ordered at all: round after round, the deps all of whose
\* prerequisites are in an earlier round.
Rounds == LET upto[r \in Nat] == IF r = 0 THEN {}
                  ELSE {k \in DOMAIN deps : Waits(k) \subseteq upto[r - 1]}
          IN  upto

\* While the sort runs, a dep is emitted once, and after everything it depends on
\* (dag.go:76-87), repeated mentions in dependsOn included.
PrerequisitesFirst ==
    Distinct => \A i \in DOMAIN sorted :
        /\ \A j \in DOMAIN sorted : sorted[i] = sorted[j] => i = j
        /\ \A k \in Waits(sorted[i]) : \E h \in 1..(i - 1) : sorted[h] = k

\* The batches are the rounds: those up to the r-th hold exactly the deps that can
\* be reached in r rounds, prerequisites first (dag.go:111-138).
BatchesAreRounds ==
    pc = "batched" => \A r \in 1..Len(batches) :
        batches[r] # {} /\ UNION {batches[i] : i \in 1..r} = Rounds[r]

\* Install goes on exactly when the list can be ordered: every dep of the resolved
\* list is in some batch and no name is used twice, and a list is refused as cyclic
\* only if it has a cycle or uses a name twice (dag.go:90-92).
RefusedForCause ==
    /\ pc = "batched" => Distinct /\ UNION {batches[i] : i \in DOMAIN batches} = DOMAIN deps
    /\ pc = "cycle" => ~Distinct \/ Rounds[Len(deps)] # DOMAIN deps

\* Refs nest at most MaxRefDepth deep in a list that is accepted, and a ref cycle
\* never is (source_ref.go:29-47): Found[d] is what is found d files down.
Found == LET at[d \in Nat] == IF d = 0 THEN {given[k] : k \in DOMAIN given}
                 ELSE UNION {{Content[e.ref][k] : k \in DOMAIN Content[e.ref]} :
                                e \in {x \in at[d - 1] : x.ref \in DOMAIN Content}}
         IN  at
RefsResolved ==
    pc \notin {"resolve", "bad ref"} =>
        /\ Found[MaxRefDepth + 1] = {}
        /\ {deps[k] : k \in DOMAIN deps} = {e \in UNION {Found[d] : d \in 0..MaxRefDepth} : e.ref = NoFile}
=============================================================================
