----------------------------- MODULE Expansion -----------------------------
(***************************************************************************)
(* From the tests written in a suite to those that are run: defaults are   *)
(* merged in, a matrix or a list of cases turns one test into many, and    *)
(* ${{ }} references are filled in.  Go's maps are references: a test with *)
(* no inputs.set of its own shares the map of the suite's defaults.        *)
(***************************************************************************)
EXTENDS Integers, Sequences, FiniteSets, SequencesExt

CONSTANTS Key,    \* keys that maps may have
          Value,
          NoSet,  \* no inputs.set
          Shared  \* stands for the map that belongs to the suite's defaults

\* A value is literal, or a reference to a matrix axis or to a key of the case.
Lit(x)  == <<"lit", x>>
Text(x) == <<"text", x>>
Ref(k)  == <<"ref", k>>

Map == UNION {[K -> Value] : K \in SUBSET Key}
Nothing    == <<>>  \* the map without keys
Sole(k, v) == [x \in {k} |-> v]
\* for k, v := range f { g[k] = v }
Over(f, g) == [k \in DOMAIN f \cup DOMAIN g |-> IF k \in DOMAIN f THEN f[k] ELSE g[k]]

ASSUME MapAssumption ==
    IsFiniteSet(Key) /\ "name" \in Key /\ NoSet # Shared /\ NoSet \notin Map /\ Shared \notin Map

\* The elements of s that are in K, in their order.
Only(s, K) ==
    LET upto[n \in 0..Len(s)] == IF n = 0 THEN <<>>
                                 ELSE IF s[n] \in K THEN Append(upto[n - 1], s[n]) ELSE upto[n - 1]
    IN  upto[Len(s)]
-----------------------------------------------------------------------------
(* internal/matrix *)

\* (Mutant: one equal key is enough.)
MatchesExclude_AnyKey(combo, rule) == \E k \in DOMAIN rule \cap DOMAIN combo : combo[k] = rule[k]
MatchesExclude(combo, rule) ==
    DOMAIN rule \subseteq DOMAIN combo /\ \A k \in DOMAIN rule : combo[k] = rule[k]

IsSubset(sub, super) == DOMAIN sub \subseteq DOMAIN super /\ \A k \in DOMAIN sub : super[k] = sub[k]

\* One pass per dimension over the combinations so far; none without dimensions.
Combine(result, key, values) ==
    FlattenSeq([i \in DOMAIN result |-> [j \in DOMAIN values |-> Over(Sole(key, values[j]), result[i])]])

\* Go takes the axes in the order in which it iterates over the map of the matrix.
Cartesian(axes, order) ==
    LET upto[n \in 0..Len(order)] ==
            IF n = 0 THEN <<Nothing>>
            ELSE IF order[n] \in DOMAIN axes THEN Combine(upto[n - 1], order[n], axes[order[n]])
            ELSE upto[n - 1]
    IN  IF DOMAIN axes = {} THEN <<>> ELSE upto[Len(order)]

\* The orders in which Go may iterate over the axes of the tests' matrices.
Orders(tests) ==
    SetToSeqs(UNION {DOMAIN t.matrix.axes : t \in {u \in Range(tests) : u.kind = "matrix"}})

\* An include is merged into the combinations that already have all its keys,
\* which changes none of them, or becomes an entry of its own.
Expand(matrix, order) ==
    LET product  == Cartesian(matrix.axes, order)
        filtered == Only(product, {c \in Range(product) : ~\E rule \in matrix.exclude : MatchesExclude(c, rule)})
        upto[n \in 0..Len(matrix.include)] ==
            IF n = 0 THEN filtered
            ELSE LET out == upto[n - 1]
                     inc == matrix.include[n]
                 IN  IF \E i \in DOMAIN out : IsSubset(inc, out[i]) THEN out ELSE Append(out, inc)
    IN  upto[Len(matrix.include)]

\* Every case needs a name.
CasesExpand(cases) == \A i \in DOMAIN cases : cases[i].name # ""
-----------------------------------------------------------------------------
(* Interpolation. *)

Resolves(v, bindings) == v[1] = "ref" => v[2] \in DOMAIN bindings
Filled(v, bindings)   == IF v[1] = "ref" THEN bindings[v[2]] ELSE v
Interpolate(set, bindings) == [k \in DOMAIN set |-> Filled(set[k], bindings)]

\* interpolateTest goes through YAML and back: what comes out shares no map with
\* what went in.  (Mutant: it does.)
Copied_Alias(set, given) == set
Copied(set, given) == IF set = Shared THEN given ELSE set

\* interpolated.Inputs.Set[k] = v for each k of the case's set: the test's map,
\* and the shared one, afterwards.
CaseMerged(set, caseSet, given) ==
    IF caseSet = NoSet THEN [set |-> set, shared |-> given]
    ELSE IF set = Shared THEN [set |-> Shared, shared |-> Over(caseSet, given)]
    ELSE [set |-> IF set = NoSet THEN caseSet ELSE Over(caseSet, set), shared |-> given]
-----------------------------------------------------------------------------
(* MergeInputs and expandTests. *)

DisplayName(et) == <<et.test.it, et.label>>

\* MergeInputs hands out the map itself.
Merged(test, defaults) == IF test.set = NoSet /\ defaults # NoSet THEN Shared ELSE test.set

Entries(test, order) ==
    CASE test.kind = "matrix" ->
            LET entries == Expand(test.matrix, order)
            IN  [i \in DOMAIN entries |-> [label |-> entries[i], bindings |-> entries[i], set |-> NoSet]]
      [] test.kind = "cases" ->
            [i \in DOMAIN test.cases |->
               LET c == test.cases[i]
                   name == Sole("name", Text(c.name))
               IN  [label |-> name, bindings |-> Over(name, c.extra), set |-> c.set]]
      [] OTHER -> <<[label |-> Nothing, bindings |-> Nothing, set |-> NoSet]>>

\* One entry of a test, added to what is expanded so far.
AddEntry(acc, test, entry, defaults) ==
    LET set  == Merged(test, defaults)
        copy == Copied(set, acc.shared)
        mine == IF copy \in {NoSet, Shared} THEN copy ELSE Interpolate(copy, entry.bindings)
        both == IF test.kind = "plain" THEN [set |-> set, shared |-> acc.shared]
                ELSE CaseMerged(mine, entry.set, acc.shared)
    IN  [tests  |-> Append(acc.tests, [test |-> test, label |-> entry.label,
                                       bindings |-> entry.bindings, set |-> both.set]),
         shared |-> both.shared]

\* The values written in a test's own matrix or cases.
ValuesIn(map) == {map[k] : k \in DOMAIN map}
OwnValues(test) ==
    CASE test.kind = "matrix" -> UNION ({Range(test.matrix.axes[k]) : k \in DOMAIN test.matrix.axes}
              \cup {ValuesIn(m) : m \in test.matrix.exclude \cup Range(test.matrix.include)})
      [] test.kind = "cases"  -> UNION {ValuesIn(c.extra) \cup (IF c.set = NoSet THEN {} ELSE ValuesIn(c.set)) :
                                          c \in Range(test.cases)}
      [] OTHER -> {}

\* Is there an error for this test, whose assertions want the given values?  The
\* whole of it is interpolated, what is written in its matrix or its cases too;
\* plain tests are not.
ExpandFails(test, defaults, order, wanted) ==
    LET set    == IF test.set = NoSet THEN defaults ELSE test.set
        values == wanted \cup OwnValues(test) \cup (IF set = NoSet THEN {} ELSE ValuesIn(set))
    IN  \/ test.kind = "cases" /\ ~CasesExpand(test.cases)
        \/ /\ test.kind # "plain"
           /\ \E i \in DOMAIN Entries(test, order), v \in values :
                 ~Resolves(v, Entries(test, order)[i].bindings)

\* What the loop over the tests, and those over their entries, come to.
Jobs(tests, order) ==
    FlattenSeq([i \in DOMAIN tests |->
                  [j \in DOMAIN Entries(tests[i], order) |->
                     [test |-> tests[i], entry |-> Entries(tests[i], order)[j]]]])

ExpandTests(tests, defaults, order) ==
    LET jobs == Jobs(tests, order)
        upto[n \in 0..Len(jobs)] == IF n = 0 THEN [tests |-> <<>>, shared |-> defaults]
                                    ELSE AddEntry(upto[n - 1], jobs[n].test, jobs[n].entry, defaults)
    IN  upto[Len(jobs)]
-----------------------------------------------------------------------------
\* A test as the parser leaves it.
TestGiven(t) ==
    /\ t.kind \in {"plain", "matrix", "cases"} /\ (t.kind = "cases" => t.cases # <<>>)
    /\ t.set \in Map \cup {NoSet}
    /\ DOMAIN t.matrix.axes \subseteq Key
    /\ \A k \in DOMAIN t.matrix.axes : t.matrix.axes[k] \in Seq(Value)
    /\ t.matrix.include \in Seq(Map)
    /\ t.cases \in Seq([name : STRING, set : Map \cup {NoSet}, extra : Map])
    /\ \A i \in DOMAIN t.cases : Text(t.cases[i].name) \in Value
=============================================================================
