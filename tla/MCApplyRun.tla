----------------------------- MODULE MCApplyRun -----------------------------
(***************************************************************************)
(* Small instances of ApplyRun for TLC: what the test files may contain.   *)
(***************************************************************************)
EXTENDS ApplyRun

CONSTANTS d1, d2, crd

T(kind, good) == [kind |-> kind, good |-> good, outside |-> {}]
\* A test whose chart has an object at cluster scope.
Wide(kind, good) == [T(kind, good) EXCEPT !.outside = {crd}]

\* A file with no dependencies or hooks.
Plain(tests) == [loads |-> TRUE, gated |-> FALSE, clusterDeps |-> {}, suiteDeps |-> {},
                 testDeps |-> {}, hooks |-> {}, tests |-> tests]

\* Deps in all three scopes, hooks, a test that is skipped after one that runs.
Staged == [Plain(<<Wide("live", TRUE), T("skip", TRUE)>>) EXCEPT
              !.clusterDeps = {d1}, !.testDeps = {d2}, !.hooks = {"beforeAll", "setup"}]
\* A suite dep and a pinned test dep, two tests one after the other.
Suite  == [Plain(<<T("rejects", TRUE), Wide("live", FALSE)>>) EXCEPT !.suiteDeps = {d1}, !.testDeps = {d2}]
Gated  == [Plain(<<T("live", TRUE), T("unmatched", TRUE)>>) EXCEPT !.gated = TRUE]
Broken == [Plain(<<T("live", TRUE)>>) EXCEPT !.loads = FALSE]
Mixed  == Plain(<<T("unmatched", TRUE), T("helper", TRUE), T("rendered", TRUE)>>)

FaultyPlans == {Staged, Suite, Gated, Broken, Mixed}

\* For runs without faults: short files, good and bad.
QuickPlans == {Plain(<<T("helper", FALSE)>>),
               Plain(<<T("rejects", FALSE), T("rendered", TRUE)>>), Gated,
               [Plain(<<T("live", TRUE)>>) EXCEPT !.suiteDeps = {d1}, !.hooks = {"beforeAll"}]}

Flags(ff, kc, pw) == {[failFast |-> a, keepCluster |-> b, passOnWarning |-> c] : a \in ff, b \in kc, c \in pw}
AllFlags  == Flags(BOOLEAN, BOOLEAN, {FALSE})
FailFasts == Flags(BOOLEAN, {FALSE}, BOOLEAN)
=============================================================================
