---------------------------- MODULE MCDepEngine -----------------------------
(***************************************************************************)
(* Small instances of DepEngine for TLC: the callers' dependency lists.    *)
(***************************************************************************)
EXTENDS DepEngine

CONSTANTS c1, c2, d1, d2, d3

After(pairs) == [d \in Dep |-> {p[2] : p \in {q \in pairs : q[1] = d}}]
L(sc, ds, ws, pairs) == [scope |-> sc, deps |-> ds, waits |-> ws, after |-> After(pairs)]

\* A chain, a fork, a join, and cluster deps that callers may share, with or
\* without a waitFor.
Chain  == L("suite", {d1, d2, d3}, {d1, d2}, {<<d2, d1>>, <<d3, d2>>})
Fork   == L("suite", {d1, d2, d3}, {d1, d2}, {<<d2, d1>>, <<d3, d1>>})
JoinUp == L("test", {d2, d3}, {d2, d3}, {<<d2, d3>>})
Shared == L("cluster", {d1, d2}, {d1, d2}, {<<d2, d1>>})
Flat   == L("cluster", {d1, d3}, {d3}, {})
Eager  == L("cluster", {d2}, {}, {})
Empty  == L("suite", {}, {}, {})

MixedLists   == {Chain, Fork, JoinUp, Shared, Flat, Empty}
SuiteLists   == {Fork}
BlindLists   == {JoinUp}
CachedLists  == {Shared, Eager}
=============================================================================
