-------------------------- MODULE MCSnapshotStore ---------------------------
(***************************************************************************)
(* Small instances of SnapshotStore for TLC: two test files in suites of   *)
(* their own or in one, the first with two keys or with one that forEach   *)
(* evaluates twice.                                                        *)
(***************************************************************************)
EXTENDS SnapshotStore

CONSTANTS p, q, s, t, k1, k2, k3

TwoAndOne == [x \in Proc |-> IF x = p THEN <<k1, k2>> ELSE <<k3>>]
Repeated  == [x \in Proc |-> IF x = p THEN <<k1, k2, k1>> ELSE <<k3>>]
Apart     == [x \in Proc |-> IF x = p THEN s ELSE t]
Together  == [x \in Proc |-> s]
=============================================================================
