------------------------------ MODULE MCDepDag ------------------------------
(***************************************************************************)
(* Small instances of DepDag for TLC: every list of up to three deps over  *)
(* the names a, b and c, cyclic ones, repeated names and unknown names     *)
(* among them, and lists with refs.                                        *)
(***************************************************************************)
EXTENDS DepDag

CONSTANTS a, b, c, u, deep, nested, flat, loop, empty, missing

D(n, after) == [name |-> n, after |-> after, ref |-> NoFile]
R(f)        == [name |-> u, after |-> <<>>, ref |-> f]

\* deep refers to nested, nested to flat, loop to itself.
Files == [f \in {deep, nested, flat, loop, empty} |->
             CASE f = deep   -> <<R(nested)>>
               [] f = nested -> <<R(flat), D(c, <<b>>), R(empty)>>
               [] f = flat   -> <<D(b, <<a, a>>)>>
               [] f = loop   -> <<R(loop)>>
               [] f = empty  -> <<>>]

Afters == {<<>>} \cup {<<x>> : x \in Name} \cup {<<x, y>> : x, y \in {a, b, c}}
Plain  == {<<>>} \cup {<<D(a, p)>> : p \in Afters}
              \cup {<<D(n, p), D(b, q), D(c, r)>> : n \in {a, b}, p, q, r \in Afters}
Refs   == {<<D(a, p), R(f)>> : p \in {<<>>, <<c>>, <<u>>}, f \in File}
              \cup {<<R(f), R(g)>> : f, g \in {nested, loop, empty}}
AllLists == Plain \cup Refs
=============================================================================
