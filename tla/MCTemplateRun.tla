---------------------------- MODULE MCTemplateRun ----------------------------
(***************************************************************************)
(* A chart, a forest of assertions and a choice of suites for TLC's        *)
(* instance of TemplateRun.                                                *)
(***************************************************************************)
EXTENDS TemplateRun, TLC

Leaves == "one" :> {"equal"} @@ "size" :> {"equal"} @@ "nine" :> {"equal"} @@ "notNine" :> {"equal"}
          @@ "service" :> {"equal"} @@ "third" :> {"equal"} @@ "two" :> {"hasDocuments"}
          @@ "breaks" :> {"failedTemplate"} @@ "call" :> {"http"} @@ "look" :> {"lookup"}
          @@ "either" :> {} @@ "both" :> {}
Nodes == DOMAIN Leaves

OnFields(k, i) == [kind |-> k, name |-> "", expr |-> "", index |-> i]
AllOfs  == [a \in Nodes |-> IF a = "both" THEN {"one", "two"} ELSE {}]
AnyOfs  == [a \in Nodes |-> IF a = "either" THEN {"nine", "call"} ELSE {}]
Nesteds == [a \in Nodes |-> IF a = "look" THEN {"call"} ELSE {}]
Nots    == [a \in Nodes |-> a = "notNine"]
Ons     == [a \in Nodes |-> CASE a = "service" -> OnFields("Service", -1)
                              [] a = "third"   -> OnFields("", 2)
                              [] OTHER         -> NoTarget]
Wants   == [a \in Nodes |-> CASE a = "size" -> Ref("size")
                              [] a = "two"  -> Lit(2)
                              [] a \in {"nine", "notNine"} -> Lit(9)
                              [] OTHER      -> Lit(1)]

\* Renders a Deployment of the given size and a Service, nothing, or an error.
Mode(v) == IF "mode" \in DOMAIN v THEN v["mode"] ELSE Text("normal")
Size(v) == IF "size" \in DOMAIN v THEN v["size"] ELSE Lit(1)
Rendered(v) ==
    CASE Mode(v) = Text("broken") -> [ok |-> FALSE, docs |-> <<>>]
      [] Mode(v) = Text("off")    -> [ok |-> TRUE, docs |-> <<>>]
      [] OTHER -> [ok |-> TRUE, docs |-> <<[kind |-> "Deployment", name |-> "app", size |-> Size(v)],
                                           [kind |-> "Service", name |-> "app", size |-> Lit(1)]>>]
Keys   == {"name", "size", "zone", "mode"}
Values == {Lit(i) : i \in {0, 1, 2, 3, 5}} \cup {Text(x) : x \in {"", "a", "b", "broken", "off"}}
          \cup {Ref("size"), Ref("none")}

Conforms(d) == d.size # Lit(0)

NoMatrix == [axes |-> Nothing, exclude |-> {}, include |-> <<>>]
Test(it, asserts) ==
    [it |-> it, asserts |-> asserts, kind |-> "plain", matrix |-> NoMatrix, cases |-> <<>>, set |-> NoSet,
     skip |-> FALSE, call |-> "", forEach |-> FALSE, target |-> NoTarget]
Axis(k, n) == k :> [i \in 1..n |-> Lit(i)]
Matrix(axes, exclude, include) ==
    [Test("grid", {"size"}) EXCEPT !.kind = "matrix", !.set = "size" :> Ref("size"),
                                   !.matrix = [axes |-> axes, exclude |-> exclude, include |-> include]]
Case(n, set) == [name |-> n, set |-> set, extra |-> "size" :> Lit(2)]
Cases(cs) == [Test("list", {"size"}) EXCEPT !.kind = "cases", !.cases = cs]

Suite(tests) == [tier |-> "template", features |-> FALSE, tests |-> tests, defaults |-> NoSet,
                 wellFormed |-> TRUE]
Sized(i) == "size" :> Lit(i)

SomeSuites ==
  { Suite(<<Matrix(Axis("size", 2) @@ Axis("zone", 2), {Sized(1) @@ "zone" :> Lit(2)},
                   <<Sized(2), Sized(3), Sized(3) @@ "zone" :> Lit(1), Sized(3)>>)>>),
    Suite(<<Matrix(Axis("size", 2) @@ Axis("zone", 0), {}, <<Sized(5)>>), Test("plain", {"one"}), Test("plain", {"one"})>>),
    [Suite(<<Test("first", {"one"}), Cases(<<Case("a", Sized(2)), Case("b", NoSet)>>), Test("last", {"one"})>>)
       EXCEPT !.defaults = "zone" :> Lit(1)],
    [Suite(<<Cases(<<Case("a", NoSet)>>)>>) EXCEPT !.defaults = "size" :> Ref("none")],
    Suite(<<Cases(<<Case("", NoSet)>>)>>),
    [Suite(<<Test("cluster", {"either"}), Test("wait", {"look"}), Test("local", {"both", "service"})>>) EXCEPT !.tier = "e2e"],
    [Suite(<<Test("cluster", {"look"})>>) EXCEPT !.tier = "e2e"],
    [Suite(<<Test("local", {"one"})>>) EXCEPT !.tier = "e2e", !.features = TRUE],
    Suite(<<Test("too much", {"look"})>>),
    [Suite(<<>>) EXCEPT !.wellFormed = FALSE],
    Suite(<<>>),
    Suite(<<[Test("later", {"nine"}) EXCEPT !.skip = TRUE], Test("third", {"third"}), Test("wrong", {"nine"})>>),
    Suite(<<[Test("helper", {"one"}) EXCEPT !.call = "works"], [Test("no helper", {}) EXCEPT !.call = "broken"]>>),
    Suite(<<[Test("breaks", {"breaks"}) EXCEPT !.set = "mode" :> Text("broken")],
            [Test("empty", {"notNine"}) EXCEPT !.set = "mode" :> Text("off")],
            [Test("invalid", {"two"}) EXCEPT !.set = Sized(0)]>>),
    Suite(<<[Test("each", {"notNine"}) EXCEPT !.forEach = TRUE, !.target = [OnFields("", -1) EXCEPT !.expr = "Service"]],
            [Test("none", {"notNine"}) EXCEPT !.target = [OnFields("", -1) EXCEPT !.name = "other"]]>>) }

\* A target that gives a kind, of which nothing is rendered, and an index.
IndexSuites ==
  { Suite(<<[Test("ingress", {"one"}) EXCEPT !.target = OnFields("Ingress", i)]>>) : i \in {-1, 0, 2} }

PlainFlags == [failFast : {FALSE}, passOnWarning : {FALSE}, schema : {FALSE}, bad : {FALSE},
               parallelism : {1}, file : {"none"}, match : {AnyName}]

Flags == [failFast : BOOLEAN, passOnWarning : {FALSE}, schema : {TRUE}, bad : {FALSE},
          parallelism : 0..2, file : {"none"}, match : {AnyName}]
         \cup [failFast : {FALSE}, passOnWarning : BOOLEAN, schema : BOOLEAN, bad : BOOLEAN,
               parallelism : {1}, file : {"none", "f1"},
               match : {AnyName, {<<"local", Nothing>>, <<"list", "name" :> Text("a")>>}}]
=============================================================================
