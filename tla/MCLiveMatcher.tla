---------------------------- MODULE MCLiveMatcher ----------------------------
(***************************************************************************)
(* The assertions for TLC's instance of LiveMatcher: each matcher and each *)
(* way to reach an http target, with timeouts below, at and above the poll *)
(* interval, and each way in which an assertion can be wrong.              *)
(***************************************************************************)
EXTENDS LiveMatcher

CONSTANTS MaxTimeout, MaxRetries, p1, p2

Call(m, v, f, t, n) == [matcher |-> m, via |-> v, quirk |-> f, timeout |-> t, count |-> n]

Polls == {Call(m, "none", "none", t, 0) : m \in Matchers \ {"http"}, t \in 0..MaxTimeout}
Https == {Call("http", v, "none", 2, n) : v \in Vias \ {"none"}, n \in 0..MaxRetries}
Wrong == {Call("waitFor", "none", "refused", 3, 0), Call("becomesReady", "none", "kind", 3, 0),
          Call("depWait", "none", "kind", 3, 0), Call("lookup", "none", "bare", 3, 0)}
         \cup {Call("http", "portforward", f, 1, 1) : f \in {"refused", "spec", "until"}}

SomeCalls == Polls \cup Https \cup Wrong
=============================================================================
