----------------------------- MODULE WorkerPool -----------------------------
(***************************************************************************)
(* What runParallel (internal/runner/parallel.go) promises its callers:    *)
(* one job per item, at most slots of them between start and finish, and   *)
(* a join that happens only when every job has finished.  It is the        *)
(* abstract specification that the file loops of both tiers implement.     *)
(***************************************************************************)
EXTENDS FiniteSets, Integers

CONSTANT Item   \* what the items of a call are taken from

VARIABLES items,  \* the items handed to runParallel
          slots,  \* capacity of the semaphore channel
          job,    \* [items -> {"waiting", "running", "finished"}]
          joined  \* TRUE once wg.Wait has returned

call == <<items, slots>>
vars == <<call, job, joined>>

Running  == {i \in items : job[i] = "running"}
SlotFree == Cardinality(Running) < slots

\* One call of runParallel; a parallelism of zero or less is treated as one.
Init == /\ items \subseteq Item /\ slots \in Nat \ {0}
        /\ job = [i \in items |-> "waiting"]
        /\ joined = FALSE

Begin(i) ==
    /\ job[i] = "waiting" /\ SlotFree
    /\ job' = [job EXCEPT ![i] = "running"]
    /\ UNCHANGED <<call, joined>>

Finish(i) ==
    /\ job[i] = "running"
    /\ job' = [job EXCEPT ![i] = "finished"]
    /\ UNCHANGED <<call, joined>>

\* A job that has nothing to do still takes its turn.
Pass(i) ==
    /\ job[i] = "waiting" /\ SlotFree
    /\ job' = [job EXCEPT ![i] = "finished"]
    /\ UNCHANGED <<call, joined>>

Join ==
    /\ ~joined
    /\ \A i \in items : job[i] = "finished"
    /\ joined' = TRUE
    /\ UNCHANGED <<call, job>>

Next == Join \/ \E i \in items : Begin(i) \/ Finish(i) \/ Pass(i)

Spec == Init /\ [][Next]_vars
=============================================================================
