---------------------------- MODULE LiveMatcher ----------------------------
(***************************************************************************)
(* One call of a matcher that looks at the live cluster (waitFor,          *)
(* becomesReady, eventEmitted, lookup, logsContain, http) or of a          *)
(* dependency's waitFor: its polling loop or its retries against a         *)
(* deadline, while the object looked at and the API server come and go,    *)
(* and the goroutines it starts (log streams, a port-forward) with the     *)
(* channel they answer on.  Time is counted in ticks; work takes none.     *)
(***************************************************************************)
EXTENDS Integers, FiniteSets

CONSTANTS
    Calls,      \* the assertions tried, see CallShape
    Pods,       \* pods that logsContain may select
    Forwarder,  \* the goroutine of forwarder.ForwardPorts
    Interval,   \* pollInterval, defaultPollInterval
    Pause,      \* retries.interval
    Grace       \* how long a port-forward may take to become ready

Matchers == {"waitFor", "becomesReady", "eventEmitted", "lookup", "lookupList", "depWait",
             "logsContain", "http"}
Vias     == {"none", "portforward", "nodeport", "direct", "ingress"}

\* What is special about an assertion.  "refused": its preamble fails (tier, REST
\* config, timeout, kind, pattern, target).  "kind": a kind whose readiness the
\* code does not know.  "bare": a lookup without until.  "spec": an http path,
\* timeout or retry that does not parse.  "until": retries.until is no condition.
Quirks == {"none", "refused", "kind", "bare", "spec", "until"}

CallShape == [matcher : Matchers, via : Vias, quirk : Quirks, timeout : Nat, count : Nat]

\* Only http has a target to reach; its timeout is a limit (http.Client takes 0 for none).
ASSUME CallsAssumption ==
    /\ Calls \subseteq CallShape
    /\ \A c \in Calls : (c.matcher = "http" <=> c.via # "none") /\ (c.matcher = "http" => c.timeout > 0)
ASSUME TicksAssumption == Interval \in Nat \ {0} /\ Pause \in Nat /\ Grace \in Nat
ASSUME ForwarderAssumption == Forwarder \notin Pods /\ IsFiniteSet(Pods)

Helpers == Pods \cup {Forwarder}
Objects == {"absent", "unmet", "met", "good"}
NoTime  == -1

VARIABLES
    call,      \* the assertion
    phase,     \* where its goroutine is
    clock,
    deadline,  \* of the poll, of the streams, of the current request
    wakeAt,    \* end of the current sleep
    attempt,   \* http: retries made
    cancelled, \* depWait: the caller's context was cancelled
    verdict,   \* "none", "pass", "fail", "timeout" (fail after looking as long as allowed)
    object,    \* what a look would find: "met" is the condition waited for, "good" also
               \* what then:, forEach: or the http assert block ask
    api,       \* the API server (http: the server asked) answers
    helper,    \* goroutine -> "idle", "running", "ended" (about to send), "gone"
    hit,       \* pods whose stream showed the pattern
    mail,      \* results in the channel
    closes,    \* how often stopChan was closed
    goodSince, \* (auxiliary) since when a look would have been a success
    lastLook   \* (auxiliary) a success that lasts since before this must be noticed

vars == <<call, phase, clock, deadline, wakeAt, attempt, cancelled, verdict, object, api,
          helper, hit, mail, closes, goodSince, lastLook>>
worldVars  == <<object, api, goodSince>>
timeVars   == <<clock, deadline, wakeAt>>
helperVars == <<helper, hit, mail, closes>>
-----------------------------------------------------------------------------
Is(m)    == call.matcher = m
Tunnel   == call.via = "portforward"

\* Loops written with PollUntilContextCancel: a sleep ends with the context.
Ticking  == Is("depWait") \/ call.via = "ingress"

\* (Mutant: one refused connection ends a waitFor.)
Impatient_All == TRUE
\* Loops that an error of the API server ends.
Impatient == Is("eventEmitted") \/ call.via = "ingress"

Expired == clock >= deadline \/ cancelled

\* What each loop waits for, in an object that a look returned.
ConditionMet(o)  == o \in {"met", "good"}
IsReady(o)       == call.quirk # "kind" /\ o \in {"met", "good"}
EventMatches(o)  == o \in {"met", "good"}
UntilMet(o)      == IF call.quirk = "bare" THEN o \in Objects \ {"absent"} ELSE o \in {"met", "good"}
ItemsListed(o)   == o \in Objects \ {"absent"}
AddressGiven(o)  == o \in {"met", "good"}
\* A dependency of a kind that checkReadiness does not know counts as ready,
\* without a look at it.
DepIsReady(o)    == call.quirk = "kind" \/ o \in {"met", "good"}

Found(o) ==
    \/ Is("waitFor") /\ ConditionMet(o)
    \/ Is("becomesReady") /\ IsReady(o)
    \/ Is("eventEmitted") /\ EventMatches(o)
    \/ Is("lookup") /\ UntilMet(o)
    \/ Is("lookupList") /\ ItemsListed(o)
    \/ Is("depWait") /\ DepIsReady(o)
    \/ Is("http") /\ AddressGiven(o)

\* then:, forEach: and the http assert block, evaluated on what was found.
Satisfied(o) == call.matcher \in {"lookup", "lookupList", "http"} => o = "good"

\* (Auxiliary) a look now would end the wait, or be a good response.
Holds(o, a, h) ==
    /\ a /\ ~Is("logsContain")
    /\ IF Is("http") THEN o = "good" /\ (Tunnel => h[Forwarder] = "running") ELSE Found(o)
Since(o, a, h) == IF ~Holds(o, a, h) THEN NoTime ELSE IF goodSince = NoTime THEN clock ELSE goodSince

Init ==
    /\ call \in Calls /\ phase = "setup"
    /\ clock = 0 /\ deadline = 0 /\ wakeAt = 0 /\ attempt = 0 /\ lastLook = 0
    /\ cancelled = FALSE /\ verdict = "none"
    /\ object \in Objects /\ api \in BOOLEAN
    /\ helper = [h \in Helpers |-> "idle"]
    /\ goodSince = IF Holds(object, api, helper) THEN 0 ELSE NoTime
    /\ hit = {} /\ mail = {} /\ closes = 0

\* The deferred cleanup runs once the port-forward is up.
Conclude(v) ==
    /\ verdict' = v
    /\ phase' = IF phase \in {"checking", "requesting"} /\ Tunnel THEN "closing" ELSE "done"
-----------------------------------------------------------------------------
(* The preamble of each matcher. *)

Refuse ==
    /\ phase = "setup" /\ call.quirk = "refused"
    /\ Conclude("fail")
    /\ UNCHANGED <<call, attempt, cancelled, lastLook, timeVars, worldVars, helperVars>>

FirstPoll == clock + Interval

Polling(first) ==
    /\ deadline' = clock + call.timeout /\ wakeAt' = first
    /\ lastLook' = deadline' - Interval
    /\ UNCHANGED <<call, clock, attempt, cancelled, verdict, worldVars, helperVars>>

\* waitFor, becomesReady, eventEmitted and lookup look first and sleep then.
LookFirst ==
    /\ phase = "setup" /\ call.quirk # "refused"
    /\ call.matcher \in {"waitFor", "becomesReady", "eventEmitted", "lookup", "lookupList"}
    /\ phase' = "calling" /\ Polling(clock)

\* A dependency's waitFor sleeps first.
SleepFirst ==
    /\ phase = "setup" /\ call.quirk # "refused" /\ Is("depWait")
    /\ phase' = "sleeping" /\ Polling(FirstPoll)

\* resolveViaIngress: wait for an address.
AwaitIngress ==
    /\ phase = "setup" /\ call.quirk # "refused" /\ call.via = "ingress"
    /\ phase' = "calling" /\ Polling(clock)

PodsSelected == api /\ object # "absent"

\* selectPods, then one goroutine per pod.
StartStreams ==
    /\ phase = "setup" /\ call.quirk # "refused" /\ Is("logsContain")
    /\ IF ~PodsSelected
       THEN Conclude("fail") /\ UNCHANGED <<deadline, helper>>
       ELSE \E S \in SUBSET Pods \ {{}} :
              /\ helper' = [h \in Helpers |-> IF h \in S THEN "running" ELSE helper[h]]
              /\ deadline' = clock + call.timeout
              /\ phase' = "receiving" /\ UNCHANGED verdict
    /\ UNCHANGED <<call, clock, wakeAt, attempt, cancelled, lastLook, worldVars, hit, mail, closes>>

\* The service, its node port and the address of a node; the pod behind a service.
NodePortFound == api /\ object # "absent"
PodFound      == api /\ object # "absent"

\* resolveViaDirect, resolveViaNodePort: nothing to clean up.
ResolveTarget ==
    /\ phase = "setup" /\ call.quirk # "refused" /\ call.via \in {"direct", "nodeport"}
    /\ IF call.via = "nodeport" /\ ~NodePortFound
       THEN Conclude("fail") ELSE phase' = "checking" /\ UNCHANGED verdict
    /\ UNCHANGED <<call, attempt, cancelled, lastLook, timeVars, worldVars, helperVars>>

\* resolveViaPortForward: find the pod, allocate the port, build the forwarder
\* (closing stopChan if that fails), start its goroutine.
StartForward ==
    /\ phase = "setup" /\ call.quirk # "refused" /\ Tunnel
    /\ \/ Conclude("fail") /\ UNCHANGED <<helper, closes, deadline>>
       \/ Conclude("fail") /\ closes' = closes + 1 /\ UNCHANGED <<helper, deadline>>
       \/ /\ PodFound
          /\ helper' = [helper EXCEPT ![Forwarder] = "running"]
          /\ phase' = "connecting" /\ deadline' = clock + Grace /\ UNCHANGED <<closes, verdict>>
    /\ goodSince' = Since(object, api, helper')
    /\ UNCHANGED <<call, clock, wakeAt, attempt, cancelled, lastLook, object, api, hit, mail>>
-----------------------------------------------------------------------------
(* Polling. *)

\* What a call to the API server, or a request, returns.
Answer == IF ~api \/ Expired \/ (object = "absent" /\ Is("http")) THEN "error" ELSE object

\* (Mutant: the sleeps get longer.)
NextLook_Backoff == clock + 2 * Interval
\* time.Sleep after each look; a ticker's turn that was missed comes at once.
NextLook == IF ~Ticking THEN clock + Interval
            ELSE IF wakeAt + Interval > clock THEN wakeAt + Interval ELSE clock

\* The look that ends the loop: then: and forEach: are evaluated once, on the
\* object that ended it.
Hit ==
    /\ phase = "calling" /\ ~Is("http") /\ Found(Answer)
    /\ Conclude(IF Satisfied(Answer) THEN "pass" ELSE "fail")
    /\ UNCHANGED <<call, attempt, cancelled, lastLook, timeVars, worldVars, helperVars>>

\* An object with a status, of a kind that isResourceReady does not know.
UnknownKind ==
    /\ phase = "calling" /\ Is("becomesReady") /\ call.quirk = "kind"
    /\ Answer \in {"met", "good"}
    /\ Conclude("fail")
    /\ UNCHANGED <<call, attempt, cancelled, lastLook, timeVars, worldVars, helperVars>>

\* resolveIngressAddress; an entry without IP and hostname needs a node's address.
UseAddress ==
    /\ phase = "calling" /\ Is("http") /\ Found(Answer)
    /\ \/ phase' = "checking" /\ UNCHANGED verdict
       \/ Conclude("fail")
    /\ UNCHANGED <<call, attempt, cancelled, lastLook, timeVars, worldVars, helperVars>>

\* eventEmitted's last look, made under a context that is done, ends here.
Abort ==
    /\ phase = "calling" /\ Impatient /\ Answer = "error"
    /\ Conclude(IF Expired THEN "timeout" ELSE "fail")
    /\ UNCHANGED <<call, attempt, cancelled, lastLook, timeVars, worldVars, helperVars>>

Miss ==
    /\ phase = "calling" /\ ~Found(Answer) /\ ~(Impatient /\ Answer = "error")
    /\ ~(Is("becomesReady") /\ call.quirk = "kind" /\ Answer \in {"met", "good"})
    /\ IF Expired THEN Conclude("timeout") /\ UNCHANGED wakeAt
       ELSE phase' = "sleeping" /\ wakeAt' = NextLook /\ UNCHANGED verdict
    /\ UNCHANGED <<call, clock, deadline, attempt, cancelled, lastLook, worldVars, helperVars>>

Wake ==
    /\ phase = "sleeping" /\ clock >= wakeAt /\ ~(Ticking /\ Expired)
    /\ phase' = "calling"
    /\ UNCHANGED <<call, attempt, cancelled, verdict, lastLook, timeVars, worldVars, helperVars>>

\* The context of PollUntilContextCancel ends its sleep.
GiveUp ==
    /\ phase = "sleeping" /\ Ticking /\ Expired
    /\ Conclude("timeout")
    /\ UNCHANGED <<call, attempt, cancelled, lastLook, timeVars, worldVars, helperVars>>
-----------------------------------------------------------------------------
(* logsContain: the streams, and the loop that reads their results. *)

Streaming == {p \in Pods : helper[p] # "idle"}

\* A stream shows the pattern, or ends: it cannot be opened, the container stops,
\* or the context is done.
StreamEnds(p) ==
    /\ helper[p] = "running"
    /\ helper' = [helper EXCEPT ![p] = "ended"]
    /\ hit' \in {hit} \cup (IF Expired \/ verdict # "none" THEN {} ELSE {hit \cup {p}})
    /\ UNCHANGED <<call, phase, attempt, cancelled, verdict, lastLook, timeVars, worldVars, mail, closes>>

\* (Mutant: an unbuffered channel.)
Buffer_None == 0
\* make(chan streamResult, len(pods)), make(chan error, 1)
Buffer == IF Is("http") THEN 1 ELSE Cardinality(Streaming)

Receiving == phase \in {"receiving", "connecting", "draining"}

\* results <- streamResult{...}, errChan <- forwarder.ForwardPorts()
Deliver(h) ==
    /\ helper[h] = "ended"
    /\ Cardinality(mail) < Buffer \/ (Receiving /\ mail = {})
    /\ helper' = [helper EXCEPT ![h] = "gone"] /\ mail' = mail \cup {h}
    /\ UNCHANGED <<call, phase, attempt, cancelled, verdict, lastLook, timeVars, worldVars, hit, closes>>

\* (Mutant: the first result decides.)
AllRead_First(m) == TRUE
AllRead(m) == m = {} /\ \A p \in Streaming : helper[p] = "gone"

ReadResult ==
    /\ phase = "receiving"
    /\ \E h \in mail :
         /\ mail' = mail \ {h}
         /\ IF h \in hit THEN Conclude("pass")
            ELSE IF AllRead(mail') THEN Conclude("timeout") ELSE UNCHANGED <<phase, verdict>>
    /\ UNCHANGED <<call, attempt, cancelled, lastLook, timeVars, worldVars, helper, hit, closes>>
-----------------------------------------------------------------------------
(* http: the port-forward, the requests, the cleanup. *)

\* The connection breaks, or stopChan is closed.
ForwarderEnds ==
    /\ helper[Forwarder] = "running"
    /\ helper' = [helper EXCEPT ![Forwarder] = "ended"]
    /\ goodSince' = Since(object, api, helper')
    /\ UNCHANGED <<call, phase, attempt, cancelled, verdict, lastLook, timeVars, object, api, hit, mail, closes>>

\* The select: ready, an error of the forwarder, or the time limit.
Connected ==
    /\ phase = "connecting" /\ helper[Forwarder] = "running"
    /\ phase' = "checking"
    /\ UNCHANGED <<call, attempt, cancelled, verdict, lastLook, timeVars, worldVars, helperVars>>

\* (Mutant: the time limit does not stop the forwarder.)
StopForwarding_Forgotten == UNCHANGED closes
StopForwarding == closes' = closes + 1

NotConnected ==
    /\ phase = "connecting"
    /\ Forwarder \in mail \/ Expired
    /\ mail' \in {mail} \cup {mail \ {Forwarder}} /\ (~Expired => mail' # mail)
    /\ StopForwarding
    /\ Conclude("fail")
    /\ UNCHANGED <<call, attempt, cancelled, lastLook, timeVars, worldVars, helper, hit>>

\* JoinPath, parseHTTPTimeout, parseHTTPRetries: after the target was resolved.
CheckSpec ==
    /\ phase = "checking"
    /\ IF call.quirk = "spec" THEN Conclude("fail") /\ UNCHANGED <<deadline, lastLook>>
       ELSE /\ phase' = "requesting" /\ deadline' = clock + call.timeout
            /\ lastLook' = clock + call.count * Pause /\ UNCHANGED verdict
    /\ UNCHANGED <<call, clock, wakeAt, attempt, cancelled, worldVars, helperVars>>

MayRetry == attempt < call.count

\* doHTTPRequest: nothing comes back through a port-forward that has ended.
Response == IF Tunnel /\ helper[Forwarder] # "running" THEN "error" ELSE Answer
UntilBroken(r) == r # "error" /\ call.quirk = "until"

\* One attempt, to its end: an error, retries.until false or the assertions not
\* met lead to the next one.
Respond ==
    /\ phase = "requesting"
    /\ IF UntilBroken(Response) THEN Conclude("fail") /\ UNCHANGED <<attempt, wakeAt>>
       ELSE IF Found(Response) /\ Satisfied(Response) THEN Conclude("pass") /\ UNCHANGED <<attempt, wakeAt>>
       ELSE IF MayRetry
            THEN /\ attempt' = attempt + 1 /\ wakeAt' = clock + Pause
                 /\ phase' = "pausing" /\ UNCHANGED verdict
            ELSE Conclude("timeout") /\ UNCHANGED <<attempt, wakeAt>>
    /\ UNCHANGED <<call, clock, deadline, cancelled, lastLook, worldVars, helperVars>>

Retry ==
    /\ phase = "pausing" /\ clock >= wakeAt
    /\ phase' = "requesting" /\ deadline' = clock + call.timeout
    /\ UNCHANGED <<call, clock, wakeAt, attempt, cancelled, verdict, lastLook, worldVars, helperVars>>

\* cleanup: close(stopChan); <-errChan
Close ==
    /\ phase = "closing"
    /\ closes' = closes + 1 /\ phase' = "draining"
    /\ UNCHANGED <<call, attempt, cancelled, verdict, lastLook, timeVars, worldVars, helper, hit, mail>>

Drain ==
    /\ phase = "draining" /\ Forwarder \in mail
    /\ mail' = mail \ {Forwarder} /\ phase' = "done"
    /\ UNCHANGED <<call, attempt, cancelled, verdict, lastLook, timeVars, worldVars, helper, hit, closes>>
-----------------------------------------------------------------------------
(* The world. *)

Change ==
    /\ verdict = "none" /\ phase # "setup"
    /\ object' \in Objects /\ api' \in BOOLEAN
    /\ goodSince' = IF Expired /\ ~Is("http") THEN goodSince ELSE Since(object', api', helper)
    /\ UNCHANGED <<call, phase, attempt, cancelled, verdict, lastLook, timeVars, helperVars>>

\* Fail-fast cancels runCtx, under which dependencies are installed.  The matchers
\* make their own context from context.Background().
Cancel ==
    /\ Is("depWait") /\ ~cancelled /\ phase \in {"calling", "sleeping"}
    /\ cancelled' = TRUE
    /\ UNCHANGED <<call, phase, attempt, verdict, lastLook, timeVars, worldVars, helperVars>>

\* (Mutant: looks and requests are made under no deadline.)
Waits_Unbounded ==
    \/ phase \in {"sleeping", "pausing"} /\ clock < wakeAt /\ ~(Ticking /\ Expired /\ phase = "sleeping")
    \/ phase \in {"calling", "requesting"} /\ ~api
    \/ phase \in {"connecting", "receiving"} /\ ~Expired
\* Time passes only when nobody can go on: a look is answered in the tick in which
\* it is made unless the server does not answer, and then it ends with its context.
Waits ==
    \/ phase \in {"sleeping", "pausing"} /\ clock < wakeAt /\ ~(Ticking /\ Expired /\ phase = "sleeping")
    \/ phase \in {"calling", "requesting"} /\ ~api /\ ~Expired
    \/ phase \in {"connecting", "receiving"} /\ ~Expired

Tick ==
    /\ verdict = "none" /\ Waits
    /\ clock' = clock + 1
    /\ UNCHANGED <<call, phase, deadline, wakeAt, attempt, cancelled, verdict, lastLook, worldVars, helperVars>>

Terminated ==
    /\ phase = "done" /\ \A h \in Helpers : helper[h] \in {"idle", "gone"}
    /\ UNCHANGED vars

Code == \/ Refuse \/ LookFirst \/ SleepFirst \/ AwaitIngress \/ StartStreams \/ ResolveTarget \/ StartForward
        \/ Hit \/ UnknownKind \/ UseAddress \/ Abort \/ Miss \/ Wake \/ GiveUp \/ ReadResult
        \/ Connected \/ NotConnected \/ CheckSpec \/ Respond \/ Retry \/ Close \/ Drain
Helping == \/ \E p \in Pods : StreamEnds(p)
           \/ \E h \in Helpers : Deliver(h)
           \/ ForwarderEnds
Next == Code \/ Helping \/ Change \/ Cancel \/ Tick \/ Terminated

Spec == Init /\ [][Next]_vars

\* Go runs what can run, time passes, a stream ends with its context and a
\* port-forward with its stopChan.  Nothing is assumed of the object, of the API
\* server, or of a stream or port-forward that nobody has stopped.
FairSpec ==
    /\ Spec /\ WF_vars(Code) /\ WF_vars(Tick)
    /\ \A p \in Pods : WF_vars((Expired \/ verdict # "none") /\ StreamEnds(p))
    /\ \A h \in Helpers : WF_vars(Deliver(h))
    /\ WF_vars(closes > 0 /\ ForwarderEnds)
-----------------------------------------------------------------------------
(* Properties. *)

TypeOK ==
    /\ call \in Calls
    /\ phase \in {"setup", "calling", "sleeping", "receiving", "connecting", "checking",
                  "requesting", "pausing", "closing", "draining", "done"}
    /\ clock \in Nat /\ deadline \in Nat /\ wakeAt \in Nat /\ attempt \in 0..call.count
    /\ cancelled \in BOOLEAN /\ verdict \in {"none", "pass", "fail", "timeout"}
    /\ object \in Objects /\ api \in BOOLEAN
    /\ helper \in [Helpers -> {"idle", "running", "ended", "gone"}]
    /\ hit \subseteq Pods /\ mail \subseteq Helpers /\ closes \in Nat
    /\ goodSince \in Nat \cup {NoTime} /\ lastLook \in Int

\* No success is slept through: a condition that holds, with the server answering,
\* from more than a poll interval before the deadline on ends a polling matcher
\* before it times out; and an http target that is good from before the time of
\* the last retry on, behind a port-forward that lives, passes.  Nobody gives up before
\* that time (waitfor.go:76-94, lookup.go:60-75, wait.go:57-67, http.go:69-101).
HeldIsNoticed == verdict = "timeout" /\ ~cancelled =>
                   clock >= lastLook /\ (goodSince # NoTime => goodSince >= lastLook)

\* How long a loop may go on after its deadline: a sleep of the matchers is not cut
\* short, one of PollUntilContextCancel and a stream are.
Overshoot == IF Is("http") \/ Is("logsContain") \/ Is("depWait") THEN 0 ELSE Interval

\* Nothing waits past its deadline, not even for a server that hangs: every look
\* is made under the loop's context, every request under its own timeout.
StopsInTime == phase \in {"calling", "sleeping", "receiving", "connecting", "requesting"}
               => clock <= deadline + Overshoot

\* A verdict given before the deadline rests on what was there when it was given:
\* a refused connection or an object not yet there ends neither a polling matcher
\* (eventEmitted excepted) nor the retries of http, and a pass is never
\* left over from an earlier look (waitfor.go:76-94, lookup.go:60-77,
\* eventemitted.go:44-60, http.go:69-101).
VerdictHasEvidence ==
    call.quirk \in {"none", "bare"} /\ ~Is("logsContain") =>
      /\ verdict = "pass" => api /\ Found(object) /\ Satisfied(object)
      /\ verdict = "fail" /\ ~Is("http") =>
            IF api THEN Found(object) /\ ~Satisfied(object) ELSE Is("eventEmitted")

\* logsContain passes exactly if one of the streams it followed showed the
\* pattern, in whatever order they end (logscontain.go:67-89).
PatternDecides == Is("logsContain") /\ verdict \in {"pass", "timeout"} => (verdict = "pass") = (hit # {})

\* stopChan is closed exactly once on every way out of a call that has started a
\* port-forward, whatever fails after it: twice would panic, and never would keep
\* the connection (http.go:457-487).
StoppedOnce ==
    /\ closes <= 1
    /\ phase = "done" /\ helper[Forwarder] # "idle" => closes = 1

\* Every call ends, and no goroutine of it is left waiting to send its result.
CallEnds == <>[](phase = "done" /\ \A h \in Helpers : helper[h] \in {"idle", "gone"})
=============================================================================
