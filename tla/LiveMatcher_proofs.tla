------------------------- MODULE LiveMatcher_proofs -------------------------
(***************************************************************************)
(* Proofs about LiveMatcher, for any assertions, timeouts, numbers of      *)
(* retries, lengths of the pauses and sets of pods.                        *)
(***************************************************************************)
EXTENDS LiveMatcher, TLAPS

Polled == {"waitFor", "becomesReady", "eventEmitted", "lookup", "lookupList", "depWait"}

\* Which calls come to which place.
Places ==
    /\ phase \in {"calling", "sleeping"} => call.matcher \in Polled \/ call.via = "ingress"
    /\ phase = "receiving" => Is("logsContain")
    /\ phase \in {"checking", "requesting", "pausing"} => Is("http")
    /\ phase \in {"connecting", "closing", "draining"} => Tunnel
    /\ verdict = "none" <=> phase \notin {"closing", "draining", "done"}

\* Only a port-forward has a forwarder, and stopChan is closed on the way out of it.
Forwarding ==
    /\ phase = "setup" => closes = 0 /\ helper[Forwarder] = "idle"
    /\ helper[Forwarder] # "idle" => Tunnel
    /\ phase \notin {"draining", "done"} => closes = 0
    /\ phase = "draining" => closes = 1
    /\ StoppedOnce

\* What a stream has shown is still under way until it has been read.
Streams ==
    /\ phase = "setup" => mail = {} /\ hit = {} /\ \A h \in Helpers : helper[h] = "idle"
    /\ \A h \in mail : helper[h] = "gone"
    /\ \A p \in hit : helper[p] # "idle"
    /\ phase = "receiving" => \A p \in hit : helper[p] = "ended" \/ p \in mail
    /\ PatternDecides

\* A sleep begins no later than the deadline and is no longer than the interval.
Timely ==
    /\ phase = "setup" => clock = 0
    /\ phase = "calling" => wakeAt <= clock
    /\ phase = "sleeping" => /\ clock <= wakeAt /\ wakeAt <= clock + Interval
                             /\ ~Ticking => wakeAt <= deadline + Interval
    /\ StopsInTime

GoodNow == Holds(object, api, helper)

\* What is good now is what goodSince speaks of, as long as it is kept up to date.
Fresh ==
    /\ cancelled => Is("depWait")
    /\ Is("logsContain") => goodSince = NoTime
    /\ goodSince # NoTime /\ (phase = "setup" \/ Is("http") \/ ~Expired) => GoodNow

\* What the retries still to come take in pauses.
Left == (call.count - attempt) * Pause

\* A good object was not yet good at the last look.
Watching ==
    /\ Is("logsContain") => lastLook = 0
    /\ verdict = "none" /\ phase \notin {"requesting", "pausing"} => attempt = 0
    /\ phase \in {"calling", "sleeping"} => lastLook = deadline - Interval
    /\ phase = "calling" /\ goodSince # NoTime => goodSince >= clock - Interval
    /\ phase = "sleeping" /\ goodSince # NoTime => goodSince >= wakeAt - Interval
    /\ phase = "pausing" => wakeAt >= lastLook - Left
    /\ phase = "requesting" =>
          /\ clock >= lastLook - Left /\ deadline >= lastLook - Left
          /\ goodSince # NoTime /\ clock >= deadline => goodSince >= deadline
    /\ HeldIsNoticed

LEMMA CallFacts ==
  ASSUME TypeOK
  PROVE  /\ call.matcher \in Matchers /\ call.via \in Vias
         /\ call.timeout \in Nat /\ call.count \in Nat
         /\ call.matcher = "http" <=> call.via # "none"
         /\ call.matcher = "http" => call.timeout > 0
  BY CallsAssumption DEF TypeOK, CallShape

LEMMA GoodStays ==
  ASSUME UNCHANGED <<call, object, api>>, helper'[Forwarder] = "running" <=> helper[Forwarder] = "running"
  PROVE  GoodNow' <=> GoodNow
  BY DEF GoodNow, Holds, Found, Is, Tunnel, ConditionMet, IsReady, EventMatches, UntilMet,
         ItemsListed, AddressGiven, DepIsReady, Objects

LEMMA SinceIsFresh ==
  ASSUME call' = call, goodSince' = Since(object', api', helper'), goodSince' # NoTime
  PROVE  GoodNow' /\ ~Is("logsContain")
  BY DEF GoodNow, Since, Holds, Found, Is, Tunnel, ConditionMet, IsReady, EventMatches, UntilMet,
         ItemsListed, AddressGiven, DepIsReady, Objects

LEMMA GoodNeedsServer == GoodNow => api
  BY DEF GoodNow, Holds

\* A look that finds nothing, in time, was made when nothing was good.
LEMMA MissedNotGood ==
  ASSUME TypeOK, Places, Miss, ~Expired
  PROVE  ~GoodNow
  BY CallFacts DEF Miss, GoodNow, Holds, Found, Answer, Is, Tunnel, Impatient, Polled, Places, Conclude,
     ConditionMet, IsReady, EventMatches, UntilMet, ItemsListed, AddressGiven, DepIsReady, Objects

\* The last attempt fails, in time, only if nothing was good.
LEMMA LastAttemptNotGood ==
  ASSUME TypeOK, Places, Respond, ~Expired, verdict' = "timeout"
  PROVE  ~GoodNow
  BY CallFacts DEF Respond, GoodNow, Holds, Found, Answer, Response, Is, Tunnel, Places, Conclude,
     AddressGiven, UntilBroken, Satisfied, Objects

LEMMA LeftFacts ==
  ASSUME TypeOK
  PROVE  /\ Left \in Int
         /\ attempt = call.count => Left = 0
         /\ attempt = 0 => Left = call.count * Pause
         /\ call.count * Pause \in Nat
         /\ attempt' = attempt /\ call' = call => Left' = Left
         /\ attempt' = attempt + 1 /\ call' = call /\ attempt < call.count => Left' = Left - Pause
<1>1. Left \in Int /\ call.count * Pause \in Nat
  BY CallFacts, TicksAssumption DEF TypeOK, Left
<1>2. attempt = call.count => Left = 0
  BY CallFacts, TicksAssumption DEF TypeOK, Left
<1>3. attempt = 0 => Left = call.count * Pause
  BY CallFacts, TicksAssumption DEF TypeOK, Left
<1>4. attempt' = attempt /\ call' = call => Left' = Left
  BY DEF Left
<1>5. attempt' = attempt + 1 /\ call' = call /\ attempt < call.count => Left' = Left - Pause
  BY CallFacts, TicksAssumption DEF TypeOK, Left
<1> QED
  BY <1>1, <1>2, <1>3, <1>4, <1>5

LEMMA ChangeSince ==
  ASSUME Change
  PROVE  \/ goodSince' \in {goodSince, NoTime}
         \/ goodSince = NoTime /\ goodSince' = clock
<1>1. goodSince' \in {goodSince, Since(object', api', helper)}
  BY DEF Change
<1>2. CASE Holds(object', api', helper)
  BY <1>1, <1>2 DEF Since
<1>3. CASE ~Holds(object', api', helper)
  BY <1>1, <1>3 DEF Since
<1> QED
  BY <1>2, <1>3

LEMMA ForwarderSince ==
  ASSUME TypeOK, Forwarding, ForwarderEnds
  PROVE  goodSince' = NoTime
<1>1. Tunnel /\ call.matcher = "http" /\ call' = call
  BY CallFacts DEF Forwarding, ForwarderEnds, Tunnel
<1>2. helper'[Forwarder] # "running"
  BY DEF ForwarderEnds, TypeOK, Helpers
<1> QED
  BY <1>1, <1>2 DEF ForwarderEnds, Since, Holds, Is, Tunnel

\* No step takes a call to a place that is not its own.
LEMMA PlacesStay ==
  ASSUME TypeOK, Places, [Next]_vars
  PROVE  Places'
<1> USE CallFacts DEF Places,
       Is, Tunnel, worldVars, timeVars, helperVars
<1>1. CASE Refuse
  BY <1>1 DEF Refuse, Conclude
<1>2. CASE LookFirst
  BY <1>2 DEF LookFirst, Polling, Polled
<1>3. CASE SleepFirst
  BY <1>3 DEF SleepFirst, Polling, FirstPoll, Polled
<1>4. CASE AwaitIngress
  BY <1>4 DEF AwaitIngress, Polling, Vias
<1>5. CASE StartStreams
  BY <1>5 DEF StartStreams, Conclude, PodsSelected
<1>6. CASE ResolveTarget
  BY <1>6 DEF ResolveTarget, Conclude, Vias
<1>7. CASE StartForward
  BY <1>7 DEF StartForward, Conclude, PodFound, Vias
<1>8. CASE Hit
  BY <1>8 DEF Hit, Conclude, Polled
<1>9. CASE UnknownKind
  BY <1>9 DEF UnknownKind, Conclude
<1>10. CASE UseAddress
  BY <1>10 DEF UseAddress, Conclude, Polled
<1>11. CASE Abort
  BY <1>11 DEF Abort, Conclude
<1>12. CASE Miss
  BY <1>12 DEF Miss, Conclude, Polled
<1>13. CASE Wake
  BY <1>13 DEF Wake
<1>14. CASE GiveUp
  BY <1>14 DEF GiveUp, Conclude
<1>15. CASE ReadResult
  BY <1>15 DEF ReadResult, Conclude
<1>16. CASE Connected
  BY <1>16 DEF Connected
<1>17. CASE NotConnected
  BY <1>17 DEF NotConnected, Conclude, StopForwarding, Matchers
<1>18. CASE CheckSpec
  BY <1>18 DEF CheckSpec, Conclude
<1>19. CASE Respond
  BY <1>19 DEF Respond, Conclude, MayRetry
<1>20. CASE Retry
  BY <1>20 DEF Retry
<1>21. CASE Close
  BY <1>21 DEF Close
<1>22. CASE Drain
  BY <1>22 DEF Drain
<1>23. ASSUME NEW p \in Pods, StreamEnds(p) PROVE Places'
  BY <1>23 DEF StreamEnds
<1>24. ASSUME NEW h \in Helpers, Deliver(h) PROVE Places'
  BY <1>24 DEF Deliver
<1>25. CASE ForwarderEnds
  BY <1>25 DEF ForwarderEnds
<1>26. CASE Change
  BY <1>26 DEF Change
<1>27. CASE Cancel
  BY <1>27 DEF Cancel
<1>28. CASE Tick
  BY <1>28 DEF Tick, Waits
<1>29. CASE Terminated
  BY <1>29 DEF Terminated, vars
<1>30. CASE UNCHANGED vars
  BY <1>30 DEF vars
<1> QED
  BY <1>1, <1>2, <1>3, <1>4, <1>5, <1>6, <1>7, <1>8, <1>9, <1>10, <1>11, <1>12, <1>13, <1>14,
     <1>15, <1>16, <1>17, <1>18, <1>19, <1>20, <1>21, <1>22, <1>23, <1>24, <1>25, <1>26, <1>27,
     <1>28, <1>29, <1>30 DEF Next, Code, Helping

\* The forwarder is stopped by NotConnected or by Close, never by both.
LEMMA ForwardingStays ==
  ASSUME TypeOK, Places, Forwarding, [Next]_vars
  PROVE  Forwarding'
<1> USE CallFacts, ForwarderAssumption DEF Places, Forwarding, StoppedOnce, TypeOK, Helpers, Polled,
       Is, Tunnel, worldVars, timeVars, helperVars
<1>1. CASE Refuse
  BY <1>1 DEF Refuse, Conclude
<1>2. CASE LookFirst
  BY <1>2 DEF LookFirst, Polling
<1>3. CASE SleepFirst
  BY <1>3 DEF SleepFirst, Polling, FirstPoll
<1>4. CASE AwaitIngress
  BY <1>4 DEF AwaitIngress, Polling
<1>5. CASE StartStreams
  BY <1>5 DEF StartStreams, Conclude, PodsSelected
<1>6. CASE ResolveTarget
  BY <1>6 DEF ResolveTarget, Conclude
<1>7. CASE StartForward
  BY <1>7 DEF StartForward, Conclude, PodFound
<1>8. CASE Hit
  BY <1>8 DEF Hit, Conclude
<1>9. CASE UnknownKind
  BY <1>9 DEF UnknownKind, Conclude
<1>10. CASE UseAddress
  BY <1>10 DEF UseAddress, Conclude
<1>11. CASE Abort
  BY <1>11 DEF Abort, Conclude
<1>12. CASE Miss
  BY <1>12 DEF Miss, Conclude
<1>13. CASE Wake
  BY <1>13 DEF Wake
<1>14. CASE GiveUp
  BY <1>14 DEF GiveUp, Conclude
<1>15. CASE ReadResult
  BY <1>15 DEF ReadResult, Conclude
<1>16. CASE Connected
  BY <1>16 DEF Connected
<1>17. CASE NotConnected
  BY <1>17 DEF NotConnected, Conclude, StopForwarding
<1>18. CASE CheckSpec
  BY <1>18 DEF CheckSpec, Conclude
<1>19. CASE Respond
  BY <1>19 DEF Respond, Conclude, MayRetry
<1>20. CASE Retry
  BY <1>20 DEF Retry
<1>21. CASE Close
  BY <1>21 DEF Close
<1>22. CASE Drain
  BY <1>22 DEF Drain
<1>23. ASSUME NEW p \in Pods, StreamEnds(p) PROVE Forwarding'
  BY <1>23 DEF StreamEnds
<1>24. ASSUME NEW h \in Helpers, Deliver(h) PROVE Forwarding'
  BY <1>24 DEF Deliver
<1>25. CASE ForwarderEnds
  BY <1>25 DEF ForwarderEnds
<1>26. CASE Change
  BY <1>26 DEF Change
<1>27. CASE Cancel
  BY <1>27 DEF Cancel
<1>28. CASE Tick
  BY <1>28 DEF Tick, Waits
<1>29. CASE Terminated
  BY <1>29 DEF Terminated, vars
<1>30. CASE UNCHANGED vars
  BY <1>30 DEF vars
<1> QED
  BY <1>1, <1>2, <1>3, <1>4, <1>5, <1>6, <1>7, <1>8, <1>9, <1>10, <1>11, <1>12, <1>13, <1>14,
     <1>15, <1>16, <1>17, <1>18, <1>19, <1>20, <1>21, <1>22, <1>23, <1>24, <1>25, <1>26, <1>27,
     <1>28, <1>29, <1>30 DEF Next, Code, Helping

\* Every step keeps the types.
LEMMA TypeStays ==
  ASSUME TypeOK, Places, [Next]_vars
  PROVE  TypeOK'
<1> USE CallFacts, TicksAssumption DEF TypeOK, Places,
       Is, Tunnel, worldVars, timeVars, helperVars
<1>1. CASE Refuse
  BY <1>1 DEF Refuse, Conclude
<1>2. CASE LookFirst
  BY <1>2 DEF LookFirst, Polling
<1>3. CASE SleepFirst
  BY <1>3 DEF SleepFirst, Polling, FirstPoll
<1>4. CASE AwaitIngress
  BY <1>4 DEF AwaitIngress, Polling
<1>5. CASE StartStreams
  BY <1>5 DEF StartStreams, Conclude, PodsSelected, Helpers
<1>6. CASE ResolveTarget
  BY <1>6 DEF ResolveTarget, Conclude
<1>7. CASE StartForward
  BY <1>7 DEF StartForward, Conclude, PodFound, Since, NoTime, Helpers
<1>8. CASE Hit
  BY <1>8 DEF Hit, Conclude
<1>9. CASE UnknownKind
  BY <1>9 DEF UnknownKind, Conclude
<1>10. CASE UseAddress
  BY <1>10 DEF UseAddress, Conclude
<1>11. CASE Abort
  BY <1>11 DEF Abort, Conclude
<1>12. CASE Miss
  BY <1>12 DEF Miss, Conclude, NextLook
<1>13. CASE Wake
  BY <1>13 DEF Wake
<1>14. CASE GiveUp
  BY <1>14 DEF GiveUp, Conclude
<1>15. CASE ReadResult
  BY <1>15 DEF ReadResult, Conclude
<1>16. CASE Connected
  BY <1>16 DEF Connected
<1>17. CASE NotConnected
  BY <1>17 DEF NotConnected, Conclude, StopForwarding
<1>18. CASE CheckSpec
  BY <1>18 DEF CheckSpec, Conclude
<1>19. CASE Respond
  BY <1>19 DEF Respond, Conclude, MayRetry
<1>20. CASE Retry
  BY <1>20 DEF Retry
<1>21. CASE Close
  BY <1>21 DEF Close
<1>22. CASE Drain
  BY <1>22 DEF Drain
<1>23. ASSUME NEW p \in Pods, StreamEnds(p) PROVE TypeOK'
  BY <1>23 DEF StreamEnds, Helpers
<1>24. ASSUME NEW h \in Helpers, Deliver(h) PROVE TypeOK'
  BY <1>24 DEF Deliver
<1>25. CASE ForwarderEnds
  BY <1>25 DEF ForwarderEnds, Since, NoTime, Helpers
<1>26. CASE Change
  BY <1>26 DEF Change, Since, NoTime
<1>27. CASE Cancel
  BY <1>27 DEF Cancel
<1>28. CASE Tick
  BY <1>28 DEF Tick, Waits
<1>29. CASE Terminated
  BY <1>29 DEF Terminated, vars
<1>30. CASE UNCHANGED vars
  BY <1>30 DEF vars
<1> QED
  BY <1>1, <1>2, <1>3, <1>4, <1>5, <1>6, <1>7, <1>8, <1>9, <1>10, <1>11, <1>12, <1>13, <1>14,
     <1>15, <1>16, <1>17, <1>18, <1>19, <1>20, <1>21, <1>22, <1>23, <1>24, <1>25, <1>26, <1>27,
     <1>28, <1>29, <1>30 DEF Next, Code, Helping

\* A stream's result is read before the loop concludes that there is none left.
LEMMA StreamsStay ==
  ASSUME TypeOK, Places, Forwarding, Streams, [Next]_vars
  PROVE  Streams'
<1> USE CallFacts, ForwarderAssumption DEF Streams, PatternDecides, TypeOK, Places, Forwarding, Helpers, Polled,
       Is, Tunnel, worldVars, timeVars, helperVars
<1>1. CASE Refuse
  BY <1>1 DEF Refuse, Conclude
<1>2. CASE LookFirst
  BY <1>2 DEF LookFirst, Polling
<1>3. CASE SleepFirst
  BY <1>3 DEF SleepFirst, Polling, FirstPoll
<1>4. CASE AwaitIngress
  BY <1>4 DEF AwaitIngress, Polling
<1>5. CASE StartStreams
  BY <1>5 DEF StartStreams, Conclude, PodsSelected
<1>6. CASE ResolveTarget
  BY <1>6 DEF ResolveTarget, Conclude
<1>7. CASE StartForward
  BY <1>7 DEF StartForward, Conclude, PodFound
<1>8. CASE Hit
  BY <1>8 DEF Hit, Conclude
<1>9. CASE UnknownKind
  BY <1>9 DEF UnknownKind, Conclude
<1>10. CASE UseAddress
  BY <1>10 DEF UseAddress, Conclude
<1>11. CASE Abort
  BY <1>11 DEF Abort, Conclude
<1>12. CASE Miss
  BY <1>12 DEF Miss, Conclude
<1>13. CASE Wake
  BY <1>13 DEF Wake
<1>14. CASE GiveUp
  BY <1>14 DEF GiveUp, Conclude
<1>15. CASE ReadResult
  BY <1>15 DEF ReadResult, Conclude, AllRead, Streaming
<1>16. CASE Connected
  BY <1>16 DEF Connected
<1>17. CASE NotConnected
  BY <1>17 DEF NotConnected, Conclude, StopForwarding
<1>18. CASE CheckSpec
  BY <1>18 DEF CheckSpec, Conclude
<1>19. CASE Respond
  BY <1>19 DEF Respond, Conclude, MayRetry
<1>20. CASE Retry
  BY <1>20 DEF Retry
<1>21. CASE Close
  BY <1>21 DEF Close
<1>22. CASE Drain
  BY <1>22 DEF Drain
<1>23. ASSUME NEW p \in Pods, StreamEnds(p) PROVE Streams'
  BY <1>23 DEF StreamEnds
<1>24. ASSUME NEW h \in Helpers, Deliver(h) PROVE Streams'
  BY <1>24 DEF Deliver
<1>25. CASE ForwarderEnds
  BY <1>25 DEF ForwarderEnds
<1>26. CASE Change
  BY <1>26 DEF Change
<1>27. CASE Cancel
  BY <1>27 DEF Cancel
<1>28. CASE Tick
  BY <1>28 DEF Tick, Waits
<1>29. CASE Terminated
  BY <1>29 DEF Terminated, vars
<1>30. CASE UNCHANGED vars
  BY <1>30 DEF vars
<1> QED
  BY <1>1, <1>2, <1>3, <1>4, <1>5, <1>6, <1>7, <1>8, <1>9, <1>10, <1>11, <1>12, <1>13, <1>14,
     <1>15, <1>16, <1>17, <1>18, <1>19, <1>20, <1>21, <1>22, <1>23, <1>24, <1>25, <1>26, <1>27,
     <1>28, <1>29, <1>30 DEF Next, Code, Helping

\* Time passes in a sleep, or in a look that its context still allows.
LEMMA TimelyStays ==
  ASSUME TypeOK, Places, Timely, [Next]_vars
  PROVE  Timely'
<1> USE CallFacts, TicksAssumption DEF Timely, StopsInTime, Overshoot, TypeOK, Places, Ticking, Expired, Polled,
       Is, Tunnel, worldVars, timeVars, helperVars
<1>1. CASE Refuse
  BY <1>1 DEF Refuse, Conclude
<1>2. CASE LookFirst
  BY <1>2 DEF LookFirst, Polling
<1>3. CASE SleepFirst
  BY <1>3 DEF SleepFirst, Polling, FirstPoll
<1>4. CASE AwaitIngress
  BY <1>4 DEF AwaitIngress, Polling
<1>5. CASE StartStreams
  BY <1>5 DEF StartStreams, Conclude, PodsSelected
<1>6. CASE ResolveTarget
  BY <1>6 DEF ResolveTarget, Conclude
<1>7. CASE StartForward
  BY <1>7 DEF StartForward, Conclude, PodFound
<1>8. CASE Hit
  BY <1>8 DEF Hit, Conclude
<1>9. CASE UnknownKind
  BY <1>9 DEF UnknownKind, Conclude
<1>10. CASE UseAddress
  BY <1>10 DEF UseAddress, Conclude
<1>11. CASE Abort
  BY <1>11 DEF Abort, Conclude
<1>12. CASE Miss
  BY <1>12 DEF Miss, Conclude, NextLook
<1>13. CASE Wake
  BY <1>13 DEF Wake
<1>14. CASE GiveUp
  BY <1>14 DEF GiveUp, Conclude
<1>15. CASE ReadResult
  BY <1>15 DEF ReadResult, Conclude
<1>16. CASE Connected
  BY <1>16 DEF Connected
<1>17. CASE NotConnected
  BY <1>17 DEF NotConnected, Conclude, StopForwarding
<1>18. CASE CheckSpec
  BY <1>18 DEF CheckSpec, Conclude
<1>19. CASE Respond
  BY <1>19 DEF Respond, Conclude, MayRetry
<1>20. CASE Retry
  BY <1>20 DEF Retry
<1>21. CASE Close
  BY <1>21 DEF Close
<1>22. CASE Drain
  BY <1>22 DEF Drain
<1>23. ASSUME NEW p \in Pods, StreamEnds(p) PROVE Timely'
  BY <1>23 DEF StreamEnds
<1>24. ASSUME NEW h \in Helpers, Deliver(h) PROVE Timely'
  BY <1>24 DEF Deliver
<1>25. CASE ForwarderEnds
  BY <1>25 DEF ForwarderEnds
<1>26. CASE Change
  BY <1>26 DEF Change
<1>27. CASE Cancel
  BY <1>27 DEF Cancel
<1>28. CASE Tick
  BY <1>28 DEF Tick, Waits
<1>29. CASE Terminated
  BY <1>29 DEF Terminated, vars
<1>30. CASE UNCHANGED vars
  BY <1>30 DEF vars
<1> QED
  BY <1>1, <1>2, <1>3, <1>4, <1>5, <1>6, <1>7, <1>8, <1>9, <1>10, <1>11, <1>12, <1>13, <1>14,
     <1>15, <1>16, <1>17, <1>18, <1>19, <1>20, <1>21, <1>22, <1>23, <1>24, <1>25, <1>26, <1>27,
     <1>28, <1>29, <1>30 DEF Next, Code, Helping

\* goodSince follows the world for as long as it matters.
LEMMA FreshStays ==
  ASSUME TypeOK, Places, Streams, Fresh, [Next]_vars
  PROVE  Fresh'
<1> USE CallFacts, ForwarderAssumption, GoodStays, SinceIsFresh DEF Fresh, Expired, TypeOK, Places, Polled, Streams, Helpers,
       Is, Tunnel, worldVars, timeVars, helperVars
<1>1. CASE Refuse
  BY <1>1 DEF Refuse, Conclude
<1>2. CASE LookFirst
  BY <1>2 DEF LookFirst, Polling
<1>3. CASE SleepFirst
  BY <1>3 DEF SleepFirst, Polling, FirstPoll
<1>4. CASE AwaitIngress
  BY <1>4 DEF AwaitIngress, Polling
<1>5. CASE StartStreams
  BY <1>5 DEF StartStreams, Conclude, PodsSelected
<1>6. CASE ResolveTarget
  BY <1>6 DEF ResolveTarget, Conclude
<1>7. CASE StartForward
  BY <1>7 DEF StartForward, Conclude, PodFound
<1>8. CASE Hit
  BY <1>8 DEF Hit, Conclude
<1>9. CASE UnknownKind
  BY <1>9 DEF UnknownKind, Conclude
<1>10. CASE UseAddress
  BY <1>10 DEF UseAddress, Conclude
<1>11. CASE Abort
  BY <1>11 DEF Abort, Conclude
<1>12. CASE Miss
  BY <1>12 DEF Miss, Conclude
<1>13. CASE Wake
  BY <1>13 DEF Wake
<1>14. CASE GiveUp
  BY <1>14 DEF GiveUp, Conclude
<1>15. CASE ReadResult
  BY <1>15 DEF ReadResult, Conclude
<1>16. CASE Connected
  BY <1>16 DEF Connected
<1>17. CASE NotConnected
  BY <1>17 DEF NotConnected, Conclude, StopForwarding
<1>18. CASE CheckSpec
  BY <1>18 DEF CheckSpec, Conclude
<1>19. CASE Respond
  BY <1>19 DEF Respond, Conclude, MayRetry
<1>20. CASE Retry
  BY <1>20 DEF Retry
<1>21. CASE Close
  BY <1>21 DEF Close
<1>22. CASE Drain
  BY <1>22 DEF Drain
<1>23. ASSUME NEW p \in Pods, StreamEnds(p) PROVE Fresh'
  BY <1>23 DEF StreamEnds
<1>24. ASSUME NEW h \in Helpers, Deliver(h) PROVE Fresh'
  BY <1>24 DEF Deliver
<1>25. CASE ForwarderEnds
  BY <1>25 DEF ForwarderEnds
<1>26. CASE Change
  BY <1>26 DEF Change
<1>27. CASE Cancel
  BY <1>27 DEF Cancel
<1>28. CASE Tick
  BY <1>28 DEF Tick, Waits
<1>29. CASE Terminated
  BY <1>29 DEF Terminated, vars
<1>30. CASE UNCHANGED vars
  BY <1>30 DEF vars
<1> QED
  BY <1>1, <1>2, <1>3, <1>4, <1>5, <1>6, <1>7, <1>8, <1>9, <1>10, <1>11, <1>12, <1>13, <1>14,
     <1>15, <1>16, <1>17, <1>18, <1>19, <1>20, <1>21, <1>22, <1>23, <1>24, <1>25, <1>26, <1>27,
     <1>28, <1>29, <1>30 DEF Next, Code, Helping

\* Nothing changes between a look and the verdict it leads to, nor after it.
LEMMA EvidenceStays ==
  ASSUME TypeOK, Places, VerdictHasEvidence, [Next]_vars
  PROVE  VerdictHasEvidence'
<1> USE CallFacts DEF VerdictHasEvidence, TypeOK, Places, Expired, Polled, Found, Satisfied, ConditionMet, IsReady, EventMatches, UntilMet, ItemsListed, AddressGiven, DepIsReady, Objects,
       Is, Tunnel, worldVars, timeVars, helperVars
<1>1. CASE Refuse
  BY <1>1 DEF Refuse, Conclude
<1>2. CASE LookFirst
  BY <1>2 DEF LookFirst, Polling
<1>3. CASE SleepFirst
  BY <1>3 DEF SleepFirst, Polling, FirstPoll
<1>4. CASE AwaitIngress
  BY <1>4 DEF AwaitIngress, Polling
<1>5. CASE StartStreams
  BY <1>5 DEF StartStreams, Conclude, PodsSelected
<1>6. CASE ResolveTarget
  BY <1>6 DEF ResolveTarget, Conclude
<1>7. CASE StartForward
  BY <1>7 DEF StartForward, Conclude, PodFound
<1>8. CASE Hit
  BY <1>8 DEF Hit, Conclude, Answer
<1>9. CASE UnknownKind
  BY <1>9 DEF UnknownKind, Conclude
<1>10. CASE UseAddress
  BY <1>10 DEF UseAddress, Conclude
<1>11. CASE Abort
  BY <1>11 DEF Abort, Conclude, Answer, Impatient
<1>12. CASE Miss
  BY <1>12 DEF Miss, Conclude
<1>13. CASE Wake
  BY <1>13 DEF Wake
<1>14. CASE GiveUp
  BY <1>14 DEF GiveUp, Conclude
<1>15. CASE ReadResult
  BY <1>15 DEF ReadResult, Conclude
<1>16. CASE Connected
  BY <1>16 DEF Connected
<1>17. CASE NotConnected
  BY <1>17 DEF NotConnected, Conclude, StopForwarding
<1>18. CASE CheckSpec
  BY <1>18 DEF CheckSpec, Conclude
<1>19. CASE Respond
  BY <1>19 DEF Respond, Conclude, MayRetry, Answer, Response, UntilBroken
<1>20. CASE Retry
  BY <1>20 DEF Retry
<1>21. CASE Close
  BY <1>21 DEF Close
<1>22. CASE Drain
  BY <1>22 DEF Drain
<1>23. ASSUME NEW p \in Pods, StreamEnds(p) PROVE VerdictHasEvidence'
  BY <1>23 DEF StreamEnds
<1>24. ASSUME NEW h \in Helpers, Deliver(h) PROVE VerdictHasEvidence'
  BY <1>24 DEF Deliver
<1>25. CASE ForwarderEnds
  BY <1>25 DEF ForwarderEnds
<1>26. CASE Change
  BY <1>26 DEF Change
<1>27. CASE Cancel
  BY <1>27 DEF Cancel
<1>28. CASE Tick
  BY <1>28 DEF Tick, Waits
<1>29. CASE Terminated
  BY <1>29 DEF Terminated, vars
<1>30. CASE UNCHANGED vars
  BY <1>30 DEF vars
<1> QED
  BY <1>1, <1>2, <1>3, <1>4, <1>5, <1>6, <1>7, <1>8, <1>9, <1>10, <1>11, <1>12, <1>13, <1>14,
     <1>15, <1>16, <1>17, <1>18, <1>19, <1>20, <1>21, <1>22, <1>23, <1>24, <1>25, <1>26, <1>27,
     <1>28, <1>29, <1>30 DEF Next, Code, Helping

\* Each look, sleep and attempt leaves no gap in which a success could be missed.
LEMMA WatchingStays ==
  ASSUME TypeOK, Places, Streams, Forwarding, Timely, Fresh, Watching, [Next]_vars
  PROVE  Watching'
<1> USE CallFacts, TicksAssumption, ForwarderAssumption, GoodStays, SinceIsFresh, GoodNeedsServer, MissedNotGood, LastAttemptNotGood, LeftFacts, ChangeSince, ForwarderSince DEF Watching, HeldIsNoticed, Timely, StopsInTime, Overshoot, Fresh, Expired, Ticking, TypeOK, Places, Polled,
       Is, Tunnel, worldVars, timeVars, helperVars
<1>1. CASE Refuse
  BY <1>1 DEF Refuse, Conclude
<1>2. CASE LookFirst
  BY <1>2 DEF LookFirst, Polling
<1>3. CASE SleepFirst
  BY <1>3 DEF SleepFirst, Polling, FirstPoll
<1>4. CASE AwaitIngress
  BY <1>4 DEF AwaitIngress, Polling
<1>5. CASE StartStreams
  BY <1>5 DEF StartStreams, Conclude, PodsSelected
<1>6. CASE ResolveTarget
  BY <1>6 DEF ResolveTarget, Conclude
<1>7. CASE StartForward
  BY <1>7 DEF StartForward, Conclude, PodFound
<1>8. CASE Hit
  BY <1>8 DEF Hit, Conclude
<1>9. CASE UnknownKind
  BY <1>9 DEF UnknownKind, Conclude
<1>10. CASE UseAddress
  BY <1>10 DEF UseAddress, Conclude
<1>11. CASE Abort
  BY <1>11 DEF Abort, Conclude
<1>12. CASE Miss
  BY <1>12 DEF Miss, Conclude, NextLook
<1>13. CASE Wake
  BY <1>13 DEF Wake
<1>14. CASE GiveUp
  BY <1>14 DEF GiveUp, Conclude
<1>15. CASE ReadResult
  BY <1>15 DEF ReadResult, Conclude
<1>16. CASE Connected
  BY <1>16 DEF Connected
<1>17. CASE NotConnected
  BY <1>17 DEF NotConnected, Conclude, StopForwarding
<1>18. CASE CheckSpec
  BY <1>18 DEF CheckSpec, Conclude
<1>19. CASE Respond
  BY <1>19 DEF Respond, Conclude, MayRetry
<1>20. CASE Retry
  BY <1>20 DEF Retry
<1>21. CASE Close
  BY <1>21 DEF Close
<1>22. CASE Drain
  BY <1>22 DEF Drain
<1>23. ASSUME NEW p \in Pods, StreamEnds(p) PROVE Watching'
  BY <1>23 DEF StreamEnds
<1>24. ASSUME NEW h \in Helpers, Deliver(h) PROVE Watching'
  BY <1>24 DEF Deliver
<1>25. CASE ForwarderEnds
  BY <1>25 DEF ForwarderEnds
<1>26. CASE Change
  BY <1>26 DEF Change
<1>27. CASE Cancel
  BY <1>27 DEF Cancel
<1>28. CASE Tick
  BY <1>28 DEF Tick, Waits
<1>29. CASE Terminated
  BY <1>29 DEF Terminated, vars
<1>30. CASE UNCHANGED vars
  BY <1>30 DEF vars
<1> QED
  BY <1>1, <1>2, <1>3, <1>4, <1>5, <1>6, <1>7, <1>8, <1>9, <1>10, <1>11, <1>12, <1>13, <1>14,
     <1>15, <1>16, <1>17, <1>18, <1>19, <1>20, <1>21, <1>22, <1>23, <1>24, <1>25, <1>26, <1>27,
     <1>28, <1>29, <1>30 DEF Next, Code, Helping

IInv == TypeOK /\ Places /\ Forwarding /\ Streams /\ Timely /\ Fresh /\ VerdictHasEvidence /\ Watching

LEMMA InitIInv == Init => IInv
<1> SUFFICES ASSUME Init PROVE IInv
  OBVIOUS
<1>1. call \in CallShape
  BY CallsAssumption DEF Init
<1>2. TypeOK
  <2>1. goodSince \in Nat \cup {NoTime}
    BY DEF Init
  <2>2. helper \in [Helpers -> {"idle", "running", "ended", "gone"}]
    BY DEF Init
  <2>3. call \in Calls /\ attempt \in 0..call.count /\ verdict = "none"
    BY <1>1 DEF Init, CallShape
  <2>4. /\ phase = "setup" /\ clock = 0 /\ deadline = 0 /\ wakeAt = 0 /\ lastLook = 0
        /\ object \in Objects /\ api \in BOOLEAN /\ cancelled \in BOOLEAN
        /\ hit \subseteq Pods /\ mail \subseteq Helpers /\ closes = 0
    BY DEF Init
  <2> QED
    BY <2>1, <2>2, <2>3, <2>4 DEF TypeOK
<1>3. Places /\ VerdictHasEvidence
  BY DEF Init, Places, VerdictHasEvidence
<1>4. Forwarding /\ Streams
  BY DEF Init, Forwarding, Streams, StoppedOnce, PatternDecides, Helpers
<1>5. Timely
  BY DEF Init, Timely, StopsInTime
<1>6. Fresh
  <2>1. goodSince # NoTime => GoodNow
    BY DEF Init, GoodNow
  <2>2. Is("logsContain") => goodSince = NoTime
    BY DEF Init, Holds
  <2> QED
    BY <2>1, <2>2 DEF Init, Fresh
<1>7. Watching
  BY DEF Init, Watching, HeldIsNoticed
<1> QED
  BY <1>2, <1>3, <1>4, <1>5, <1>6, <1>7 DEF IInv

LEMMA NextIInv == IInv /\ [Next]_vars => IInv'
  BY TypeStays, PlacesStay, ForwardingStays, StreamsStay, TimelyStays, FreshStays, EvidenceStays,
     WatchingStays DEF IInv

LEMMA Invariance == Spec => []IInv
  BY InitIInv, NextIInv, PTL DEF Spec

\* Types, for every assertion: TypeOK is kept by every step.
THEOREM TypeCorrect == Spec => []TypeOK
<1>1. IInv => TypeOK
  BY DEF IInv
<1> QED
  BY <1>1, Invariance, PTL

\* No success that lasts from more than an interval (or from the time of the last
\* retry) before the end of the wait is slept through, for every timeout, interval
\* and number of retries (waitfor.go:76-94, lookup.go:60-75, wait.go:57-67,
\* http.go:69-101).
THEOREM SuccessNoticed == Spec => []HeldIsNoticed
<1>1. IInv => HeldIsNoticed
  BY DEF IInv, Watching
<1> QED
  BY <1>1, Invariance, PTL

\* No wait outlives its deadline by more than the sleep in which it passed, whatever
\* the timeout (waitfor.go:69-94, http.go:615-655).
THEOREM DeadlineKept == Spec => []StopsInTime
<1>1. IInv => StopsInTime
  BY DEF IInv, Timely
<1> QED
  BY <1>1, Invariance, PTL

\* A verdict given in time rests on what was there when it was given
\* (waitfor.go:76-94, lookup.go:60-77, http.go:69-101).
THEOREM VerdictGrounded == Spec => []VerdictHasEvidence
<1>1. IInv => VerdictHasEvidence
  BY DEF IInv
<1> QED
  BY <1>1, Invariance, PTL

\* logsContain passes exactly if some stream showed the pattern, for any set of pods
\* and any order of their ends (logscontain.go:67-89).
THEOREM LogsDecided == Spec => []PatternDecides
<1>1. IInv => PatternDecides
  BY DEF IInv, Streams
<1> QED
  BY <1>1, Invariance, PTL

\* A port-forward is stopped once and only once on every way out (http.go:457-487).
THEOREM ForwardStopped == Spec => []StoppedOnce
<1>1. IInv => StoppedOnce
  BY DEF IInv, Forwarding
<1> QED
  BY <1>1, Invariance, PTL
=============================================================================
