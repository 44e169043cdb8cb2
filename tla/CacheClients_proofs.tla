------------------------- MODULE CacheClients_proofs -------------------------
(***************************************************************************)
(* The Redis clients of the cache handlers, for any number of pods, calls, *)
(* clients and faults: no connection comes to a standstill, and on Node a  *)
(* healthy client is dropped only for a fault of its own.                  *)
(***************************************************************************)
EXTENDS CacheHandler_proofs

-----------------------------------------------------------------------------
(* QueueMoves.                                                              *)

\* A command of c on client n of pod p.
On(c, p, n) == call[c].pc \in Commands /\ call[c].at = p /\ call[c].client = n

\* The head of a gate is a command on its client, and it is sent.
LEMMA HeadOfGate ==
  ASSUME FullInv, NEW p \in Native, NEW n \in Clients, NEW c \in Calls, On(c, p, n)
  PROVE  LET h == Head(gate[p][n])
         IN  gate[p][n] # <<>> /\ h \in Calls /\ On(h, p, n) /\ Sent(h)
  <1>0. p \in Pods
    BY NativeAssumption
  <1>1. gate[p][n] \in Seq(Calls) /\ IsInjective(gate[p][n])
        /\ ToSet(gate[p][n]) = Waiting(p, n)
    BY <1>0 DEF FullInv, GatesOK
  <1>2. gate[p][n] # <<>>
    <2>1. c \in ToSet(gate[p][n])
      BY <1>1 DEF Waiting, On
    <2> QED
      BY <2>1 DEF ToSet
  <1>3. Head(gate[p][n]) \in Waiting(p, n)
    BY <1>1, <1>2, TailGate
  <1> QED
    BY <1>2, <1>3 DEF Waiting, On, Sent, OnNative, Queue

\* A command that is sent can be answered, refused or timed out, unless it belongs
\* to a native transaction on a silent connection.
LEMMA SentSettles ==
  ASSUME NEW c \in Calls, Sent(c)
  PROVE  \/ Answerable(c) \/ Refused(c) \/ OutOfTime(c)
         \/ OnNative(c) /\ Silent(c) /\ call[c].pc \in Unbudgeted
  BY DEF Answerable, Refused, OutOfTime, Budgeted, Flushed

\* While commands wait on a connection one of them can settle, or a native
\* transaction has wedged it: whatever happened before, the release of the gate is
\* not lost.
THEOREM CacheQueueMoves == Spec => []QueueMoves
  <1>1. ASSUME FullInv, NEW c \in Calls, call[c].pc \in Commands
        PROVE  \/ Wedged(call[c].at, call[c].client)
               \/ \E d \in Calls : /\ call[d].at = call[c].at
                                   /\ call[d].client = call[c].client
                                   /\ Answerable(d) \/ Refused(d) \/ OutOfTime(d)
    <2> DEFINE p == call[c].at
               n == call[c].client
               h == Head(gate[p][n])
    <2>1. p \in Pods /\ n \in Clients
      BY <1>1 DEF FullInv, IInv, CallsOK, CallRecord, ClientsOK, Commands, Unbudgeted
    <2>2. CASE p \in Native
      <3>1. gate[p][n] # <<>> /\ h \in Calls /\ On(h, p, n) /\ Sent(h)
        BY <1>1, <2>1, <2>2, HeadOfGate DEF On
      <3> HIDE DEF h
      <3>2. CASE Answerable(h) \/ Refused(h) \/ OutOfTime(h)
        BY <3>1, <3>2 DEF On
      <3>3. CASE Silent(h) /\ call[h].pc \in Unbudgeted
        BY <2>2, <3>1, <3>3 DEF Wedged, h
      <3> QED
        BY <3>1, <3>2, <3>3, SentSettles
    <2>3. CASE p \notin Native
      <3>1. Sent(c) /\ ~OnNative(c)
        BY <1>1, <2>3 DEF Sent, OnNative
      <3> QED
        BY <3>1, SentSettles
    <2> QED
      BY <2>2, <2>3
  <1>2. FullInv => QueueMoves
    BY <1>1 DEF QueueMoves
  <1> QED
    BY <1>2, InitFull, FullStep, PTL DEF Spec

-----------------------------------------------------------------------------
(* What one step may do to a pod and to the records of the calls.           *)

\* A call that ends with a fault of its client: a command of the client, or a waiter
\* of one that is not ready.
Blames(c, p) ==
  /\ call[c].pc # "idle" /\ call[c].at = p /\ call'[c].pc = "idle"
  /\ call[c].pc = "connecting" => Dropped(c) \/ pod[p].st = "wait"

\* What one step may do to pod p.
PodMoves(p) ==
  \/ pod'[p] = pod[p]
  \/ /\ pod'[p].open /\ pod'[p].st = "none"
     /\ pod[p].st = "wait" \/ \E c \in Calls : Blames(c, p)
  \/ /\ pod[p].st = "none" /\ ~pod[p].open
     /\ pod'[p].st = "wait" /\ ~pod'[p].open
  \/ /\ pod[p].st # "none" /\ pod'[p].st # "none"
     /\ pod'[p].open = pod[p].open /\ pod'[p].client = pod[p].client
  \/ CooldownEnds(p) /\ ~pod'[p].open /\ pod'[p].st = pod[p].st
  \/ Crash(p)

\* Calls open connections, faults and failed handshakes drop them, a cooldown
\* or a new process closes the breaker.
LEMMA PodStep ==
  ASSUME FullInv, [Next]_vars, NEW p \in Pods PROVE PodMoves(p)
  <1>0. /\ pod \in [Pods -> [open : BOOLEAN, client : 0..MaxClients,
                             st : {"none", "wait", "ready"}]]
        /\ \A c \in Calls : call[c].at \in Pods
        /\ DOMAIN call = Calls /\ NoCall.pc = "idle"
    BY DEF FullInv, IInv, PodsOK, CallsOK, CallRecord, NoCall
  <1>1. CASE UNCHANGED pod
    BY <1>1 DEF PodMoves
  <1>2. ASSUME NEW c \in Calls, NEW q \in Pods, NEW r \in Requests, Start(c, q, r)
        PROVE  PodMoves(p)
    <2>1. CASE /\ ~pod[q].open /\ pod[q].st = "none"
               /\ pod' = [pod EXCEPT ![q].client = @ + 1, ![q].st = "wait"]
      <3>1. CASE q = p
        <4>1. pod'[p].st = "wait" /\ pod'[p].open = pod[p].open
          BY <1>0, <2>1, <3>1
        <4> QED
          BY <2>1, <3>1, <4>1 DEF PodMoves
      <3>2. CASE q # p
        BY <1>0, <2>1, <3>2 DEF PodMoves
      <3> QED
        BY <3>1, <3>2
    <2> QED
      BY <1>1, <1>2, <2>1 DEF Start
  <1>3. ASSUME NEW c \in Calls, NEW q \in Pods, Blames(c, q), pod' = Unhealthy(q)
        PROVE  PodMoves(p)
    <2>1. CASE q = p
      <3>1. pod'[p].open /\ pod'[p].st = "none"
        BY <1>0, <1>3, <2>1 DEF Unhealthy
      <3> QED
        BY <1>3, <2>1, <3>1 DEF PodMoves
    <2>2. CASE q # p
      BY <1>0, <1>3, <2>2 DEF Unhealthy, PodMoves
    <2> QED
      BY <2>1, <2>2
  <1>4. ASSUME NEW c \in Calls, Step(c) PROVE PodMoves(p)
    <2>1. CASE Faulted(c) /\ Sent(c)
      <3>1. call'[c].pc = "idle"
        BY <1>0, <2>1 DEF Faulted, Finished
      <3>2. Blames(c, call[c].at)
        BY <2>1, <3>1 DEF Blames, Sent, Commands, Unbudgeted
      <3> QED
        BY <1>0, <1>1, <1>3, <2>1, <3>2 DEF Faulted
    <2>2. CASE Proceed(c)
      <3>1. CASE pod' = Unhealthy(call[c].at)
        <4>1. CASE UNCHANGED pod
          BY <1>1, <4>1
        <4>2. CASE /\ call[c].pc = "connecting" /\ call' = [call EXCEPT ![c] = NoCall]
                   /\ Dropped(c) \/ pod[call[c].at].st = "wait"
          <5>1. Blames(c, call[c].at)
            BY <1>0, <4>2 DEF Blames
          <5> QED
            BY <1>0, <1>3, <3>1, <5>1
        <4> QED
          BY <2>2, <4>1, <4>2 DEF Proceed
      <3> QED
        BY <1>1, <2>2, <3>1 DEF Proceed
    <2>3. CASE Lands(c) \/ Answered(c) \/ Discards(c)
      BY <1>1, <2>3 DEF Lands, Answered, Discards
    <2> QED
      BY <1>4, <2>1, <2>2, <2>3
         DEF Step, Discarded, Fails, TimesOut, Answerable, Refused, OutOfTime
  <1>5. ASSUME NEW q \in Pods, Connect(q) PROVE PodMoves(p)
    <2>1. pod[q].st = "wait" /\ pod' \in {[pod EXCEPT ![q].st = "ready"], Unhealthy(q)}
      BY <1>5 DEF Connect
    <2>2. CASE q # p
      BY <1>0, <2>1, <2>2 DEF Unhealthy, PodMoves
    <2>3. CASE q = p /\ pod' = Unhealthy(q)
      BY <1>0, <2>1, <2>3 DEF Unhealthy, PodMoves
    <2>4. CASE q = p /\ pod' = [pod EXCEPT ![q].st = "ready"]
      <3>1. /\ pod'[p].st = "ready" /\ pod'[p].open = pod[p].open
            /\ pod'[p].client = pod[p].client
        BY <1>0, <2>4
      <3> QED
        BY <2>1, <2>4, <3>1 DEF PodMoves
    <2> QED
      BY <2>1, <2>2, <2>3, <2>4
  <1>6. ASSUME NEW q \in Pods, CooldownEnds(q) PROVE PodMoves(p)
    <2>1. pod' = [pod EXCEPT ![q].open = FALSE]
      BY <1>6 DEF CooldownEnds
    <2>2. CASE q = p
      <3>1. ~pod'[p].open /\ pod'[p].st = pod[p].st
        BY <1>0, <2>1, <2>2
      <3> QED
        BY <1>6, <2>2, <3>1 DEF PodMoves
    <2>3. CASE q # p
      BY <1>0, <2>1, <2>3 DEF PodMoves
    <2> QED
      BY <2>2, <2>3
  <1>7. ASSUME NEW q \in Pods, pod[q].st = "ready", pod' = [pod EXCEPT ![q].st = "wait"]
        PROVE  PodMoves(p)
    <2>1. CASE q = p
      <3>1. /\ pod'[p].st = "wait" /\ pod'[p].open = pod[p].open
            /\ pod'[p].client = pod[p].client
        BY <1>0, <1>7, <2>1
      <3> QED
        BY <1>7, <2>1, <3>1 DEF PodMoves
    <2>2. CASE q # p
      BY <1>0, <1>7, <2>2 DEF PodMoves
    <2> QED
      BY <2>1, <2>2
  <1>8. ASSUME NEW q \in Pods, Drops(q) PROVE PodMoves(p)
    BY <1>7, <1>8 DEF Drops
  <1>9. ASSUME NEW q \in Pods, NEW n \in Clients, Closes(q, n) PROVE PodMoves(p)
    <2>1. CASE pod[q].client = n /\ pod[q].st = "ready"
      BY <1>7, <1>9, <2>1 DEF Closes
    <2>2. CASE ~(pod[q].client = n /\ pod[q].st = "ready")
      <3>1. pod' = [pod EXCEPT ![q].st = @]
        BY <1>9, <2>2 DEF Closes
      <3> QED
        BY <1>0, <1>1, <3>1
    <2> QED
      BY <2>1, <2>2
  <1>10. ASSUME NEW q \in Pods, Crash(q) PROVE PodMoves(p)
    BY <1>0, <1>10 DEF Crash, PodMoves
  <1>11. CASE \/ (\E q \in Pods : Silence(q)) \/ ServerDown \/ ServerUp
              \/ (\E k \in Keys : Expire(k)) \/ UNCHANGED vars
    BY <1>1, <1>11 DEF Silence, ServerDown, ServerUp, Expire, vars
  <1> QED
    BY <1>2, <1>4, <1>5, <1>6, <1>8, <1>9, <1>10, <1>11 DEF Next

\* A step of a call leaves the records of the others alone.
LEMMA StepAlone ==
  ASSUME FullInv, NEW d \in Calls, Step(d), NEW c \in Calls, c # d
  PROVE  call'[c] = call[c]
  <1>0. call \in [Calls -> CallRecord]
    BY DEF FullInv, IInv, CallsOK
  <1>1. ASSUME NEW r, call' = [call EXCEPT ![d] = r] PROVE call'[c] = call[c]
    BY <1>0, <1>1
  <1>2. CASE Proceed(d)
    <2>1. CASE call' = [call EXCEPT ![d] = NoCall]
      BY <1>1, <2>1
    <2>2. CASE call' = [call EXCEPT ![d].pc = First(call[d].op, call[d].at)]
      BY <1>0, <2>2
    <2> QED
      BY <1>2, <2>1, <2>2 DEF Proceed
  <1>3. CASE Lands(d) \/ Discards(d)
    BY <1>0, <1>3 DEF Lands, Discards
  <1>4. CASE Finished(d)
    BY <1>1, <1>4 DEF Finished
  <1>5. ASSUME NEW r, Continued(d, r) PROVE call'[c] = call[c]
    BY <1>1, <1>5 DEF Continued
  <1>6. ASSUME NEW rest, NextTag(d, rest) PROVE call'[c] = call[c]
    BY <1>4, <1>5, <1>6 DEF NextTag
  <1>7. CASE Begun(d)
    BY <1>0, <1>7 DEF Begun
  <1>8. CASE Answered(d)
    BY <1>4, <1>5, <1>6, <1>7, <1>8 DEF Answered
  <1> QED
    BY <1>2, <1>3, <1>4, <1>8 DEF Step, Discarded, Fails, TimesOut, Faulted

\* A step of a call ends it, or leaves it at its pod and on its client.
LEMMA StepStays ==
  ASSUME FullInv, NEW c \in Calls, Step(c)
  PROVE  \/ call'[c].pc = "idle"
         \/ /\ call[c].pc # "idle"
            /\ call'[c].at = call[c].at /\ call'[c].client = call[c].client
  <1>0. /\ call \in [Calls -> CallRecord] /\ call[c] \in CallRecord
        /\ NoCall.pc = "idle"
    BY DEF FullInv, IInv, CallsOK, NoCall
  <1>1. call[c].pc # "idle"
    BY DEF Step, Proceed, Lands, Answered, Answerable, Discards, Discarded, Breaks, Fails,
           TimesOut, Refused, OutOfTime, Sent, Commands, Unbudgeted
  <1>2. CASE Proceed(c)
    BY <1>0, <1>1, <1>2 DEF Proceed, CallRecord
  <1>3. CASE Lands(c) \/ Discards(c)
    BY <1>0, <1>1, <1>3 DEF Lands, Discards, CallRecord
  <1>4. CASE Finished(c)
    BY <1>0, <1>4 DEF Finished
  <1>5. CASE Begun(c)
    BY <1>0, <1>1, <1>5 DEF Begun, CallRecord
  <1>6. ASSUME NEW rest, NextTag(c, rest)
        PROVE  \/ Finished(c)
               \/ call'[c].at = call[c].at /\ call'[c].client = call[c].client
    <2> DEFINE r == [call[c] EXCEPT !.pc = "smembers", !.tags = rest,
                                    !.seen = {}, !.landed = FALSE]
    <2>1. r.at = call[c].at /\ r.client = call[c].client
      BY <1>0 DEF CallRecord
    <2>2. Continued(c, r) => call'[c] = r
      BY <1>0 DEF Continued
    <2>3. Finished(c) \/ Continued(c, r)
      BY <1>6 DEF NextTag
    <2> HIDE DEF r
    <2> QED
      BY <2>1, <2>2, <2>3
  <1>7. ASSUME NEW t, Continued(c, [call[c] EXCEPT !.pc = Transaction(call[c].at),
                                                   !.tag = t, !.seen = index[t]])
        PROVE  call'[c].at = call[c].at /\ call'[c].client = call[c].client
    BY <1>0, <1>7 DEF Continued, CallRecord
  <1>8. CASE Answered(c)
    BY <1>1, <1>4, <1>5, <1>6, <1>7, <1>8 DEF Answered
  <1> QED
    BY <1>2, <1>3, <1>4, <1>8 DEF Step, Discarded, Fails, TimesOut, Faulted

\* A call in progress after a step was so before it, on the same client, or has just
\* started on the client its pod then has.
LEMMA CallStep ==
  ASSUME FullInv, [Next]_vars, NEW c \in Calls, NEW p \in Pods,
         call'[c].pc # "idle", call'[c].at = p
  PROVE  /\ ~Crash(p)
         /\ \/ /\ call[c].pc # "idle" /\ call[c].at = p
               /\ call'[c].client = call[c].client
            \/ pod'[p].st # "none" /\ pod'[p].client = call'[c].client
  <1>0. /\ call \in [Calls -> CallRecord] /\ NoCall.pc = "idle"
        /\ pod \in [Pods -> [open : BOOLEAN, client : 0..MaxClients,
                             st : {"none", "wait", "ready"}]]
    BY DEF FullInv, IInv, CallsOK, PodsOK, NoCall
  <1> DEFINE Goal ==
        \/ /\ call[c].pc # "idle" /\ call[c].at = p
           /\ call'[c].client = call[c].client
        \/ pod'[p].st # "none" /\ pod'[p].client = call'[c].client
  <1>1. ~Crash(p)
    <2> SUFFICES ASSUME Crash(p) PROVE FALSE
      OBVIOUS
    <2>1. call'[c] = IF call[c].at = p THEN NoCall ELSE call[c]
      BY DEF Crash
    <2> QED
      BY <1>0, <2>1
  <1> SUFFICES Goal
    BY <1>1
  <1>2. CASE call'[c] \in {call[c], NoCall}
    BY <1>0, <1>2
  <1>3. ASSUME NEW d \in Calls, NEW q \in Pods, NEW r \in Requests, Start(d, q, r)
        PROVE  Goal
    <2> DEFINE asked == [NoCall EXCEPT !.at = q, !.op = r.op, !.key = r.key, !.tags = r.tags]
    <2>1. CASE c # d
      <3>1. call'[c] = call[c]
        BY <1>0, <1>3, <2>1 DEF Start
      <3> QED
        BY <1>2, <3>1
    <2>2. CASE c = d /\ UNCHANGED call
      BY <1>2, <2>2
    <2>3. ASSUME NEW pc, c = d, pod'[q].st # "none",
                 call' = [call EXCEPT ![d] = [asked EXCEPT !.pc = pc, !.client = pod'[q].client]]
          PROVE  Goal
      <3>1. call'[c].at = q /\ call'[c].client = pod'[q].client
        BY <1>0, <2>3 DEF NoCall
      <3> QED
        BY <2>3, <3>1
    <2>4. \/ UNCHANGED call
          \/ /\ pod' = [pod EXCEPT ![q].client = @ + 1, ![q].st = "wait"]
             /\ call' = [call EXCEPT ![d] =
                           [asked EXCEPT !.pc = "connecting", !.client = pod'[q].client]]
          \/ /\ pod[q].st = "wait" /\ UNCHANGED pod
             /\ call' = [call EXCEPT ![d] =
                           [asked EXCEPT !.pc = "connecting", !.client = pod[q].client]]
          \/ /\ pod[q].st = "ready" /\ UNCHANGED pod
             /\ call' = [call EXCEPT ![d] =
                           [asked EXCEPT !.pc = First(r.op, q), !.client = pod[q].client]]
      BY <1>3, Zenon DEF Start
    <2>5. CASE /\ c = d
               /\ pod' = [pod EXCEPT ![q].client = @ + 1, ![q].st = "wait"]
               /\ call' = [call EXCEPT ![d] =
                             [asked EXCEPT !.pc = "connecting", !.client = pod'[q].client]]
      <3>1. pod'[q].st = "wait"
        BY <1>0, <2>5
      <3> QED
        BY <2>3, <2>5, <3>1
    <2> HIDE DEF asked, Goal
    <2> QED
      BY <2>1, <2>2, <2>3, <2>4, <2>5
  <1>4. ASSUME NEW d \in Calls, Step(d)
        PROVE  Goal
    <2>1. CASE c # d
      BY <1>2, <1>4, <2>1, StepAlone
    <2>2. CASE c = d
      BY <1>4, <2>2, StepStays
    <2> QED
      BY <2>1, <2>2
  <1>5. CASE ServerDown \/ \E q \in Pods, n \in Clients : Closes(q, n)
    <2> DEFINE cut == [call[c] EXCEPT !.cut = TRUE]
    <2>1. call'[c] \in {call[c], cut}
      <3>1. CASE ServerDown
        BY <1>0, <3>1 DEF ServerDown
      <3>2. ASSUME NEW q \in Pods, NEW n \in Clients, Closes(q, n)
            PROVE  call'[c] \in {call[c], cut}
        BY <1>0, <3>2 DEF Closes
      <3> QED
        BY <1>5, <3>1, <3>2
    <2>2. cut.pc = call[c].pc /\ cut.at = call[c].at /\ cut.client = call[c].client
      BY <1>0 DEF CallRecord
    <2> QED
      BY <2>1, <2>2
  <1>6. ASSUME NEW q \in Pods, Connect(q) \/ CooldownEnds(q) \/ Drops(q) \/ Silence(q) \/ Crash(q)
        PROVE  call'[c] \in {call[c], NoCall}
    BY <1>0, <1>6 DEF Connect, CooldownEnds, Drops, Silence, Crash
  <1>7. CASE ServerUp \/ (\E k \in Keys : Expire(k)) \/ UNCHANGED vars
    BY <1>2, <1>7 DEF ServerUp, Expire, vars
  <1> QED
    BY <1>2, <1>3, <1>4, <1>5, <1>6, <1>7 DEF Next

-----------------------------------------------------------------------------
(* HealthyClientKept.                                                       *)

\* An open breaker leaves a Node pod without a client, and while it is closed every
\* call in progress there is on the client the pod has.
CallsCurrent ==
  \A p \in Pods \ Native :
    /\ pod[p].open => pod[p].st = "none"
    /\ \A c \in Calls : call[c].pc # "idle" /\ call[c].at = p /\ ~pod[p].open
                          => pod[p].st # "none" /\ pod[p].client = call[c].client

\* A new process has no client and no call.
LEMMA CurrentInit == Init => CallsCurrent
  BY DEF Init, FreshPod, NoCall, CallsCurrent

\* A breaker that opens drops the client, a call starts on the client the pod has,
\* and none outlives a cooldown.
LEMMA CurrentStep ==
  ASSUME FullInv, CallsCurrent, [Next]_vars
  PROVE  CallsCurrent'
  <1>1. ASSUME NEW p \in Pods \ Native, pod'[p].open PROVE pod'[p].st = "none"
    <2>1. CASE Crash(p)
      BY <1>1, <2>1 DEF Crash, FreshPod, FullInv, IInv, PodsOK
    <2> QED
      BY <1>1, <2>1, PodStep DEF PodMoves, CallsCurrent
  <1>2. ASSUME NEW p \in Pods \ Native, NEW c \in Calls,
               call'[c].pc # "idle", call'[c].at = p, ~pod'[p].open
        PROVE  pod'[p].st # "none" /\ pod'[p].client = call'[c].client
    <2> SUFFICES ASSUME call[c].pc # "idle", call[c].at = p,
                        call'[c].client = call[c].client
                 PROVE  pod'[p].st # "none" /\ pod'[p].client = call[c].client
      BY <1>2, CallStep
    <2>1. ~Crash(p)
      BY <1>2, CallStep
    <2>2. ~CooldownEnds(p)
      BY <1>2 DEF CooldownEnds
    <2> QED
      BY <1>2, <2>1, <2>2, PodStep DEF PodMoves, CallsCurrent
  <1> QED
    BY <1>1, <1>2 DEF CallsCurrent

\* A Node pod that drops a healthy client does so for the fault of a command of that
\* client: a command or a waiter of an earlier one never outlives a cooldown.
THEOREM CacheHealthyClientKept == Spec => HealthyClientKept
  <1>1. Init => FullInv /\ CallsCurrent
    BY InitFull, CurrentInit
  <1>2. FullInv /\ CallsCurrent /\ [Next]_vars => FullInv' /\ CallsCurrent'
    BY FullStep, CurrentStep
  <1>3. ASSUME FullInv, CallsCurrent, [Next]_vars, NEW p \in Pods \ Native
        PROVE  KeepsHealthy(p)
    <2> SUFFICES ASSUME pod[p].st = "ready", pod'[p].st = "none", pod'[p].client # 0
                 PROVE  \E c \in Calls : /\ call[c].pc # "idle" /\ call[c].at = p
                                         /\ call[c].client = pod[p].client
                                         /\ call'[c].pc = "idle"
      BY Zenon DEF KeepsHealthy
    <2>1. ~Crash(p)
      BY <1>3 DEF Crash, FreshPod, FullInv, IInv, PodsOK
    <2>2. PICK d \in Calls : Blames(d, p)
      BY <1>3, <2>1, PodStep DEF PodMoves
    <2>3. call[d].pc # "idle" /\ call[d].at = p /\ call'[d].pc = "idle"
      BY <2>2 DEF Blames
    <2>4. call[d].client = pod[p].client
      BY <1>3, <2>3 DEF CallsCurrent
    <2> QED
      BY <2>3, <2>4
  <1>4. FullInv /\ CallsCurrent /\ [Next]_vars => [\A p \in Pods \ Native : KeepsHealthy(p)]_vars
    BY <1>3
  <1> QED
    BY <1>1, <1>2, <1>4, PTL DEF Spec, HealthyClientKept
=============================================================================
