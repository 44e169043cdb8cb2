------------------------- MODULE CacheHandler_proofs -------------------------
(***************************************************************************)
(* CacheHandler implements TagStore, for any number of pods, keys, tags,   *)
(* calls and faults, and with it keeps every entry in the index of its     *)
(* tags.                                                                   *)
(***************************************************************************)
EXTENDS CacheHandler, TLAPS

-----------------------------------------------------------------------------
(* The records of the calls.                                               *)

\* The transaction of an invalidation follows an SMEMBERS that found members.
Prepared(r) ==
  r.op = "clear" => r.pc # "del" /\ (r.pc \in {"multi", "exec"} => r.seen # {})

SeenSome == \A c \in Calls : Prepared(call[c])

PodsOK == pod \in [Pods -> [open : BOOLEAN, client : 0..MaxClients,
                             st : {"none", "wait", "ready"}]]

CallsOK == call \in [Calls -> CallRecord] /\ SeenSome

\* A free slot is a typed record.
LEMMA NoCallType == NoCall \in CallRecord
  <1>1. AnyKey \in Keys /\ AnyTag \in Tags /\ (CHOOSE p \in Pods : TRUE) \in Pods
    BY SomeAssumption DEF AnyKey, AnyTag
  <1>2. 0 \in 0..MaxClients
    BY BoundAssumption
  <1> QED
    BY <1>1, <1>2 DEF NoCall, CallRecord

\* A client is a number of the record's range.
LEMMA ClientType == Clients \subseteq 0..MaxClients /\ 0 \in 0..MaxClients
  BY BoundAssumption DEF Clients

\* The initial calls are typed.
LEMMA InitCalls == Init => CallsOK
  <1> SUFFICES ASSUME Init PROVE CallsOK
    OBVIOUS
  <1>1. call = [c \in Calls |-> NoCall]
    BY DEF Init
  <1>2. call \in [Calls -> CallRecord]
    BY <1>1, NoCallType
  <1>3. NoCall.op = "get"
    BY DEF NoCall
  <1> QED
    BY <1>1, <1>2, <1>3 DEF CallsOK, SeenSome, Prepared

\* Replacing the record of one call by a typed one that has seen members if its
\* command needs them keeps the calls typed.
LEMMA CallsUpdate ==
  ASSUME CallsOK, NEW c \in Calls, NEW r \in CallRecord,
         Prepared(r),
         call' = [call EXCEPT ![c] = r]
  PROVE  CallsOK'
  BY DEF CallsOK, SeenSome, Prepared

\* A call that finishes leaves its slot free.
LEMMA FinishedCalls ==
  ASSUME CallsOK, NEW c \in Calls, Finished(c)
  PROVE  CallsOK'
  <1>1. NoCall.op = "get"
    BY DEF NoCall
  <1> QED
    BY <1>1, NoCallType, CallsUpdate DEF Prepared, Finished

\* An invalidation that turns to its next tag has seen nothing yet.
LEMMA NextTagCalls ==
  ASSUME CallsOK, NEW c \in Calls, NEW rest \in SUBSET Tags, NextTag(c, rest)
  PROVE  CallsOK'
  <1>1. CASE Finished(c)
    BY <1>1, FinishedCalls
  <1>2. CASE rest # {}
    <2> DEFINE r == [call[c] EXCEPT !.pc = "smembers", !.tags = rest,
                                    !.seen = {}, !.landed = FALSE]
    <2>1. call[c] \in CallRecord
      BY DEF CallsOK
    <2>2. r \in CallRecord /\ r.pc = "smembers"
      BY <2>1 DEF CallRecord, Commands, Unbudgeted
    <2>3. CASE Continued(c, r)
      BY <2>2, <2>3, CallsUpdate DEF Prepared, Continued
    <2> QED
      BY <1>2, <2>3, <1>1 DEF NextTag
  <1> QED
    BY <1>1, <1>2 DEF NextTag

-----------------------------------------------------------------------------
(* Each action keeps the calls typed.                                       *)

\* A first command is a command, and only a set's is a transaction.
LEMMA FirstType ==
  ASSUME NEW op \in {"get", "set", "delete", "clear"}, NEW p
  PROVE  First(op, p) \in Commands /\ (op = "clear" => First(op, p) = "smembers")
  BY DEF First, Transaction, Commands, Unbudgeted

\* The calls that start are typed.
LEMMA StartCalls ==
  ASSUME CallsOK, PodsOK, NEW c \in Calls, NEW p \in Pods, NEW r \in Requests,
         Start(c, p, r)
  PROVE  CallsOK'
  <1> DEFINE asked == [NoCall EXCEPT !.at = p, !.op = r.op, !.key = r.key, !.tags = r.tags]
  <1>1. r.op \in {"get", "set", "delete", "clear"} /\ r.key \in Keys /\ r.tags \in SUBSET Tags
    BY SomeAssumption DEF Requests, AnyKey
  <1>2. /\ asked \in CallRecord
        /\ asked.op = r.op
    BY <1>1, NoCallType DEF CallRecord, NoCall
  <1>3. CASE call' = call
    BY <1>3 DEF CallsOK, SeenSome, Prepared
  <1>4. ASSUME NEW n \in 0..MaxClients,
               call' = [call EXCEPT ![c] = [asked EXCEPT !.pc = "connecting", !.client = n]]
        PROVE  CallsOK'
    <2> DEFINE r2 == [asked EXCEPT !.pc = "connecting", !.client = n]
    <2>1. r2 \in CallRecord /\ r2.pc = "connecting"
      BY <1>2 DEF CallRecord
    <2>2. call' = [call EXCEPT ![c] = r2]
      BY <1>4
    <2> HIDE DEF r2
    <2> QED
      BY <2>1, <2>2, CallsUpdate DEF Prepared
  <1>5. ASSUME call' = [call EXCEPT ![c] =
                  [asked EXCEPT !.pc = First(r.op, p), !.client = pod[p].client]]
        PROVE  CallsOK'
    <2> DEFINE r2 == [asked EXCEPT !.pc = First(r.op, p), !.client = pod[p].client]
    <2>1. First(r.op, p) \in Commands /\ (r.op = "clear" => First(r.op, p) = "smembers")
      BY <1>1, FirstType
    <2>2. r2 \in CallRecord /\ r2.op = r.op /\ r2.pc = First(r.op, p)
      BY <1>2, <2>1 DEF CallRecord, PodsOK
    <2>3. call' = [call EXCEPT ![c] = r2]
      BY <1>5
    <2> HIDE DEF r2
    <2> QED
      BY <2>1, <2>2, <2>3, CallsUpdate DEF Prepared
  <1>6. pod[p].client < MaxClients => pod[p].client + 1 \in 0..MaxClients
    BY BoundAssumption DEF PodsOK
  <1>7. CASE pod' = [pod EXCEPT ![p].client = @ + 1, ![p].st = "wait"] /\ pod[p].client < MaxClients
             /\ call' = [call EXCEPT ![c] =
                      [asked EXCEPT !.pc = "connecting", !.client = pod'[p].client]]
    <2>1. pod'[p].client \in 0..MaxClients
      BY <1>6, <1>7 DEF PodsOK
    <2> QED
      BY <2>1, <1>4, <1>7
  <1>8. pod[p].client \in 0..MaxClients
    BY DEF PodsOK
  <1>9. CASE call' = [call EXCEPT ![c] =
                        [asked EXCEPT !.pc = "connecting", !.client = pod[p].client]]
    BY <1>8, <1>9, <1>4
  <1>10. \/ call' = call
         \/ /\ pod[p].client < MaxClients
            /\ pod' = [pod EXCEPT ![p].client = @ + 1, ![p].st = "wait"]
            /\ call' = [call EXCEPT ![c] =
                           [asked EXCEPT !.pc = "connecting", !.client = pod'[p].client]]
         \/ call' = [call EXCEPT ![c] =
                        [asked EXCEPT !.pc = "connecting", !.client = pod[p].client]]
         \/ call' = [call EXCEPT ![c] =
                        [asked EXCEPT !.pc = First(r.op, p), !.client = pod[p].client]]
    BY Zenon DEF Start
  <1> HIDE DEF asked
  <1> QED
    BY <1>3, <1>5, <1>7, <1>9, <1>10

\* A call that proceeds has its first command, or is over.
LEMMA ProceedCalls ==
  ASSUME CallsOK, NEW c \in Calls, Proceed(c)
  PROVE  CallsOK'
  <1>1. call[c] \in CallRecord
    BY DEF CallsOK
  <1>2. CASE call' = [call EXCEPT ![c] = NoCall]
    <2>1. NoCall.op = "get"
      BY DEF NoCall
    <2> QED
      BY <1>2, <2>1, NoCallType, CallsUpdate DEF Prepared
  <1>3. CASE call' = [call EXCEPT ![c].pc = First(call[c].op, call[c].at)]
    <2> DEFINE r == [call[c] EXCEPT !.pc = First(call[c].op, call[c].at)]
    <2>1. /\ First(call[c].op, call[c].at) \in Commands
          /\ call[c].op = "clear" => First(call[c].op, call[c].at) = "smembers"
      BY <1>1, FirstType DEF CallRecord
    <2>2. r \in CallRecord /\ r.op = call[c].op /\ r.pc = First(call[c].op, call[c].at)
      BY <1>1, <2>1 DEF CallRecord
    <2>3. call' = [call EXCEPT ![c] = r]
      BY <1>1, <1>3 DEF CallsOK
    <2> HIDE DEF r
    <2> QED
      BY <2>1, <2>2, <2>3, CallsUpdate DEF Prepared
  <1> QED
    BY <1>2, <1>3 DEF Proceed

\* A reply leaves the call with its next command, or over.
LEMMA AnsweredCalls ==
  ASSUME CallsOK, index \in [Tags -> SUBSET Keys], NEW c \in Calls, Answered(c)
  PROVE  CallsOK'
  <1> DEFINE r == call[c]
  <1>1. r \in CallRecord
    BY DEF CallsOK
  <1>2. ASSUME NEW t \in r.tags, r.pc = "smembers", index[t] # {},
               Continued(c, [r EXCEPT !.pc = Transaction(r.at), !.tag = t, !.seen = index[t]])
        PROVE  CallsOK'
    <2> DEFINE r2 == [r EXCEPT !.pc = Transaction(r.at), !.tag = t, !.seen = index[t]]
    <2>1. Transaction(r.at) \in Commands \ {"del"}
      BY DEF Transaction, Commands, Unbudgeted
    <2>2. t \in Tags /\ index[t] \in SUBSET Keys
      BY <1>1 DEF CallRecord
    <2>3. r2 \in CallRecord /\ r2.seen # {} /\ r2.pc # "del"
      BY <1>1, <1>2, <2>1, <2>2 DEF CallRecord
    <2>4. call' = [call EXCEPT ![c] = r2]
      BY <1>2 DEF Continued
    <2> HIDE DEF r2
    <2> QED
      BY <2>3, <2>4, CallsUpdate DEF Prepared
  <1>3. CASE r.pc = "multi" /\ Begun(c)
    <2> DEFINE r2 == [r EXCEPT !.pc = "exec"]
    <2>1. r2 \in CallRecord /\ r2.op = r.op /\ r2.seen = r.seen /\ r2.pc = "exec"
      BY <1>1 DEF CallRecord, Commands, Unbudgeted
    <2>2. r.op = "clear" => r.seen # {}
      BY <1>3 DEF CallsOK, SeenSome, Prepared
    <2>3. call' = [call EXCEPT ![c] = r2]
      BY <1>3 DEF Begun, CallsOK
    <2> HIDE DEF r2
    <2> QED
      BY <2>1, <2>2, <2>3, CallsUpdate DEF Prepared
  <1>4. ASSUME NEW rest, rest \subseteq r.tags, NextTag(c, rest)
        PROVE  CallsOK'
    BY <1>1, <1>4, NextTagCalls DEF CallRecord
  <1>5. CASE Finished(c)
    BY <1>5, FinishedCalls
  <1>6. CASE /\ r.pc = "smembers"
             /\ \E t \in r.tags :
                  IF index[t] = {}
                  THEN NextTag(c, r.tags \ {t})
                  ELSE Continued(c, [r EXCEPT !.pc = Transaction(r.at), !.tag = t,
                                              !.seen = index[t]])
    <2> PICK t \in r.tags :
               IF index[t] = {}
               THEN NextTag(c, r.tags \ {t})
               ELSE Continued(c, [r EXCEPT !.pc = Transaction(r.at), !.tag = t,
                                           !.seen = index[t]])
      BY <1>6
    <2>1. CASE index[t] = {}
      BY <2>1, <1>4
    <2>2. CASE index[t] # {}
      BY <2>2, <1>2, <1>6
    <2> QED
      BY <2>1, <2>2
  <1>7. CASE NextTag(c, r.tags \ {r.tag})
    BY <1>7, <1>4
  <1> QED
    BY <1>3, <1>5, <1>6, <1>7 DEF Answered

\* Changing the flags of a call keeps the calls typed.
LEMMA FlagCalls ==
  ASSUME CallsOK, NEW f \in [Calls -> CallRecord],
         \A c \in Calls : f[c].op = call[c].op /\ f[c].pc = call[c].pc /\ f[c].seen = call[c].seen,
         call' = f
  PROVE  CallsOK'
  BY DEF CallsOK, SeenSome, Prepared

\* Redis and the pods' clients are as before.
LEMMA LandsCalls ==
  ASSUME CallsOK, NEW c \in Calls, Lands(c)
  PROVE  CallsOK'
  <1> DEFINE r  == call[c]
             r2 == [r EXCEPT !.landed = TRUE]
  <1>1. r \in CallRecord /\ Prepared(r)
    BY DEF CallsOK, SeenSome
  <1>2. r2 \in CallRecord /\ r2.op = r.op /\ r2.pc = r.pc /\ r2.seen = r.seen
    BY <1>1 DEF CallRecord
  <1>3. call' = [call EXCEPT ![c] = r2]
    BY DEF Lands
  <1> HIDE DEF r, r2
  <1> QED
    BY <1>1, <1>2, <1>3, CallsUpdate DEF Prepared

\* Cutting commands in flight keeps the calls typed.
LEMMA CutCalls ==
  ASSUME CallsOK, NEW S,
         call' = [c \in Calls |->
                    IF c \in S THEN [call[c] EXCEPT !.cut = TRUE] ELSE call[c]]
  PROVE  CallsOK'
  <1> DEFINE f == [c \in Calls |->
                     IF c \in S THEN [call[c] EXCEPT !.cut = TRUE] ELSE call[c]]
  <1>1. call' = f
    OBVIOUS
  <1>2. ASSUME NEW r \in CallRecord
        PROVE  LET r2 == [r EXCEPT !.cut = TRUE]
               IN  r2 \in CallRecord /\ r2.op = r.op /\ r2.pc = r.pc /\ r2.seen = r.seen
    BY <1>2 DEF CallRecord
  <1>3. ASSUME NEW c \in Calls
        PROVE  /\ f[c] \in CallRecord
               /\ f[c].op = call[c].op /\ f[c].pc = call[c].pc /\ f[c].seen = call[c].seen
    <2>1. call[c] \in CallRecord
      BY DEF CallsOK
    <2> QED
      BY <1>2, <2>1
  <1>4. f \in [Calls -> CallRecord]
    BY <1>3
  <1> HIDE DEF f
  <1> QED
    BY <1>1, <1>3, <1>4, FlagCalls

\* An outage or the end of a silent connection cuts the commands in flight.
LEMMA ServerDownCalls ==
  ASSUME CallsOK, ServerDown
  PROVE  CallsOK'
  <1> DEFINE S == {c \in Calls : Sent(c) /\ ~Silent(c)}
  <1>1. call' = [c \in Calls |->
                   IF c \in S THEN [call[c] EXCEPT !.cut = TRUE] ELSE call[c]]
    BY DEF ServerDown
  <1> HIDE DEF S
  <1> QED
    BY <1>1, CutCalls

LEMMA ClosesCalls ==
  ASSUME CallsOK, NEW p \in Pods, NEW n \in Clients, Closes(p, n)
  PROVE  CallsOK'
  <1> DEFINE S == {c \in Calls : Sent(c) /\ call[c].at = p /\ call[c].client = n}
  <1>1. call' = [c \in Calls |->
                   IF c \in S THEN [call[c] EXCEPT !.cut = TRUE] ELSE call[c]]
    BY DEF Closes
  <1> HIDE DEF S
  <1> QED
    BY <1>1, CutCalls

\* A transaction that breaks goes on to its DISCARD.
LEMMA DiscardsCalls ==
  ASSUME CallsOK, NEW c \in Calls, Discards(c)
  PROVE  CallsOK'
  <1> DEFINE r  == call[c]
             r2 == [r EXCEPT !.pc = "discard", !.cut = FALSE]
  <1>1. r \in CallRecord /\ Prepared(r) /\ r.pc = "exec"
    BY DEF CallsOK, SeenSome, Discards, Breaks
  <1>2. r2 \in CallRecord /\ r2.op = r.op /\ r2.pc = "discard" /\ r2.seen = r.seen
    BY <1>1 DEF CallRecord, Commands, Unbudgeted
  <1>3. call' = [call EXCEPT ![c] = r2]
    BY DEF Discards, CallsOK
  <1> HIDE DEF r, r2
  <1> QED
    BY <1>1, <1>2, <1>3, CallsUpdate DEF Prepared

\* The calls of a dead pod are over.
LEMMA CrashCalls ==
  ASSUME CallsOK, NEW p \in Pods, Crash(p)
  PROVE  CallsOK'
  <1>1. NoCall.op = "get"
    BY DEF NoCall
  <1> QED
    BY <1>1, NoCallType DEF Crash, CallsOK, SeenSome, Prepared

-----------------------------------------------------------------------------
(* Each action keeps the pods' clients typed, and is a step of TagStore.     *)

\* Tripping the breaker leaves typed pods.
LEMMA UnhealthyPods ==
  ASSUME PodsOK, NEW p \in Pods, pod' = Unhealthy(p)
  PROVE  PodsOK'
  BY DEF PodsOK, Unhealthy

\* What Redis applies for a call is one step of TagStore.
LEMMA AppliedStep ==
  ASSUME CallsOK, NEW c \in Calls, call[c].pc \in {"exec", "del"}, Applied(call[c])
  PROVE  TS!Next
  <1> DEFINE r == call[c]
  <1>1. r \in CallRecord
    BY DEF CallsOK
  <1>2. CASE r.op = "set" /\ Wrote(r.key, [tags |-> r.tags])
    <2>1. r.key \in Keys /\ [tags |-> r.tags] \in TS!Entry
      BY <1>1 DEF CallRecord, TS!Entry
    <2>2. TS!Write(r.key, [tags |-> r.tags])
      BY <1>2 DEF Wrote, TS!Write
    <2> QED
      BY <2>1, <2>2 DEF TS!Next
  <1>3. CASE r.op = "clear" /\ Invalidated(r.tag, r.seen)
    <2>1. r.tag \in Tags /\ r.seen \in (SUBSET Keys) \ {{}}
      BY <1>1, <1>3 DEF CallRecord, CallsOK, SeenSome, Prepared
    <2>2. TS!Invalidate(r.tag, r.seen)
      BY <1>3 DEF Invalidated, TS!Invalidate
    <2> QED
      BY <2>1, <2>2 DEF TS!Next
  <1>4. CASE r.op = "delete" /\ Removed(r.key)
    BY <1>1, <1>4 DEF CallRecord, Removed, TS!Remove, TS!Next
  <1> QED
    BY <1>2, <1>3, <1>4 DEF Applied

-----------------------------------------------------------------------------
(* The invariant of TagStore.                                               *)

\* TagStore starts typed and with nothing to reach.
LEMMA StoreInit == TS!Init => TS!TypeOK /\ TS!Reachable
  BY DEF TS!Init, TS!TypeOK, TS!Reachable, TS!Entry

\* A write puts the entry in the index of its tags.
LEMMA WriteKeeps ==
  ASSUME TS!TypeOK, TS!Reachable, NEW k \in Keys, NEW e \in TS!Entry, TS!Write(k, e)
  PROVE  TS!TypeOK' /\ TS!Reachable'
  <1>1. TS!TypeOK'
    BY DEF TS!TypeOK, TS!Write, TS!Entry
  <1>2. TS!Reachable'
    BY EntryAssumption DEF TS!TypeOK, TS!Reachable, TS!Write, TS!Entry
  <1> QED
    BY <1>1, <1>2

\* An invalidation deletes the entries it saw, and records the others.
LEMMA InvalidateKeeps ==
  ASSUME TS!TypeOK, TS!Reachable, NEW t \in Tags, NEW seen \in SUBSET Keys,
         TS!Invalidate(t, seen)
  PROVE  TS!TypeOK' /\ TS!Reachable'
  <1>1. TS!TypeOK'
    BY DEF TS!TypeOK, TS!Invalidate
  <1>2. TS!Reachable'
    BY DEF TS!TypeOK, TS!Reachable, TS!Invalidate, TS!Entry
  <1> QED
    BY <1>1, <1>2

\* A deletion leaves nothing to reach under its key.
LEMMA RemoveKeeps ==
  ASSUME TS!TypeOK, TS!Reachable, NEW k \in Keys, TS!Remove(k)
  PROVE  TS!TypeOK' /\ TS!Reachable'
  BY DEF TS!TypeOK, TS!Reachable, TS!Remove

\* Every step of TagStore keeps the entries reachable.
LEMMA StoreStep ==
  ASSUME TS!TypeOK, TS!Reachable, [TS!Next]_redis
  PROVE  TS!TypeOK' /\ TS!Reachable'
  <1>1. CASE UNCHANGED redis
    BY <1>1 DEF redis, TS!TypeOK, TS!Reachable
  <1>2. CASE TS!Next
    BY <1>2, WriteKeeps, InvalidateKeeps, RemoveKeeps DEF TS!Next
  <1> QED
    BY <1>1, <1>2

-----------------------------------------------------------------------------
(* The steps of the handlers.                                               *)

IInv == PodsOK /\ CallsOK /\ TS!TypeOK /\ TS!Reachable

\* Fresh pods on an empty Redis.
LEMMA InitInv == Init => IInv /\ TS!Init
  <1> SUFFICES ASSUME Init PROVE IInv /\ TS!Init
    OBVIOUS
  <1>1. TS!Init
    BY DEF Init, TS!Init
  <1>2. PodsOK
    BY BoundAssumption DEF Init, PodsOK, FreshPod
  <1> QED
    BY <1>1, <1>2, InitCalls, StoreInit DEF IInv

\* Every step of the handlers and of their environment keeps pods and calls
\* typed, and does one step of TagStore to Redis, or nothing.
LEMMA StepInv ==
  ASSUME IInv, [Next]_vars
  PROVE  PodsOK' /\ CallsOK' /\ [TS!Next]_redis
  <1> USE DEF IInv, redis
  <1>1. CASE UNCHANGED vars
    BY <1>1 DEF vars, PodsOK, CallsOK, SeenSome, Prepared
  <1>2. ASSUME NEW c \in Calls, NEW p \in Pods, NEW r \in Requests, Start(c, p, r)
        PROVE  PodsOK' /\ CallsOK' /\ [TS!Next]_redis
    <2>1. CallsOK'
      BY <1>2, StartCalls
    <2>2. \/ UNCHANGED pod
          \/ pod[p].client < MaxClients
             /\ pod' = [pod EXCEPT ![p].client = @ + 1, ![p].st = "wait"]
      BY <1>2 DEF Start
    <2>3. PodsOK'
      BY <2>2, BoundAssumption DEF PodsOK
    <2> QED
      BY <1>2, <2>1, <2>3 DEF Start
  <1>3. ASSUME NEW c \in Calls, Step(c)
        PROVE  PodsOK' /\ CallsOK' /\ [TS!Next]_redis
    <2>1. CASE Proceed(c)
      <3>1. call[c].at \in Pods
        BY DEF CallsOK, CallRecord
      <3>2. PodsOK'
        BY <2>1, <3>1, UnhealthyPods DEF Proceed, PodsOK
      <3> QED
        BY <2>1, <3>2, ProceedCalls DEF Proceed
    <2>2. CASE Lands(c)
      BY <2>2, LandsCalls, AppliedStep DEF Lands, PodsOK
    <2>3. CASE Answered(c)
      BY <2>3, AnsweredCalls DEF Answered, PodsOK, TS!TypeOK
    <2>4. CASE Faulted(c)
      <3>1. call[c].at \in Pods
        BY DEF CallsOK, CallRecord
      <3> QED
        BY <2>4, <3>1, FinishedCalls, UnhealthyPods DEF Faulted, PodsOK
    <2>5. CASE Discards(c)
      BY <2>5, DiscardsCalls DEF Discards, PodsOK
    <2> QED
      BY <1>3, <2>1, <2>2, <2>3, <2>4, <2>5 DEF Step, Discarded, Fails, TimesOut
  <1>4. ASSUME NEW p \in Pods,
               Connect(p) \/ CooldownEnds(p) \/ Drops(p) \/ Silence(p) \/ Crash(p)
        PROVE  PodsOK' /\ CallsOK' /\ [TS!Next]_redis
    <2>1. CASE Connect(p)
      BY <2>1, UnhealthyPods DEF Connect, PodsOK, CallsOK, SeenSome, Prepared
    <2>2. CASE CooldownEnds(p) \/ Drops(p) \/ Silence(p)
      BY <2>2 DEF CooldownEnds, Drops, Silence, PodsOK, CallsOK, SeenSome, Prepared
    <2>3. CASE Crash(p)
      <3>1. FreshPod \in [open : BOOLEAN, client : 0..MaxClients,
                          st : {"none", "wait", "ready"}]
        BY BoundAssumption DEF FreshPod
      <3>2. PodsOK'
        BY <2>3, <3>1 DEF Crash, PodsOK
      <3> QED
        BY <2>3, <3>2, CrashCalls DEF Crash
    <2> QED
      BY <1>4, <2>1, <2>2, <2>3
  <1>5. CASE ServerDown
    BY <1>5, ServerDownCalls DEF ServerDown, PodsOK
  <1>6. CASE ServerUp
    BY <1>6 DEF ServerUp, PodsOK, CallsOK, SeenSome, Prepared
  <1>7. ASSUME NEW k \in Keys, Expire(k)
        PROVE  PodsOK' /\ CallsOK' /\ [TS!Next]_redis
    BY <1>7 DEF Expire, Removed, TS!Remove, TS!Next, PodsOK, CallsOK, SeenSome, Prepared
  <1>8. ASSUME NEW p \in Pods, NEW n \in Clients, Closes(p, n)
        PROVE  PodsOK' /\ CallsOK' /\ [TS!Next]_redis
    <2>1. PodsOK'
      BY <1>8 DEF Closes, PodsOK
    <2>2. CallsOK'
      BY <1>8, ClosesCalls
    <2>3. UNCHANGED redis
      BY <1>8 DEF Closes
    <2> QED
      BY <2>1, <2>2, <2>3
  <1> QED
    BY <1>1, <1>2, <1>3, <1>4, <1>5, <1>6, <1>7, <1>8 DEF Next

\* The invariant is inductive.
LEMMA NextInv == IInv /\ [Next]_vars => IInv'
  BY StepInv, StoreStep DEF IInv

-----------------------------------------------------------------------------
(* The gates: sequences of calls.                                           *)

\* A call that enters a gate stands behind those that wait there.
LEMMA AppendGate ==
  ASSUME NEW q \in Seq(Calls), NEW c \in Calls, IsInjective(q), c \notin ToSet(q)
  PROVE  /\ Append(q, c) \in Seq(Calls)
         /\ IsInjective(Append(q, c))
         /\ ToSet(Append(q, c)) = ToSet(q) \cup {c}
         /\ q # <<>> => Head(Append(q, c)) = Head(q)
  <1> DEFINE a == Append(q, c)
  <1>1. a \in Seq(Calls) /\ Len(a) = Len(q) + 1
    OBVIOUS
  <1>2. a[Len(q) + 1] = c /\ \A i \in 1..Len(q) : a[i] = q[i]
    OBVIOUS
  <1>3. DOMAIN a = 1..(Len(q) + 1) /\ DOMAIN q = 1..Len(q) /\ Len(q) \in Nat
    BY <1>1
  <1>4. \A i \in 1..Len(q) : q[i] # c
    BY <1>3 DEF ToSet
  <1> HIDE DEF a
  <1>5. IsInjective(a)
    BY <1>2, <1>3, <1>4 DEF IsInjective
  <1>6. ToSet(a) \subseteq ToSet(q) \cup {c}
    BY <1>2, <1>3 DEF ToSet
  <1>7. ToSet(q) \cup {c} \subseteq ToSet(a)
    <2>1. \A i \in 1..Len(q) : i \in DOMAIN a
      BY <1>3
    <2>2. Len(q) + 1 \in DOMAIN a
      BY <1>3
    <2> QED
      BY <1>2, <1>3, <2>1, <2>2 DEF ToSet
  <1>8. q # <<>> => Head(a) = Head(q)
    BY <1>1, <1>2, <1>3
  <1> QED
    BY <1>1, <1>5, <1>6, <1>7, <1>8 DEF a

\* The call at the head leaves, and only that one.
LEMMA TailGate ==
  ASSUME NEW q \in Seq(Calls), q # <<>>, IsInjective(q)
  PROVE  /\ Tail(q) \in Seq(Calls)
         /\ IsInjective(Tail(q))
         /\ ToSet(Tail(q)) = ToSet(q) \ {Head(q)}
         /\ Head(q) \in ToSet(q)
  <1> DEFINE b == Tail(q)
  <1>1. b \in Seq(Calls) /\ DOMAIN b = 1..(Len(q) - 1)
    OBVIOUS
  <1>2. \A i \in 1..(Len(q) - 1) : b[i] = q[i + 1]
    OBVIOUS
  <1>3. DOMAIN q = 1..Len(q) /\ Len(q) \in Nat \ {0} /\ Head(q) = q[1]
    <2>1. DOMAIN q = 1..Len(q) /\ Head(q) = q[1]
      OBVIOUS
    <2>2. Len(q) \in Nat /\ Len(q) # 0
      OBVIOUS
    <2> QED
      BY <2>1, <2>2
  <1> HIDE DEF b
  <1>4. IsInjective(b)
    <2> SUFFICES ASSUME NEW i \in DOMAIN b, NEW j \in DOMAIN b, b[i] = b[j] PROVE i = j
      BY DEF IsInjective
    <2>1. /\ i \in Nat /\ i + 1 \in DOMAIN q /\ b[i] = q[i + 1]
          /\ j \in Nat /\ j + 1 \in DOMAIN q /\ b[j] = q[j + 1]
      BY <1>1, <1>2, <1>3
    <2>2. i + 1 = j + 1
      BY <2>1 DEF IsInjective
    <2> QED
      BY <2>1, <2>2
  <1>5. ToSet(b) \subseteq ToSet(q) \ {q[1]}
    <2> SUFFICES ASSUME NEW i \in DOMAIN b PROVE b[i] \in ToSet(q) \ {q[1]}
      BY DEF ToSet
    <2>1. i + 1 \in DOMAIN q /\ i + 1 # 1 /\ 1 \in DOMAIN q /\ b[i] = q[i + 1]
      BY <1>1, <1>2, <1>3
    <2> QED
      BY <2>1 DEF ToSet, IsInjective
  <1>6. ToSet(q) \ {q[1]} \subseteq ToSet(b)
    <2> SUFFICES ASSUME NEW i \in DOMAIN q, q[i] # q[1] PROVE q[i] \in ToSet(b)
      BY DEF ToSet
    <2>1. i - 1 \in DOMAIN b /\ b[i - 1] = q[i]
      BY <1>1, <1>2, <1>3
    <2> QED
      BY <2>1 DEF ToSet
  <1>7. Head(q) \in ToSet(q)
    BY <1>3 DEF ToSet
  <1> QED
    BY <1>1, <1>3, <1>4, <1>5, <1>6, <1>7 DEF b

ClientsOK ==
  /\ \A p \in Pods : pod[p].st # "none" => pod[p].client \in Clients
  /\ \A c \in Calls : call[c].pc # "idle" => call[c].client \in Clients

GatesOK ==
  /\ gate \in [Pods -> [Clients -> Seq(Calls)]]
  /\ \A p \in Pods, g \in Clients :
       /\ IsInjective(gate[p][g])
       /\ ToSet(gate[p][g]) = Waiting(p, g)

Gates == CallsOK /\ ClientsOK /\ GatesOK /\ TransactionsAlone

\* A step that moves no call in or out of a gate, and begins a transaction only
\* at the head of its gate.
LEMMA UnmovedGates ==
  ASSUME Gates, gate' = gate,
         \A c \in Calls :
           /\ (call'[c].pc \in Commands) = (call[c].pc \in Commands)
           /\ call[c].pc \in Commands =>
                call'[c].at = call[c].at /\ call'[c].client = call[c].client
           /\ call'[c].pc \in Span => call[c].pc \in Span \/ Sent(c)
  PROVE  GatesOK' /\ TransactionsAlone'
  <1>1. \A p \in Pods, g \in Clients : Waiting(p, g)' = Waiting(p, g)
    BY DEF Waiting
  <1>2. GatesOK'
    BY <1>1 DEF Gates, GatesOK
  <1>3. ASSUME NEW c \in Calls, OnNative(c)', call'[c].pc \in Span
        PROVE  (Head(Queue(c)) = c)'
    <2>1. call[c].pc \in Commands
      BY <1>3 DEF Commands, Unbudgeted, Span
    <2>2. OnNative(c) /\ Queue(c)' = Queue(c)
      BY <1>3, <2>1 DEF OnNative, Queue
    <2> QED
      BY <1>3, <2>2 DEF Gates, TransactionsAlone, Sent
  <1> QED
    BY <1>2, <1>3 DEF TransactionsAlone

\* A call whose command ends leaves the gate, of which it was the head.
LEMMA LeavesGates ==
  ASSUME Gates, NEW c \in Calls, Sent(c), Finished(c)
  PROVE  GatesOK' /\ TransactionsAlone'
  <1> DEFINE p == call[c].at
             n == call[c].client
             q == gate[p][n]
  <1>1. /\ p \in Pods /\ n \in Clients /\ call \in [Calls -> CallRecord]
        /\ call' = [call EXCEPT ![c] = NoCall] /\ NoCall.pc = "idle"
    BY DEF Gates, CallsOK, ClientsOK, CallRecord, Sent, Finished, Commands, Unbudgeted, NoCall
  <1>2. CASE OnNative(c)
    <2>1. q \in Seq(Calls) /\ q # <<>> /\ IsInjective(q) /\ Head(q) = c
      BY <1>1, <1>2 DEF Gates, GatesOK, Sent, Queue
    <2>2. gate' = [gate EXCEPT ![p][n] = Tail(q)]
      BY <1>2 DEF Finished, Released
    <2>3. \A pp \in Pods, g \in Clients :
            Waiting(pp, g)' = IF pp = p /\ g = n THEN Waiting(p, n) \ {c} ELSE Waiting(pp, g)
      BY <1>1 DEF Waiting, Commands, Unbudgeted
    <2>4. GatesOK'
      BY <1>1, <2>1, <2>2, <2>3, TailGate DEF Gates, GatesOK
    <2>5. ASSUME NEW d \in Calls, OnNative(d)', call'[d].pc \in Span
          PROVE  (Head(Queue(d)) = d)'
      <3>1. d # c /\ call'[d] = call[d]
        BY <1>1, <2>5 DEF Span
      <3>2. OnNative(d) /\ call[d].pc \in Span /\ Head(Queue(d)) = d
        BY <2>5, <3>1 DEF OnNative, Gates, TransactionsAlone
      <3>3. call[d].at # p \/ call[d].client # n
        BY <2>1, <3>1, <3>2 DEF Queue
      <3>4. Queue(d)' = Queue(d)
        BY <1>1, <2>2, <3>1, <3>3 DEF Queue, Gates, GatesOK
      <3> QED
        BY <3>2, <3>4
    <2> QED
      BY <2>4, <2>5 DEF TransactionsAlone
  <1>3. CASE ~OnNative(c)
    <2>1. gate' = gate
      BY <1>3 DEF Finished, Released
    <2>2. \A pp \in Pods, g \in Clients : Waiting(pp, g)' = Waiting(pp, g)
      BY <1>1, <1>3 DEF Waiting, OnNative, Commands, Unbudgeted
    <2>3. GatesOK'
      BY <2>1, <2>2 DEF Gates, GatesOK
    <2> QED
      BY <1>1, <2>1, <2>3 DEF TransactionsAlone, Gates, OnNative, Queue, Span
  <1> QED
    BY <1>2, <1>3

\* A call with its first command enters the gate of its connection.
LEMMA EntersGates ==
  ASSUME Gates, NEW c \in Calls, call[c].pc \notin Commands, NEW r \in CallRecord,
         r.pc \in Commands, r.client \in Clients, r.at \in Native => r.pc \notin Span,
         call' = [call EXCEPT ![c] = r], gate' = Entered(gate, c, r.at, r.client)
  PROVE  GatesOK' /\ TransactionsAlone'
  <1> DEFINE p == r.at
             n == r.client
             q == gate[p][n]
  <1>1. p \in Pods /\ call \in [Calls -> CallRecord]
    BY DEF Gates, CallsOK, CallRecord
  <1>2. CASE p \in Native
    <2>1. gate' = [gate EXCEPT ![p][n] = Append(q, c)]
      BY <1>2 DEF Entered
    <2>2. q \in Seq(Calls) /\ IsInjective(q) /\ ToSet(q) = Waiting(p, n) /\ c \notin ToSet(q)
      BY <1>1 DEF Gates, GatesOK, Waiting
    <2>3. \A pp \in Pods, g \in Clients :
            Waiting(pp, g)' = IF pp = p /\ g = n THEN Waiting(p, n) \cup {c} ELSE Waiting(pp, g)
      BY <1>1, <1>2 DEF Waiting
    <2>4. GatesOK'
      <3>1. /\ Append(q, c) \in Seq(Calls) /\ IsInjective(Append(q, c))
            /\ ToSet(Append(q, c)) = Waiting(p, n) \cup {c}
        BY <2>2, AppendGate
      <3>2. gate' \in [Pods -> [Clients -> Seq(Calls)]]
        BY <1>1, <2>1, <3>1 DEF Gates, GatesOK
      <3>3. \A pp \in Pods, g \in Clients :
              gate'[pp][g] = IF pp = p /\ g = n THEN Append(q, c) ELSE gate[pp][g]
        BY <1>1, <2>1 DEF Gates, GatesOK
      <3>4. ASSUME NEW pp \in Pods, NEW g \in Clients
            PROVE  IsInjective(gate'[pp][g]) /\ ToSet(gate'[pp][g]) = Waiting(pp, g)'
        <4>1. CASE pp = p /\ g = n
          BY <2>3, <3>1, <3>3, <4>1
        <4>2. CASE ~(pp = p /\ g = n)
          BY <2>3, <3>3, <4>2 DEF Gates, GatesOK
        <4> QED
          BY <4>1, <4>2
      <3> QED
        BY <3>2, <3>4 DEF GatesOK
    <2>5. ASSUME NEW d \in Calls, OnNative(d)', call'[d].pc \in Span
          PROVE  (Head(Queue(d)) = d)'
      <3>1. d # c /\ call'[d] = call[d]
        BY <1>1, <1>2, <2>5
      <3>2. OnNative(d) /\ call[d].pc \in Span /\ Head(Queue(d)) = d
        BY <2>5, <3>1 DEF OnNative, Gates, TransactionsAlone
      <3>3. CASE call[d].at = p /\ call[d].client = n
        <4>1. d \in ToSet(q)
          BY <1>2, <2>2, <3>2, <3>3 DEF Waiting, Commands, Unbudgeted, Span
        <4>2. q # <<>>
          BY <4>1 DEF ToSet
        <4> QED
          BY <1>1, <2>1, <2>2, <3>1, <3>2, <3>3, <4>2, AppendGate DEF Queue, Gates, GatesOK
      <3>4. CASE call[d].at # p \/ call[d].client # n
        <4>1. Queue(d)' = Queue(d)
          BY <1>1, <2>1, <3>1, <3>4 DEF Queue, Gates, GatesOK
        <4> QED
          BY <3>2, <4>1
      <3> QED
        BY <3>3, <3>4
    <2> QED
      BY <2>4, <2>5 DEF TransactionsAlone
  <1>3. CASE p \notin Native
    <2>1. gate' = gate
      BY <1>3 DEF Entered
    <2>2. \A pp \in Pods, g \in Clients : Waiting(pp, g)' = Waiting(pp, g)
      BY <1>1, <1>3 DEF Waiting
    <2>3. GatesOK'
      BY <2>1, <2>2 DEF Gates, GatesOK
    <2> QED
      BY <1>1, <1>3, <2>1, <2>3 DEF TransactionsAlone, Gates, OnNative, Queue
  <1> QED
    BY <1>2, <1>3

\* A call with another command goes to the end of the gate it was the head of.
LEMMA RequeuesGates ==
  ASSUME Gates, NEW c \in Calls, Sent(c), NEW r \in CallRecord,
         r.pc \in Commands, r.at = call[c].at, r.client = call[c].client,
         r.at \in Native => r.pc \notin Span, Continued(c, r)
  PROVE  GatesOK' /\ TransactionsAlone'
  <1> DEFINE p == r.at
             n == r.client
             q == gate[p][n]
  <1>1. /\ p \in Pods /\ n \in Clients /\ call \in [Calls -> CallRecord]
        /\ call' = [call EXCEPT ![c] = r]
    BY DEF Gates, CallsOK, ClientsOK, CallRecord, Sent, Continued, Commands, Unbudgeted
  <1>2. CASE p \in Native
    <2>1. q \in Seq(Calls) /\ q # <<>> /\ IsInjective(q) /\ Head(q) = c
          /\ ToSet(q) = Waiting(p, n)
      BY <1>1, <1>2 DEF Gates, GatesOK, Sent, Queue, OnNative
    <2> DEFINE a == Append(Tail(q), c)
    <2>2. gate' = [gate EXCEPT ![p][n] = a]
      <3> DEFINE g1 == [gate EXCEPT ![p][n] = Tail(q)]
      <3>1. gate' = [g1 EXCEPT ![p][n] = Append(g1[p][n], c)]
        BY <1>2 DEF Continued, Released, Entered, OnNative
      <3>2. g1[p][n] = Tail(q)
        BY <1>1 DEF Gates, GatesOK
      <3>3. gate \in [Pods -> [Clients -> Seq(Calls)]]
        BY DEF Gates, GatesOK
      <3> QED
        BY <1>1, <3>1, <3>2, <3>3
    <2>3. a \in Seq(Calls) /\ IsInjective(a) /\ ToSet(a) = Waiting(p, n)
      <3> HIDE DEF p, n, q
      <3>1. /\ Tail(q) \in Seq(Calls) /\ IsInjective(Tail(q))
            /\ ToSet(Tail(q)) = ToSet(q) \ {c} /\ c \in ToSet(q)
        BY <2>1, TailGate
      <3>2. /\ a \in Seq(Calls) /\ IsInjective(a)
            /\ ToSet(a) = (ToSet(q) \ {c}) \cup {c}
        BY <3>1, AppendGate
      <3> QED
        BY <2>1, <3>1, <3>2
    <2>4. \A pp \in Pods, g \in Clients : Waiting(pp, g)' = Waiting(pp, g)
      BY <1>1 DEF Waiting, Sent
    <2> HIDE DEF a
    <2>5. GatesOK'
      BY <1>1, <2>2, <2>3, <2>4 DEF Gates, GatesOK
    <2>6. ASSUME NEW d \in Calls, OnNative(d)', call'[d].pc \in Span
          PROVE  (Head(Queue(d)) = d)'
      <3>1. d # c /\ call'[d] = call[d]
        BY <1>1, <1>2, <2>6
      <3>2. OnNative(d) /\ call[d].pc \in Span /\ Head(Queue(d)) = d
        BY <2>6, <3>1 DEF OnNative, Gates, TransactionsAlone
      <3>3. call[d].at # p \/ call[d].client # n
        BY <2>1, <3>1, <3>2 DEF Queue
      <3>4. Queue(d)' = Queue(d)
        BY <1>1, <2>2, <3>1, <3>3 DEF Queue, Gates, GatesOK
      <3> QED
        BY <3>2, <3>4
    <2> QED
      BY <2>5, <2>6 DEF TransactionsAlone
  <1>3. CASE p \notin Native
    <2>1. gate' = gate
      BY <1>3 DEF Continued, Released, Entered, OnNative
    <2>2. \A pp \in Pods, g \in Clients : Waiting(pp, g)' = Waiting(pp, g)
      BY <1>1, <1>3 DEF Waiting
    <2>3. GatesOK'
      BY <2>1, <2>2 DEF Gates, GatesOK
    <2> QED
      BY <1>1, <1>3, <2>1, <2>3 DEF TransactionsAlone, Gates, OnNative, Queue
  <1> QED
    BY <1>2, <1>3

\* revalidateTag turns to its next tag at the end of the gate, or leaves it.
LEMMA NextTagGates ==
  ASSUME Gates, NEW c \in Calls, Sent(c), NEW rest \in SUBSET Tags, NextTag(c, rest)
  PROVE  GatesOK' /\ TransactionsAlone'
  <1>1. CASE Finished(c)
    BY <1>1, LeavesGates
  <1>2. CASE Continued(c, [call[c] EXCEPT !.pc = "smembers", !.tags = rest,
                                          !.seen = {}, !.landed = FALSE])
    <2> DEFINE r == [call[c] EXCEPT !.pc = "smembers", !.tags = rest,
                                    !.seen = {}, !.landed = FALSE]
    <2>1. call[c] \in CallRecord
      BY DEF Gates, CallsOK
    <2>2. /\ r \in CallRecord /\ r.pc = "smembers"
          /\ r.at = call[c].at /\ r.client = call[c].client
      BY <2>1 DEF CallRecord, Commands, Unbudgeted
    <2>3. Continued(c, r)
      BY <1>2
    <2> HIDE DEF r
    <2> QED
      BY <2>2, <2>3, RequeuesGates DEF Commands, Unbudgeted, Span
  <1> QED
    BY <1>1, <1>2 DEF NextTag

RestOK ==
  /\ up \in BOOLEAN
  /\ dead \subseteq Pods \X Clients
  /\ memory \in [Pods -> [Keys -> Entry \cup {Absent}]]
  /\ calls \in 0..MaxCalls
  /\ faults \in 0..MaxFaults

FullInv == IInv /\ ClientsOK /\ GatesOK /\ TransactionsAlone /\ RestOK

\* A call answered from memory leaves typed memory.
LEMMA MemoryType ==
  ASSUME RestOK, NEW p \in Pods, NEW r, r.tags \in SUBSET Tags, InMemory(p, r)
  PROVE  memory' \in [Pods -> [Keys -> Entry \cup {Absent}]]
  BY DEF RestOK, InMemory, Entry

\* The initial state.
LEMMA InitFull == Init => FullInv
  <1> SUFFICES ASSUME Init PROVE FullInv
    OBVIOUS
  <1>1. IInv
    BY InitInv
  <1>2. NoCall.pc = "idle" /\ FreshPod.st = "none"
    BY DEF NoCall, FreshPod
  <1>3. ClientsOK /\ TransactionsAlone
    BY <1>2 DEF Init, ClientsOK, TransactionsAlone, Span
  <1>4. \A p \in Pods, g \in Clients : gate[p][g] = <<>> /\ Waiting(p, g) = {}
    BY <1>2 DEF Init, FreshGate, Waiting, Commands, Unbudgeted
  <1>5. GatesOK
    <2>1. gate \in [Pods -> [Clients -> Seq(Calls)]]
      BY DEF Init, FreshGate
    <2>2. IsInjective(<<>>) /\ ToSet(<<>>) = {}
      BY DEF IsInjective, ToSet
    <2> QED
      BY <1>4, <2>1, <2>2 DEF GatesOK
  <1>6. RestOK
    BY BoundAssumption DEF Init, RestOK, FreshMemory
  <1> QED
    BY <1>1, <1>3, <1>5, <1>6 DEF FullInv

\* Start keeps the gates and the clients of the calls.
LEMMA StartFull ==
  ASSUME FullInv, NEW c \in Calls, NEW p \in Pods, NEW r \in Requests, Start(c, p, r)
  PROVE  ClientsOK' /\ GatesOK' /\ TransactionsAlone'
  <1> USE DEF FullInv, IInv
  <1> DEFINE asked == [NoCall EXCEPT !.at = p, !.op = r.op, !.key = r.key, !.tags = r.tags]
  <1>1. Gates
    BY DEF Gates
  <1>2. asked.at = p /\ asked.pc = "idle" /\ DOMAIN asked = DOMAIN NoCall
    BY DEF NoCall
  <1>3. call[c].pc = "idle" /\ call \in [Calls -> CallRecord] /\ pod[p].client \in 0..MaxClients
    BY DEF Start, CallsOK, PodsOK
  <1>4. CASE UNCHANGED <<pod, gate, call>>
    <2>1. ClientsOK'
      BY <1>4 DEF ClientsOK
    <2>2. \A d \in Calls : call'[d] = call[d]
      BY <1>4
    <2> QED
      BY <1>1, <1>4, <2>1, <2>2, UnmovedGates
  <1>5. ASSUME NEW n \in Clients, gate' = gate,
               \A pp \in Pods : pod'[pp].st # "none" => pod'[pp].client \in Clients,
               call' = [call EXCEPT ![c] = [asked EXCEPT !.pc = "connecting", !.client = n]]
        PROVE  ClientsOK' /\ GatesOK' /\ TransactionsAlone'
    <2> DEFINE r2 == [asked EXCEPT !.pc = "connecting", !.client = n]
    <2>1. r2.pc = "connecting" /\ r2.client = n
      BY DEF NoCall
    <2>2. call' = [call EXCEPT ![c] = r2]
      BY <1>5
    <2> HIDE DEF r2
    <2>3. ClientsOK'
      BY <1>3, <1>5, <2>1, <2>2 DEF ClientsOK
    <2>4. \A d \in Calls :
            /\ (call'[d].pc \in Commands) = (call[d].pc \in Commands)
            /\ call[d].pc \in Commands =>
                 call'[d].at = call[d].at /\ call'[d].client = call[d].client
            /\ call'[d].pc \in Span => call[d].pc \in Span \/ Sent(d)
      BY <1>3, <2>1, <2>2 DEF Commands, Unbudgeted, Span
    <2> QED
      BY <1>1, <1>5, <2>3, <2>4, UnmovedGates
  <1>6. CASE /\ pod[p].st = "none" /\ pod[p].client < MaxClients /\ UNCHANGED gate
             /\ pod' = [pod EXCEPT ![p].client = @ + 1, ![p].st = "wait"]
             /\ call' = [call EXCEPT ![c] =
                           [asked EXCEPT !.pc = "connecting", !.client = pod'[p].client]]
    <2>1. pod'[p].client \in Clients
      BY <1>3, <1>6, BoundAssumption DEF PodsOK, Clients
    <2>2. \A pp \in Pods : pod'[pp].st # "none" => pod'[pp].client \in Clients
      BY <1>6, <2>1 DEF PodsOK, ClientsOK
    <2> QED
      BY <1>5, <1>6, <2>1, <2>2
  <1>7. CASE /\ pod[p].st = "wait" /\ UNCHANGED <<pod, gate>>
             /\ call' = [call EXCEPT ![c] =
                           [asked EXCEPT !.pc = "connecting", !.client = pod[p].client]]
    <2>1. pod[p].client \in Clients
      BY <1>7 DEF ClientsOK
    <2>2. \A pp \in Pods : pod'[pp].st # "none" => pod'[pp].client \in Clients
      BY <1>7 DEF ClientsOK
    <2> QED
      BY <1>5, <1>7, <2>1, <2>2
  <1>8. CASE /\ pod[p].st = "ready" /\ UNCHANGED pod
             /\ call' = [call EXCEPT ![c] =
                           [asked EXCEPT !.pc = First(r.op, p), !.client = pod[p].client]]
             /\ gate' = Entered(gate, c, p, pod[p].client)
    <2> DEFINE r2 == [asked EXCEPT !.pc = First(r.op, p), !.client = pod[p].client]
    <2>1. r.op \in {"get", "set", "delete", "clear"} /\ r.key \in Keys /\ r.tags \in SUBSET Tags
      BY SomeAssumption DEF Requests, AnyKey
    <2>2. First(r.op, p) \in Commands /\ (p \in Native => First(r.op, p) \notin Span)
      BY <2>1 DEF First, Transaction, Commands, Unbudgeted, Span
    <2>3. pod[p].client \in Clients
      BY <1>8 DEF ClientsOK
    <2>4. asked \in CallRecord
      BY <2>1, NoCallType DEF CallRecord, NoCall
    <2>5. /\ r2 \in CallRecord /\ r2.pc = First(r.op, p)
          /\ r2.at = p /\ r2.client = pod[p].client
      BY <1>2, <1>3, <2>2, <2>4 DEF CallRecord
    <2>6. call' = [call EXCEPT ![c] = r2] /\ gate' = Entered(gate, c, r2.at, r2.client)
      BY <1>8, <2>5
    <2> HIDE DEF r2
    <2>7. ClientsOK'
      BY <1>3, <1>8, <2>3, <2>5, <2>6 DEF ClientsOK
    <2> QED
      BY <1>1, <1>3, <2>2, <2>3, <2>5, <2>6, <2>7, EntersGates DEF Commands, Unbudgeted
  <1>9. \/ UNCHANGED <<pod, gate, call>>
        \/ /\ pod[p].st = "none" /\ pod[p].client < MaxClients /\ UNCHANGED gate
           /\ pod' = [pod EXCEPT ![p].client = @ + 1, ![p].st = "wait"]
           /\ call' = [call EXCEPT ![c] =
                         [asked EXCEPT !.pc = "connecting", !.client = pod'[p].client]]
        \/ /\ pod[p].st = "wait" /\ UNCHANGED <<pod, gate>>
           /\ call' = [call EXCEPT ![c] =
                         [asked EXCEPT !.pc = "connecting", !.client = pod[p].client]]
        \/ /\ pod[p].st = "ready" /\ UNCHANGED pod
           /\ call' = [call EXCEPT ![c] =
                         [asked EXCEPT !.pc = First(r.op, p), !.client = pod[p].client]]
           /\ gate' = Entered(gate, c, p, pod[p].client)
    BY Zenon DEF Start
  <1> QED
    BY <1>4, <1>6, <1>7, <1>8, <1>9

\* The steps of a call keep the gates and the clients of the calls.
LEMMA CallFull ==
  ASSUME FullInv, NEW c \in Calls, Step(c)
  PROVE  ClientsOK' /\ GatesOK' /\ TransactionsAlone'
  <1> USE DEF FullInv, IInv
  <1> DEFINE r == call[c]
  <1>1. Gates
    BY DEF Gates
  <1>2. r \in CallRecord /\ call \in [Calls -> CallRecord] /\ NoCall.pc = "idle"
    BY DEF CallsOK, NoCall
  <1>3. ASSUME Sent(c), Finished(c), pod' = pod \/ pod' = Unhealthy(r.at)
        PROVE  ClientsOK' /\ GatesOK' /\ TransactionsAlone'
    <2>1. ClientsOK'
      BY <1>2, <1>3 DEF ClientsOK, Finished, Unhealthy, PodsOK
    <2> QED
      BY <1>1, <1>3, <2>1, LeavesGates
  <1>4. CASE Proceed(c)
    <2>1. CASE /\ call' = [call EXCEPT ![c] = NoCall] /\ UNCHANGED gate
               /\ pod' = pod \/ pod' = Unhealthy(r.at)
      <3>1. \A d \in Calls :
              /\ (call'[d].pc \in Commands) = (call[d].pc \in Commands)
              /\ call[d].pc \in Commands =>
                   call'[d].at = call[d].at /\ call'[d].client = call[d].client
              /\ call'[d].pc \in Span => call[d].pc \in Span \/ Sent(d)
        BY <1>2, <1>4, <2>1 DEF Proceed, Commands, Unbudgeted, Span
      <3>2. ClientsOK'
        BY <1>2, <2>1 DEF ClientsOK, Unhealthy, PodsOK
      <3> QED
        BY <1>1, <2>1, <3>1, <3>2, UnmovedGates
    <2>2. CASE /\ call' = [call EXCEPT ![c].pc = First(r.op, r.at)]
               /\ gate' = Entered(gate, c, r.at, r.client) /\ UNCHANGED pod
      <3> DEFINE r2 == [r EXCEPT !.pc = First(r.op, r.at)]
      <3>1. First(r.op, r.at) \in Commands /\ (r.at \in Native => First(r.op, r.at) \notin Span)
        BY <1>2 DEF First, Transaction, Commands, Unbudgeted, Span, CallRecord
      <3>2. /\ r2 \in CallRecord /\ r2.pc = First(r.op, r.at)
            /\ r2.at = r.at /\ r2.client = r.client
        BY <1>2, <3>1 DEF CallRecord
      <3>3. r.pc = "connecting" /\ r.client \in Clients
        BY <1>4 DEF Proceed, ClientsOK
      <3>4. call' = [call EXCEPT ![c] = r2] /\ gate' = Entered(gate, c, r2.at, r2.client)
        BY <1>2, <2>2, <3>2
      <3> HIDE DEF r2
      <3>5. ClientsOK'
        BY <1>2, <2>2, <3>2, <3>3, <3>4 DEF ClientsOK
      <3> QED
        BY <1>1, <3>1, <3>2, <3>3, <3>4, <3>5, EntersGates DEF Commands, Unbudgeted
    <2> QED
      BY <1>4, <2>1, <2>2 DEF Proceed
  <1>5. CASE Lands(c)
    <2>1. \A d \in Calls :
            /\ (call'[d].pc \in Commands) = (call[d].pc \in Commands)
            /\ call[d].pc \in Commands =>
                 call'[d].at = call[d].at /\ call'[d].client = call[d].client
            /\ call'[d].pc \in Span => call[d].pc \in Span \/ Sent(d)
      BY <1>2, <1>5 DEF Lands, CallRecord
    <2>2. ClientsOK'
      BY <1>2, <1>5 DEF Lands, ClientsOK, CallRecord
    <2> QED
      BY <1>1, <1>5, <2>1, <2>2, UnmovedGates DEF Lands
  <1>6. CASE Answered(c)
    <2>1. Sent(c) /\ r.pc \in Commands /\ r.client \in Clients /\ UNCHANGED pod
      BY <1>6 DEF Answered, Answerable, Sent, ClientsOK, Commands, Unbudgeted
    <2>2. CASE Finished(c)
      BY <1>3, <2>1, <2>2
    <2>3. CASE Begun(c) /\ r.pc = "multi"
      <3>1. \A d \in Calls :
              /\ (call'[d].pc \in Commands) = (call[d].pc \in Commands)
              /\ call[d].pc \in Commands =>
                   call'[d].at = call[d].at /\ call'[d].client = call[d].client
              /\ call'[d].pc \in Span => call[d].pc \in Span \/ Sent(d)
        BY <1>2, <2>1, <2>3 DEF Begun, Commands, Unbudgeted, CallRecord
      <3>2. ClientsOK'
        BY <1>2, <2>1, <2>3 DEF Begun, ClientsOK, CallRecord
      <3> QED
        BY <1>1, <2>3, <3>1, <3>2, UnmovedGates DEF Begun
    <2>4. ASSUME NEW rest \in SUBSET Tags, NextTag(c, rest)
          PROVE  ClientsOK' /\ GatesOK' /\ TransactionsAlone'
      <3>1. CASE Finished(c)
        BY <2>2, <3>1
      <3>2. CASE call' = [call EXCEPT ![c] = [r EXCEPT !.pc = "smembers", !.tags = rest,
                                                      !.seen = {}, !.landed = FALSE]]
        BY <1>1, <1>2, <2>1, <2>4, <3>2, NextTagGates DEF ClientsOK, CallRecord
      <3> QED
        BY <2>4, <3>1, <3>2 DEF NextTag, Continued
    <2>5. ASSUME NEW t \in Tags,
                 Continued(c, [r EXCEPT !.pc = Transaction(r.at), !.tag = t, !.seen = index[t]])
          PROVE  ClientsOK' /\ GatesOK' /\ TransactionsAlone'
      <3> DEFINE r2 == [r EXCEPT !.pc = Transaction(r.at), !.tag = t, !.seen = index[t]]
      <3>1. Transaction(r.at) \in Commands /\ (r.at \in Native => Transaction(r.at) \notin Span)
        BY DEF Transaction, Commands, Unbudgeted, Span
      <3>2. index[t] \in SUBSET Keys
        BY DEF TS!TypeOK
      <3>3. /\ r2 \in CallRecord /\ r2.pc = Transaction(r.at)
            /\ r2.at = r.at /\ r2.client = r.client
        BY <1>2, <3>1, <3>2 DEF CallRecord
      <3>4. Continued(c, r2)
        BY <2>5
      <3> HIDE DEF r2
      <3>5. ClientsOK'
        BY <1>2, <2>1, <3>3, <3>4 DEF Continued, ClientsOK
      <3> QED
        BY <1>1, <2>1, <3>1, <3>3, <3>4, <3>5, RequeuesGates
    <2>6. r.tags \in SUBSET Tags
      BY <1>2 DEF CallRecord
    <2>7. CASE \E t \in r.tags :
                 IF index[t] = {}
                 THEN NextTag(c, r.tags \ {t})
                 ELSE Continued(c, [r EXCEPT !.pc = Transaction(r.at), !.tag = t,
                                             !.seen = index[t]])
      <3> PICK t \in r.tags :
                 IF index[t] = {}
                 THEN NextTag(c, r.tags \ {t})
                 ELSE Continued(c, [r EXCEPT !.pc = Transaction(r.at), !.tag = t,
                                             !.seen = index[t]])
        BY <2>7
      <3>1. t \in Tags /\ r.tags \ {t} \in SUBSET Tags
        BY <2>6
      <3>2. CASE index[t] = {}
        BY <2>4, <3>1, <3>2
      <3>3. CASE index[t] # {}
        BY <2>5, <3>1, <3>3
      <3> QED
        BY <3>2, <3>3
    <2>8. CASE NextTag(c, r.tags \ {r.tag})
      BY <2>4, <2>6, <2>8
    <2> QED
      BY <1>6, <2>2, <2>3, <2>7, <2>8 DEF Answered
  <1>7. CASE Fails(c) \/ TimesOut(c) \/ Discarded(c)
    BY <1>3, <1>7 DEF Fails, TimesOut, Discarded, Answerable, Refused, OutOfTime, Faulted
  <1>8. CASE Discards(c)
    <2>1. r.pc = "exec" /\ call' = [call EXCEPT ![c] = [r EXCEPT !.pc = "discard", !.cut = FALSE]]
          /\ UNCHANGED <<gate, pod>>
      BY <1>2, <1>8 DEF Discards, Breaks
    <2>2. \A d \in Calls :
            /\ (call'[d].pc \in Commands) = (call[d].pc \in Commands)
            /\ call[d].pc \in Commands =>
                 call'[d].at = call[d].at /\ call'[d].client = call[d].client
            /\ call'[d].pc \in Span => call[d].pc \in Span \/ Sent(d)
      BY <1>2, <2>1 DEF Commands, Unbudgeted, Span, CallRecord
    <2>3. ClientsOK'
      BY <1>2, <2>1 DEF ClientsOK, CallRecord
    <2> QED
      BY <1>1, <2>1, <2>2, <2>3, UnmovedGates
  <1> QED
    BY <1>4, <1>5, <1>6, <1>7, <1>8 DEF Step

\* The environment keeps the gates and the clients of the calls.
LEMMA EnvironmentFull ==
  ASSUME FullInv, NEW p \in Pods,
         \/ Connect(p) \/ CooldownEnds(p) \/ Drops(p) \/ Silence(p)
         \/ ServerUp \/ (\E k \in Keys : Expire(k))
  PROVE  ClientsOK' /\ GatesOK' /\ TransactionsAlone'
  <1> USE DEF FullInv, IInv
  <1>1. call' = call /\ gate' = gate
    BY DEF Connect, CooldownEnds, Drops, Silence, ServerUp, Expire
  <1>2. ClientsOK'
    <2>1. \A q \in Pods : pod'[q].st # "none" =>
             pod[q].st # "none" /\ pod'[q].client = pod[q].client
      <3>1. CASE Connect(p)
        <4>1. pod[p].st = "wait" /\ pod' \in {[pod EXCEPT ![p].st = "ready"], Unhealthy(p)}
          BY <3>1 DEF Connect
        <4>2. CASE pod' = [pod EXCEPT ![p].st = "ready"]
          BY <4>1, <4>2 DEF PodsOK
        <4>3. CASE pod' = Unhealthy(p)
          BY <4>3 DEF Unhealthy, PodsOK
        <4> QED
          BY <4>1, <4>2, <4>3
      <3>2. CASE CooldownEnds(p)
        BY <3>2 DEF CooldownEnds, PodsOK
      <3>3. CASE Drops(p) \/ Silence(p)
        BY <3>3 DEF Drops, Silence, Unhealthy, PodsOK
      <3>4. CASE ServerUp \/ \E k \in Keys : Expire(k)
        BY <3>4 DEF ServerUp, Expire
      <3> QED
        BY <3>1, <3>2, <3>3, <3>4
    <2> QED
      BY <1>1, <2>1 DEF ClientsOK
  <1>3. Gates
    BY DEF Gates
  <1>4. \A d \in Calls : call'[d] = call[d]
    BY <1>1
  <1> QED
    BY <1>1, <1>2, <1>3, <1>4, UnmovedGates

\* An outage keeps the gates.
LEMMA ServerDownFull ==
  ASSUME FullInv, ServerDown
  PROVE  ClientsOK' /\ GatesOK' /\ TransactionsAlone'
  <1> USE DEF FullInv, IInv
  <1>1. \A c \in Calls : /\ call'[c].pc = call[c].pc /\ call'[c].at = call[c].at
                         /\ call'[c].client = call[c].client
    BY DEF ServerDown, CallsOK, CallRecord
  <1>2. ClientsOK'
    BY <1>1 DEF ServerDown, ClientsOK
  <1>3. Gates
    BY DEF Gates
  <1> QED
    BY <1>1, <1>2, <1>3, UnmovedGates DEF ServerDown

\* A silent connection that closes keeps the gates.
LEMMA ClosesFull ==
  ASSUME FullInv, NEW p \in Pods, NEW n \in Clients, Closes(p, n)
  PROVE  ClientsOK' /\ GatesOK' /\ TransactionsAlone'
  <1> USE DEF FullInv, IInv
  <1>1. \A c \in Calls : /\ call'[c].pc = call[c].pc /\ call'[c].at = call[c].at
                         /\ call'[c].client = call[c].client
    BY DEF Closes, CallsOK, CallRecord
  <1>2. \A q \in Pods : /\ pod'[q].st # "none" => pod[q].st # "none"
                        /\ pod'[q].client = pod[q].client
    BY DEF Closes, PodsOK
  <1>3. ClientsOK'
    BY <1>1, <1>2 DEF ClientsOK
  <1>4. Gates
    BY DEF Gates
  <1> QED
    BY <1>1, <1>3, <1>4, UnmovedGates DEF Closes

\* A pod dies with its gates.
LEMMA CrashFull ==
  ASSUME FullInv, NEW p \in Pods, Crash(p)
  PROVE  ClientsOK' /\ GatesOK' /\ TransactionsAlone'
  <1> USE DEF FullInv, IInv
  <1>1. NoCall.pc = "idle" /\ FreshPod.st = "none"
    BY DEF NoCall, FreshPod
  <1>2. ClientsOK'
    BY <1>1 DEF Crash, ClientsOK, PodsOK
  <1>3. \A c \in Calls : call'[c] = IF call[c].at = p THEN NoCall ELSE call[c]
    BY DEF Crash
  <1>4. \A q \in Pods, g \in Clients : Waiting(q, g)' = IF q = p THEN {} ELSE Waiting(q, g)
    BY <1>1, <1>3 DEF Waiting, Commands, Unbudgeted
  <1>5. \A q \in Pods, g \in Clients : gate'[q][g] = IF q = p THEN <<>> ELSE gate[q][g]
    BY DEF Crash, FreshGate, GatesOK
  <1>6. IsInjective(<<>>) /\ ToSet(<<>>) = {}
    BY DEF IsInjective, ToSet
  <1>7. gate' \in [Pods -> [Clients -> Seq(Calls)]]
    BY DEF Crash, FreshGate, GatesOK
  <1>8. GatesOK'
    BY <1>4, <1>5, <1>6, <1>7 DEF GatesOK
  <1>9. TransactionsAlone'
    <2> SUFFICES ASSUME NEW c \in Calls, OnNative(c)', call'[c].pc \in Span
                 PROVE  (Head(Queue(c)) = c)'
      BY DEF TransactionsAlone
    <2>1. call[c].at # p /\ call'[c] = call[c]
      BY <1>1, <1>3 DEF Span
    <2>2. call[c].at \in Pods /\ call[c].client \in Clients
      BY <2>1 DEF CallsOK, CallRecord, ClientsOK, Span
    <2>3. Queue(c)' = Queue(c)
      BY <1>5, <2>1, <2>2 DEF Queue
    <2> QED
      BY <2>1, <2>3 DEF TransactionsAlone, OnNative
  <1> QED
    BY <1>2, <1>8, <1>9

\* Every step keeps memory, the dead connections and the counters typed.
LEMMA RestStep ==
  ASSUME FullInv, [Next]_vars
  PROVE  RestOK'
  <1> USE DEF FullInv, IInv
  <1>1. CASE UNCHANGED vars
    BY <1>1 DEF vars, RestOK
  <1>2. ASSUME NEW c \in Calls, NEW p \in Pods, NEW r \in Requests, Start(c, p, r)
        PROVE  RestOK'
    <2>1. r.tags \in SUBSET Tags
      BY DEF Requests
    <2>2. memory' \in [Pods -> [Keys -> Entry \cup {Absent}]]
      <3>1. UNCHANGED memory \/ InMemory(p, r)
        BY <1>2 DEF Start
      <3> QED
        BY <2>1, <3>1, MemoryType DEF RestOK
    <2>3. calls' \in 0..MaxCalls /\ UNCHANGED <<up, dead, faults>>
      BY <1>2, BoundAssumption DEF Start, RestOK
    <2> QED
      BY <2>2, <2>3 DEF RestOK
  <1>3. ASSUME NEW c \in Calls, Step(c)
        PROVE  RestOK'
    <2>1. call[c].at \in Pods /\ call[c].key \in Keys /\ call[c].tags \in SUBSET Tags
      BY DEF CallsOK, CallRecord
    <2>2. \/ UNCHANGED memory \/ InMemory(call[c].at, call[c])
          \/ memory' = [memory EXCEPT ![call[c].at][call[c].key] = Absent]
      BY <1>3 DEF Step, Proceed, Lands, Answered, Discards, Discarded, Fails, TimesOut, Faulted
    <2>3. memory' \in [Pods -> [Keys -> Entry \cup {Absent}]]
      BY <2>1, <2>2, MemoryType DEF RestOK
    <2>4. UNCHANGED <<up, dead, calls, faults>>
      BY <1>3 DEF Step, Proceed, Lands, Answered, Discards, Discarded, Fails, TimesOut, Faulted
    <2> QED
      BY <2>3, <2>4 DEF RestOK
  <1>4. ASSUME NEW p \in Pods,
               Connect(p) \/ CooldownEnds(p) \/ Drops(p) \/ Silence(p)
        PROVE  RestOK'
    BY <1>4, BoundAssumption DEF Connect, CooldownEnds, Drops, Silence, Faulty, RestOK, ClientsOK
  <1>5. ASSUME NEW p \in Pods, Crash(p)
        PROVE  RestOK'
    <2>1. memory' \in [Pods -> [Keys -> Entry \cup {Absent}]]
      BY <1>5 DEF Crash, FreshMemory, RestOK
    <2> QED
      BY <1>5, <2>1, BoundAssumption DEF Crash, Faulty, RestOK
  <1>6. CASE ServerDown \/ ServerUp
    <2>1. up' \in BOOLEAN /\ UNCHANGED <<dead, memory, calls>>
      BY <1>6 DEF ServerDown, ServerUp
    <2>2. UNCHANGED faults \/ (faults < MaxFaults /\ faults' = faults + 1)
      BY <1>6 DEF ServerDown, ServerUp, Faulty
    <2>3. faults' \in 0..MaxFaults
      BY <2>2, BoundAssumption DEF RestOK
    <2> QED
      BY <2>1, <2>3 DEF RestOK
  <1>7. ASSUME NEW k \in Keys, Expire(k)
        PROVE  RestOK'
    BY <1>7 DEF Expire, RestOK
  <1>8. ASSUME NEW p \in Pods, NEW n \in Clients, Closes(p, n)
        PROVE  RestOK'
    BY <1>8 DEF Closes, RestOK
  <1> QED
    BY <1>1, <1>2, <1>3, <1>4, <1>5, <1>6, <1>7, <1>8 DEF Next

\* The whole invariant is inductive.
LEMMA FullStep == FullInv /\ [Next]_vars => FullInv'
  <1> SUFFICES ASSUME FullInv, [Next]_vars PROVE FullInv'
    OBVIOUS
  <1>1. IInv' /\ RestOK'
    BY NextInv, RestStep DEF FullInv
  <1>2. CASE UNCHANGED vars
    <2>1. ClientsOK' /\ gate' = gate /\ call' = call
      BY <1>2 DEF vars, ClientsOK, FullInv
    <2>2. Gates /\ \A d \in Calls : call'[d] = call[d]
      BY <2>1 DEF FullInv, IInv, Gates
    <2> QED
      BY <1>1, <2>1, <2>2, UnmovedGates DEF FullInv
  <1>3. CASE Next
    <2>1. ClientsOK' /\ GatesOK' /\ TransactionsAlone'
      BY <1>3, SomeAssumption, StartFull, CallFull, EnvironmentFull, ServerDownFull, ClosesFull,
         CrashFull
         DEF Next
    <2> QED
      BY <1>1, <2>1 DEF FullInv
  <1> QED
    BY <1>2, <1>3

-----------------------------------------------------------------------------
(* Theorems.                                                                *)

\* Entries and their places in the tag index change together, in one step,
\* whatever fails between the commands of a call.
THEOREM CacheImplementsTagStore == Spec => ImplementsTagStore
  <1>1. Init => IInv /\ TS!Init
    BY InitInv
  <1>2. IInv /\ [Next]_vars => IInv'
    BY NextInv
  <1>3. IInv /\ [Next]_vars => [TS!Next]_(TS!tvars)
    BY StepInv DEF redis, TS!tvars
  <1> QED
    BY <1>1, <1>2, <1>3, PTL DEF Spec, ImplementsTagStore, TS!Spec

\* revalidateTag finds every entry by each of its tags, unless an invalidation
\* that overlapped the write deleted the tag's set.
THEOREM CacheReachable == Spec => []Reachable
  <1>1. Init => IInv
    BY InitInv
  <1>2. IInv /\ [Next]_vars => IInv'
    BY NextInv
  <1>3. IInv => Reachable
    BY DEF IInv, Reachable
  <1> QED
    BY <1>1, <1>2, <1>3, PTL DEF Spec

\* The gate of a native connection holds exactly the calls with a command there,
\* each once, and the rest of the state has its types.
THEOREM CacheTypeOK == Spec => []TypeOK
  <1>1. FullInv => TypeOK
    BY DEF FullInv, IInv, TypeOK, TS!TypeOK, TS!Entry, Entry, PodsOK, CallsOK, GatesOK, RestOK
  <1> QED
    BY <1>1, InitFull, FullStep, PTL DEF Spec

\* Nothing else is sent on a native connection between MULTI and EXEC.
THEOREM CacheTransactionsAlone == Spec => []TransactionsAlone
  <1>1. FullInv => TransactionsAlone
    BY DEF FullInv
  <1> QED
    BY <1>1, InitFull, FullStep, PTL DEF Spec
=============================================================================
