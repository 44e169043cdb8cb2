----------------------------- MODULE CacheHandler -----------------------------
(***************************************************************************)
(* The ISR and data cache handler of a Next.js app                         *)
(* (packages/kn-next/src/adapters/cache-handler.js): every pod of the app  *)
(* runs one, and all of them share one Redis.                              *)
(*                                                                         *)
(* A call of get, set or revalidateTag is a process of its own: it awaits  *)
(* the connection, then each of its commands.  On Node the client is       *)
(* ioredis, which bounds every command and sends a transaction in one      *)
(* write.  On Bun (Native) the client has no transactions of its own: MULTI*)
(* and EXEC are two commands, and the gate of budgetNativeClient keeps     *)
(* every other command off the connection between them.                    *)
(*                                                                         *)
(* An entry is abstracted to its tags.  Left out: the event log (its       *)
(* commands take the gate of a native client too, and each a budget there),*)
(* serialization, freshness, build scoping, images, and a client that cannot*)
(* be loaded at all, which leaves the pod on its memory for good.          *)
(***************************************************************************)
EXTENDS Naturals, Sequences, FiniteSets, SequencesExt

CONSTANTS Pods,        \* pods of the app
          Native,      \* those that run on Bun
          Keys, Tags,
          Absent,
          Calls,       \* slots for calls in progress
          MaxCalls,    \* bound: calls ever made
          MaxClients,  \* bound: clients a process creates
          MaxFaults    \* bound: faults that happen

ASSUME NativeAssumption == Native \subseteq Pods
ASSUME SomeAssumption == Pods # {} /\ Keys # {} /\ Tags # {}
Entry == [tags : SUBSET Tags]

ASSUME EntryAssumption == Absent \notin Entry
ASSUME BoundAssumption == {MaxCalls, MaxClients, MaxFaults} \subseteq Nat

VARIABLES store, index, lapsed,  \* Redis, as in TagStore
          up,      \* whether Redis accepts connections and answers
          dead,    \* connections that take writes and never answer
          pod,     \* the module state of each pod's process
          gate,    \* the calls in the gate of each native connection, in order
          memory,  \* memoryCache of each pod
          call,    \* the calls in progress
          calls, faults  \* bounded counters

redis == <<store, index, lapsed>>
vars == <<store, index, lapsed, up, dead, pod, gate, memory, call, calls, faults>>

Clients == 1..MaxClients
\* A native transaction has no budget and holds the gate to its end.
Unbudgeted == {"multi", "exec", "discard"}
Commands == {"get", "del", "smembers"} \cup Unbudgeted

\* Between MULTI and its end a native transaction is open on its connection.
Span == {"exec", "discard"}

\* What the callers of the handler may ask: ctx.tags and the tags header of a
\* set are abstracted to one set of tags, never empty (a page has the tag of its
\* path), a tag list to the set of its tags.
AnyKey == CHOOSE k \in Keys : TRUE
AnyTag == CHOOSE t \in Tags : TRUE
Requests ==
  [op : {"get"}, key : {AnyKey}, tags : {{}}]
    \cup [op : {"delete"}, key : Keys, tags : {{}}]
    \cup [op : {"set"}, key : Keys, tags : (SUBSET Tags) \ {{}}]
    \cup [op : {"clear"}, key : {AnyKey}, tags : (SUBSET Tags) \ {{}}]

NoCall == [pc |-> "idle", at |-> CHOOSE p \in Pods : TRUE,
           op |-> "get", key |-> AnyKey, tags |-> {}, \* what was asked
           client |-> 0,                  \* the client it acquired
           tag |-> AnyTag, seen |-> {},   \* the tag being invalidated, SMEMBERS
           landed |-> FALSE,              \* applied, with its reply lost
           cut |-> FALSE]                 \* its connection closed under it

CallRecord == [pc : Commands \cup {"idle", "connecting"}, at : Pods,
               op : {"get", "set", "delete", "clear"}, key : Keys,
               tags : SUBSET Tags, client : 0..MaxClients, tag : Tags,
               seen : SUBSET Keys, landed : BOOLEAN, cut : BOOLEAN]

\* The calls with a command on a native connection, or waiting for it.
Waiting(p, g) ==
  {c \in Calls : p \in Native /\ call[c].pc \in Commands
                /\ call[c].at = p /\ call[c].client = g}

TypeOK ==
  /\ store \in [Keys -> Entry \cup {Absent}]
  /\ index \in [Tags -> SUBSET Keys]
  /\ lapsed \subseteq Keys \X Tags
  /\ up \in BOOLEAN
  /\ dead \subseteq Pods \X Clients
  /\ pod \in [Pods -> [open : BOOLEAN, client : 0..MaxClients,
                       st : {"none", "wait", "ready"}]]
  /\ gate \in [Pods -> [Clients -> Seq(Calls)]]
  /\ \A p \in Pods, g \in Clients :
       /\ IsInjective(gate[p][g])
       /\ ToSet(gate[p][g]) = Waiting(p, g)
  /\ memory \in [Pods -> [Keys -> Entry \cup {Absent}]]
  /\ call \in [Calls -> CallRecord]
  /\ calls \in 0..MaxCalls
  /\ faults \in 0..MaxFaults

\* A process as it starts.
FreshPod == [open |-> FALSE, client |-> 0, st |-> "none"]
FreshGate == [g \in Clients |-> <<>>]
FreshMemory == [k \in Keys |-> Absent]

Init ==
  /\ store = [k \in Keys |-> Absent]
  /\ index = [t \in Tags |-> {}]
  /\ lapsed = {}
  /\ up = TRUE
  /\ dead = {}
  /\ pod = [p \in Pods |-> FreshPod]
  /\ gate = [p \in Pods |-> FreshGate]
  /\ memory = [p \in Pods |-> FreshMemory]
  /\ call = [c \in Calls |-> NoCall]
  /\ calls = 0
  /\ faults = 0

-----------------------------------------------------------------------------
\* Commands in flight.

OnNative(c) == call[c].at \in Native
Queue(c) == gate[call[c].at][call[c].client]

\* Its command is on the wire: at once on ioredis, at the head of the gate on a
\* native connection.
Sent(c) ==
  /\ call[c].pc \in Commands
  /\ OnNative(c) => Queue(c) # <<>> /\ Head(Queue(c)) = c

\* Its connection is established and dead.
Silent(c) == <<call[c].at, call[c].client>> \in dead

\* The client that c acquired is no longer the one of its pod.
Dropped(c) ==
  LET p == call[c].at IN pod[p].st = "none" \/ pod[p].client # call[c].client

\* disconnect() of ioredis rejects what is pending.  Bun's client has no such
\* method: the commands of a dropped native client stay where they are.
Flushed(c) ==
  LET p == call[c].at IN ~OnNative(c) /\ (pod[p].st # "ready" \/ pod[p].client # call[c].client)

\* Slip: Only ioredis has a command budget.
BudgetedIoredis(c) == ~OnNative(c)

\* The command budget: commandTimeout of ioredis, the proxy of a native client.
\* The commands of a native transaction go around the proxy.
Budgeted(c) == ~OnNative(c) \/ call[c].pc \notin Unbudgeted

Answerable(c) == Sent(c) /\ up /\ ~call[c].cut /\ ~Silent(c) /\ ~Flushed(c)
Refused(c) == Sent(c) /\ (Flushed(c) \/ (~Silent(c) /\ (call[c].cut \/ ~up)))
OutOfTime(c) == Sent(c) /\ Silent(c) /\ ~Flushed(c) /\ Budgeted(c)

\* Slip: The gate is not released when a command ends.
ReleasedNever(c) == gate

\* The gates once c has left its own, and once it enters that of client n of p.
Released(c) ==
  IF OnNative(c) THEN [gate EXCEPT ![call[c].at][call[c].client] = Tail(@)] ELSE gate
Entered(g, c, p, n) == IF p \in Native THEN [g EXCEPT ![p][n] = Append(@, c)] ELSE g

\* A transaction is one write on ioredis, MULTI and then EXEC on a native client.
Transaction(p) == IF p \in Native THEN "multi" ELSE "exec"

First(op, p) ==
  CASE op = "get" -> "get"
    [] op = "delete" -> "del"
    [] op = "clear" -> "smembers"
    [] op = "set" -> Transaction(p)

\* markUnhealthy: trip the breaker and drop the current client, whichever it is
\* by now.
Unhealthy(p) == [pod EXCEPT ![p].open = TRUE, ![p].st = "none"]

-----------------------------------------------------------------------------
\* The in-memory fallback: the whole of a call, in one step.
InMemory(p, r) ==
  memory' = [memory EXCEPT ![p] = [k \in Keys |->
    CASE r.op = "set" /\ k = r.key -> [tags |-> r.tags]
      [] r.op = "delete" /\ k = r.key -> Absent
      [] r.op = "clear" /\ @[k] # Absent /\ @[k].tags \cap r.tags # {} -> Absent
      [] OTHER -> @[k]]]

\* A call, up to its first command or its wait for the connection
\* (ensureConnected, getRedis).
Start(c, p, r) ==
  /\ call[c].pc = "idle"
  /\ calls < MaxCalls
  /\ calls' = calls + 1
  /\ LET asked == [NoCall EXCEPT !.at = p, !.op = r.op, !.key = r.key, !.tags = r.tags]
     IN
     \/ /\ pod[p].open
        /\ InMemory(p, r)
        /\ UNCHANGED <<pod, gate, call>>
     \/ /\ ~pod[p].open /\ pod[p].st = "none" /\ pod[p].client < MaxClients
        /\ pod' = [pod EXCEPT ![p].client = @ + 1, ![p].st = "wait"]
        /\ call' = [call EXCEPT ![c] =
                      [asked EXCEPT !.pc = "connecting", !.client = pod'[p].client]]
        /\ UNCHANGED <<gate, memory>>
     \/ /\ ~pod[p].open /\ pod[p].st = "wait"
        /\ call' = [call EXCEPT ![c] =
                      [asked EXCEPT !.pc = "connecting", !.client = pod[p].client]]
        /\ UNCHANGED <<pod, gate, memory>>
     \/ /\ ~pod[p].open /\ pod[p].st = "ready"
        /\ call' = [call EXCEPT ![c] =
                      [asked EXCEPT !.pc = First(r.op, p), !.client = pod[p].client]]
        /\ gate' = Entered(gate, c, p, pod[p].client)
        /\ UNCHANGED <<pod, memory>>
  /\ UNCHANGED <<redis, up, dead, faults>>

\* The connection a call waited for is ready, or its client was dropped: an ioredis
\* client rejects its waiters then, the handshake of a native one goes on.  Each waiter
\* of a native client drops the current client when its own handshake fails, however
\* late that is (waitForNativeReady).
Proceed(c) ==
  LET r == call[c]
      waits == ~Dropped(c) /\ pod[r.at].st = "wait"
  IN
  /\ r.pc = "connecting"
  /\ \/ /\ \/ ~Dropped(c) /\ ~waits
           \/ Dropped(c) /\ OnNative(c) /\ (up \/ Silent(c))
        /\ call' = [call EXCEPT ![c].pc = First(r.op, r.at)]
        /\ gate' = Entered(gate, c, r.at, r.client)
        /\ UNCHANGED <<pod, memory>>
     \/ /\ \/ Dropped(c) /\ UNCHANGED pod
           \/ OnNative(c) /\ (Dropped(c) \/ (waits /\ ~up)) /\ pod' = Unhealthy(r.at)
        /\ call' = [call EXCEPT ![c] = NoCall]
        /\ InMemory(r.at, r)
        /\ UNCHANGED gate
  /\ UNCHANGED <<redis, up, dead, calls, faults>>

\* The handshake of a pod succeeds, or that of an ioredis client fails or times out,
\* once for all its waiters (waitForReady).
Connect(p) ==
  /\ pod[p].st = "wait"
  /\ \/ up /\ pod' = [pod EXCEPT ![p].st = "ready"]
     \/ /\ ~up /\ p \notin Native
        /\ \E c \in Calls : call[c].pc = "connecting" /\ call[c].at = p
        /\ pod' = Unhealthy(p)
  /\ UNCHANGED <<redis, up, dead, gate, memory, call, calls, faults>>

-----------------------------------------------------------------------------
\* What Redis does with the commands.

\* Slip: A pipeline that dies before its SADDs.
WroteEntryOnly(k, e) ==
  /\ store' = [store EXCEPT ![k] = e]
  /\ UNCHANGED <<index, lapsed>>

Wrote(k, e) ==
  /\ store' = [store EXCEPT ![k] = e]
  /\ index' = [t \in Tags |-> IF t \in e.tags THEN index[t] \cup {k} ELSE index[t]]
  /\ lapsed' = lapsed \ ({k} \X e.tags)

\* Slip: The entries are deleted without the tag's set.
InvalidatedKeysOnly(t, seen) ==
  /\ store' = [k \in Keys |-> IF k \in seen THEN Absent ELSE store[k]]
  /\ UNCHANGED <<index, lapsed>>

Invalidated(t, seen) ==
  /\ store' = [k \in Keys |-> IF k \in seen THEN Absent ELSE store[k]]
  /\ index' = [index EXCEPT ![t] = {}]
  /\ lapsed' = lapsed \cup ((index[t] \ seen) \X {t})

Removed(k) ==
  /\ store' = [store EXCEPT ![k] = Absent]
  /\ UNCHANGED <<index, lapsed>>

\* What the command does to Redis: EXEC of the transaction of a set or of one
\* tag of revalidateTag, and the DEL of a set of null.
Applied(r) ==
  \/ r.op = "set" /\ Wrote(r.key, [tags |-> r.tags])
  \/ r.op = "clear" /\ Invalidated(r.tag, r.seen)
  \/ r.op = "delete" /\ Removed(r.key)

\* Redis applies a command; its reply is not back yet.  On a connection that dies
\* the command may have been taken before.
Lands(c) ==
  /\ Sent(c) /\ call[c].pc \in {"exec", "del"}
  /\ up /\ ~call[c].cut /\ ~call[c].landed
  /\ Applied(call[c])
  /\ call' = [call EXCEPT ![c].landed = TRUE]
  /\ UNCHANGED <<up, dead, pod, gate, memory, calls, faults>>

-----------------------------------------------------------------------------
\* What the handler does with a reply, or without one.

Finished(c) ==
  /\ call' = [call EXCEPT ![c] = NoCall]
  /\ gate' = Released(c)

\* The next command of the call, behind those that wait for the connection.
Continued(c, r) ==
  /\ call' = [call EXCEPT ![c] = r]
  /\ gate' = Entered(Released(c), c, r.at, r.client)

\* revalidateTag goes on to the tags it has left.
NextTag(c, rest) ==
  \/ rest = {} /\ Finished(c)
  \/ /\ rest # {}
     /\ Continued(c, [call[c] EXCEPT !.pc = "smembers", !.tags = rest,
                                     !.seen = {}, !.landed = FALSE])

\* Slip: Each command of a transaction takes the gate for itself.
BegunPerCommand(c) == Continued(c, [call[c] EXCEPT !.pc = "exec"])

\* MULTI is accepted: the transaction keeps the gate until EXEC.
Begun(c) ==
  /\ call' = [call EXCEPT ![c].pc = "exec"]
  /\ UNCHANGED gate

Answered(c) ==
  LET r == call[c] IN
  /\ Answerable(c)
  /\ \/ /\ r.pc = "get" \/ (r.pc = "exec" /\ r.op = "set" /\ r.landed)
        /\ Finished(c)
        /\ UNCHANGED memory
     \/ /\ r.pc = "del" /\ r.landed
        /\ Finished(c)
        /\ memory' = [memory EXCEPT ![r.at][r.key] = Absent]
     \/ /\ r.pc = "smembers"
        /\ \E t \in r.tags :
             IF index[t] = {}
             THEN NextTag(c, r.tags \ {t})
             ELSE Continued(c, [r EXCEPT !.pc = Transaction(r.at), !.tag = t,
                                         !.seen = index[t]])
        /\ UNCHANGED memory
     \/ /\ r.pc = "multi"
        /\ Begun(c)
        /\ UNCHANGED memory
     \/ /\ r.pc = "exec" /\ r.op = "clear" /\ r.landed
        /\ NextTag(c, r.tags \ {r.tag})
        /\ UNCHANGED memory
  /\ UNCHANGED <<redis, up, dead, pod, calls, faults>>

\* redisCall: one fault trips the breaker, and the error ends the call.  The DEL
\* of a set of null is not under redisCall.
Faulted(c) ==
  /\ Finished(c)
  /\ pod' = IF call[c].pc = "del" THEN pod ELSE Unhealthy(call[c].at)
  /\ UNCHANGED <<redis, up, dead, memory, calls, faults>>

\* A native transaction that fails after MULTI is discarded before the error goes on:
\* one more command on the gate it holds, whose own failure is ignored.
Breaks(c) == OnNative(c) /\ call[c].pc = "exec" /\ Refused(c)

Discards(c) ==
  /\ Breaks(c)
  /\ call' = [call EXCEPT ![c].pc = "discard", ![c].cut = FALSE]
  /\ UNCHANGED <<redis, up, dead, pod, gate, memory, calls, faults>>

Discarded(c) == call[c].pc = "discard" /\ Answerable(c) /\ Faulted(c)
Fails(c) == Refused(c) /\ ~Breaks(c) /\ Faulted(c)
TimesOut(c) == OutOfTime(c) /\ Faulted(c)

\* Slip: The cooldown of an ioredis client ends before the budget of its commands.
CooldownShort(p) ==
  /\ pod[p].open
  /\ pod' = [pod EXCEPT ![p].open = FALSE]
  /\ UNCHANGED <<redis, up, dead, gate, memory, call, calls, faults>>

\* The cooldown of a breaker ends.  On ioredis it outlasts disconnect() and the
\* budget of a command, which runs from its write: the calls that held the client
\* have ended.  On a native client nothing says so: the budgets of a gate run in
\* series, a transaction has none, and neither the DEL of a set of null nor a
\* command of the event log starts the cooldown anew.
CooldownEnds(p) ==
  /\ pod[p].open
  /\ p \notin Native => \A c \in Calls : call[c].at = p => call[c].pc = "idle"
  /\ pod' = [pod EXCEPT ![p].open = FALSE]
  /\ UNCHANGED <<redis, up, dead, gate, memory, call, calls, faults>>

-----------------------------------------------------------------------------
\* The environment.

Faulty == faults < MaxFaults /\ faults' = faults + 1

\* Redis stops: its connections close, under the commands sent on them.
ServerDown ==
  /\ up /\ Faulty
  /\ up' = FALSE
  /\ call' = [c \in Calls |->
                IF Sent(c) /\ ~Silent(c) THEN [call[c] EXCEPT !.cut = TRUE] ELSE call[c]]
  /\ UNCHANGED <<redis, dead, pod, gate, memory, calls>>

ServerUp ==
  /\ ~up
  /\ up' = TRUE
  /\ UNCHANGED <<redis, dead, pod, gate, memory, call, calls, faults>>

\* A client learns that its connection closed; it reconnects when it is next used.
Drops(p) ==
  /\ ~up /\ pod[p].st = "ready" /\ <<p, pod[p].client>> \notin dead
  /\ pod' = [pod EXCEPT ![p].st = "wait"]
  /\ UNCHANGED <<redis, up, dead, gate, memory, call, calls, faults>>

\* An established connection goes on taking writes and answers none.
Silence(p) ==
  /\ pod[p].st = "ready" /\ Faulty
  /\ dead' = dead \cup {<<p, pod[p].client>>}
  /\ UNCHANGED <<redis, up, pod, gate, memory, call, calls>>

\* The runtime at last closes a connection that had gone silent, under the commands
\* sent on it; the client reconnects if it is still in use.
Closes(p, n) ==
  /\ <<p, n>> \in dead
  /\ dead' = dead \ {<<p, n>>}
  /\ call' = [c \in Calls |->
                IF Sent(c) /\ call[c].at = p /\ call[c].client = n
                THEN [call[c] EXCEPT !.cut = TRUE] ELSE call[c]]
  /\ pod' = [pod EXCEPT ![p].st =
                IF pod[p].client = n /\ @ = "ready" THEN "wait" ELSE @]
  /\ UNCHANGED <<redis, up, gate, memory, calls, faults>>

\* A pod dies, with its calls in progress, and another one takes its place.
Crash(p) ==
  /\ Faulty
  /\ pod' = [pod EXCEPT ![p] = FreshPod]
  /\ gate' = [gate EXCEPT ![p] = FreshGate]
  /\ memory' = [memory EXCEPT ![p] = FreshMemory]
  /\ dead' = {d \in dead : d[1] # p}
  /\ call' = [c \in Calls |-> IF call[c].at = p THEN NoCall ELSE call[c]]
  /\ UNCHANGED <<redis, up, calls>>

\* The end of an entry's time to live.
Expire(k) ==
  /\ store[k] # Absent
  /\ Removed(k)
  /\ UNCHANGED <<up, dead, pod, gate, memory, call, calls, faults>>

Step(c) ==
  \/ Proceed(c) \/ Lands(c) \/ Answered(c)
  \/ Discards(c) \/ Discarded(c) \/ Fails(c) \/ TimesOut(c)

Next ==
  \/ \E c \in Calls, p \in Pods, r \in Requests : Start(c, p, r)
  \/ \E c \in Calls : Step(c)
  \/ \E p \in Pods : Connect(p) \/ CooldownEnds(p) \/ Drops(p) \/ Silence(p) \/ Crash(p)
  \/ \E p \in Pods, n \in Clients : Closes(p, n)
  \/ ServerDown \/ ServerUp
  \/ \E k \in Keys : Expire(k)

Spec == Init /\ [][Next]_vars

\* Redis and the runtime answer, refuse or let time run out; nothing makes an
\* outage end, a breaker close or the runtime give a silent connection up.
Fairness ==
  /\ \A c \in Calls : /\ WF_vars(Proceed(c)) /\ WF_vars(Answered(c))
                      /\ WF_vars(Answerable(c) /\ Lands(c))
                      /\ WF_vars(Discards(c)) /\ WF_vars(Discarded(c))
                      /\ WF_vars(Fails(c)) /\ WF_vars(TimesOut(c))
  /\ \A p \in Pods : WF_vars(Connect(p))

FairSpec == Spec /\ Fairness

-----------------------------------------------------------------------------
\* Properties.

TS == INSTANCE TagStore

\* An entry and its place in the tag index appear in one step and leave in one
\* step, whatever call, connection or pod fails between the commands (execAtomic):
\* Redis goes through the steps of TagStore only.
ImplementsTagStore == TS!Spec

\* revalidateTag finds an entry by each of its tags, unless an invalidation
\* that overlapped the write deleted the tag's set (#set, #revalidateTag).
Reachable == TS!Reachable

\* The same without the exception, as the comment of execAtomic has it: no entry
\* is in the store that revalidateTag cannot reach.
EveryEntryReachable ==
  \A k \in Keys : store[k] # Absent => \A t \in store[k].tags : k \in index[t]

\* A ready client of p is dropped only for the fault of a command sent on it, or with
\* the process: markUnhealthy drops the current client, whosever the fault was.
KeepsHealthy(p) ==
  LET n == pod[p].client
      failed(c) == call[c].at = p /\ call[c].client = n /\ call'[c].pc = "idle"
  IN pod[p].st = "ready" /\ pod'[p].st = "none" /\ pod'[p].client # 0
       => \E c \in Calls : call[c].pc # "idle" /\ failed(c)

\* On Node the client a pod uses is dropped while it is healthy only for the fault
\* of a command of its own: no command or waiter of an earlier client is left to
\* fail late once the breaker closes (markUnhealthy, disconnect, commandTimeout).
HealthyClientKept == [][\A p \in Pods \ Native : KeepsHealthy(p)]_vars

\* The same of every pod: a Bun pod does not have it, since what was left on the gate
\* of its dropped client may fail after the cooldown.
EveryHealthyClientKept == [][\A p \in Pods : KeepsHealthy(p)]_vars

\* Between MULTI and the end of its transaction the native connection carries nothing
\* else: a command sent there would be queued into it (runGated, execAtomic).
TransactionsAlone ==
  \A c \in Calls :
    OnNative(c) /\ call[c].pc \in Span => Head(Queue(c)) = c

\* A native transaction holds the gate on a connection that never answers.
Wedged(p, n) ==
  /\ p \in Native
  /\ gate[p][n] # <<>>
  /\ LET c == Head(gate[p][n]) IN Silent(c) /\ call[c].pc \in Unbudgeted

\* No connection is at a standstill: while commands wait on it one of them can be
\* answered, refused or timed out, whatever entered or left its gate before (runGated:
\* a release that is lost stops every later command), unless a transaction wedged it.
QueueMoves ==
  \A c \in Calls : call[c].pc \in Commands =>
    \/ Wedged(call[c].at, call[c].client)
    \/ \E d \in Calls : /\ call[d].at = call[c].at /\ call[d].client = call[c].client
                        /\ Answerable(d) \/ Refused(d) \/ OutOfTime(d)

\* A call of the handler ends, in any outage (redisCall, commandTimeout,
\* budgetNativeClient), unless a native transaction is stuck ahead of it.
Settles ==
  \A c \in Calls : call[c].pc # "idle" ~>
    (call[c].pc = "idle" \/ \E p \in Pods, n \in Clients : Wedged(p, n))

\* The same without the exception, as the comment of budgetNativeClient has it:
\* every command on the native client is bounded.
EveryCallSettles == \A c \in Calls : call[c].pc # "idle" ~> call[c].pc = "idle"

=============================================================================
