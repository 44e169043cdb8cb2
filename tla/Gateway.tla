-------------------------------- MODULE Gateway --------------------------------
(***************************************************************************)
(* The wake-on-connect Postgres gateway, for one compute: the connections  *)
(* its replicas proxy (wake, handshake, pipe, drain), the idle timers that *)
(* scale the compute back to zero once the fleet has no connection for it, *)
(* the peer scrape and the re-check that guard the scale-down, the wake    *)
(* back of a client that arrived during it, and the compute's Deployment.  *)
(*                                                                         *)
(* A timer is one goroutine of time.AfterFunc, so several may be pending:  *)
(* the entry keeps a pointer to the last one armed only.  Time is abstract *)
(* (an armed timer may fire at any moment).  Every failure of a call, and  *)
(* every crash, costs one unit of the budget MaxFaults.                    *)
(***************************************************************************)
EXTENDS Naturals, FiniteSets

CONSTANTS Gateways,   \* the replicas of the gateway Deployment
          Conns,      \* connections open at a time, over the fleet
          MaxTimers,  \* bound on the timers of a replica pending at a time
          Served,     \* whether the lane's registry is the one /metrics.json
                      \* serves (the writer lane's is, the read-only lane's not)
          SlowCalls,  \* whether a scale call may outlast an idle window or a
                      \* wake deadline
          Failing,    \* the kinds of failure considered
          MaxFaults   \* bound on failures

Nowhere == "nowhere"  \* the replica of a connection that is not open

ASSUME ConstantsAssumption ==
  /\ IsFiniteSet(Conns)
  /\ Nowhere \notin Gateways
  /\ MaxTimers \in Nat \ {0}
  /\ Served \in BOOLEAN
  /\ SlowCalls \in BOOLEAN
  /\ Failing \subseteq {"wake", "write", "sleep", "peers", "pod", "term", "crash"}
  /\ MaxFaults \in Nat

VARIABLES
  replicas,  \* the compute Deployment's desired replicas
  pod,       \* the compute: "none", "booting" (accepts TCP), "up"
  conn,      \* conn[c]: [pc, at, backend, forced, cancelled]
  up,        \* up[g]: "open", "draining", "forced" (deadline hit), "gone"
  count,     \* count[g]: activeEntry.count
  cur,       \* cur[g]: activeEntry.timer, 0 for nil
  timer,     \* timer[g][s]: [pc, after], the timer goroutine in slot s
  flight,    \* flight[g]: the coalescer's call: "none", "on", "doomed"
  faults     \* the failures so far

compute == <<replicas, pod>>
vars    == <<replicas, pod, conn, up, count, cur, timer, flight, faults>>

Slots == 1..MaxTimers

\* The calls of a connection: reading its startup, waking, shaking hands,
\* piping, and its cleanup.  In Slotted it holds a compute slot, in Published
\* its slot is also counted by the metrics that the peers scrape.
Published == {"dial", "wake", "poll", "hands", "pipe", "ending"}
Slotted   == Published \cup {"started", "closed"}
ConnPcs   == Slotted \cup {"out", "reading", "parsed", "window"}
TimerPcs  == {"free", "armed", "peers", "rearm", "final", "sleep", "heal", "back"}

Out     == [pc |-> "out", at |-> Nowhere, backend |-> FALSE, forced |-> FALSE,
            cancelled |-> FALSE]
Free    == [pc |-> "free", after |-> {}]

TypeOK ==
  /\ replicas \in {0, 1}
  /\ pod \in {"none", "booting", "up"}
  /\ conn \in [Conns -> [pc : ConnPcs, at : Gateways \cup {Nowhere}, backend : BOOLEAN,
                         forced : BOOLEAN, cancelled : BOOLEAN]]
  /\ up \in [Gateways -> {"open", "draining", "forced", "gone"}]
  /\ count \in [Gateways -> Nat]
  /\ cur \in [Gateways -> 0..MaxTimers]
  /\ timer \in [Gateways -> [Slots -> [pc : TimerPcs, after : SUBSET Conns]]]
  /\ flight \in [Gateways -> {"none", "on", "doomed"}]
  /\ faults \in Nat
  /\ \A c \in Conns : conn[c].pc = "out" <=> conn[c].at = Nowhere

Init ==
  /\ replicas = 0 /\ pod = "none"
  /\ conn = [c \in Conns |-> Out]
  /\ up = [g \in Gateways |-> "open"]
  /\ count = [g \in Gateways |-> 0]
  /\ cur = [g \in Gateways |-> 0]
  /\ timer = [g \in Gateways |-> [s \in Slots |-> Free]]
  /\ flight = [g \in Gateways |-> "none"]
  /\ faults = 0

Fault(kind) == kind \in Failing /\ faults < MaxFaults /\ faults' = faults + 1

Pc(c)         == conn[c].pc
GoTo(c, pc)   == conn' = [conn EXCEPT ![c].pc = pc]
Leave(c)      == conn' = [conn EXCEPT ![c] = Out]
Open(g)       == up[g] = "open"
Idle(g)       == count[g] <= 0 /\ Open(g)

\* No scale call is pending that could still bring the compute up: a caller that
\* polls for it waits in vain, until the deadline of its wake.
Stuck == /\ replicas = 0
         /\ \A g \in Gateways :
              /\ flight[g] = "none"
              /\ \A s \in Slots : timer[g][s].pc \notin {"sleep", "heal", "back"}
WakeDeadline == SlowCalls \/ Stuck

-----------------------------------------------------------------------------
(* A connection, from accept to its compute slot.                           *)

\* registerConn: refused once the gateway is closed.
Accept(c, g) ==
  /\ Pc(c) = "out" /\ Open(g)
  /\ conn' = [conn EXCEPT ![c] = [Out EXCEPT !.pc = "reading", !.at = g]]
  /\ UNCHANGED <<compute, up, count, cur, timer, flight, faults>>

\* A startup that is refused, malformed, a cancel request, or too slow, and a
\* connection closed by the drain deadline.
GiveUp(c) ==
  /\ Pc(c) = "reading"
  /\ Leave(c)
  /\ UNCHANGED <<compute, up, count, cur, timer, flight, faults>>

Parse(c) ==
  /\ Pc(c) = "reading" /\ ~conn[c].forced
  /\ GoTo(c, "parsed")
  /\ UNCHANGED <<compute, up, count, cur, timer, flight, faults>>

\* The timer the entry points to is stopped, unless it has fired already.
Stopped(g) ==
  IF cur[g] # 0 /\ timer[g][cur[g]].pc = "armed"
  THEN [timer EXCEPT ![g][cur[g]] = Free]
  ELSE timer

\* Every timer past its look at the peers notes that c was published after it.
Noted(c) ==
  [g \in Gateways |-> [s \in Slots |->
     IF timer[g][s].pc \in {"final", "sleep"}
     THEN [timer[g][s] EXCEPT !.after = @ \cup {c}]
     ELSE timer[g][s]]]

\* connStarted: the slot is taken, and the pending timer stopped.
Start(c) ==
  LET g == conn[c].at IN
  /\ Pc(c) = "parsed"
  /\ GoTo(c, "started")
  /\ count' = [count EXCEPT ![g] = @ + 1]
  /\ timer' = Stopped(g)
  /\ cur' = [cur EXCEPT ![g] = 0]
  /\ UNCHANGED <<compute, up, flight, faults>>

\* ConnOpen, then bindWake: peers see the slot, the wake can be cancelled.
Publish(c) ==
  /\ Pc(c) = "started"
  /\ GoTo(c, "dial")
  /\ timer' = Noted(c)
  /\ UNCHANGED <<compute, up, count, cur, flight, faults>>

-----------------------------------------------------------------------------
(* ConnectWithWake and handshakeUntilReady.                                 *)

Connected(c) == conn' = [conn EXCEPT ![c].pc = "hands", ![c].backend = TRUE]

\* A live compute answers; otherwise the wake in flight is joined, or led.
Dial(c) ==
  LET g == conn[c].at IN
  /\ Pc(c) = "dial"
  /\ \/ pod # "none" /\ Connected(c) /\ UNCHANGED flight
     \/ /\ pod = "none" /\ GoTo(c, "wake")
        /\ flight' = [flight EXCEPT ![g] = IF @ = "none" THEN "on" ELSE @]
  /\ UNCHANGED <<compute, up, count, cur, timer, faults>>

\* Slip: one waiting caller only gets the result.
DeliverOne(g, pc) ==
  /\ flight' = [flight EXCEPT ![g] = "none"]
  /\ LET waiters == {c \in Conns : conn[c].at = g /\ Pc(c) = "wake"} IN
     IF waiters = {} THEN UNCHANGED conn ELSE \E c \in waiters : GoTo(c, pc)
\* The result of the shared wake is delivered to every caller waiting for it.
Deliver(g, pc) ==
  /\ flight' = [flight EXCEPT ![g] = "none"]
  /\ conn' = [c \in Conns |-> IF conn[c].at = g /\ Pc(c) = "wake"
                              THEN [conn[c] EXCEPT !.pc = pc] ELSE conn[c]]

\* The shared wake: a scale to one, or an error, that may hide a write; a
\* leader cancelled by the drain deadline takes the wake down with it.
WakeReturns(g) ==
  /\ flight[g] # "none"
  /\ \/ Deliver(g, "poll") /\ replicas' = 1 /\ UNCHANGED faults
     \/ /\ IF flight[g] = "doomed" THEN UNCHANGED faults ELSE Fault("wake")
        /\ replicas' \in {replicas, 1}
        /\ Deliver(g, "ending")
  /\ UNCHANGED <<pod, up, count, cur, timer>>

\* A caller whose context is cancelled stops waiting at once.
Abandon(c) ==
  /\ Pc(c) = "wake" /\ conn[c].cancelled
  /\ GoTo(c, "ending")
  /\ UNCHANGED <<compute, up, count, cur, timer, flight, faults>>

Poll(c) ==
  /\ Pc(c) = "poll"
  /\ \/ pod # "none" /\ Connected(c)
     \/ /\ pod = "none"
        /\ conn[c].cancelled \/ WakeDeadline
        /\ GoTo(c, "ending")
  /\ UNCHANGED <<compute, up, count, cur, timer, flight, faults>>

\* The backend's first answer.  A dropped or starting (57P03) backend is dialed
\* again until the deadline; the first real answer starts the pipe, unless the
\* client was closed.  A failed write of the startup is not retried.
Reply(c) ==
  LET retry == ~conn[c].backend \/ pod = "booting" IN
  /\ Pc(c) = "hands"
  /\ \/ retry /\ ~conn[c].cancelled /\ conn' = [conn EXCEPT ![c].pc = "dial", ![c].backend = FALSE]
     \/ retry /\ (conn[c].cancelled \/ SlowCalls) /\ GoTo(c, "ending")
     \/ ~retry /\ GoTo(c, IF conn[c].forced THEN "ending" ELSE "pipe")
  /\ UNCHANGED <<compute, up, count, cur, timer, flight, faults>>

WriteFails(c) ==
  /\ Pc(c) = "hands" /\ ~conn[c].backend /\ Fault("write")
  /\ GoTo(c, "ending")
  /\ UNCHANGED <<compute, up, count, cur, timer, flight>>

ClientCloses(c) ==
  /\ Pc(c) = "pipe"
  /\ GoTo(c, "ending")
  /\ UNCHANGED <<compute, up, count, cur, timer, flight, faults>>

\* The session is reset: its compute is gone, or the drain deadline closed it.
Reset(c) ==
  /\ Pc(c) = "pipe" /\ (~conn[c].backend \/ conn[c].forced)
  /\ GoTo(c, "ending")
  /\ UNCHANGED <<compute, up, count, cur, timer, flight, faults>>

-----------------------------------------------------------------------------
(* cleanup: ConnClose, then connEnded, which arms the idle timer.           *)

Unpublish(c) ==
  /\ Pc(c) = "ending"
  /\ GoTo(c, "closed")
  /\ UNCHANGED <<compute, up, count, cur, timer, flight, faults>>

\* Slip: only a session that was piping gives its slot back.
EndIfPiped(c) ==
  LET g == conn[c].at IN
  /\ count' = [count EXCEPT ![g] = IF conn[c].backend THEN @ - 1 ELSE @]
  /\ IF count'[g] <= 0 /\ Open(g) THEN GoTo(c, "window") ELSE Leave(c)
\* Slip: each of the two pipe directions gives the slot back.
EndTwice(c) ==
  LET g == conn[c].at IN
  /\ count' = [count EXCEPT ![g] = IF conn[c].backend THEN @ - 2 ELSE @ - 1]
  /\ IF count'[g] <= 0 /\ Open(g) THEN GoTo(c, "window") ELSE Leave(c)
Ended(c) ==
  LET g == conn[c].at IN
  /\ count' = [count EXCEPT ![g] = @ - 1]
  /\ IF count'[g] <= 0 /\ Open(g) THEN GoTo(c, "window") ELSE Leave(c)

End(c) ==
  /\ Pc(c) = "closed"
  /\ Ended(c)
  /\ UNCHANGED <<compute, up, cur, timer, flight, faults>>

\* The idle window is resolved; if the gateway is still idle a timer is armed,
\* whether or not one is pending.
Arm(c) ==
  LET g == conn[c].at IN
  /\ Pc(c) = "window"
  /\ Leave(c)
  /\ IF Idle(g)
     THEN \E s \in Slots : /\ timer[g][s] = Free
                           /\ timer' = [timer EXCEPT ![g][s].pc = "armed"]
                           /\ cur' = [cur EXCEPT ![g] = s]
     ELSE UNCHANGED <<timer, cur>>
  /\ UNCHANGED <<compute, up, count, flight, faults>>

-----------------------------------------------------------------------------
(* scheduleSleep's timer function.                                          *)

TimerTo(g, s, pc) == timer' = [timer EXCEPT ![g][s].pc = pc] /\ UNCHANGED cur
TimerEnds(g, s)   == /\ timer' = [timer EXCEPT ![g][s] = Free]
                     /\ cur' = [cur EXCEPT ![g] = IF @ = s THEN 0 ELSE @]

\* Without SlowCalls the wake back of an earlier timer has returned by now.
Fire(g, s) ==
  /\ timer[g][s].pc = "armed"
  /\ SlowCalls \/ \A r \in Slots : timer[g][r].pc \notin {"heal", "back"}
  /\ IF Idle(g) THEN TimerTo(g, s, "peers") ELSE TimerEnds(g, s)
  /\ UNCHANGED <<compute, conn, up, count, flight, faults>>

Peers(g) == {h \in Gateways \ {g} : up[h] # "gone"}

\* What the peers' /metrics.json report for the compute.
PeersBusy(g) ==
  Served /\ \E c \in Conns : Pc(c) \in Published /\ conn[c].at \in Peers(g)

\* Slip: a failed scrape is decoded as zero connections.
ScrapeFailsOpen(g, s) == Fault("peers") /\ Peers(g) # {} /\ TimerTo(g, s, "final")
ScrapeFails(g, s)     == Fault("peers") /\ Peers(g) # {} /\ TimerTo(g, s, "rearm")

Scrape(g, s) ==
  /\ timer[g][s].pc = "peers"
  /\ \/ ScrapeFails(g, s)
     \/ UNCHANGED faults /\ PeersBusy(g)  /\ TimerTo(g, s, "rearm")
     \/ UNCHANGED faults /\ ~PeersBusy(g) /\ TimerTo(g, s, "final")
  /\ UNCHANGED <<compute, conn, up, count, flight>>

\* Slip: a postponed sleep is dropped.
RearmNever(g, s) == TimerEnds(g, s)
Rearmed(g, s) ==
  IF count[g] = 0 /\ Open(g)
  THEN /\ timer' = [timer EXCEPT ![g][s] = [pc |-> "armed", after |-> {}]]
       /\ cur' = [cur EXCEPT ![g] = s]
  ELSE TimerEnds(g, s)

Rearm(g, s) ==
  /\ timer[g][s].pc = "rearm"
  /\ Rearmed(g, s)
  /\ UNCHANGED <<compute, conn, up, count, flight, faults>>

\* The last look at this replica's own count.
Final(g, s) ==
  /\ timer[g][s].pc = "final"
  /\ IF Idle(g)
     THEN /\ timer' = [timer EXCEPT ![g][s].pc = "sleep",
                         ![g][s].after = {c \in @ : conn[c].at # g}]
          /\ UNCHANGED cur
     ELSE TimerEnds(g, s)
  /\ UNCHANGED <<compute, conn, up, count, flight, faults>>

\* A failed scale-down is not retried, and may hide a write.
Sleep(g, s) ==
  /\ timer[g][s].pc = "sleep"
  /\ \/ UNCHANGED faults /\ replicas' = 0 /\ TimerTo(g, s, "heal")
     \/ Fault("sleep") /\ replicas' \in {replicas, 0} /\ TimerEnds(g, s)
  /\ UNCHANGED <<pod, conn, up, count, flight>>

\* Slip: no wake back.
ArrivedNever(g) == FALSE
Arrived(g)      == count[g] > 0 /\ Open(g)

\* A client that arrived during the scale-down has the compute woken back.
Heal(g, s) ==
  /\ timer[g][s].pc = "heal"
  /\ IF Arrived(g) THEN TimerTo(g, s, "back") ELSE TimerEnds(g, s)
  /\ UNCHANGED <<compute, conn, up, count, flight, faults>>

WakeBack(g, s) ==
  /\ timer[g][s].pc = "back"
  /\ TimerEnds(g, s)
  /\ \/ UNCHANGED faults /\ replicas' = 1
     \/ Fault("wake") /\ replicas' \in {replicas, 1}
  /\ UNCHANGED <<pod, conn, up, count, flight>>

-----------------------------------------------------------------------------
(* Drain, and the end of a replica.                                         *)

\* SIGTERM: closed is set and the entry's timer stopped; a timer past it runs.
Drain(g) ==
  /\ Open(g) /\ Fault("term")
  /\ up' = [up EXCEPT ![g] = "draining"]
  /\ timer' = Stopped(g)
  /\ cur' = [cur EXCEPT ![g] = 0]
  /\ UNCHANGED <<compute, conn, count, flight>>

\* The deadline: every enrolled connection is closed, and its wake cancelled if
\* it has one.
Bound(c) == Pc(c) \in Slotted \ {"started"}
\* Slip: only the sessions that pipe are closed.
ForcedPiping(c) ==
  IF Pc(c) = "pipe" THEN [conn[c] EXCEPT !.forced = TRUE, !.backend = FALSE] ELSE conn[c]
Forced(c) ==
  [conn[c] EXCEPT !.forced = TRUE, !.cancelled = Bound(c), !.backend = FALSE]

ForceClose(g) ==
  /\ up[g] = "draining"
  /\ \E c \in Conns : conn[c].at = g
  /\ up' = [up EXCEPT ![g] = "forced"]
  /\ conn' = [c \in Conns |-> IF conn[c].at = g THEN Forced(c) ELSE conn[c]]
  /\ flight' = [flight EXCEPT ![g] = IF @ = "on" THEN "doomed" ELSE @]
  /\ UNCHANGED <<compute, count, cur, timer, faults>>

\* The process is gone, its goroutines with it.
Ends(g) ==
  /\ up' = [up EXCEPT ![g] = "gone"]
  /\ count' = [count EXCEPT ![g] = 0]
  /\ cur' = [cur EXCEPT ![g] = 0]
  /\ timer' = [timer EXCEPT ![g] = [s \in Slots |-> Free]]
  /\ flight' = [flight EXCEPT ![g] = "none"]

\* The drain has waited for every enrolled connection.
Exit(g) ==
  /\ up[g] \in {"draining", "forced"}
  /\ \A c \in Conns : conn[c].at # g
  /\ Ends(g)
  /\ UNCHANGED <<compute, conn, faults>>

Crash(g) ==
  /\ up[g] # "gone" /\ Fault("crash")
  /\ Ends(g)
  /\ conn' = [c \in Conns |-> IF conn[c].at = g THEN Out ELSE conn[c]]
  /\ UNCHANGED compute

Restart(g) ==
  /\ up[g] = "gone"
  /\ up' = [up EXCEPT ![g] = "open"]
  /\ UNCHANGED <<compute, conn, count, cur, timer, flight, faults>>

-----------------------------------------------------------------------------
(* The compute's Deployment.                                                *)

Cut == conn' = [c \in Conns |-> [conn[c] EXCEPT !.backend = FALSE]]

PodBoots ==
  /\ replicas = 1 /\ pod = "none"
  /\ pod' = "booting"
  /\ UNCHANGED <<replicas, conn, up, count, cur, timer, flight, faults>>

PodReady ==
  /\ pod = "booting"
  /\ pod' = "up"
  /\ UNCHANGED <<replicas, conn, up, count, cur, timer, flight, faults>>

PodStops ==
  /\ pod # "none"
  /\ IF replicas = 0 THEN UNCHANGED faults ELSE Fault("pod")
  /\ pod' = "none"
  /\ Cut
  /\ UNCHANGED <<replicas, up, count, cur, timer, flight>>

-----------------------------------------------------------------------------

Serves(c) == \/ GiveUp(c) \/ Parse(c) \/ Start(c) \/ Publish(c) \/ Dial(c)
             \/ Abandon(c) \/ Poll(c) \/ Reply(c) \/ WriteFails(c) \/ Reset(c)
             \/ Unpublish(c) \/ End(c) \/ Arm(c)
Ticks(g, s) == \/ Fire(g, s) \/ Scrape(g, s) \/ Rearm(g, s) \/ Final(g, s)
               \/ Sleep(g, s) \/ Heal(g, s) \/ WakeBack(g, s)
Stops(g) == Drain(g) \/ Crash(g) \/ Restart(g)
Closes(g) == ForceClose(g) \/ Exit(g)

Next ==
  \/ \E c \in Conns : Serves(c) \/ ClientCloses(c) \/ \E g \in Gateways : Accept(c, g)
  \/ \E g \in Gateways : WakeReturns(g) \/ Stops(g) \/ Closes(g)
  \/ \E g \in Gateways, s \in Slots : Ticks(g, s)
  \/ PodBoots \/ PodReady \/ PodStops

Spec == Init /\ [][Next]_vars

\* Goroutines are scheduled, calls return within their timeouts, the drain
\* deadline passes, and the Deployment controller converges.  Clients are free
\* never to come and never to leave.
Fairness ==
  /\ \A c \in Conns : WF_vars(Serves(c))
  /\ \A g \in Gateways : WF_vars(WakeReturns(g)) /\ WF_vars(Closes(g))
  /\ \A g \in Gateways, s \in Slots : WF_vars(Ticks(g, s))
  /\ WF_vars(PodBoots) /\ WF_vars(PodReady) /\ WF_vars(replicas = 0 /\ PodStops)

FairSpec == Spec /\ Fairness

-----------------------------------------------------------------------------
(* Properties.                                                              *)

\* The count of a replica is the number of its connections that hold a compute
\* slot, whichever exit each takes: refusal, failed wake, retried handshake,
\* drain deadline (connStarted, connEnded).
CountsSlots ==
  \A g \in Gateways :
    count[g] = Cardinality({c \in Conns : conn[c].at = g /\ Pc(c) \in Slotted})

\* A scale-down in flight finds no session open that was published before the
\* look at the peers, or started before the look at its own replica: the whole
\* fleet was at zero (scheduleSleep, PeerChecker).
SparesOlderSessions ==
  \A g \in Gateways, s \in Slots :
    timer[g][s].pc = "sleep" =>
      \A c \in Conns : Pc(c) \in Published => c \in timer[g][s].after

\* A fleet left alone for good is scaled to zero for good, although its replicas
\* postpone their sleeps for one another and a scrape may fail, as long as no
\* scale-down fails and no replica stops (connEnded, scheduleSleep).
SleepsWhenIdle ==
  <>[](\A c \in Conns : Pc(c) = "out") => <>[](replicas = 0)

\* A client that polls after its wake, on an open replica, is never left waiting
\* for a compute scaled to zero with no scale call pending: whoever put it to
\* sleep meanwhile wakes it back (ConnectWithWake, scheduleSleep).
WokenStayAwaited ==
  \A c \in Conns : Pc(c) = "poll" /\ Open(conn[c].at) => ~Stuck

\* A client that comes while its replica stays open is served: one that arrived
\* during a scale-down is waited for by the wake back.
ClientsServed ==
  \A c \in Conns :
    Pc(c) = "dial" ~> (Pc(c) = "pipe" \/ \E g \in Gateways : ~Open(g))

\* A drain ends, by its deadline at the latest, even under a wake in progress.
DrainEnds ==
  \A g \in Gateways : up[g] = "draining" ~> up[g] = "gone"
=============================================================================
