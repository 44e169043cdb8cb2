----------------------------- MODULE Supervisor -----------------------------
(***************************************************************************)
(* The supervisor of a NextApp pod (packages/kn-next/src/adapters/         *)
(* node-server.ts and shutdown.ts): it spawns the Next.js server as a child*)
(* process, brings the pod down with a child that crashes, and on a signal *)
(* forwards SIGTERM, waits for the child and for the drain hooks, and exits*)
(* at the latest when the grace cap fires.                                 *)
(*                                                                         *)
(* Events of the child, signals, timers and promises are callbacks of one  *)
(* event loop: each is a step, in any order.  The child's exit and the     *)
(* event that reports it are two.  Left out: the metrics endpoint, the     *)
(* other deferred steps, and a signal before the spawn, which no event loop*)
(* turn separates from the handlers.                                       *)
(***************************************************************************)
EXTENDS Naturals

CONSTANTS Drains,     \* the registered drain hooks
          MaxSignals  \* bound: signals received

ASSUME SignalsAssumption == MaxSignals \in Nat

VARIABLES sup,       \* the supervisor runs, or has exited
          code,      \* the code it exited with
          child,     \* the state of the child process
          heard,     \* the exit event of the child was delivered
          shutting,  \* shuttingDown
          drained,   \* the state of each drain hook
          warned,    \* the warning of the grace cap was logged
          signals,   \* signals received
          terms      \* SIGTERMs forwarded to the child

supVars == <<sup, code, child, heard, shutting, drained, warned, signals, terms>>

SupTypeOK ==
  /\ sup \in {"up", "exited"}
  /\ code \in {"none", "0", "1", "child's"}
  /\ (code = "none") = (sup = "up")
  /\ child \in {"booting", "serving", "gone"}
  /\ heard => child = "gone"
  /\ shutting \in BOOLEAN
  /\ drained \in [Drains -> {"registered", "running", "settled"}]
  /\ warned => sup = "exited"
  /\ signals \in 0..MaxSignals
  /\ terms \in 0..MaxSignals

SupInit ==
  /\ sup = "up" /\ code = "none"
  /\ child = "booting" /\ heard = FALSE
  /\ shutting = FALSE /\ warned = FALSE
  /\ drained = [d \in Drains |-> "registered"]
  /\ signals = 0 /\ terms = 0

Exit(c) == sup' = "exited" /\ code' = c
Runs == UNCHANGED <<sup, code>>

-----------------------------------------------------------------------------
\* The child process: it serves, and ends on its own, by a crash or by the
\* SIGTERM it was sent.

Serve ==
  /\ sup = "up" /\ child = "booting"
  /\ child' = "serving"
  /\ Runs
  /\ UNCHANGED <<heard, shutting, drained, warned, signals, terms>>

End ==
  /\ sup = "up" /\ child # "gone"
  /\ child' = "gone"
  /\ Runs
  /\ UNCHANGED <<heard, shutting, drained, warned, signals, terms>>

\* The spawn fails: the error event, before any other.
SpawnFails ==
  /\ sup = "up" /\ child = "booting" /\ signals = 0
  /\ Exit("1")
  /\ UNCHANGED <<child, heard, shutting, drained, warned, signals, terms>>

-----------------------------------------------------------------------------
\* The supervisor.

Received ==
  /\ sup = "up" /\ signals < MaxSignals
  /\ signals' = signals + 1
  /\ shutting' = TRUE
  /\ Runs
  /\ UNCHANGED <<child, heard, drained, warned>>

\* Slip: Every signal starts a shutdown of its own.
SignalAgain ==
  /\ Received
  /\ terms' = terms + 1

\* onSignal, gracefulShutdown: only the first signal is forwarded.
Signal ==
  /\ Received
  /\ terms' = IF shutting THEN terms ELSE terms + 1

\* The listener of a shutdown: the drain hooks are started together, or there is
\* none and it exits at once.
StartDrains ==
  IF Drains = {}
  THEN Exit("0") /\ UNCHANGED drained
  ELSE Runs /\ drained' = [d \in Drains |-> "running"]

\* Slip: The listener of the supervisor exits during a shutdown too.
ChildExitNow ==
  /\ sup = "up" /\ child = "gone" /\ ~heard
  /\ heard' = TRUE
  /\ Exit("child's")
  /\ UNCHANGED <<child, shutting, drained, warned, signals, terms>>

\* The exit event.  During a shutdown the supervisor's own listener, the first to
\* run, leaves the exit to the shutdown's; else it exits with the child's code,
\* and with 0 for a child that a signal killed.
ChildExit ==
  /\ sup = "up" /\ child = "gone" /\ ~heard
  /\ heard' = TRUE
  /\ IF shutting THEN StartDrains ELSE Exit("child's") /\ UNCHANGED drained
  /\ UNCHANGED <<child, shutting, warned, signals, terms>>

\* A hook resolves or rejects: runDrains tells no difference.  It may also hang.
DrainSettles(d) ==
  /\ sup = "up" /\ drained[d] = "running"
  /\ drained' = [drained EXCEPT ![d] = "settled"]
  /\ Runs
  /\ UNCHANGED <<child, heard, shutting, warned, signals, terms>>

Drained ==
  /\ sup = "up" /\ Drains # {} /\ \A d \in Drains : drained[d] = "settled"
  /\ Exit("0")
  /\ UNCHANGED <<child, heard, shutting, drained, warned, signals, terms>>

\* Slip: The exit of the child clears the timer of the grace cap.
GraceUntilExit ==
  /\ sup = "up" /\ shutting /\ ~heard
  /\ Exit("0")
  /\ warned' = TRUE
  /\ UNCHANGED <<child, heard, shutting, drained, signals, terms>>

\* The grace cap: it warns and exits, whatever is unfinished.  Its timer does not
\* keep the event loop alive by itself; the child does until its exit event, and
\* then a hook that hangs is taken to hold a handle, as the database drain, the only
\* one registered, does with its sockets.
Grace ==
  /\ sup = "up" /\ shutting
  /\ Exit("0")
  /\ warned' = TRUE
  /\ UNCHANGED <<child, heard, shutting, drained, signals, terms>>
=============================================================================
