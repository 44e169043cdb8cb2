----------------------------- MODULE PodRuntime -----------------------------
(***************************************************************************)
(* A NextApp pod: the supervisor and the image cache sync it runs, as      *)
(* node-server.ts wires them.  The deferred init starts the sync; a signal *)
(* stops it, if its handle was returned by then, before the shutdown; the  *)
(* exit of the supervisor ends it where it is.                             *)
(***************************************************************************)
EXTENDS Supervisor, ImageCacheSync

vars == <<supVars, syncVars>>

Init == SupInit /\ SyncInit

\* The child writes variants as long as it runs, during a shutdown too.
ChildWrites ==
  /\ sup = "up" /\ child = "serving"
  /\ \E f \in Files : Write(f)
  /\ UNCHANGED supVars

ChildEvicts ==
  /\ sup = "up" /\ child = "serving"
  /\ \E v \in Variants : Evict(v)
  /\ UNCHANGED supVars

\* The child answers, or the deadline of the probe has passed, in a shutdown too.
SyncStarts ==
  /\ sup = "up"
  /\ Start
  /\ UNCHANGED supVars

OnSignal == Signal /\ Stop

\* The exit of the supervisor ends the sync.
ChildExits == ChildExit /\ IF sup' = "up" THEN UNCHANGED syncVars ELSE Ended
CapFires == Grace /\ Ended

Supervises ==
  \/ (Serve \/ End \/ \E d \in Drains : DrainSettles(d)) /\ UNCHANGED syncVars
  \/ ((phase = "idle" /\ SpawnFails) \/ Drained) /\ Ended
  \/ ChildExits \/ CapFires

Syncs ==
  /\ sup = "up"
  /\ SyncStep
  /\ UNCHANGED supVars

Next == ChildWrites \/ ChildEvicts \/ SyncStarts \/ OnSignal \/ Supervises \/ Syncs

Spec == Init /\ [][Next]_vars

Alive(A) == sup = "up" /\ A /\ UNCHANGED supVars

\* The event loop delivers the events of the child and runs what is ready, the
\* timer of the grace cap fires, and calls of the store end.
Fairness ==
  /\ WF_vars(ChildExits)
  /\ WF_vars(CapFires)
  /\ WF_vars(Alive(Flush))
  /\ \A v \in Variants : WF_vars(Alive(Deliver(v))) /\ WF_vars(Alive(ReadVariant(v)))
  /\ \A f \in Files : WF_vars(Alive(Upload(f)))

FairSpec == Spec /\ Fairness

-----------------------------------------------------------------------------
\* The types of the supervisor and of the sync.
TypeOK == SupTypeOK /\ SyncTypeOK

\* A supervisor that a signal brought down without the warning of the grace cap
\* left nothing unfinished: the child is gone and every drain hook settled, also
\* if the child's exit and the signal crossed (isShuttingDown, #449).
CleanExit ==
  sup = "exited" /\ shutting /\ ~warned =>
    child = "gone" /\ \A d \in Drains : drained[d] = "settled"

\* However many signals arrive, the child is sent one SIGTERM: a second one would
\* cut short the requests it drains (#494).
TermOnce == terms <= 1

\* A supervisor that was signalled or lost its child exits, whatever child or
\* drain hook hangs (the grace cap, the exit listener).
Exits == (shutting \/ child = "gone") ~> (sup = "exited")

\* A file of the disk is in the store, or on its way there, or was given up: its
\* upload failed, or its directory could not be read.
Covered(f) ==
  \/ f \in store \cup uploading \cup lost
  \/ Variant[f] \in events \cup pending \cup reading

\* Once the probe saw its event and the reconciliation is over, no file is
\* overlooked: neither one written before the watcher was live, nor one written
\* while the store was listed, restored or reconciled (#805).  A file given up
\* counts again once it is written anew.
NoneOverlooked ==
  phase = "watching" /\ confirmed => \A f \in disk : Covered(f)

\* A file that stays on the disk of a pod with a confirmed watcher is stored,
\* unless it is given up or the sync ends first.
FilesStored ==
  \A f \in Files :
    phase = "watching" /\ confirmed /\ f \in disk ~>
      \/ f \in store \cup lost \/ f \notin disk
      \/ phase = "stopped" \/ sup = "exited"

\* After a stop no push begins: those in flight only finish.
NoPushAfterStop == [][phase = "stopped" => reading' \subseteq reading]_vars
=============================================================================
