--------------------------- MODULE PodRuntime_proofs ---------------------------
(***************************************************************************)
(* For any drain hooks, files and signals: a pod that a signal brings down *)
(* exits clean or warns, its child is sent one SIGTERM, and a confirmed    *)
(* watcher overlooks no file.                                              *)
(***************************************************************************)
EXTENDS PodRuntime, TLAPS

-----------------------------------------------------------------------------
(* The inductive invariant: a part about the supervisor, and one about the *)
(* sync.                                                                   *)

\* A drain hook runs only after the exit event of the child, and the first signal
\* is the one that was forwarded.
SupInv ==
  /\ SupTypeOK
  /\ \A d \in Drains : drained[d] # "registered" => heard
  /\ shutting => signals > 0
  /\ terms = IF shutting THEN 1 ELSE 0
  /\ CleanExit

\* A reconciliation under a confirmed watcher has covered every file but those of
\* the variants it has yet to look at.
ScanCovers ==
  phase = "scan" /\ confirmed => \A f \in disk : Covered(f) \/ Variant[f] \in scanned

\* Nothing is left after a stop that could start a flush.
StoppedStill == phase = "stopped" => ~timer /\ ~live

SyncInv == SyncTypeOK /\ ScanCovers /\ NoneOverlooked /\ StoppedStill

\* A supervisor that starts has heard and forwarded nothing.
LEMMA SupInit_Inv == SupInit => SupInv
  <1> SUFFICES ASSUME SupInit PROVE SupInv
    OBVIOUS
  <1>1. 0 \in 0..MaxSignals
    BY SignalsAssumption
  <1>2. sup = "up" /\ code = "none" /\ ~heard /\ ~warned /\ child = "booting"
    BY DEF SupInit
  <1>3. shutting = FALSE /\ signals = 0 /\ terms = 0
    BY DEF SupInit
  <1>4. drained = [d \in Drains |-> "registered"]
    BY DEF SupInit
  <1>5. drained \in [Drains -> {"registered", "running", "settled"}]
        /\ \A d \in Drains : drained[d] = "registered"
    BY <1>4
  <1>6. SupTypeOK
    BY <1>1, <1>2, <1>3, <1>5 DEF SupTypeOK
  <1>7. CleanExit
    BY <1>2 DEF CleanExit
  <1> QED
    BY <1>3, <1>5, <1>6, <1>7 DEF SupInv

\* A sync that starts watches nothing yet.
LEMMA SyncInit_Inv == SyncInit => SyncInv
  BY StoredAssumption DEF SyncInit, SyncInv, SyncTypeOK, ScanCovers, NoneOverlooked,
     StoppedStill

-----------------------------------------------------------------------------
(* The steps of the supervisor.                                            *)

\* A step of the sync alone keeps the invariant of the supervisor.
LEMMA SupSame == ASSUME SupInv, UNCHANGED supVars PROVE SupInv'
  BY DEF supVars, SupInv, SupTypeOK, CleanExit

\* The child may serve or end at any time.
LEMMA ServeEnd == ASSUME SupInv, Serve \/ End PROVE SupInv'
  BY DEF Serve, End, Runs, SupInv, SupTypeOK, CleanExit

\* A spawn fails before any signal, so nothing is to be drained.
LEMMA SpawnFails_Inv == ASSUME SupInv, SpawnFails PROVE SupInv'
  <1>1. ~shutting /\ ~heard /\ ~warned
    BY DEF SpawnFails, SupInv, SupTypeOK
  <1> QED
    BY <1>1 DEF SpawnFails, Exit, SupInv, SupTypeOK, CleanExit

\* Only the first signal is forwarded.
LEMMA Signal_Inv == ASSUME SupInv, Signal PROVE SupInv'
  <1>1. signals \in Nat /\ signals' \in 1..MaxSignals /\ 1 \in 0..MaxSignals
    BY SignalsAssumption DEF Signal, Received, SupInv, SupTypeOK
  <1>2. terms' = 1 /\ shutting' = TRUE
    BY DEF Signal, Received, SupInv
  <1> QED
    BY <1>1, <1>2 DEF Signal, Received, Runs, SupInv, SupTypeOK, CleanExit

\* The exit event leaves a shutdown to the drain hooks, and ends any other supervisor.
LEMMA ChildExit_Inv == ASSUME SupInv, ChildExit PROVE SupInv'
  <1>1. heard' = TRUE /\ child = "gone" /\ sup = "up" /\ ~warned
        /\ UNCHANGED <<child, shutting, warned, signals, terms>>
    BY DEF ChildExit, SupInv, SupTypeOK
  <1>2. CASE shutting /\ Drains = {}
    BY <1>1, <1>2 DEF ChildExit, StartDrains, Exit, SupInv, SupTypeOK, CleanExit
  <1>3. CASE shutting /\ Drains # {}
    BY <1>1, <1>3 DEF ChildExit, StartDrains, Runs, SupInv, SupTypeOK, CleanExit
  <1>4. CASE ~shutting
    BY <1>1, <1>4 DEF ChildExit, Exit, SupInv, SupTypeOK, CleanExit
  <1> QED
    BY <1>2, <1>3, <1>4

\* The exit that follows the hooks finds the child gone: they run after its exit event.
LEMMA Drains_Inv == ASSUME SupInv, Drained \/ \E d \in Drains : DrainSettles(d) PROVE SupInv'
  <1>1. CASE Drained
    <2>1. child = "gone"
      BY <1>1 DEF Drained, SupInv, SupTypeOK
    <2> QED
      BY <1>1, <2>1 DEF Drained, Exit, SupInv, SupTypeOK, CleanExit
  <1>2. ASSUME NEW d \in Drains, DrainSettles(d) PROVE SupInv'
    BY <1>2 DEF DrainSettles, Runs, SupInv, SupTypeOK, CleanExit
  <1> QED
    BY <1>1, <1>2

\* The cap warns when it exits.
LEMMA Grace_Inv == ASSUME SupInv, Grace PROVE SupInv'
  BY DEF Grace, Exit, SupInv, SupTypeOK, CleanExit

-----------------------------------------------------------------------------
(* The steps of the sync.                                                  *)

\* A step of the supervisor alone keeps the invariant of the sync.
LEMMA SyncSame == ASSUME SyncInv, UNCHANGED syncVars PROVE SyncInv'
  BY DEF syncVars, pushVars, SyncInv, SyncTypeOK, ScanCovers, NoneOverlooked, Covered,
     StoppedStill

\* A variant that is written or evicted under a live watcher has its event.
LEMMA Child_Inv ==
  ASSUME SyncInv, (\E f \in Files : Write(f)) \/ (\E v \in Variants : Evict(v))
  PROVE  SyncInv'
  <1>1. PICK v \in Variants :
          /\ Notified(v) /\ ChildKeeps
          /\ disk' \subseteq Files /\ lost' \subseteq lost
          /\ \A f \in disk' : f \in disk \/ Variant[f] = v
          /\ \A f \in lost : f \in lost' \/ Variant[f] = v
    BY DEF Write, Evict, Variants, Of, SyncInv, SyncTypeOK
  <1>2. SyncTypeOK'
    BY <1>1 DEF Notified, ChildKeeps, SyncInv, SyncTypeOK
  <1>3. confirmed => events' = events \cup {v}
    BY <1>1 DEF Notified, SyncInv, SyncTypeOK
  <1>4. ScanCovers' /\ NoneOverlooked'
    BY <1>1, <1>3 DEF ChildKeeps, SyncInv, ScanCovers, NoneOverlooked, Covered
  <1>5. StoppedStill'
    BY <1>1 DEF ChildKeeps, SyncInv, StoppedStill
  <1> QED
    BY <1>2, <1>4, <1>5 DEF SyncInv

\* Before the reconciliation nothing is to be covered.
LEMMA Early_Inv ==
  ASSUME SyncInv,
         Start \/ PreList \/ RestoreList \/ (\E f \in Files : Restore(f)) \/ Attach
           \/ ProbeSeen \/ ProbeTimesOut
  PROVE  SyncInv'
  <1>1. phase' \notin {"scan", "watching"}
    BY DEF Start, PreList, RestoreList, Restore, Attach, ProbeSeen, ProbeTimesOut, ProbeKeeps
  <1>2. SyncTypeOK'
    <2>1. CASE Start
      BY <2>1 DEF Start, pushVars, SyncInv, SyncTypeOK
    <2>2. CASE PreList
      BY <2>2 DEF PreList, pushVars, SyncInv, SyncTypeOK
    <2>3. CASE RestoreList
      BY <2>3 DEF RestoreList, pushVars, SyncInv, SyncTypeOK
    <2>4. ASSUME NEW f \in Files, Restore(f) PROVE SyncTypeOK'
      BY <2>4 DEF Restore, pushVars, SyncInv, SyncTypeOK
    <2>5. CASE Attach
      BY <2>5 DEF Attach, pushVars, SyncInv, SyncTypeOK
    <2>6. CASE ProbeSeen \/ ProbeTimesOut
      BY <2>6 DEF ProbeSeen, ProbeTimesOut, ProbeKeeps, pushVars, SyncInv, SyncTypeOK
    <2> QED
      BY <2>1, <2>2, <2>3, <2>4, <2>5, <2>6
  <1>3. phase' # "stopped"
    BY DEF Start, PreList, RestoreList, Restore, Attach, ProbeSeen, ProbeTimesOut, ProbeKeeps
  <1> QED
    BY <1>1, <1>2, <1>3 DEF SyncInv, ScanCovers, NoneOverlooked, StoppedStill

\* A watcher that is attached late covers no less.
LEMMA Attached_Inv == ASSUME SyncInv, Attached PROVE SyncInv'
  BY DEF Attached, pushVars, SyncInv, SyncTypeOK, ScanCovers, NoneOverlooked, Covered,
     StoppedStill

\* The reconciliation has every variant of the disk to look at, or gives all up.
LEMMA Scan_Inv == ASSUME SyncInv, Scan PROVE SyncInv'
  <1>1. SyncTypeOK'
    BY DEF Scan, Variants, SyncInv, SyncTypeOK
  <1>2. \A f \in disk' : Variant[f] \in scanned' \/ f \in lost'
    BY DEF Scan
  <1>3. ScanCovers' /\ NoneOverlooked' /\ StoppedStill'
    BY <1>2 DEF Scan, ScanCovers, NoneOverlooked, StoppedStill, Covered
  <1> QED
    BY <1>1, <1>3 DEF SyncInv

\* A variant that is looked at is in the listing, or is enqueued or given up whole.
LEMMA ScanVariant_Inv ==
  ASSUME SyncInv, NEW v \in Variants, ScanVariant(v) PROVE SyncInv'
  <1>1. SyncTypeOK'
    BY DEF ScanVariant, Enqueued, SyncInv, SyncTypeOK
  <1>2. phase = "scan" /\ phase' = "scan"
        /\ UNCHANGED <<disk, store, confirmed, events, reading, uploading>>
    BY DEF ScanVariant, SyncInv, SyncTypeOK
  <1>3. ScanCovers'
    <2> SUFFICES ASSUME confirmed, NEW f \in disk
                 PROVE  Covered(f)' \/ Variant[f] \in scanned'
      BY <1>2 DEF ScanCovers
    <2>1. Covered(f) \/ Variant[f] \in scanned
      BY <1>2 DEF SyncInv, ScanCovers
    <2>2. Covered(f) => Covered(f)'
      BY <1>2 DEF ScanVariant, Enqueued, Covered
    <2>3. CASE Variant[f] = v /\ disk \cap Of(v) \subseteq known
      BY <1>2, <2>3 DEF SyncInv, SyncTypeOK, Of, Covered
    <2>4. CASE Variant[f] = v /\ Enqueued(v)
      BY <2>4 DEF Enqueued, Covered
    <2>5. CASE Variant[f] = v /\ lost' = lost \cup (disk \cap Of(v))
      BY <1>2, <2>5 DEF SyncInv, SyncTypeOK, Of, Covered
    <2>6. CASE Variant[f] # v
      BY <2>1, <2>2, <2>6 DEF ScanVariant
    <2> QED
      BY <2>3, <2>4, <2>5, <2>6 DEF ScanVariant
  <1>4. NoneOverlooked' /\ StoppedStill'
    BY <1>2 DEF NoneOverlooked, StoppedStill
  <1> QED
    BY <1>1, <1>3, <1>4 DEF SyncInv

\* A reconciliation that is over has no variant left to look at.
LEMMA Watch_Inv == ASSUME SyncInv, Watch PROVE SyncInv'
  BY DEF Watch, pushVars, SyncInv, SyncTypeOK, ScanCovers, NoneOverlooked, Covered, StoppedStill

\* A step that passes files on, from events to uploads, covers what was covered.
LEMMA PassedOn ==
  ASSUME SyncInv, UNCHANGED <<disk, phase, confirmed, scanned>>, SyncTypeOK',
         StoppedStill', \A f \in disk : Covered(f) => Covered(f)'
  PROVE  SyncInv'
  BY DEF SyncInv, ScanCovers, NoneOverlooked

\* From event to upload, each step passes on all the files it takes.
LEMMA Push_Inv ==
  ASSUME SyncInv,
         Flush \/ (\E v \in Variants : Deliver(v) \/ ReadVariant(v)) \/ (\E f \in Files : Upload(f))
  PROVE  SyncInv'
  <1>1. CASE Flush
    BY <1>1, PassedOn DEF Flush, FlushKeeps, SyncInv, SyncTypeOK, StoppedStill, Covered
  <1>2. ASSUME NEW v \in Variants, Deliver(v) PROVE SyncInv'
    <2>1. SyncTypeOK'
      BY <1>2 DEF Deliver, Enqueued, pushVars, SyncInv, SyncTypeOK
    <2>2. StoppedStill'
      BY <1>2 DEF Deliver, SyncInv, SyncTypeOK, StoppedStill
    <2> QED
      BY <1>2, <2>1, <2>2, PassedOn DEF Deliver, Enqueued, pushVars, Covered
  <1>3. ASSUME NEW v \in Variants, ReadVariant(v) PROVE SyncInv'
    <2>1. SyncTypeOK'
      BY <1>3 DEF ReadVariant, SyncInv, SyncTypeOK
    <2>2. \A f \in disk : Variant[f] = v => f \in uploading' \cup lost'
      BY <1>3 DEF ReadVariant, Of, SyncInv, SyncTypeOK
    <2>3. StoppedStill'
      BY <1>3 DEF ReadVariant, SyncInv, StoppedStill
    <2> QED
      BY <1>3, <2>1, <2>2, <2>3, PassedOn DEF ReadVariant, Covered
  <1>4. ASSUME NEW f \in Files, Upload(f) PROVE SyncInv'
    <2>1. SyncTypeOK'
      BY <1>4 DEF Upload, SyncInv, SyncTypeOK
    <2>2. StoppedStill'
      BY <1>4 DEF Upload, SyncInv, StoppedStill
    <2> QED
      BY <1>4, <2>1, <2>2, PassedOn DEF Upload, Covered
  <1> QED
    BY <1>1, <1>2, <1>3, <1>4

\* A stop clears the timer and closes the watcher.
LEMMA Stop_Inv == ASSUME SyncInv, Stop PROVE SyncInv'
  <1>1. CASE phase = "watching"
    BY <1>1 DEF Stop, pushVars, SyncInv, SyncTypeOK, ScanCovers, NoneOverlooked, StoppedStill
  <1>2. CASE phase # "watching"
    BY <1>2, SyncSame DEF Stop
  <1> QED
    BY <1>1, <1>2

\* Nothing of the sync outlives the process.
LEMMA Ended_Inv == ASSUME SyncInv, Ended PROVE SyncInv'
  BY DEF Ended, SyncInv, SyncTypeOK, ScanCovers, NoneOverlooked, StoppedStill

-----------------------------------------------------------------------------
(* The theorems.                                                           *)

\* Every step keeps both parts of the invariant.
LEMMA NextInv ==
  ASSUME SupInv, SyncInv, [Next]_vars PROVE SupInv' /\ SyncInv'
  <1>1. CASE UNCHANGED vars
    BY <1>1, SupSame, SyncSame DEF vars
  <1>2. CASE ChildWrites \/ ChildEvicts
    BY <1>2, SupSame, Child_Inv DEF ChildWrites, ChildEvicts
  <1>3. CASE SyncStarts
    BY <1>3, SupSame, Early_Inv DEF SyncStarts
  <1>4. CASE OnSignal
    BY <1>4, Signal_Inv, Stop_Inv DEF OnSignal
  <1>5. CASE Supervises
    BY <1>5, ServeEnd, SpawnFails_Inv, ChildExit_Inv, Drains_Inv, Grace_Inv, SyncSame, Ended_Inv
    DEF Supervises, ChildExits, CapFires
  <1>6. CASE Syncs
    BY <1>6, SupSame, Early_Inv, Attached_Inv, Scan_Inv, ScanVariant_Inv, Watch_Inv, Push_Inv
    DEF Syncs, SyncStep
  <1> QED
    BY <1>1, <1>2, <1>3, <1>4, <1>5, <1>6 DEF Next

\* The invariant holds in every reachable state.
LEMMA SpecInv == Spec => [](SupInv /\ SyncInv)
  <1>1. Init => SupInv /\ SyncInv
    BY SupInit_Inv, SyncInit_Inv DEF Init
  <1>2. SupInv /\ SyncInv /\ [Next]_vars => (SupInv /\ SyncInv)'
    BY NextInv
  <1> QED
    BY <1>1, <1>2, PTL DEF Spec

\* Every variable of the pod keeps its type.
THEOREM PodTypeOK == Spec => []TypeOK
  <1>1. SupInv /\ SyncInv => TypeOK
    BY DEF SupInv, SyncInv, TypeOK
  <1> QED
    BY <1>1, SpecInv, PTL

\* A signalled supervisor that exits without the warning of the grace cap left no
\* drain hook and no child behind.
THEOREM PodCleanExit == Spec => []CleanExit
  <1>1. SupInv => CleanExit
    BY DEF SupInv
  <1> QED
    BY <1>1, SpecInv, PTL

\* The child is sent at most one SIGTERM.
THEOREM PodTermOnce == Spec => []TermOnce
  <1>1. SupInv => TermOnce
    BY DEF SupInv, TermOnce
  <1> QED
    BY <1>1, SpecInv, PTL

\* Once the probe is confirmed and the reconciliation over, every file on the disk
\* is stored, on its way to the store, or one whose upload failed.
THEOREM PodNoneOverlooked == Spec => []NoneOverlooked
  <1>1. SyncInv => NoneOverlooked
    BY DEF SyncInv
  <1> QED
    BY <1>1, SpecInv, PTL

\* After a stop no push begins: a flush needs the timer, which a stop clears and
\* nothing sets again.
THEOREM PodNoPushAfterStop == Spec => NoPushAfterStop
  <1>1. SyncInv /\ [Next]_vars => [phase = "stopped" => reading' \subseteq reading]_vars
    <2> SUFFICES ASSUME SyncInv, Next, phase = "stopped" PROVE reading' \subseteq reading
      OBVIOUS
    <2>1. ~timer
      BY DEF SyncInv, StoppedStill
    <2>2. CASE ChildWrites \/ ChildEvicts
      BY <2>2 DEF ChildWrites, ChildEvicts, Write, Evict, ChildKeeps
    <2>3. CASE SyncStarts
      BY <2>3 DEF SyncStarts, Start, pushVars
    <2>4. CASE OnSignal
      BY <2>4 DEF OnSignal, Stop, syncVars
    <2>5. CASE Supervises
      BY <2>5 DEF Supervises, ChildExits, CapFires, Ended, syncVars
    <2>6. CASE Syncs
      BY <2>1, <2>6 DEF Syncs, SyncStep, PreList, RestoreList, Attach, Attached, ProbeSeen,
         ProbeTimesOut, ProbeKeeps, Scan, Watch, Flush, Restore, Upload, ScanVariant, Deliver,
         ReadVariant, pushVars
    <2> QED
      BY <2>2, <2>3, <2>4, <2>5, <2>6 DEF Next
  <1> QED
    BY <1>1, SpecInv, PTL DEF Spec, NoPushAfterStop
=============================================================================
