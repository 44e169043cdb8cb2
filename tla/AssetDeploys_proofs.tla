------------------------- MODULE AssetDeploys_proofs -------------------------
(***************************************************************************)
(* For any number of deploys, collections, builds, rollbacks and faults: a *)
(* collection never deletes what the status names or the CR pins, and a    *)
(* deploy that fails reclaims nothing live if build ids are its own.       *)
(***************************************************************************)
EXTENDS AssetDeploys, TLAPS

-----------------------------------------------------------------------------
(* The inductive invariant.                                                *)

PlanRecord == [live : SUBSET DOMAIN revs, pin : Pins, keep : SUBSET Builds,
               reap : SUBSET Builds]

\* What a run r at stage s knows by its plan p, the runs in mv having missed a
\* change: between its two reads, that it keeps what it has read; past them, that
\* it keeps what is protected.
SafeAt(r, s, p, mv) ==
  /\ s \in {"pinAgain", "statusAgain"} =>
       /\ p.keep = BuildsOf(p.live \cup {p.pin})
       /\ p.pin \in DOMAIN revs \cup {NoPin}
  /\ s = "statusAgain" /\ r \notin mv => p.pin = cr.pin
  /\ s \in {"list", "delete"} /\ r \notin mv => BuildsOf(observed \cup {cr.pin}) \subseteq p.keep
  /\ s = "delete" => p.reap \cap p.keep = {}

Safe == \A r \in Runs : SafeAt(r, stage[r], plan[r], moved)

\* The pin is a revision, none or one that is gone, and a change that is not
\* rolled out has a build.
CrKnown ==
  /\ cr.pin \in DOMAIN revs \cup {NoPin, Gone}
  /\ ~rolled => cr.build \in Builds

IInv == TypeOK /\ CrKnown /\ Safe

\* No revision has the number of no pin, or of a pin that is gone.
LEMMA NoSuchRevision ==
  ASSUME TypeOK PROVE NoPin \notin DOMAIN revs /\ Gone \notin DOMAIN revs
  BY DEF TypeOK, NoPin, Gone

\* The builds of revisions are builds.
LEMMA RevisionBuilds ==
  ASSUME TypeOK, NEW S PROVE BuildsOf(S) \subseteq Builds
  <1>1. \A i \in DOMAIN revs : revs[i] \in [build : Builds, ready : BOOLEAN]
    <2> DEFINE T == [build : Builds, ready : BOOLEAN]
    <2>1. revs \in Seq(T)
      BY DEF TypeOK
    <2> HIDE DEF T
    <2>2. \A i \in DOMAIN revs : revs[i] \in T
      BY <2>1
    <2> QED
      BY <2>2 DEF T
  <1>2. \A i \in DOMAIN revs : revs[i].build \in Builds
    BY <1>1
  <1> QED
    BY <1>2 DEF BuildsOf

\* The initial states satisfy the invariant.
LEMMA InitInv == Init => IInv
  <1> SUFFICES ASSUME Init PROVE IInv
    OBVIOUS
  <1> DEFINE Seen == {Past[i] : i \in DOMAIN Past}
  <1>1. Seen \subseteq Builds /\ Len(Past) \in Nat /\ DOMAIN Past = 1..Len(Past)
    BY PastAssumption
  <1>2. store \subseteq Builds \X Parts
    BY <1>1 DEF Init
  <1>3. cr \in [build : Builds \cup {NoBuild}, pin : Pins, held : BOOLEAN] /\ cr.pin = NoPin
    <2>1. Past # <<>> => Past[Len(Past)] \in Builds
      BY PastAssumption
    <2> QED
      BY <2>1 DEF Init, Pins, NoPin
  <1>4. revs \in Seq([build : Builds, ready : BOOLEAN]) /\ DOMAIN revs = DOMAIN Past
    <2>1. \A i \in 1..Len(Past) : Past[i] \in Builds
      BY <1>1
    <2>2. revs = [i \in 1..Len(Past) |-> [build |-> Past[i], ready |-> TRUE]]
      BY <1>1 DEF Init
    <2>3. revs \in [1..Len(Past) -> [build : Builds, ready : BOOLEAN]]
      BY <2>1, <2>2
    <2> QED
      BY <1>1, <2>2, <2>3
  <1>5. observed \subseteq DOMAIN revs
    BY <1>1, <1>4 DEF Init
  <1>6. plan \in [Runs -> PlanRecord]
    BY DEF Init, NoPlan, PlanRecord, Pins, NoPin
  <1>7. stage = [r \in Runs |-> "idle"] /\ moved = {} /\ first = {} /\ rolled = TRUE
        /\ shifts = 0 /\ faults = 0
    BY DEF Init
  <1>8. TypeOK
    BY <1>2, <1>3, <1>4, <1>5, <1>6, <1>7, BoundsAssumption
    DEF TypeOK, Stages, PlanRecord, Runs
  <1>9. CrKnown
    BY <1>3, <1>7 DEF CrKnown
  <1>10. Safe
    BY <1>7 DEF Safe, SafeAt
  <1> QED
    BY <1>8, <1>9, <1>10 DEF IInv

-----------------------------------------------------------------------------
(* The steps of the runs.                                                  *)

\* What a step of a run r needs to show: the stage, plan and missed changes it
\* leaves are typed and safe, and it leaves the cluster alone.
LEMMA RunStep ==
  ASSUME IInv, NEW r \in Runs, NEW s \in Stages, NEW p \in PlanRecord,
         stage' = [stage EXCEPT ![r] = s],
         plan' = [plan EXCEPT ![r] = p],
         moved' \subseteq moved, moved \subseteq moved' \cup {r},
         r \in moved' => s \in Collecting,
         r \in Collectors => s \in Collecting \cup {"idle", "done", "failed"},
         SafeAt(r, s, p, moved'),
         cr' = cr, revs' = revs, observed' = observed, rolled' = rolled,
         store' \subseteq Builds \X Parts, first' \subseteq Builds,
         shifts' = shifts, faults' \in 0..MaxFaults
  PROVE  IInv'
  <1>1. TypeOK'
    <2>1. stage' \in [Runs -> Stages]
      BY DEF IInv, TypeOK
    <2>2. PlanRecord' = PlanRecord
      BY DEF PlanRecord
    <2>3. plan' \in [Runs -> PlanRecord]
      BY DEF IInv, TypeOK, PlanRecord
    <2>4. \A c \in Collectors : stage'[c] \in Collecting \cup {"idle", "done", "failed"}
      BY DEF IInv, TypeOK, Runs
    <2>5. moved' \subseteq {q \in Runs : stage'[q] \in Collecting}
      BY DEF IInv, TypeOK
    <2> QED
      BY <2>1, <2>2, <2>3, <2>4, <2>5 DEF IInv, TypeOK, PlanRecord
  <1>2. CrKnown'
    BY DEF IInv, CrKnown
  <1>3. Safe'
    <2> SUFFICES ASSUME NEW q \in Runs PROVE SafeAt(q, stage[q], plan[q], moved)'
      BY DEF Safe
    <2>1. BuildsOf(observed \cup {cr.pin})' = BuildsOf(observed \cup {cr.pin})
          /\ \A S : BuildsOf(S)' = BuildsOf(S)
      BY DEF BuildsOf
    <2>2. CASE q = r
      <3>1. stage'[q] = s /\ plan'[q] = p
        BY <2>2 DEF IInv, TypeOK
      <3> QED
        BY <2>1, <2>2, <3>1 DEF SafeAt, BuildsOf
    <2>3. CASE q # r
      <3>1. stage'[q] = stage[q] /\ plan'[q] = plan[q] /\ (q \in moved' <=> q \in moved)
        BY <2>3 DEF IInv, TypeOK
      <3>2. SafeAt(q, stage[q], plan[q], moved)
        BY DEF IInv, Safe
      <3> QED
        BY <2>1, <3>1, <3>2 DEF SafeAt, BuildsOf
    <2> QED
      BY <2>2, <2>3
  <1> QED
    BY <1>1, <1>2, <1>3 DEF IInv

\* The plan of a run that has none is a typed one.
LEMMA NoPlanType == NoPlan \in PlanRecord
  BY DEF NoPlan, PlanRecord, Pins, NoPin

\* A fault is counted within its bound.
LEMMA FaultType ==
  ASSUME IInv PROVE faults \in 0..MaxFaults /\ (Fault => faults' \in 0..MaxFaults)
  BY BoundsAssumption DEF IInv, TypeOK, Fault

\* A run that stops forgets its plan.
LEMMA StopStep ==
  ASSUME IInv, NEW r \in Runs, NEW s \in {"done", "failed"}, Stop(r, s),
         UNCHANGED <<cluster, shifts>>,
         store' \subseteq Builds \X Parts, first' \subseteq Builds,
         faults' \in 0..MaxFaults
  PROVE  IInv'
  <1>1. s \in Stages /\ SafeAt(r, s, NoPlan, moved')
    BY DEF Stages, SafeAt
  <1> QED
    BY <1>1, NoPlanType, RunStep DEF Stop, Goto, cluster

\* A deploy that is not collecting moves on: its plan stays, and it missed nothing.
LEMMA DeployMoves ==
  ASSUME IInv, NEW d \in Deploys, stage[d] \notin Collecting,
         NEW s \in Stages \ {"pinAgain", "statusAgain", "list", "delete"}, Goto(d, s),
         UNCHANGED <<cluster, plan, moved, first, shifts>>,
         store' \subseteq Builds \X Parts, faults' \in 0..MaxFaults
  PROVE  IInv'
  <1>1. d \in Runs /\ d \notin Collectors
    BY RunsAssumption DEF Runs
  <1>2. plan[d] \in PlanRecord /\ plan' = [plan EXCEPT ![d] = plan[d]]
    BY <1>1 DEF IInv, TypeOK, PlanRecord
  <1>3. d \notin moved /\ first \subseteq Builds
    BY DEF IInv, TypeOK
  <1>4. SafeAt(d, s, plan[d], moved')
    BY DEF SafeAt
  <1> QED
    BY <1>1, <1>2, <1>3, <1>4, RunStep DEF Goto, cluster

\* The objects of a build are objects of the app.
LEMMA ObjectsType ==
  ASSUME NEW b \in Builds PROVE Objects(b) \subseteq Builds \X Parts
  BY DEF Objects

\* What a command moves is part of what it was to move, at the cost of a fault if
\* that is not all of it.
LEMMA LandedType ==
  ASSUME IInv, NEW objects, NEW part, Landed(objects, part)
  PROVE  part \subseteq objects /\ faults' \in 0..MaxFaults
  BY FaultType DEF Landed

\* A step of a deploy before it collects keeps the invariant.
LEMMA UploadSteps ==
  ASSUME IInv, NEW d \in Deploys,
         Start(d) \/ BulkUpload(d) \/ Verify(d) \/ Reupload(d) \/ Relist(d)
           \/ Push(d) \/ Reclaim(d) \/ Wait(d)
  PROVE  IInv'
  <1> DEFINE Early == Stages \ {"pinAgain", "statusAgain", "list", "delete"}
  <1>1. Tag[d] \in Builds /\ Objects(Tag[d]) \subseteq Builds \X Parts
    BY TagAssumption, ObjectsType
  <1>2. store \subseteq Builds \X Parts /\ faults \in 0..MaxFaults
    BY DEF IInv, TypeOK
  <1>3. {"idle", "bulk", "verify", "retry", "relist", "push", "apply", "wait", "reclaim",
         "done", "failed", "status"} \subseteq Early
    BY DEF Stages, Collecting
  <1>4. AfterUpload(d) \in Early /\ UploadFailed(d) \in Early
    BY <1>3 DEF AfterUpload, UploadFailed
  <1>5. CASE Start(d)
    <2>1. \E s \in Early : Goto(d, s)
      BY <1>3, <1>5 DEF Start
    <2> QED
      BY <1>2, <1>5, <2>1, DeployMoves DEF Start, At, Collecting
  <1>6. CASE BulkUpload(d)
    <2>1. PICK part \in SUBSET Objects(Tag[d]) :
            /\ Landed(Objects(Tag[d]), part)
            /\ store' = store \cup part
            /\ \/ Goto(d, "verify")
               \/ part # Objects(Tag[d]) /\ Goto(d, UploadFailed(d))
      BY <1>6 DEF BulkUpload
    <2>2. store' \subseteq Builds \X Parts /\ faults' \in 0..MaxFaults
      BY <1>1, <1>2, <2>1, LandedType
    <2>3. \E s \in Early : Goto(d, s)
      BY <1>3, <1>4, <2>1
    <2> QED
      BY <1>6, <2>2, <2>3, DeployMoves DEF BulkUpload, At, Collecting
  <1>7. CASE Verify(d)
    <2>1. \E s \in Early : Goto(d, s)
      BY <1>3, <1>4, <1>7 DEF Verify
    <2> QED
      BY <1>2, <1>7, <2>1, DeployMoves DEF Verify, At, Collecting
  <1>8. CASE Reupload(d)
    <2>1. PICK part \in SUBSET (Objects(Tag[d]) \ store) :
            Landed(Objects(Tag[d]) \ store, part) /\ store' = store \cup part
      BY <1>8 DEF Reupload
    <2>2. store' \subseteq Builds \X Parts /\ faults' \in 0..MaxFaults
      BY <1>1, <1>2, <2>1, LandedType
    <2> QED
      BY <1>3, <1>8, <2>2, DeployMoves DEF Reupload, At, Collecting
  <1>9. CASE Relist(d)
    <2>1. \E s \in Early : Goto(d, s)
      BY <1>3, <1>4, <1>9 DEF Relist
    <2> QED
      BY <1>2, <1>9, <2>1, DeployMoves DEF Relist, At, Collecting
  <1>10. CASE Push(d)
    <2>1. faults' \in 0..MaxFaults
      BY <1>10, FaultType DEF Push
    <2>2. \E s \in Early : Goto(d, s)
      BY <1>3, <1>10 DEF Push
    <2> QED
      BY <1>2, <1>10, <2>1, <2>2, DeployMoves DEF Push, At, Collecting
  <1>11. CASE Reclaim(d)
    <2>1. PICK part \in SUBSET (store \cap Objects(Tag[d])) :
            Landed(store \cap Objects(Tag[d]), part) /\ store' = store \ part
      BY <1>11 DEF Reclaim
    <2>2. store' \subseteq Builds \X Parts /\ faults' \in 0..MaxFaults
      BY <1>2, <2>1, LandedType
    <2> QED
      BY <1>3, <1>11, <2>2, DeployMoves DEF Reclaim, At, Collecting
  <1>12. CASE Wait(d)
    <2>1. \E s \in Early : Goto(d, s)
      BY <1>3, <1>12 DEF Wait
    <2> QED
      BY <1>2, <1>12, <2>1, DeployMoves DEF Wait, At, Collecting
  <1> QED
    BY <1>5, <1>6, <1>7, <1>8, <1>9, <1>10, <1>11, <1>12

\* An applied CR has a build, and its pin is the one it had.
LEMMA ApplyStep ==
  ASSUME IInv, NEW d \in Deploys, Apply(d)
  PROVE  IInv'
  <1>1. d \in Runs /\ d \notin Collectors /\ d \notin moved /\ Tag[d] \in Builds
    BY RunsAssumption, TagAssumption DEF Runs, Apply, At, IInv, TypeOK, Collecting
  <1>2. PICK s \in {"wait", "failed"} : Goto(d, s)
    BY DEF Apply
  <1>3. faults' \in 0..MaxFaults
    BY FaultType DEF Apply
  <1>4. revs' = revs /\ observed' = observed /\ cr'.pin = cr.pin
    BY DEF Apply, Applied, cluster, IInv, TypeOK
  <1>5. /\ cr' \in [build : Builds \cup {NoBuild}, pin : Pins, held : BOOLEAN]
        /\ rolled' \in BOOLEAN
        /\ ~rolled' => cr'.build \in Builds
    <2>1. cr \in [build : Builds \cup {NoBuild}, pin : Pins, held : BOOLEAN]
          /\ rolled \in BOOLEAN /\ (~rolled => cr.build \in Builds)
      BY DEF IInv, TypeOK, CrKnown
    <2>2. CASE Applied(d)
      BY <1>1, <2>1, <2>2 DEF Applied
    <2>3. CASE cr' = cr /\ rolled' = rolled
      BY <2>1, <2>3
    <2> QED
      BY <2>2, <2>3 DEF Apply, cluster
  <1>6. stage' \in [Runs -> Stages] /\ stage'[d] = s
        /\ \A r \in Runs \ {d} : stage'[r] = stage[r]
    BY <1>1, <1>2 DEF Goto, IInv, TypeOK, Stages
  <1>7. UNCHANGED <<store, plan, moved, first, shifts>>
    BY DEF Apply
  <1>8. TypeOK'
    <2>1. \A c \in Collectors : stage'[c] \in Collecting \cup {"idle", "done", "failed"}
      BY <1>1, <1>6 DEF IInv, TypeOK, Runs
    <2>2. moved' \subseteq {r \in Runs : stage'[r] \in Collecting}
      BY <1>1, <1>6, <1>7 DEF IInv, TypeOK
    <2> QED
      BY <1>3, <1>4, <1>5, <1>6, <1>7, <2>1, <2>2 DEF IInv, TypeOK
  <1>9. CrKnown'
    BY <1>4, <1>5 DEF IInv, CrKnown
  <1>10. Safe'
    <2> SUFFICES ASSUME NEW r \in Runs PROVE SafeAt(r, stage[r], plan[r], moved)'
      BY DEF Safe
    <2>1. SafeAt(r, stage[r], plan[r], moved)
      BY DEF IInv, Safe
    <2>2. CASE r = d
      BY <1>6, <2>2 DEF SafeAt
    <2>3. CASE r # d
      BY <1>4, <1>6, <1>7, <2>1, <2>3 DEF SafeAt, BuildsOf
    <2> QED
      BY <2>2, <2>3
  <1> QED
    BY <1>8, <1>9, <1>10 DEF IInv

\* A read of a collection keeps the invariant.
LEMMA ReadSteps ==
  ASSUME IInv, NEW r \in Runs,
         StartGc(r) \/ ReadFails(r) \/ ReadStatus(r) \/ ReadPin(r) \/ ReadPinAgain(r)
           \/ ReadStatusAgain(r) \/ Kill(r)
  PROVE  IInv'
  <1> DEFINE p == plan[r]
  <1>1. p \in PlanRecord /\ SafeAt(r, stage[r], p, moved)
    BY DEF IInv, TypeOK, Safe, PlanRecord
  <1>2. store \subseteq Builds \X Parts /\ first \subseteq Builds /\ faults \in 0..MaxFaults
    BY DEF IInv, TypeOK
  <1>3. {"status", "pin", "pinAgain", "statusAgain", "list"} \subseteq Stages \cap Collecting
    BY DEF Stages, Collecting
  <1>4. ASSUME NEW s \in {"status", "pin", "pinAgain", "statusAgain", "list"},
               NEW q \in PlanRecord, plan' = [plan EXCEPT ![r] = q],
               Advance(r, s), GcStep, SafeAt(r, s, q, moved)
        PROVE  IInv'
    BY <1>2, <1>3, <1>4, RunStep DEF Advance, Goto, GcStep, cluster
  <1>5. ASSUME Skip(r), GcStep PROVE IInv'
    BY <1>2, <1>5, StopStep DEF Skip, GcStep
  <1>6. plan = [plan EXCEPT ![r] = p]
    BY DEF IInv, TypeOK
  <1>7. CASE StartGc(r)
    <2>1. SafeAt(r, "status", p, moved)
      BY DEF SafeAt
    <2> QED
      BY <1>1, <1>4, <1>6, <1>7, <2>1 DEF StartGc
  <1>8. CASE ReadFails(r)
    BY <1>2, <1>8, FaultType, StopStep DEF ReadFails, GcStep
  <1>9. CASE ReadStatus(r)
    <2> DEFINE q == [p EXCEPT !.live = observed]
    <2>1. q \in PlanRecord
      BY <1>1 DEF IInv, TypeOK, PlanRecord
    <2>2. plan' = [plan EXCEPT ![r] = q]
      BY <1>9 DEF ReadStatus, Planned
    <2>3. SafeAt(r, "pin", q, moved)
      BY DEF SafeAt
    <2> QED
      BY <1>4, <1>9, <2>1, <2>2, <2>3 DEF ReadStatus
  <1>10. CASE ReadPin(r)
    <2>1. CASE Skip(r)
      BY <1>5, <1>10, <2>1 DEF ReadPin
    <2>2. CASE cr.pin # Gone /\ Pinned(r, p.live \cup {cr.pin})
      <3> DEFINE q == [p EXCEPT !.pin = cr.pin, !.keep = BuildsOf(p.live \cup {cr.pin})]
      <3>1. cr.pin \in Pins /\ cr.pin \in DOMAIN revs \cup {NoPin}
        BY <2>2 DEF IInv, TypeOK, CrKnown
      <3>2. BuildsOf(p.live \cup {cr.pin}) \subseteq Builds
        BY RevisionBuilds DEF IInv
      <3>3. q \in PlanRecord /\ q.pin = cr.pin /\ q.live = p.live
            /\ q.keep = BuildsOf(p.live \cup {cr.pin})
        BY <1>1, <3>1, <3>2 DEF PlanRecord
      <3>4. plan' = [plan EXCEPT ![r] = q]
        BY <2>2 DEF Pinned
      <3>5. SafeAt(r, "pinAgain", q, moved)
        BY <3>1, <3>3 DEF SafeAt
      <3> QED
        BY <1>4, <1>10, <2>2, <3>3, <3>4, <3>5 DEF ReadPin, Pinned
    <2> QED
      BY <1>10, <2>1, <2>2 DEF ReadPin
  <1>11. CASE ReadPinAgain(r)
    <2>1. CASE Skip(r)
      BY <1>5, <1>11, <2>1 DEF ReadPinAgain
    <2>2. CASE cr.pin = p.pin /\ Advance(r, "statusAgain") /\ UNCHANGED plan
      <3>1. SafeAt(r, "statusAgain", p, moved)
        BY <1>1, <1>11, <2>2 DEF SafeAt, ReadPinAgain, At
      <3> QED
        BY <1>1, <1>4, <1>6, <1>11, <2>2, <3>1 DEF ReadPinAgain
    <2> QED
      BY <1>11, <2>1, <2>2 DEF ReadPinAgain
  <1>12. CASE ReadStatusAgain(r)
    <2>1. CASE Skip(r)
      BY <1>5, <1>12, <2>1 DEF ReadStatusAgain
    <2>2. CASE /\ observed = p.live
               /\ plan' = [plan EXCEPT ![r] = [NoPlan EXCEPT !.keep = p.keep]]
               /\ Advance(r, "list")
      <3> DEFINE q == [NoPlan EXCEPT !.keep = p.keep]
      <3>1. q \in PlanRecord /\ q.keep = p.keep
        BY <1>1, NoPlanType DEF PlanRecord
      <3>2. r \notin moved => p.keep = BuildsOf(observed \cup {cr.pin})
        BY <1>1, <1>12, <2>2 DEF SafeAt, ReadStatusAgain, At
      <3>3. SafeAt(r, "list", q, moved)
        BY <3>1, <3>2 DEF SafeAt
      <3> QED
        BY <1>4, <1>12, <2>2, <3>1, <3>3 DEF ReadStatusAgain
    <2> QED
      BY <1>12, <2>1, <2>2 DEF ReadStatusAgain
  <1>13. CASE Kill(r)
    BY <1>2, <1>13, FaultType, StopStep DEF Kill, GcStep
  <1> QED
    BY <1>7, <1>8, <1>9, <1>10, <1>11, <1>12, <1>13

\* What a collection leaves to delete, apart from what it keeps, keeps the
\* invariant.
LEMMA ReapingStep ==
  ASSUME IInv, NEW r \in Runs, stage[r] \in {"list", "delete"},
         NEW left \in SUBSET Builds, left \cap plan[r].keep = {}, Reaping(r, left),
         UNCHANGED <<cluster, shifts>>,
         store' \subseteq Builds \X Parts, first' \subseteq Builds,
         faults' \in 0..MaxFaults
  PROVE  IInv'
  <1>1. CASE Stop(r, "done")
    BY <1>1, StopStep
  <1>2. CASE Planned(r, "reap", left) /\ Goto(r, "delete") /\ UNCHANGED moved
    <2> DEFINE p == plan[r]
               q == [p EXCEPT !.reap = left]
    <2>1. p \in PlanRecord /\ SafeAt(r, stage[r], p, moved)
      BY DEF IInv, TypeOK, Safe, PlanRecord
    <2>2. q \in PlanRecord /\ q.keep = p.keep /\ q.reap = left
      BY <2>1 DEF PlanRecord
    <2>3. plan' = [plan EXCEPT ![r] = q]
      BY <1>2 DEF Planned
    <2>4. SafeAt(r, "delete", q, moved')
      BY <1>2, <2>1, <2>2 DEF SafeAt
    <2>5. "delete" \in Stages \cap Collecting
      BY DEF Stages, Collecting
    <2> QED
      BY <1>2, <2>2, <2>3, <2>4, <2>5, RunStep DEF Goto, cluster
  <1> QED
    BY <1>1, <1>2 DEF Reaping

\* A listing and a deletion keep the invariant.
LEMMA ReapSteps ==
  ASSUME IInv, NEW r \in Runs, List(r) \/ Delete(r)
  PROVE  IInv'
  <1>1. store \subseteq Builds \X Parts /\ first \subseteq Builds /\ faults \in 0..MaxFaults
    BY DEF IInv, TypeOK
  <1>2. plan[r] \in PlanRecord /\ SafeAt(r, stage[r], plan[r], moved)
    BY DEF IInv, TypeOK, Safe, PlanRecord
  <1>3. CASE List(r)
    <2>1. CASE Fault /\ Stop(r, "done") /\ UNCHANGED first
      BY <1>1, <1>3, <2>1, FaultType, StopStep DEF List
    <2>2. ASSUME NEW new \in NewestOf(r), Prune(r, new), UNCHANGED faults
          PROVE  IInv'
      <3> DEFINE cands == {b \in Builds : Marked(b)}
                 left == (cands \ Window(cands, new)) \ plan[r].keep
      <3>1. Reaping(r, left) /\ first' = first \cup ({new} \ {NoBuild})
        BY <2>2 DEF Prune
      <3>2. left \in SUBSET Builds /\ left \cap plan[r].keep = {}
        OBVIOUS
      <3>3. new \in Builds \cup {NoBuild}
        BY TagAssumption DEF NewestOf
      <3>4. UNCHANGED <<store, cluster, shifts>> /\ stage[r] = "list"
        BY <1>3 DEF List, At
      <3> HIDE DEF left
      <3> QED
        BY <1>1, <2>2, <3>1, <3>2, <3>3, <3>4, ReapingStep
    <2> QED
      BY <1>3, <2>1, <2>2 DEF List
  <1>4. CASE Delete(r)
    <2>1. PICK b \in plan[r].reap :
            /\ \E part \in SUBSET (store \cap Objects(b)) :
                 Landed(store \cap Objects(b), part) /\ store' = store \ part
            /\ Reaping(r, plan[r].reap \ {b})
      BY <1>4 DEF Delete
    <2>2. store' \subseteq Builds \X Parts /\ faults' \in 0..MaxFaults
      BY <1>1, <2>1, LandedType
    <2>3. stage[r] = "delete" /\ UNCHANGED <<cluster, first, shifts>>
      BY <1>4 DEF Delete, At
    <2>4. plan[r].reap \ {b} \in SUBSET Builds /\ (plan[r].reap \ {b}) \cap plan[r].keep = {}
      BY <1>2, <2>3 DEF PlanRecord, SafeAt
    <2> QED
      BY <1>1, <2>1, <2>2, <2>3, <2>4, ReapingStep
  <1> QED
    BY <1>3, <1>4

-----------------------------------------------------------------------------
(* The steps of the cluster.                                               *)

\* A change of the pin or of the status that every run past its second read of
\* what changed has missed keeps the runs safe.
LEMMA ChangeKeepsSafe ==
  ASSUME IInv, UNCHANGED <<revs, stage, plan>>,
         NEW stages, Changed(stages), {"list", "delete"} \subseteq stages,
         cr'.pin = cr.pin \/ "statusAgain" \in stages
  PROVE  Safe'
  <1> SUFFICES ASSUME NEW r \in Runs PROVE SafeAt(r, stage[r], plan[r], moved)'
    BY DEF Safe
  <1>1. SafeAt(r, stage[r], plan[r], moved)
    BY DEF IInv, Safe
  <1>2. moved' = moved \cup {q \in Runs : stage[q] \in stages}
    BY DEF Changed
  <1>3. stage[r] \in stages => r \in moved'
    BY <1>2
  <1>4. r \in moved => r \in moved'
    BY <1>2
  <1> QED
    BY <1>1, <1>3, <1>4 DEF SafeAt, BuildsOf

\* The runs that missed a change are collecting.
LEMMA ChangedType ==
  ASSUME IInv, UNCHANGED stage, NEW stages \in SUBSET Collecting, Changed(stages)
  PROVE  moved' \subseteq {r \in Runs : stage'[r] \in Collecting}
  BY DEF IInv, TypeOK, Changed

\* A change of the pin keeps the invariant.
LEMMA ShiftStep ==
  ASSUME IInv, NEW pin \in DOMAIN revs \cup {Gone, NoPin}, Shift(pin),
         shifts' \in 0..MaxShifts
  PROVE  IInv'
  <1>1. {"statusAgain", "list", "delete"} \in SUBSET Collecting
    BY DEF Collecting
  <1>2. pin \in Pins
    BY DEF IInv, TypeOK, Pins, NoPin
  <1>3. cr' \in [build : Builds \cup {NoBuild}, pin : Pins, held : BOOLEAN]
        /\ cr'.pin = pin /\ cr'.build = cr.build
    BY <1>2 DEF Shift, IInv, TypeOK
  <1>4. TypeOK'
    BY <1>1, <1>3, ChangedType DEF IInv, TypeOK, Shift
  <1>5. CrKnown'
    BY <1>3 DEF IInv, CrKnown, Shift
  <1>6. Safe'
    BY ChangeKeepsSafe DEF Shift
  <1> QED
    BY <1>4, <1>5, <1>6 DEF IInv

\* A change of the status keeps the invariant.
LEMMA StatusStep ==
  ASSUME IInv, Observe \/ Wipe
  PROVE  IInv'
  <1>1. {"list", "delete"} \in SUBSET Collecting /\ Changed({"list", "delete"})
    BY DEF Collecting, Observe, Wipe
  <1>2. observed' \subseteq DOMAIN revs
    <2>1. Latest \subseteq DOMAIN revs
      BY DEF Latest, Ready
    <2>2. cr.pin \in DOMAIN revs \/ cr.pin = Gone \/ cr.pin = NoPin
      BY DEF IInv, CrKnown
    <2>3. \A t \in Targets : t \subseteq DOMAIN revs
      BY <2>1, <2>2 DEF Targets, IInv, TypeOK
    <2> QED
      BY <2>3 DEF Observe, Wipe
  <1>3. faults' \in 0..MaxFaults
    BY FaultType DEF Observe, Wipe
  <1>4. UNCHANGED <<store, cr, rolled, revs, stage, plan, first, shifts>>
    BY DEF Observe, Wipe
  <1>5. TypeOK'
    BY <1>1, <1>2, <1>3, <1>4, ChangedType DEF IInv, TypeOK
  <1>6. CrKnown'
    BY <1>4 DEF IInv, CrKnown
  <1>7. Safe'
    BY <1>1, <1>4, ChangeKeepsSafe
  <1> QED
    BY <1>5, <1>6, <1>7 DEF IInv

\* A change that is held keeps the invariant.
LEMMA HoldStep ==
  ASSUME IInv, Hold PROVE IInv'
  <1>1. cr' \in [build : Builds \cup {NoBuild}, pin : Pins, held : BOOLEAN]
        /\ cr'.pin = cr.pin
    BY DEF Hold, IInv, TypeOK
  <1>2. faults' \in 0..MaxFaults
    BY FaultType DEF Hold
  <1>3. TypeOK'
    BY <1>1, <1>2 DEF Hold, IInv, TypeOK
  <1>4. CrKnown'
    BY <1>1 DEF Hold, IInv, CrKnown
  <1>5. Safe'
    BY <1>1 DEF Hold, IInv, Safe, SafeAt, BuildsOf
  <1> QED
    BY <1>3, <1>4, <1>5 DEF IInv

\* A revision that is added leaves the builds of the others as they are.
LEMMA RollOutStep ==
  ASSUME IInv, RollOut PROVE IInv'
  <1>1. PICK ready \in BOOLEAN :
          /\ revs' = Append(revs, [build |-> cr.build, ready |-> ready])
          /\ IF ready THEN faults' = faults ELSE Fault
    BY DEF RollOut
  <1>2. cr.build \in Builds /\ UNCHANGED <<store, cr, observed, stage, plan, moved, first, shifts>>
        /\ rolled' = TRUE
    BY DEF RollOut, IInv, CrKnown
  <1> DEFINE T == [build : Builds, ready : BOOLEAN]
             x == [build |-> cr.build, ready |-> ready]
  <1>3. x \in T
    BY <1>2
  <1>4. revs \in Seq(T)
    BY DEF IInv, TypeOK
  <1>5. /\ revs' \in Seq(T)
        /\ DOMAIN revs' = DOMAIN revs \cup {Len(revs) + 1}
        /\ \A i \in DOMAIN revs : revs'[i] = revs[i]
    <2> HIDE DEF T, x
    <2> QED
      BY <1>1, <1>3, <1>4 DEF x
  <1>6. \A S \in SUBSET (DOMAIN revs \cup {NoPin, Gone}) :
          {revs'[i].build : i \in S \cap DOMAIN revs'} = {revs[i].build : i \in S \cap DOMAIN revs}
    <2> SUFFICES ASSUME NEW S \in SUBSET (DOMAIN revs \cup {NoPin, Gone})
                 PROVE  {revs'[i].build : i \in S \cap DOMAIN revs'}
                          = {revs[i].build : i \in S \cap DOMAIN revs}
      OBVIOUS
    <2>1. Len(revs) \in Nat /\ DOMAIN revs = 1..Len(revs)
      BY <1>4
    <2>2. S \cap DOMAIN revs' = S \cap DOMAIN revs
      BY <1>5, <2>1 DEF NoPin, Gone
    <2> QED
      BY <1>5, <2>2
  <1>7. TypeOK'
    <2>1. faults' \in 0..MaxFaults
      BY <1>1, FaultType
    <2>2. plan' \in [Runs -> PlanRecord]'
      BY <1>2, <1>5 DEF IInv, TypeOK, PlanRecord
    <2> QED
      BY <1>2, <1>5, <2>1, <2>2 DEF IInv, TypeOK, PlanRecord
  <1>8. CrKnown'
    BY <1>2, <1>5 DEF IInv, CrKnown
  <1>9. Safe'
    <2> SUFFICES ASSUME NEW r \in Runs PROVE SafeAt(r, stage[r], plan[r], moved)'
      BY DEF Safe
    <2>1. SafeAt(r, stage[r], plan[r], moved) /\ plan[r] \in PlanRecord
      BY DEF IInv, Safe, TypeOK, PlanRecord
    <2>2. observed \cup {cr.pin} \in SUBSET (DOMAIN revs \cup {NoPin, Gone})
      BY DEF IInv, TypeOK, CrKnown
    <2>3. BuildsOf(observed \cup {cr.pin})' = BuildsOf(observed \cup {cr.pin})
      BY <1>2, <1>6, <2>2 DEF BuildsOf
    <2>4. plan[r].pin \in DOMAIN revs \cup {NoPin} =>
            BuildsOf(plan[r].live \cup {plan[r].pin})' = BuildsOf(plan[r].live \cup {plan[r].pin})
      BY <1>2, <1>6, <2>1 DEF BuildsOf, PlanRecord
    <2> QED
      BY <1>2, <1>5, <2>1, <2>3, <2>4 DEF SafeAt
  <1> QED
    BY <1>7, <1>8, <1>9 DEF IInv

\* Every step keeps the invariant.
LEMMA NextInv ==
  ASSUME IInv, [Next]_vars
  PROVE  IInv'
  <1>1. CASE UNCHANGED vars
    BY <1>1 DEF vars, cluster, IInv, TypeOK, CrKnown, Safe, SafeAt, BuildsOf
  <1>2. ASSUME NEW d \in Deploys, DeployStep(d) PROVE IInv'
    BY <1>2, UploadSteps, ApplyStep DEF DeployStep
  <1>3. ASSUME NEW r \in Runs, CollectStep(r) \/ Kill(r) PROVE IInv'
    BY <1>3, ReadSteps, ReapSteps DEF CollectStep
  <1>4. CASE Rollback
    <2>1. PICK i \in DOMAIN revs \cup {Gone} : Shift(i)
      BY <1>4 DEF Rollback
    <2>2. shifts' \in 0..MaxShifts
      BY <1>4, BoundsAssumption DEF Rollback, IInv, TypeOK
    <2> QED
      BY <2>1, <2>2, ShiftStep
  <1>5. CASE ClearPin
    <2>1. shifts' \in 0..MaxShifts
      BY <1>5 DEF ClearPin, IInv, TypeOK
    <2> QED
      BY <1>5, <2>1, ShiftStep DEF ClearPin
  <1> QED
    BY <1>1, <1>2, <1>3, <1>4, <1>5, HoldStep, RollOutStep, StatusStep DEF Next

\* The invariant holds throughout.
LEMMA SpecInv == Spec => []IInv
  BY InitInv, NextInv, PTL DEF Spec

-----------------------------------------------------------------------------
(* The theorems.                                                           *)

\* Every variable keeps its type.
THEOREM AssetTypeOK == Spec => []TypeOK
  <1>1. IInv => TypeOK
    BY DEF IInv
  <1> QED
    BY <1>1, SpecInv, PTL

\* A step that changes the plan of a run and the store is a deletion of that run.
LEMMA OnlyDeletes ==
  ASSUME IInv, Next, NEW r \in Runs, plan'[r] # plan[r], ~(store \subseteq store')
  PROVE  Delete(r)
  <1>1. \A q \in Runs : plan' = plan \/ q = r \/ ~CollectStep(q)
    <2> SUFFICES ASSUME NEW q \in Runs, q # r, CollectStep(q) PROVE plan'[r] = plan[r]
      OBVIOUS
    <2>1. r \in DOMAIN plan
      BY DEF IInv, TypeOK
    <2>2. StartGc(q) \/ ReadFails(q) \/ ReadStatus(q) \/ ReadPin(q) \/ ReadPinAgain(q)
            \/ ReadStatusAgain(q) \/ List(q) \/ Delete(q)
      BY DEF CollectStep
    <2> QED
      BY <2>1, <2>2
      DEF StartGc, ReadFails, ReadStatus, ReadPin, ReadPinAgain, ReadStatusAgain, List,
          Delete, Prune, Reaping, Planned, Pinned, Stop, Skip
  <1>2. \A d \in Deploys : ~DeployStep(d)
    BY DEF DeployStep, Start, BulkUpload, Verify, Reupload, Relist, Push, Reclaim, Apply, Wait
  <1>3. ~Rollback /\ ~ClearPin /\ ~Hold /\ ~RollOut /\ ~Observe /\ ~Wipe
    BY DEF Rollback, ClearPin, Shift, Hold, RollOut, Observe, Wipe
  <1>4. \A q \in Runs : ~Kill(q)
    BY DEF Kill, GcStep
  <1>5. CollectStep(r)
    BY <1>1, <1>2, <1>3, <1>4 DEF Next
  <1> QED
    BY <1>5
    DEF CollectStep, StartGc, ReadFails, ReadStatus, ReadPin, ReadPinAgain, ReadStatusAgain,
        List, GcStep

\* No collection deletes the assets of a revision that the status names or the
\* CR pins: what it keeps holds them, unless they changed after its second read.
THEOREM AssetNeverReapsProtected == Spec => NeverReapsProtected
  <1> DEFINE Spared == \A r \in Runs :
               plan'[r] # plan[r] /\ r \notin moved =>
                 \A b \in BuildsOf(observed \cup {cr.pin}) :
                   store \cap Objects(b) \subseteq store'
  <1>1. ASSUME IInv, [Next]_vars PROVE [Spared]_vars
    <2> SUFFICES ASSUME Next, NEW r \in Runs, plan'[r] # plan[r], r \notin moved,
                        NEW b \in BuildsOf(observed \cup {cr.pin}), ~(store \subseteq store')
                 PROVE  store \cap Objects(b) \subseteq store'
      BY <1>1
    <2>1. Delete(r)
      BY <1>1, OnlyDeletes
    <2>2. PICK a \in plan[r].reap : \E part \in SUBSET (store \cap Objects(a)) :
                                     store' = store \ part
      BY <2>1 DEF Delete
    <2>3. SafeAt(r, "delete", plan[r], moved)
      BY <1>1, <2>1 DEF IInv, Safe, Delete, At
    <2>4. a # b
      BY <2>2, <2>3 DEF SafeAt
    <2> QED
      BY <2>2, <2>4 DEF Objects
  <1> QED
    BY <1>1, SpecInv, PTL DEF Spec, NeverReapsProtected

\* The build ids of the deploys are their own: no two deploys share one, and none
\* was deployed before.
OwnTags ==
  /\ \A d, e \in Deploys : Tag[d] = Tag[e] => d = e
  /\ \A d \in Deploys, i \in DOMAIN Past : Tag[d] # Past[i]

\* The stages of a deploy whose CR is not applied.
Unapplied == {"idle", "bulk", "verify", "retry", "relist", "push", "reclaim", "apply"}

\* The build of a deploy whose CR is not applied is neither in the CR nor rolled
\* out.
Unknown ==
  \A d \in Deploys : stage[d] \in Unapplied =>
    Tag[d] # cr.build /\ \A i \in DOMAIN revs : Tag[d] # revs[i].build

\* At first none of them is.
LEMMA InitUnknown ==
  ASSUME OwnTags, Init PROVE Unknown
  <1>1. \A d \in Deploys : Tag[d] # cr.build
    <2>1. CASE Past = <<>>
      BY <2>1, TagAssumption DEF Init
    <2>2. CASE Past # <<>>
      <3>1. Len(Past) \in DOMAIN Past
        BY <2>2, PastAssumption
      <3> QED
        BY <2>2, <3>1 DEF Init, OwnTags
    <2> QED
      BY <2>1, <2>2
  <1>2. \A i \in DOMAIN revs : i \in DOMAIN Past /\ revs[i].build = Past[i]
    BY DEF Init
  <1> QED
    BY <1>1, <1>2 DEF Unknown, OwnTags

\* A step of a deploy leaves the builds of the others unknown.
LEMMA DeployUnknown ==
  ASSUME OwnTags, IInv, Unknown, NEW e \in Deploys, DeployStep(e)
  PROVE  Unknown'
  <1> SUFFICES ASSUME NEW d \in Deploys, stage'[d] \in Unapplied
               PROVE  Tag[d] # cr'.build /\ \A i \in DOMAIN revs' : Tag[d] # revs'[i].build
    BY DEF Unknown
  <1>1. stage \in [Runs -> Stages] /\ e \in Runs /\ d \in Runs
    BY DEF IInv, TypeOK, Runs
  <1>2. PICK s : Goto(e, s)
    BY DEF DeployStep, Start, BulkUpload, Verify, Reupload, Relist, Push, Reclaim, Apply, Wait
  <1>3. stage'[e] = s /\ (d # e => stage'[d] = stage[d])
    BY <1>1, <1>2 DEF Goto
  <1>4. CASE Apply(e)
    <2>1. d # e /\ stage[d] \in Unapplied
      BY <1>1, <1>3, <1>4 DEF Apply, Goto, Unapplied
    <2>2. revs' = revs /\ (cr' = cr \/ cr'.build = Tag[e])
      BY <1>4 DEF Apply, Applied, cluster, IInv, TypeOK
    <2> QED
      BY <2>1, <2>2 DEF Unknown, OwnTags
  <1>5. CASE ~Apply(e)
    <2>1. stage[e] \in Unapplied \/ Wait(e)
      BY <1>5 DEF DeployStep, Start, BulkUpload, Verify, Reupload, Relist, Push, Reclaim, At,
                  Unapplied
    <2>2. Wait(e) => stage'[e] \notin Unapplied
      BY <1>1 DEF Wait, Goto, Unapplied
    <2>3. cr' = cr /\ revs' = revs
      BY <1>5 DEF DeployStep, Start, BulkUpload, Verify, Reupload, Relist, Push, Reclaim, Wait,
                  cluster
    <2>4. stage[d] \in Unapplied
      BY <1>3, <2>1, <2>2
    <2> QED
      BY <2>3, <2>4 DEF Unknown
  <1> QED
    BY <1>4, <1>5

\* A step of a collection, or its end, does.
LEMMA CollectUnknown ==
  ASSUME IInv, Unknown, NEW r \in Runs, CollectStep(r) \/ Kill(r)
  PROVE  Unknown'
  <1>1. PICK s \in Stages \ Unapplied : Goto(r, s)
    BY DEF CollectStep, StartGc, ReadFails, ReadStatus, ReadPin, ReadPinAgain, ReadStatusAgain,
           List, Delete, Kill, Prune, Reaping, Advance, Skip, Stop, Pinned, Stages, Collecting,
           Unapplied
  <1>2. cr' = cr /\ revs' = revs
    BY DEF CollectStep, StartGc, ReadFails, ReadStatus, ReadPin, ReadPinAgain, ReadStatusAgain,
           List, Delete, Kill, GcStep, cluster
  <1>3. \A d \in Deploys : stage'[d] \in Unapplied => stage[d] \in Unapplied
    BY <1>1 DEF Goto, IInv, TypeOK, Runs
  <1> QED
    BY <1>2, <1>3 DEF Unknown

\* So does every step.
LEMMA NextUnknown ==
  ASSUME OwnTags, IInv, Unknown, [Next]_vars
  PROVE  Unknown'
  <1>1. CASE UNCHANGED vars
    BY <1>1 DEF vars, cluster, Unknown
  <1>2. CASE Rollback \/ ClearPin \/ Hold \/ Observe \/ Wipe
    <2>1. stage' = stage /\ revs' = revs /\ cr'.build = cr.build
      BY <1>2 DEF Rollback, ClearPin, Shift, Hold, Observe, Wipe, IInv, TypeOK
    <2> QED
      BY <2>1 DEF Unknown
  <1>3. CASE RollOut
    <2>1. PICK x : x.build = cr.build /\ revs' = Append(revs, x)
      BY <1>3 DEF RollOut
    <2>2. cr' = cr /\ stage' = stage
      BY <1>3 DEF RollOut
    <2>3. \A i \in DOMAIN revs' : (i \in DOMAIN revs /\ revs'[i] = revs[i]) \/ revs'[i] = x
      BY <2>1 DEF IInv, TypeOK
    <2> QED
      BY <2>1, <2>2, <2>3 DEF Unknown
  <1> QED
    BY <1>1, <1>2, <1>3, DeployUnknown, CollectUnknown DEF Next

\* If build ids are their own, no failed deploy reclaims the assets of a build
\* that a revision or the CR has: the premise that --tag can break.
THEOREM AssetReclaimSparesLive == OwnTags => (Spec => ReclaimSparesLive)
  <1> SUFFICES ASSUME OwnTags PROVE Spec => ReclaimSparesLive
    OBVIOUS
  <1> DEFINE Spared == \A d \in Deploys :
               At(d, "reclaim") /\ stage'[d] # "reclaim" /\ store' # store =>
                 Tag[d] \notin BuildsOf(DOMAIN revs) \cup {cr.build}
  <1>1. Init => Unknown
    BY InitUnknown
  <1>2. IInv /\ Unknown /\ [Next]_vars => Unknown'
    BY NextUnknown
  <1>3. Unknown => Spared
    BY DEF Unknown, Unapplied, At, BuildsOf
  <1>4. Spec => []Unknown
    BY <1>1, <1>2, SpecInv, PTL DEF Spec
  <1> QED
    BY <1>3, <1>4, PTL DEF Spec, ReclaimSparesLive
=============================================================================
