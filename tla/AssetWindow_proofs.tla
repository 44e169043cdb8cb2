-------------------------- MODULE AssetWindow_proofs --------------------------
(***************************************************************************)
(* The retention window of an app's assets: a build that fewer than Retain *)
(* builds are newer than stays whole, for any number of deploys,           *)
(* collections, builds, rollbacks and faults, if build ids are their own.  *)
(***************************************************************************)
EXTENDS AssetDeploys_proofs, FiniteSetTheorems

-----------------------------------------------------------------------------
(* The inductive invariant.                                                *)

Earlier == {Past[i] : i \in DOMAIN Past}
Begun == {d \in Deploys : stage[d] # "idle"}
BegunTags == {Tag[d] : d \in Begun}

\* Finitely many builds count against another, however many deploys there may be.
Counted == IsFiniteSet(BegunTags) /\ IsFiniteSet(first)

\* What is in the store was served before, or uploaded by a deploy.
Known == \A b \in Builds, part \in Parts : <<b, part>> \in store => b \in Earlier \cup BegunTags

Ranked == Counted /\ Known /\ ReapOutranked

\* The builds served before are finitely many.
LEMMA EarlierFinite == IsFiniteSet(Earlier)
  <1> DEFINE n == Len(Past)
             f == [i \in 1..n |-> Past[i]]
  <1>1. n \in Nat /\ DOMAIN Past = 1..n
    BY PastAssumption
  <1>2. f \in Surjection(1..n, Earlier)
    BY <1>1 DEF Surjection, Earlier
  <1>3. ExistsSurjection(1..n, Earlier)
    BY <1>2 DEF ExistsSurjection
  <1> QED
    BY <1>1, <1>3, FS_NatSurjection

\* The rivals of a build are finitely many.
LEMMA RivalsFinite ==
  ASSUME Counted, NEW b
  PROVE  IsFiniteSet(Rivals(b)) /\ Cardinality(Rivals(b)) \in Nat
  <1> DEFINE All == Earlier \cup (BegunTags \cup first)
  <1>1. IsFiniteSet(All)
    BY EarlierFinite, FS_Union DEF Counted
  <1>2. Rivals(b) \in SUBSET All
    BY DEF Rivals, Earlier, BegunTags, Begun
  <1>3. IsFiniteSet(Rivals(b))
    BY <1>1, <1>2, FS_Subset
  <1> QED
    BY <1>3, FS_CardinalityType

-----------------------------------------------------------------------------
(* What one step may do to the runs and to the store.                       *)

\* A step of a deploy before it collects takes it to another stage than idle.
LEMMA DeployGoes ==
  ASSUME NEW d \in Deploys, DeployStep(d)
  PROVE  /\ \E s \in Stages \ {"idle"} : Goto(d, s)
         /\ plan' = plan /\ first' = first
  BY DEF DeployStep, Start, BulkUpload, Verify, Reupload, Relist, Push, Reclaim, Apply, Wait,
         AfterUpload, UploadFailed, Goto, Stages, Collecting

\* So does a step of a collection, or its end.
LEMMA CollectGoes ==
  ASSUME NEW r \in Runs, CollectStep(r) \/ Kill(r)
  PROVE  \E s \in Stages \ Unapplied : Goto(r, s)
  BY DEF CollectStep, StartGc, ReadFails, ReadStatus, ReadPin, ReadPinAgain, ReadStatusAgain,
         List, Delete, Kill, Prune, Reaping, Advance, Skip, Stop, Pinned, Stages, Collecting,
         Unapplied

\* No run becomes idle again, one begins at most, and a collection that plans
\* adds at most the build it takes for the newest.
LEMMA RivalsGrow ==
  ASSUME IInv, Counted, [Next]_vars
  PROVE  /\ Counted' /\ Begun \subseteq Begun' /\ BegunTags \subseteq BegunTags'
         /\ first \subseteq first'
         /\ \A b : /\ Cardinality(Rivals(b)) \in Nat
                   /\ Cardinality(Rivals(b)) <= Cardinality(Rivals(b)')
  <1>0. stage \in [Runs -> Stages] /\ Deploys \subseteq Runs
    BY DEF IInv, TypeOK, Runs
  <1>1. stage' = stage \/ \E r \in Runs, s \in Stages \ {"idle"} : Goto(r, s)
    <2>1. CASE UNCHANGED vars
      BY <2>1 DEF vars
    <2>2. ASSUME NEW d \in Deploys, DeployStep(d)
          PROVE  \E r \in Runs, s \in Stages \ {"idle"} : Goto(r, s)
      BY <1>0, <2>2, DeployGoes
    <2>3. ASSUME NEW r \in Runs, CollectStep(r) \/ Kill(r)
          PROVE  \E s \in Stages \ {"idle"} : Goto(r, s)
      BY <2>3, CollectGoes DEF Unapplied
    <2>4. CASE Rollback \/ ClearPin \/ Hold \/ RollOut \/ Observe \/ Wipe
      BY <2>4 DEF Rollback, ClearPin, Shift, Hold, RollOut, Observe, Wipe
    <2> QED
      BY <2>1, <2>2, <2>3, <2>4 DEF Next
  <1>2. \E x : Begun \subseteq Begun' /\ Begun' \subseteq Begun \cup {x}
    <2>1. CASE stage' = stage
      BY <2>1 DEF Begun
    <2>2. ASSUME NEW r \in Runs, NEW s \in Stages \ {"idle"}, Goto(r, s)
          PROVE  Begun \subseteq Begun' /\ Begun' \subseteq Begun \cup {r}
      BY <1>0, <2>2 DEF Goto, Begun
    <2> QED
      BY <1>1, <2>1, <2>2
  <1>3. PICK x : Begun \subseteq Begun' /\ Begun' \subseteq Begun \cup {x}
    BY <1>2
  <1>4. BegunTags \subseteq BegunTags' /\ BegunTags' \subseteq BegunTags \cup {Tag[x]}
    BY <1>3 DEF BegunTags
  <1>5. \E y : first \subseteq first' /\ first' \subseteq first \cup {y}
    <2>1. CASE first' = first
      BY <2>1
    <2>2. ASSUME NEW r \in Runs, List(r)
          PROVE  \E y : first \subseteq first' /\ first' \subseteq first \cup {y}
      BY <2>2 DEF List, Prune
    <2>3. ASSUME NEW r \in Runs, CollectStep(r) \/ Kill(r), ~List(r)
          PROVE  first' = first
      BY <2>3 DEF CollectStep, StartGc, ReadFails, ReadStatus, ReadPin, ReadPinAgain,
                  ReadStatusAgain, Delete, Kill, GcStep
    <2>4. CASE UNCHANGED vars \/ Rollback \/ ClearPin \/ Hold \/ RollOut \/ Observe \/ Wipe
      BY <2>4 DEF vars, Rollback, ClearPin, Shift, Hold, RollOut, Observe, Wipe
    <2> QED
      BY <2>1, <2>2, <2>3, <2>4, DeployGoes DEF Next
  <1>6. PICK y : first \subseteq first' /\ first' \subseteq first \cup {y}
    BY <1>5
  <1>7. Counted'
    <2>1. IsFiniteSet(BegunTags \cup {Tag[x]}) /\ IsFiniteSet(first \cup {y})
      BY FS_AddElement DEF Counted
    <2> QED
      BY <1>4, <1>6, <2>1, FS_Subset DEF Counted
  <1>8. ASSUME NEW b
        PROVE  /\ Cardinality(Rivals(b)) \in Nat
               /\ Cardinality(Rivals(b)) <= Cardinality(Rivals(b)')
    <2>1. Rivals(b) \subseteq Rivals(b)'
      BY <1>3, <1>6 DEF Rivals, Begun
    <2>2. IsFiniteSet(Rivals(b)')
      <3> DEFINE All == Earlier \cup (BegunTags' \cup first')
      <3>1. IsFiniteSet(All)
        BY <1>7, EarlierFinite, FS_Union DEF Counted
      <3>2. Rivals(b)' \in SUBSET All
        BY DEF Rivals, Earlier, BegunTags, Begun
      <3> QED
        BY <3>1, <3>2, FS_Subset
    <2> QED
      BY <2>1, <2>2, RivalsFinite, FS_Subset
  <1> QED
    BY <1>3, <1>4, <1>6, <1>7, <1>8

\* What leaves the store is reclaimed by a failed deploy, or deleted by a
\* collection that planned it; what enters it is uploaded.
LEMMA StoreMoves ==
  ASSUME IInv, [Next]_vars, NEW o
  PROVE  /\ o \in store \ store' =>
              \/ \E d \in Deploys : stage[d] = "reclaim" /\ o \in Objects(Tag[d])
              \/ \E r \in Runs : \E b \in plan[r].reap : o \in Objects(b)
         /\ o \in store' \ store =>
              \E d \in Deploys : stage[d] # "idle" /\ o \in Objects(Tag[d])
  <1> DEFINE Moves ==
        /\ o \in store \ store' =>
             \/ \E d \in Deploys : stage[d] = "reclaim" /\ o \in Objects(Tag[d])
             \/ \E r \in Runs : \E b \in plan[r].reap : o \in Objects(b)
        /\ o \in store' \ store =>
             \E d \in Deploys : stage[d] # "idle" /\ o \in Objects(Tag[d])
  <1>1. ASSUME NEW d \in Deploys, DeployStep(d) PROVE Moves
    <2>1. CASE BulkUpload(d) \/ Reupload(d)
      <3>1. PICK part : part \subseteq Objects(Tag[d]) /\ store' = store \cup part
        BY <2>1 DEF BulkUpload, Reupload
      <3>2. stage[d] # "idle"
        BY <2>1 DEF BulkUpload, Reupload, At
      <3> QED
        BY <3>1, <3>2
    <2>2. CASE Reclaim(d)
      <3>1. PICK part : part \subseteq Objects(Tag[d]) /\ store' = store \ part
        BY <2>2 DEF Reclaim
      <3>2. stage[d] = "reclaim"
        BY <2>2 DEF Reclaim, At
      <3> QED
        BY <3>1, <3>2
    <2>3. CASE Start(d) \/ Verify(d) \/ Relist(d) \/ Push(d) \/ Apply(d) \/ Wait(d)
      <3>1. store' = store
        BY <2>3 DEF Start, Verify, Relist, Push, Apply, Wait
      <3> QED
        BY <3>1
    <2> QED
      BY <1>1, <2>1, <2>2, <2>3 DEF DeployStep
  <1>2. ASSUME NEW r \in Runs, CollectStep(r) \/ Kill(r) PROVE Moves
    <2>1. CASE Delete(r)
      <3>1. PICK b \in plan[r].reap : \E part : part \subseteq Objects(b) /\ store' = store \ part
        BY <2>1 DEF Delete
      <3> QED
        BY <3>1
    <2>2. CASE ~Delete(r)
      <3>1. store' = store
        BY <1>2, <2>2 DEF CollectStep, StartGc, ReadFails, ReadStatus, ReadPin, ReadPinAgain,
                          ReadStatusAgain, List, Kill, GcStep
      <3> QED
        BY <3>1
    <2> QED
      BY <2>1, <2>2
  <1>3. CASE UNCHANGED vars \/ Rollback \/ ClearPin \/ Hold \/ RollOut \/ Observe \/ Wipe
    <2>1. store' = store
      BY <1>3 DEF vars, Rollback, ClearPin, Shift, Hold, RollOut, Observe, Wipe
    <2> QED
      BY <2>1
  <1>4. Moves
    BY <1>1, <1>2, <1>3 DEF Next
  <1> QED
    BY <1>4

\* A build comes to be planned for deletion by the listing of a collection.
LEMMA ReapMoves ==
  ASSUME IInv, [Next]_vars, NEW r \in Runs, NEW b \in plan'[r].reap
  PROVE  b \in plan[r].reap \/ \E new \in NewestOf(r) : Prune(r, new)
  <1>0. plan \in [Runs -> PlanRecord] /\ NoPlan.reap = {}
    BY DEF IInv, TypeOK, PlanRecord, NoPlan
  <1>1. CASE plan' = plan
    BY <1>1
  <1>2. ASSUME NEW q \in Runs, NEW p, plan' = [plan EXCEPT ![q] = p],
               p.reap \subseteq plan[q].reap
        PROVE  b \in plan[r].reap
    BY <1>0, <1>2
  <1>3. ASSUME NEW q \in Runs, NEW s, Stop(q, s) PROVE b \in plan[r].reap
    BY <1>0, <1>2, <1>3 DEF Stop
  <1>4. ASSUME NEW q \in Runs, ReadStatus(q) PROVE b \in plan[r].reap
    <2>1. plan' = [plan EXCEPT ![q].live = observed]
      BY <1>4 DEF ReadStatus, Planned
    <2> QED
      BY <1>0, <2>1 DEF PlanRecord
  <1>5. ASSUME NEW q \in Runs, ReadPin(q) PROVE b \in plan[r].reap
    <2>1. CASE Skip(q)
      BY <1>3, <2>1 DEF Skip
    <2>2. CASE Pinned(q, plan[q].live \cup {cr.pin})
      BY <1>0, <2>2 DEF Pinned, PlanRecord
    <2> QED
      BY <1>5, <2>1, <2>2 DEF ReadPin
  <1>6. ASSUME NEW q \in Runs, ReadPinAgain(q) \/ ReadStatusAgain(q) PROVE b \in plan[r].reap
    <2>1. CASE Skip(q)
      BY <1>3, <2>1 DEF Skip
    <2>2. CASE plan' = [plan EXCEPT ![q] = [NoPlan EXCEPT !.keep = plan[q].keep]]
      <3>1. [NoPlan EXCEPT !.keep = plan[q].keep].reap = {}
        BY <1>0 DEF NoPlan
      <3> QED
        BY <1>2, <2>2, <3>1
    <2> QED
      BY <1>1, <1>6, <2>1, <2>2 DEF ReadPinAgain, ReadStatusAgain
  <1>7. ASSUME NEW q \in Runs, NEW left, Reaping(q, left)
        PROVE  b \in plan[r].reap \/ (q = r /\ b \in left)
    <2>1. CASE Stop(q, "done")
      BY <1>3, <2>1
    <2>2. CASE plan' = [plan EXCEPT ![q].reap = left]
      BY <1>0, <2>2 DEF PlanRecord
    <2> QED
      BY <1>7, <2>1, <2>2 DEF Reaping, Planned
  <1>8. ASSUME NEW q \in Runs, Delete(q) PROVE b \in plan[r].reap
    BY <1>7, <1>8 DEF Delete
  <1>9. ASSUME NEW q \in Runs, List(q)
        PROVE  b \in plan[r].reap \/ \E new \in NewestOf(r) : Prune(r, new)
    <2>1. CASE Stop(q, "done")
      BY <1>3, <2>1
    <2>2. ASSUME NEW new \in NewestOf(q), Prune(q, new)
          PROVE  b \in plan[r].reap \/ q = r
      BY <1>7, <2>2 DEF Prune
    <2> QED
      BY <1>9, <2>1, <2>2 DEF List
  <1>10. ASSUME NEW q \in Runs, CollectStep(q) \/ Kill(q)
         PROVE  b \in plan[r].reap \/ \E new \in NewestOf(r) : Prune(r, new)
    <2>1. CASE ReadFails(q) \/ Kill(q)
      BY <1>3, <2>1 DEF ReadFails, Kill
    <2>2. CASE StartGc(q)
      BY <1>1, <2>2 DEF StartGc
    <2> QED
      BY <1>4, <1>5, <1>6, <1>8, <1>9, <1>10, <2>1, <2>2 DEF CollectStep
  <1>11. CASE UNCHANGED vars \/ Rollback \/ ClearPin \/ Hold \/ RollOut \/ Observe \/ Wipe
    BY <1>1, <1>11 DEF vars, Rollback, ClearPin, Shift, Hold, RollOut, Observe, Wipe
  <1> QED
    BY <1>1, <1>10, <1>11, DeployGoes DEF Next

\* A deploy comes to have its assets uploaded by a listing that finds them whole.
LEMMA UploadedMoves ==
  ASSUME IInv, [Next]_vars, NEW b \in Uploaded', b \notin Uploaded
  PROVE  Complete(b) /\ store' = store
  <1> DEFINE Past1(e) == Collecting \cup {"apply", "wait", "done"}
                            \cup (IF e \in FromImage THEN {} ELSE {"push"})
  <1>0. stage \in [Runs -> Stages] /\ Deploys \subseteq Runs
    BY DEF IInv, TypeOK, Runs
  <1>1. PICK d \in Deploys : b = Tag[d] /\ stage'[d] \in Past1(d) /\ stage[d] \notin Past1(d)
    BY DEF Uploaded
  <1>2. CASE stage' = stage
    BY <1>1, <1>2
  <1>3. ASSUME NEW r \in Runs, CollectStep(r) \/ Kill(r) PROVE FALSE
    <2>1. r = d
      BY <1>0, <1>1, <1>3, CollectGoes DEF Goto
    <2>2. r \notin Collectors
      BY <2>1, RunsAssumption
    <2>3. Kill(d) => stage'[d] = "failed"
      BY <1>0 DEF Kill, Stop, Goto
    <2>4. CollectStep(d) => stage[d] \in Collecting
      BY <2>1, <2>2 DEF CollectStep, StartGc, ReadFails, ReadStatus, ReadPin, ReadPinAgain,
                        ReadStatusAgain, List, Delete, At, Collecting
    <2> QED
      BY <1>1, <1>3, <2>1, <2>3, <2>4 DEF Collecting
  <1>4. ASSUME NEW e \in Deploys, DeployStep(e) PROVE Complete(b) /\ store' = store
    <2>1. e = d
      BY <1>0, <1>1, <1>4, DeployGoes DEF Goto
    <2>2. stage[d] \notin {"apply", "wait"} /\ (stage[d] = "push" => d \in FromImage)
      BY <1>1
    <2>3. stage'[d] \in Stages /\ \A s : Goto(d, s) => stage'[d] = s
      BY <1>0, <1>4, <2>1, DeployGoes DEF Goto
    <2>4. CASE Verify(d) \/ Relist(d)
      <3>1. ~Complete(b) => stage'[d] \in {"retry", "reclaim", "failed"}
        BY <1>1, <2>3, <2>4 DEF Verify, Relist, UploadFailed
      <3>2. Complete(b)
        BY <1>1, <3>1 DEF Collecting
      <3> QED
        BY <2>4, <3>2 DEF Verify, Relist
    <2>5. CASE Start(d)
      BY <1>1, <2>3, <2>5 DEF Start, Collecting
    <2>6. CASE BulkUpload(d) \/ Reupload(d) \/ Reclaim(d)
      BY <1>1, <2>3, <2>6 DEF BulkUpload, Reupload, Reclaim, UploadFailed, Collecting
    <2>7. CASE Push(d)
      BY <1>1, <2>2, <2>3, <2>7 DEF Push, At, Collecting
    <2>8. ~Apply(d) /\ ~Wait(d)
      BY <2>2 DEF Apply, Wait, At
    <2> QED
      BY <1>4, <2>1, <2>4, <2>5, <2>6, <2>7, <2>8 DEF DeployStep
  <1>5. CASE UNCHANGED vars \/ Rollback \/ ClearPin \/ Hold \/ RollOut \/ Observe \/ Wipe
    BY <1>2, <1>5 DEF vars, Rollback, ClearPin, Shift, Hold, RollOut, Observe, Wipe
  <1> QED
    BY <1>3, <1>4, <1>5 DEF Next

-----------------------------------------------------------------------------
(* The parts of the invariant, one step on.                                 *)

\* What is uploaded is of a deploy that has begun.
LEMMA KnownStep ==
  ASSUME IInv, Ranked, [Next]_vars
  PROVE  Known'
  <1> SUFFICES ASSUME NEW b \in Builds, NEW part \in Parts, <<b, part>> \in store'
               PROVE  b \in Earlier \cup BegunTags'
    BY DEF Known, Earlier
  <1>1. CASE <<b, part>> \in store
    BY <1>1, RivalsGrow DEF Ranked, Known
  <1>2. CASE <<b, part>> \notin store
    <2>1. PICK d \in Deploys : stage[d] # "idle" /\ <<b, part>> \in Objects(Tag[d])
      BY <1>2, StoreMoves
    <2>2. b \in BegunTags
      BY <2>1 DEF Objects, BegunTags, Begun
    <2> QED
      BY <2>2, RivalsGrow DEF Ranked
  <1> QED
    BY <1>1, <1>2

\* The builds that a collection counts as newer than one it deletes are rivals
\* of it, and rivals only come.
LEMMA OutrankedStep ==
  ASSUME IInv, Ranked, [Next]_vars
  PROVE  ReapOutranked'
  <1> SUFFICES ASSUME NEW r \in Runs, NEW b \in plan'[r].reap
               PROVE  Cardinality(Rivals(b)') >= Retain
    BY DEF ReapOutranked
  <1>0. Counted /\ Counted' /\ Retain \in Nat
    BY RivalsGrow, BoundsAssumption DEF Ranked
  <1>1. IsFiniteSet(Rivals(b)') /\ Cardinality(Rivals(b)') \in Nat
    <2> DEFINE All == Earlier \cup (BegunTags' \cup first')
    <2>1. IsFiniteSet(All)
      BY <1>0, EarlierFinite, FS_Union DEF Counted
    <2>2. Rivals(b)' \in SUBSET All
      BY DEF Rivals, Earlier, BegunTags, Begun
    <2>3. IsFiniteSet(Rivals(b)')
      BY <2>1, <2>2, FS_Subset
    <2> QED
      BY <2>3, FS_CardinalityType
  <1>2. CASE b \in plan[r].reap
    <2>1. Cardinality(Rivals(b)) >= Retain
      BY <1>2 DEF Ranked, ReapOutranked
    <2> QED
      BY <1>0, <1>1, <2>1, RivalsGrow
  <1>3. ASSUME NEW new \in NewestOf(r), Prune(r, new), b \notin plan[r].reap
        PROVE  Cardinality(Rivals(b)') >= Retain
    <2> DEFINE cands == {a \in Builds : Marked(a)}
               newer == {a \in cands : Newer(a, b, new)}
    <2>1. b \in cands \ Window(cands, new)
      <3> DEFINE left == (cands \ Window(cands, new)) \ plan[r].keep
      <3>1. Reaping(r, left)
        BY <1>3 DEF Prune
      <3>2. plan'[r].reap \subseteq left
        <4> HIDE DEF left
        <4>1. plan \in [Runs -> PlanRecord] /\ NoPlan.reap = {}
          BY DEF IInv, TypeOK, PlanRecord, NoPlan
        <4>2. CASE plan' = [plan EXCEPT ![r] = NoPlan]
          BY <4>1, <4>2
        <4>3. CASE plan' = [plan EXCEPT ![r].reap = left]
          BY <4>1, <4>3 DEF PlanRecord
        <4> QED
          BY <3>1, <4>2, <4>3 DEF Reaping, Stop, Planned
      <3> QED
        BY <3>2
    <2>2. newer \subseteq Rivals(b)'
      <3> SUFFICES ASSUME NEW a \in newer PROVE a \in Rivals(b)'
        OBVIOUS
      <3>1. a \in Builds /\ <<a, "marker">> \in store /\ Newer(a, b, new)
        BY DEF Marked
      <3>2. a \in Earlier \cup BegunTags'
        BY <3>1, RivalsGrow DEF Ranked, Known, Parts
      <3>3. CASE a = new
        <4>1. a \in first' \ {b}
          BY <1>3, <3>1, <3>3, TagAssumption DEF Prune, Newer
        <4> QED
          BY <4>1 DEF Rivals
      <3>4. CASE Listed[a] > Listed[b]
        BY <3>2, <3>4 DEF Rivals, Earlier, BegunTags, Begun
      <3> QED
        BY <3>1, <3>3, <3>4 DEF Newer
    <2>3. /\ Cardinality(newer) \in Nat
          /\ Cardinality(newer) <= Cardinality(Rivals(b)')
      BY <1>1, <2>2, FS_Subset, FS_CardinalityType
    <2>4. ~(Cardinality(newer) < Retain)
      BY <2>1 DEF Window
    <2> QED
      BY <1>0, <1>1, <2>3, <2>4
  <1> QED
    BY <1>2, <1>3, ReapMoves

\* What leaves the store of an uploaded build is deleted by a collection that
\* has counted its rivals: no deploy reclaims another's prefix.
LEMMA KeptStep ==
  ASSUME OwnTags, IInv, Ranked, WindowKept, [Next]_vars
  PROVE  WindowKept'
  <1> SUFFICES ASSUME NEW b \in Uploaded', Cardinality(Rivals(b)') < Retain
               PROVE  Complete(b)'
    BY DEF WindowKept
  <1>1. CASE b \notin Uploaded
    BY <1>1, UploadedMoves DEF Complete
  <1>2. CASE b \in Uploaded
    <2>1. Cardinality(Rivals(b)) < Retain
      <3>1. Counted /\ Counted' /\ Retain \in Nat
        BY RivalsGrow, BoundsAssumption DEF Ranked
      <3>2. Cardinality(Rivals(b)') \in Int
        <4> DEFINE All == Earlier \cup (BegunTags' \cup first')
        <4>1. IsFiniteSet(All)
          BY <3>1, EarlierFinite, FS_Union DEF Counted
        <4>2. Rivals(b)' \in SUBSET All
          BY DEF Rivals, Earlier, BegunTags, Begun
        <4> QED
          BY <4>1, <4>2, FS_Subset, FS_CardinalityType
      <3> QED
        BY <3>1, <3>2, RivalsGrow
    <2>2. Objects(b) \subseteq store
      BY <1>2, <2>1 DEF WindowKept, Complete
    <2>3. ASSUME NEW o \in Objects(b), o \notin store' PROVE FALSE
      <3>1. CASE \E d \in Deploys : stage[d] = "reclaim" /\ o \in Objects(Tag[d])
        <4>1. PICK d \in Deploys : stage[d] = "reclaim" /\ b = Tag[d]
          BY <2>3, <3>1 DEF Objects
        <4> QED
          BY <1>2, <4>1 DEF Uploaded, OwnTags, Collecting
      <3>2. CASE \E r \in Runs : \E a \in plan[r].reap : o \in Objects(a)
        <4>1. PICK r \in Runs : b \in plan[r].reap
          BY <2>3, <3>2 DEF Objects
        <4>2. Cardinality(Rivals(b)) >= Retain /\ Cardinality(Rivals(b)) \in Nat
          BY <4>1, RivalsFinite DEF Ranked, ReapOutranked
        <4> QED
          BY <2>1, <4>2, BoundsAssumption
      <3> QED
        BY <2>2, <2>3, <3>1, <3>2, StoreMoves
    <2> QED
      BY <2>3 DEF Complete, Objects
  <1> QED
    BY <1>1, <1>2

\* At first what was served before is there, and nothing else.
LEMMA InitWindow == Init => Ranked /\ WindowKept
  <1> SUFFICES ASSUME Init PROVE Ranked /\ WindowKept
    OBVIOUS
  <1>1. Begun = {} /\ BegunTags = {} /\ first = {}
    BY DEF Init, Begun, BegunTags, Runs
  <1>2. Counted
    BY <1>1, FS_EmptySet DEF Counted
  <1>3. store = Earlier \X Parts
    BY DEF Init, Earlier
  <1>4. Known
    BY <1>3 DEF Known
  <1>5. ReapOutranked
    BY DEF Init, NoPlan, ReapOutranked
  <1>6. Uploaded \subseteq Earlier
    BY DEF Init, Uploaded, Earlier, Collecting, Runs
  <1>7. WindowKept
    BY <1>3, <1>6 DEF WindowKept, Complete, Objects
  <1> QED
    BY <1>2, <1>4, <1>5, <1>7 DEF Ranked

-----------------------------------------------------------------------------
(* The theorems.                                                           *)

\* The builds that a collection is about to delete are outside the window, and
\* stay there whatever begins meanwhile; this takes nothing of the build ids.
THEOREM AssetReapOutranked == Spec => []ReapOutranked
  <1>1. IInv /\ Ranked /\ [Next]_vars => Ranked'
    BY RivalsGrow, KnownStep, OutrankedStep DEF Ranked
  <1>2. Init => Ranked
    BY InitWindow
  <1>3. Ranked => ReapOutranked
    BY DEF Ranked
  <1> QED
    BY <1>1, <1>2, <1>3, SpecInv, PTL DEF Spec

\* If build ids are their own, an uploaded build that fewer than Retain builds
\* are newer than stays whole, whatever deploys and collections overlap.
THEOREM AssetWindowKept == OwnTags => (Spec => []WindowKept)
  <1> SUFFICES ASSUME OwnTags PROVE Spec => []WindowKept
    OBVIOUS
  <1>1. IInv /\ Ranked /\ WindowKept /\ [Next]_vars => Ranked' /\ WindowKept'
    BY RivalsGrow, KnownStep, OutrankedStep, KeptStep DEF Ranked
  <1> QED
    BY <1>1, InitWindow, SpecInv, PTL DEF Spec
=============================================================================
