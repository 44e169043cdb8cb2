----------------------------- MODULE AssetDeploys -----------------------------
(***************************************************************************)
(* The static assets of an app in its object store, as the knext commands  *)
(* that write and delete them interleave (packages/kn-next/src):           *)
(*   knext deploy    uploads the assets of a build, pushes the image,      *)
(*                   applies the NextApp CR, then collects old builds;     *)
(*   knext gc        collects alone;                                       *)
(*   knext rollback  pins spec.traffic to a revision, or clears the pin.   *)
(* Each run is a process of its own, possibly of another machine; every    *)
(* read of the cluster and every call of the provider CLI is a step.  The  *)
(* operator, which turns the CR into revisions and reports the traffic in  *)
(* status.currentTraffic, may lag behind both.                             *)
(*                                                                         *)
(* A build is its prefix _next/static/<id>/, of two objects: what its pages*)
(* load and the .knext-build marker.  Left out: the content of a build, the*)
(* shared directories beside the prefixes, --dry-run and --skip-upload.    *)
(***************************************************************************)
EXTENDS Integers, FiniteSets, Sequences

CONSTANTS Deploys,     \* runs of knext deploy
          Collectors,  \* runs of knext gc
          FromImage,   \* deploys that take their assets from the pushed image
          Builds,      \* build ids
          NoBuild,
          Tag,         \* the build id of a deploy: --tag, or the time it starts
          Listed,      \* the position of a prefix in a listing of the store
          Past,        \* the builds deployed and served before
          Retain,      \* storage.assetRetention
          MaxShifts,   \* bound: rollbacks to a revision
          MaxFaults    \* bound: faults that happen

ASSUME RunsAssumption == Deploys \cap Collectors = {} /\ FromImage \subseteq Deploys
ASSUME TagAssumption == Tag \in [Deploys -> Builds] /\ NoBuild \notin Builds
ASSUME ListedAssumption ==
  /\ Listed \in [Builds -> Nat]
  /\ \A a, b \in Builds : Listed[a] = Listed[b] => a = b
ASSUME PastAssumption == Past \in Seq(Builds)
ASSUME BoundsAssumption == Retain \in Nat /\ MaxShifts \in Nat /\ MaxFaults \in Nat

Runs == Deploys \cup Collectors
Parts == {"assets", "marker"}

\* spec.traffic.revisionName: unset, a revision (its position in revs), or one
\* that no longer exists.
NoPin == 0
Gone == -1
Pins == Nat \cup {Gone}

VARIABLES store,     \* the objects of the app in the bucket
          cr,        \* the NextApp: its build, its traffic, whether it is held
          rolled,    \* the operator has acted on the build of the CR
          revs,      \* the revisions created so far, in order
          observed,  \* status.currentTraffic: the revisions it names
          stage,     \* where each run is
          plan,      \* what each collection has read and decided
          moved,     \* runs past their second read of a pin or a status that changed
          first,     \* the builds some collection took for the newest
          shifts, faults  \* bounded counters

cluster == <<cr, rolled, revs, observed>>
vars == <<store, cr, rolled, revs, observed, stage, plan, moved, first, shifts, faults>>

Collecting == {"status", "pin", "pinAgain", "statusAgain", "list", "delete"}
Stages == Collecting \cup {"idle", "bulk", "verify", "retry", "relist", "push",
                           "apply", "wait", "reclaim", "done", "failed"}

NoPlan == [live |-> {}, pin |-> NoPin, keep |-> {}, reap |-> {}]

TypeOK ==
  /\ store \subseteq Builds \X Parts
  /\ cr \in [build : Builds \cup {NoBuild}, pin : Pins, held : BOOLEAN]
  /\ rolled \in BOOLEAN
  /\ revs \in Seq([build : Builds, ready : BOOLEAN])
  /\ observed \subseteq DOMAIN revs
  /\ stage \in [Runs -> Stages]
  /\ plan \in [Runs -> [live : SUBSET DOMAIN revs, pin : Pins,
                        keep : SUBSET Builds, reap : SUBSET Builds]]
  /\ \A r \in Collectors : stage[r] \in Collecting \cup {"idle", "done", "failed"}
  /\ moved \subseteq {r \in Runs : stage[r] \in Collecting}
  /\ first \subseteq Builds
  /\ shifts \in 0..MaxShifts
  /\ faults \in 0..MaxFaults

Init ==
  /\ store = {Past[i] : i \in DOMAIN Past} \X Parts
  /\ cr = [build |-> IF Past = <<>> THEN NoBuild ELSE Past[Len(Past)],
           pin |-> NoPin, held |-> FALSE]
  /\ rolled = TRUE
  /\ revs = [i \in DOMAIN Past |-> [build |-> Past[i], ready |-> TRUE]]
  /\ observed = {Len(Past)} \ {0}
  /\ stage = [r \in Runs |-> "idle"]
  /\ plan = [r \in Runs |-> NoPlan]
  /\ moved = {}
  /\ first = {}
  /\ shifts = 0
  /\ faults = 0

-----------------------------------------------------------------------------
\* The object store.

Objects(b) == {b} \X Parts
Complete(b) == Objects(b) \subseteq store
Marked(b) == <<b, "marker">> \in store

Fault == faults < MaxFaults /\ faults' = faults + 1

At(r, s) == stage[r] = s
Goto(r, s) == stage' = [stage EXCEPT ![r] = s]

\* A command that moves some of these objects: all of them, or after a fault any
\* part of them.
Landed(objects, part) ==
  /\ part \subseteq objects
  /\ IF part = objects THEN faults' = faults ELSE Fault

-----------------------------------------------------------------------------
\* knext deploy.  An upload and a push of the host build are started together,
\* but both run synchronously: the push follows the upload, whatever its outcome.

Start(d) ==
  /\ At(d, "idle")
  /\ Goto(d, IF d \in FromImage THEN "push" ELSE "bulk")
  /\ UNCHANGED <<store, cluster, plan, moved, first, shifts, faults>>

\* Where an upload goes next.  One taken from the image runs after the push, and
\* reclaims its prefix when it fails; one of the host build does not.
AfterUpload(d) == IF d \in FromImage THEN "apply" ELSE "push"
UploadFailed(d) == IF d \in FromImage THEN "reclaim" ELSE "failed"

\* bulkUpload: additive, it never deletes.  A failing CLI throws.
BulkUpload(d) ==
  /\ At(d, "bulk")
  /\ \E part \in SUBSET Objects(Tag[d]) :
       /\ Landed(Objects(Tag[d]), part)
       /\ store' = store \cup part
       /\ \/ Goto(d, "verify")
          \/ part # Objects(Tag[d]) /\ Goto(d, UploadFailed(d))
  /\ UNCHANGED <<cluster, plan, moved, first, shifts>>

\* Slip: The exit code of the bulk upload is trusted.
VerifyNothing(d) ==
  /\ At(d, "verify")
  /\ Goto(d, AfterUpload(d))
  /\ UNCHANGED <<store, cluster, plan, moved, first, shifts, faults>>

\* verifyAndRetry: list the prefix, and upload again what is missing.
Verify(d) ==
  /\ At(d, "verify")
  /\ Goto(d, IF Complete(Tag[d]) THEN AfterUpload(d) ELSE "retry")
  /\ UNCHANGED <<store, cluster, plan, moved, first, shifts, faults>>

Reupload(d) ==
  /\ At(d, "retry")
  /\ \E part \in SUBSET (Objects(Tag[d]) \ store) :
       /\ Landed(Objects(Tag[d]) \ store, part)
       /\ store' = store \cup part
  /\ Goto(d, "relist")
  /\ UNCHANGED <<cluster, plan, moved, first, shifts>>

Relist(d) ==
  /\ At(d, "relist")
  /\ Goto(d, IF Complete(Tag[d]) THEN AfterUpload(d) ELSE UploadFailed(d))
  /\ UNCHANGED <<store, cluster, plan, moved, first, shifts, faults>>

Push(d) ==
  /\ At(d, "push")
  /\ \/ /\ Goto(d, IF d \in FromImage THEN "bulk" ELSE "apply")
        /\ UNCHANGED faults
     \/ /\ Fault
        /\ Goto(d, IF d \in FromImage THEN "failed" ELSE "reclaim")
  /\ UNCHANGED <<store, cluster, plan, moved, first, shifts>>

\* reclaimBuildPrefix: the prefix of this run, and best effort.
Reclaim(d) ==
  /\ At(d, "reclaim")
  /\ \E part \in SUBSET (store \cap Objects(Tag[d])) :
       /\ Landed(store \cap Objects(Tag[d]), part)
       /\ store' = store \ part
  /\ Goto(d, "failed")
  /\ UNCHANGED <<cluster, plan, moved, first, shifts>>

\* The digest is resolved and the CR applied.  kubectl apply leaves the pin,
\* which only rollback sets, and a failed one may have landed.
Applied(d) ==
  /\ cr' = [cr EXCEPT !.build = Tag[d], !.held = FALSE]
  /\ rolled' = FALSE
  /\ UNCHANGED <<revs, observed>>

\* Slip: A failed apply reclaims the prefix as a failed push does.
ApplyReclaims(d) ==
  /\ At(d, "apply")
  /\ \/ Applied(d) /\ Goto(d, "wait") /\ UNCHANGED faults
     \/ Fault /\ Goto(d, "reclaim") /\ (Applied(d) \/ UNCHANGED cluster)
  /\ UNCHANGED <<store, plan, moved, first, shifts>>

Apply(d) ==
  /\ At(d, "apply")
  /\ \/ Applied(d) /\ Goto(d, "wait") /\ UNCHANGED faults
     \/ Fault /\ Goto(d, "failed") /\ (Applied(d) \/ UNCHANGED cluster)
  /\ UNCHANGED <<store, plan, moved, first, shifts>>

\* waitForOperatorReconcile: a held change fails the deploy without collecting;
\* otherwise it collects, at the latest when the wait is over.
Wait(d) ==
  /\ At(d, "wait")
  /\ Goto(d, IF cr.held THEN "failed" ELSE "status")
  /\ UNCHANGED <<store, cluster, plan, moved, first, shifts, faults>>

-----------------------------------------------------------------------------
\* runAssetGC, of a deploy or of knext gc.  What it has read is forgotten at its
\* end, which is "done" whether it deleted or skipped.

Planned(r, field, value) == plan' = [plan EXCEPT ![r][field] = value]
GcStep == UNCHANGED <<store, cluster, first, shifts>>

Advance(r, s) == Goto(r, s) /\ UNCHANGED <<moved, faults>>

Stop(r, s) ==
  /\ Goto(r, s)
  /\ plan' = [plan EXCEPT ![r] = NoPlan]
  /\ moved' = moved \ {r}

Skip(r) == Stop(r, "done") /\ UNCHANGED faults

StartGc(r) ==
  /\ r \in Collectors
  /\ At(r, "idle")
  /\ Advance(r, "status")
  /\ GcStep
  /\ UNCHANGED plan

\* A read of the cluster fails, and the collection with it: a failed status read
\* throws, any other is one of the skips.
ReadFails(r) ==
  /\ stage[r] \in {"status", "pin", "pinAgain", "statusAgain"}
  /\ Fault
  /\ Stop(r, "done")
  /\ GcStep

ReadStatus(r) ==
  /\ At(r, "status")
  /\ Planned(r, "live", observed)
  /\ Advance(r, "pin")
  /\ GcStep

BuildsOf(revisions) == {revs[i].build : i \in revisions \cap DOMAIN revs}

\* The pin is read whatever the status says, which may lag.  A collection then
\* keeps the builds of some revisions, which it reads from their labels: those
\* never change.
Pinned(r, revisions) ==
  /\ plan' = [plan EXCEPT ![r].pin = cr.pin, ![r].keep = BuildsOf(revisions)]
  /\ Advance(r, "pinAgain")

\* Slip: An empty status means that nothing serves, pin or no pin.
ReadPinOnly(r) ==
  /\ At(r, "pin")
  /\ IF cr.pin = Gone
     THEN Skip(r)
     ELSE Pinned(r, IF plan[r].live = {} THEN {} ELSE plan[r].live \cup {cr.pin})
  /\ GcStep

\* An empty status beside a pin skips the collection (pinned-with-empty-status),
\* and so does a pin that does not resolve (pinned-not-resolvable).
ReadPin(r) ==
  /\ At(r, "pin")
  /\ IF cr.pin = Gone \/ (plan[r].live = {} /\ cr.pin # NoPin)
     THEN Skip(r)
     ELSE Pinned(r, plan[r].live \cup {cr.pin})
  /\ GcStep

\* driftedSincePlan: both are read again, and any difference aborts.  Only what
\* to keep matters from then on.
ReadPinAgain(r) ==
  /\ At(r, "pinAgain")
  /\ IF cr.pin = plan[r].pin
     THEN Advance(r, "statusAgain") /\ UNCHANGED plan
     ELSE Skip(r)
  /\ GcStep

ReadStatusAgain(r) ==
  /\ At(r, "statusAgain")
  /\ IF observed = plan[r].live
     THEN /\ plan' = [plan EXCEPT ![r] = [NoPlan EXCEPT !.keep = plan[r].keep]]
          /\ Advance(r, "list")
     ELSE Skip(r)
  /\ GcStep

\* Whether a is newer than b to a collection that takes new for the newest: the
\* others are ordered by their position in the listing.
Newer(a, b, new) == a # b /\ b # new /\ (a = new \/ Listed[a] > Listed[b])

\* Slip: The window counts one build too many as newer.
WindowShort(cands, new) ==
  {b \in cands : Cardinality({a \in cands : Newer(a, b, new)}) + 1 < Retain}

\* classifyBuilds: the newest, at least one of them.
Window(cands, new) ==
  {b \in cands : LET newer == Cardinality({a \in cands : Newer(a, b, new)})
                 IN newer = 0 \/ newer < Retain}

\* What is left to delete: nothing ends the collection.
Reaping(r, left) ==
  IF left = {}
  THEN Stop(r, "done")
  ELSE Planned(r, "reap", left) /\ Goto(r, "delete") /\ UNCHANGED moved

\* pruneOldBuilds: only marked prefixes are candidates.
Prune(r, new) ==
  LET cands == {b \in Builds : Marked(b)}
  IN /\ Reaping(r, (cands \ Window(cands, new)) \ plan[r].keep)
     /\ first' = first \cup ({new} \ {NoBuild})

\* The build taken for the newest: the one just deployed, or --build-id, if any.
NewestOf(r) == IF r \in Deploys THEN {Tag[r]} ELSE Builds \cup {NoBuild}

List(r) ==
  /\ At(r, "list")
  /\ \/ (\E new \in NewestOf(r) : Prune(r, new)) /\ UNCHANGED faults
     \/ Fault /\ Stop(r, "done") /\ UNCHANGED first
  /\ UNCHANGED <<store, cluster, shifts>>

\* One prefix after another, the oldest first, and best effort.
Delete(r) ==
  /\ At(r, "delete")
  /\ \E b \in plan[r].reap :
       /\ \A c \in plan[r].reap : Listed[b] <= Listed[c]
       /\ \E part \in SUBSET (store \cap Objects(b)) :
            /\ Landed(store \cap Objects(b), part)
            /\ store' = store \ part
       /\ Reaping(r, plan[r].reap \ {b})
  /\ UNCHANGED <<cluster, first, shifts>>

-----------------------------------------------------------------------------
\* knext rollback and the operator.

\* A change of the pin or of the status, seen by no read of these runs.
Changed(stages) ==
  moved' = moved \cup {r \in Runs : stage[r] \in stages}

Shift(pin) ==
  /\ cr' = [cr EXCEPT !.pin = pin]
  /\ Changed({"statusAgain", "list", "delete"})
  /\ UNCHANGED <<store, rolled, revs, observed, stage, plan, first, faults>>

\* knext rollback --to a revision.
Rollback ==
  /\ shifts < MaxShifts
  /\ shifts' = shifts + 1
  /\ \E i \in DOMAIN revs \cup {Gone} : Shift(i)

ClearPin ==
  /\ cr.pin # NoPin
  /\ Shift(NoPin)
  /\ UNCHANGED shifts

\* The operator holds the change of the CR, and serves on as before.
Hold ==
  /\ ~rolled
  /\ Fault
  /\ rolled' = TRUE
  /\ cr' = [cr EXCEPT !.held = TRUE]
  /\ UNCHANGED <<store, revs, observed, stage, plan, moved, first, shifts>>

\* A revision of the build of the CR is created, and becomes ready or not.
RollOut ==
  /\ ~rolled
  /\ rolled' = TRUE
  /\ \E ready \in BOOLEAN :
       /\ revs' = Append(revs, [build |-> cr.build, ready |-> ready])
       /\ IF ready THEN faults' = faults ELSE Fault
  /\ UNCHANGED <<store, cr, observed, stage, plan, moved, first, shifts>>

Ready == {i \in DOMAIN revs : revs[i].ready}
Latest == {i \in Ready : \A j \in Ready : j <= i}

\* Slip: A pin that does not resolve is routed to and reported.
TargetsUnresolved ==
  IF cr.pin = NoPin THEN {Latest} ELSE {{cr.pin}, {cr.pin} \cup Latest}

\* buildTrafficTargets: the pin, beside the latest when it is a canary; an
\* unresolvable pin leaves the last route.
Targets ==
  IF cr.pin = Gone THEN {observed}
  ELSE IF cr.pin = NoPin THEN {Latest}
  ELSE {{cr.pin}, {cr.pin} \cup Latest}

\* The operator copies the traffic of the service into the status, at some time.
Observe ==
  /\ observed' \in Targets
  /\ Changed({"list", "delete"})
  /\ UNCHANGED <<store, cr, rolled, revs, stage, plan, first, shifts, faults>>

\* The status is wiped.
Wipe ==
  /\ observed # {}
  /\ Fault
  /\ observed' = {}
  /\ Changed({"list", "delete"})
  /\ UNCHANGED <<store, cr, rolled, revs, stage, plan, first, shifts>>

\* A run is killed where it is: a cancelled job.
Kill(r) ==
  /\ stage[r] \notin {"idle", "done", "failed"}
  /\ Fault
  /\ Stop(r, "failed")
  /\ GcStep

-----------------------------------------------------------------------------
DeployStep(d) ==
  \/ Start(d) \/ BulkUpload(d) \/ Verify(d) \/ Reupload(d) \/ Relist(d)
  \/ Push(d) \/ Reclaim(d) \/ Apply(d) \/ Wait(d)

CollectStep(r) ==
  \/ StartGc(r) \/ ReadFails(r) \/ ReadStatus(r) \/ ReadPin(r)
  \/ ReadPinAgain(r) \/ ReadStatusAgain(r) \/ List(r) \/ Delete(r)

Next ==
  \/ \E d \in Deploys : DeployStep(d)
  \/ \E r \in Runs : CollectStep(r) \/ Kill(r)
  \/ Rollback \/ ClearPin \/ Hold \/ RollOut \/ Observe \/ Wipe

Spec == Init /\ [][Next]_vars

-----------------------------------------------------------------------------
\* A collection never deletes the assets of a revision that the status names or
\* the CR pins, unless the status or the pin changed after it read them the
\* second time.  Neither may be missing from what it protects: the status lags
\* behind a fresh pin, and may be empty (runAssetGC, driftedSincePlan).
NeverReapsProtected ==
  [][\A r \in Runs :
       plan'[r] # plan[r] /\ r \notin moved =>
         \A b \in BuildsOf(observed \cup {cr.pin}) :
           store \cap Objects(b) \subseteq store']_vars

\* The builds whose upload is verified, the past ones included.
Uploaded ==
  {Past[i] : i \in DOMAIN Past}
    \cup {Tag[d] : d \in {e \in Deploys :
              stage[e] \in Collecting \cup {"apply", "wait", "done"}
                             \cup (IF e \in FromImage THEN {} ELSE {"push"})}}

\* The builds that may push b out of the window of a collection: the newer ones,
\* once their upload began, and those a collection took for the newest.
Rivals(b) ==
  {a \in {Past[i] : i \in DOMAIN Past} : Listed[a] > Listed[b]}
    \cup {Tag[d] : d \in {e \in Deploys : stage[e] # "idle" /\ Listed[Tag[e]] > Listed[b]}}
    \cup (first \ {b})

\* The assets of a build that is uploaded, live or not yet, stay whole as long as
\* fewer than Retain builds are newer, whatever other deploys and collections
\* run, retry, fail or are killed meanwhile (verifyAndRetry, classifyBuilds,
\* reclaimBuildPrefix).
WindowKept ==
  \A b \in Uploaded : Cardinality(Rivals(b)) < Retain => Complete(b)

\* What a collection is about to delete has Retain rivals, those it has counted and
\* whatever began since: the invariant behind WindowKept (classifyBuilds).
ReapOutranked ==
  \A r \in Runs : \A b \in plan[r].reap : Cardinality(Rivals(b)) >= Retain

\* A failed deploy never reclaims the assets of a build that a revision or the
\* CR already has (the safety argument of reclaimBuildPrefix).
ReclaimSparesLive ==
  [][\A d \in Deploys : At(d, "reclaim") /\ stage'[d] # "reclaim" /\ store' # store =>
       Tag[d] \notin BuildsOf(DOMAIN revs) \cup {cr.build}]_vars
=============================================================================
