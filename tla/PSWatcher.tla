------------------------------ MODULE PSWatcher ------------------------------
(***************************************************************************)
(* The pageserver failover watcher (pswatcher), every call it makes being  *)
(* a step of its own, against the plane it drives: the generation ledger   *)
(* ConfigMap (compare-and-swap on its resourceVersion), the client Service *)
(* selector, the tenant locations of the two pageservers, the computes     *)
(* pinned to a pageserver and the API server's view of the primary pod.    *)
(*                                                                         *)
(* One watcher is the deployment; two are the partition of ADR-0010 D4, a  *)
(* watcher left alive on an isolated kubelet beside its replacement.       *)
(*                                                                         *)
(* Every error, lost reply, partition of the watcher, crash, recovery,     *)
(* volume loss and maintenance freeze costs one unit of the budget         *)
(* MaxFaults.  A primary that is not "up" may be silent for free.          *)
(***************************************************************************)
EXTENDS Naturals

CONSTANTS Watchers,             \* pswatcher instances
          Tenants,              \* Config.Tenants, the routed set
          Base,                 \* Config.Tenant, index 0 of the routed set
          Primary, Standby,     \* the two pageservers
          FailThreshold,        \* Config.FailThreshold
          BaseGeneration,       \* Config.BaseGeneration
          StartGens,            \* generations the plane may start at
          StandbyLosesVolume,   \* whether the standby may be rebuilt empty
          DeadAnswers,          \* whether the process on a lost node may still
                                \* answer
          MaxFaults             \* bound on faults

ASSUME ConstantsAssumption ==
  /\ Base \in Tenants
  /\ Primary # Standby
  /\ FailThreshold \in Nat \ {0}
  /\ BaseGeneration \in Nat \ {0}
  /\ StartGens \subseteq Nat \ {0}
  /\ StandbyLosesVolume \in BOOLEAN
  /\ DeadAnswers \in BOOLEAN
  /\ MaxFaults \in Nat

Nodes == {Primary, Standby}

VARIABLES
  ledger,    \* [gen, rv]: gen 0 is an unset key, rv 0 an absent ConfigMap
  route,     \* the node the client Service selects
  loc,       \* loc[n][t]: [mode, gen], tenant t on pageserver n
  computes,  \* the pageservers running computes are pinned to
  primary,   \* the primary pod: "up", "degraded" (runs, not ready), "down" (its
             \* container stopped), "lost" (its node did), "gone" (no pod)
  freeze,    \* whether a maintenance freeze is in effect
  faults,    \* the faults spent so far
  pc,        \* pc[w]: the call watcher w makes next
  ctl,       \* ctl[w]: the Controller's fields, lost in a crash
  tick       \* tick[w]: the local variables of the running Tick or SeedLedger

plane == <<ledger, route, loc, computes, primary, freeze>>
vars  == <<ledger, route, loc, computes, primary, freeze, faults, pc, ctl, tick>>

Labels == {"boot", "view", "seed", "idle", "select", "probe", "sight", "vantage",
           "resume", "failover", "recover", "validate", "corroborate", "reserve",
           "promote", "flip", "bounce", "converge", "cview", "cput", "adopt",
           "warm", "wcheck", "wput"}

Larger(a, b) == IF a > b THEN a ELSE b
Other(n)     == IF n = Primary THEN Standby ELSE Primary

\* routedTenants() is served base tenant first.
First(S) == IF Base \in S THEN Base ELSE CHOOSE t \in S : TRUE

None        == [mode |-> "none", gen |-> 0]
Secondary   == [mode |-> "secondary", gen |-> 0]

\* Slip: the wrong location mode in the PUT.
AttachedMulti(g) == [mode |-> "AttachedMulti", gen |-> g]
Attached(g) == [mode |-> "attached", gen |-> g]

Fresh == [failures |-> 0, done |-> FALSE, promoted |-> FALSE, bounced |-> FALSE,
          seen |-> FALSE, resv |-> 0]
Blank == [frozen |-> FALSE, gen |-> 0, rv |-> 0, todo |-> {}, keep |-> {},
          node |-> Standby]

TypeOK ==
  /\ ledger \in [gen : Nat, rv : Nat]
  /\ route \in Nodes
  /\ loc \in [Nodes -> [Tenants -> [mode : {"none", "secondary", "attached"}, gen : Nat]]]
  /\ computes \in SUBSET Nodes
  /\ primary \in {"up", "degraded", "down", "lost", "gone"}
  /\ freeze \in BOOLEAN
  /\ faults \in Nat
  /\ pc \in [Watchers -> Labels]
  /\ ctl \in [Watchers -> [failures : Nat, done : BOOLEAN, promoted : BOOLEAN,
                           bounced : BOOLEAN, seen : BOOLEAN, resv : Nat]]
  /\ tick \in [Watchers -> [frozen : BOOLEAN, gen : Nat, rv : Nat, todo : SUBSET Tenants,
                            keep : SUBSET Tenants, node : Nodes]]
  /\ \A w \in Watchers : pc[w] \in {"validate", "corroborate"} => tick[w].todo # {}

\* A plane before its first failover: the base tenant attached on the primary,
\* the apps tenants there or not provisioned, the base tenant warm on the
\* standby or not, the ledger at the plane's generation, ahead of it, or pruned.
Init ==
  /\ route = Primary
  /\ \E g \in StartGens, apps \in SUBSET (Tenants \ {Base}), warmed \in BOOLEAN :
       /\ loc = [n \in Nodes |-> [t \in Tenants |->
                  CASE n = Primary /\ t \in {Base} \cup apps -> Attached(g)
                    [] n = Standby /\ t = Base /\ warmed     -> Secondary
                    [] OTHER                                 -> None]]
       /\ \/ \E rv \in {0, 1} : ledger = [gen |-> 0, rv |-> rv]
          \/ \E l \in StartGens : l >= g /\ ledger = [gen |-> l, rv |-> 1]
  /\ computes \in {{}, {Primary}}
  /\ primary = "up"
  /\ freeze = FALSE
  /\ faults = 0
  /\ pc = [w \in Watchers |-> "boot"]
  /\ ctl = [w \in Watchers |-> Fresh]
  /\ tick = [w \in Watchers |-> Blank]

-----------------------------------------------------------------------------
(* Calls: the API server, and the HTTP API of a pageserver.                 *)

Faulty   == faults < MaxFaults /\ faults' = faults + 1
ApiOk    == UNCHANGED faults
ApiFails == Faulty

\* The standby and an up primary answer unless a fault is spent; a degraded
\* primary may answer or be silent, and so may one on a lost node if DeadAnswers.
MayAnswer(n) ==
  \/ n = Standby
  \/ primary \in {"up", "degraded"}
  \/ primary = "lost" /\ DeadAnswers
Answers(n)   == MayAnswer(n) /\ UNCHANGED faults
Silent(n)    == IF n = Standby \/ primary = "up" THEN Faulty ELSE UNCHANGED faults

\* The routed generation view of tenant t: a generation (loc[route][t].gen),
\* a 404, or an error, which a tenant held as a secondary is too (503).
Reads(t)  == Answers(route) /\ loc[route][t].mode = "attached"
Misses(t) == Answers(route) /\ loc[route][t].mode = "none"
Blind(t)  == Silent(route) \/ (Answers(route) /\ loc[route][t].mode = "secondary")

\* PUT location_config AttachedSingle: a lower generation than the one held is
\* refused, an absent tenant is attached (200, never 404).
Accepts(n, t, g) == g >= loc[n][t].gen
Attach(n, t, g)  == loc' = [loc EXCEPT ![n][t] = Attached(g)]

\* Membership of node n's own listing, whatever the mode.
\* Slips: the PUT's answer taken for it; only a warm secondary counted.
HeldAlways(n, t) == TRUE
HeldWarm(n, t)   == loc[n][t].mode = "secondary"
Held(n, t)       == loc[n][t].mode # "none"

Goto(w, label)   == pc' = [pc EXCEPT ![w] = label]
EndTick(w)       == Goto(w, "idle") /\ tick' = [tick EXCEPT ![w] = Blank]
EndDetection(w)  == Goto(w, "warm") /\ UNCHANGED tick

\* SetGeneration at the token read with the ledger: created if it was absent,
\* else updated only at the resourceVersion read.  An error may hide a write.
WriteLedger(w) == ledger' = [gen |-> tick[w].gen, rv |-> ledger.rv + 1]
\* Slip: a merge-patch, which carries no precondition.
PatchWins(w)   == ApiOk /\ WriteLedger(w)
CasWins(w)     == ApiOk /\ ledger.rv = tick[w].rv /\ WriteLedger(w)
CasLoses(w)    == ApiOk /\ ledger.rv # tick[w].rv /\ UNCHANGED ledger
CasErrs(w)     == ApiFails /\ \/ UNCHANGED ledger
                              \/ ledger.rv = tick[w].rv /\ WriteLedger(w)

-----------------------------------------------------------------------------
(* SeedLedger: once, before the first tick.                                 *)

SeedRead(w) ==
  /\ pc[w] = "boot"
  /\ \/ /\ ApiOk
        /\ tick' = [tick EXCEPT ![w].gen = ledger.gen, ![w].rv = ledger.rv]
        /\ Goto(w, "view")
     \/ ApiFails /\ EndTick(w)
  /\ UNCHANGED <<plane, ctl>>

\* Seed or heal only upwards; an absent key only from a generation recovered.
Propose(w, target) ==
  IF target > tick[w].gen
  THEN Goto(w, "seed") /\ tick' = [tick EXCEPT ![w].gen = target]
  ELSE EndTick(w)

SeedView(w) ==
  LET floor == Larger(tick[w].gen, BaseGeneration) IN
  /\ pc[w] = "view"
  /\ \/ Reads(Base) /\ Propose(w, Larger(floor, loc[route][Base].gen))
     \/ /\ Misses(Base) \/ Blind(Base)
        /\ IF tick[w].gen = 0 THEN EndTick(w) ELSE Propose(w, floor)
  /\ UNCHANGED <<plane, ctl>>

SeedWrite(w) ==
  /\ pc[w] = "seed"
  /\ CasWins(w) \/ CasLoses(w) \/ CasErrs(w)
  /\ EndTick(w)
  /\ UNCHANGED <<route, loc, computes, primary, freeze, ctl>>

-----------------------------------------------------------------------------
(* Tick: the freeze, the selector, the probe and the second vantage.        *)

\* An unreadable freeze is no freeze.
ReadFreeze(w) ==
  /\ pc[w] = "idle"
  /\ \/ ApiOk /\ tick' = [tick EXCEPT ![w].frozen = freeze]
     \/ ApiFails /\ UNCHANGED tick
  /\ Goto(w, "select")
  /\ UNCHANGED <<plane, ctl>>

\* The failover is adopted from the selector; an unreadable selector leaves
\* the latch done as it was.
ReadSelector(w) ==
  /\ pc[w] = "select"
  /\ \E over \in BOOLEAN :
       /\ \/ ApiOk /\ over = (ctl[w].done \/ route = Standby)
          \/ ApiFails /\ over = ctl[w].done
       /\ ctl' = [ctl EXCEPT ![w].done = over]
       /\ Goto(w, IF over THEN "converge" ELSE "probe")
  /\ UNCHANGED <<plane, tick>>

\* The probe is an HTTP request, which the API server's view of the pod does not
\* decide.  failures is only ever compared with the threshold, so it stops there.
Probe(w) ==
  /\ pc[w] = "probe"
  /\ \/ /\ Answers(Primary)
        /\ ctl' = [ctl EXCEPT ![w].failures = 0]
        /\ Goto(w, IF ctl[w].seen THEN "warm" ELSE "sight")
     \/ /\ Silent(Primary)
        /\ IF ctl[w].failures + 1 < FailThreshold
           THEN /\ ctl' = [ctl EXCEPT ![w].failures = @ + 1]
                /\ Goto(w, "warm")
           ELSE /\ ctl' = [ctl EXCEPT ![w].failures = FailThreshold]
                /\ Goto(w, "vantage")
  /\ UNCHANGED <<plane, tick>>

\* The seen-present anchor, taken while the primary is healthy.
Sight(w) ==
  /\ pc[w] = "sight"
  /\ \/ ApiOk /\ ctl' = [ctl EXCEPT ![w].seen = primary # "gone"]
     \/ ApiFails /\ UNCHANGED ctl
  /\ EndDetection(w)
  /\ UNCHANGED plane

\* Slip: the last containerStatuses of a lost node are trusted.
NotRunningUnlessLost == primary = "down"
NotRunning == primary \in {"down", "lost"}

Decide(w) == IF tick[w].frozen THEN "warm" ELSE "failover"

\* PodReady: only a pod that is neither ready nor running, or that is gone
\* after having been seen, is a death.
Vantage(w) ==
  /\ pc[w] = "vantage"
  /\ \/ ApiFails /\ Goto(w, "warm") /\ UNCHANGED ctl
     \/ /\ ApiOk /\ primary # "gone"
        /\ ctl' = [ctl EXCEPT ![w].seen = TRUE]
        /\ Goto(w, IF NotRunning THEN Decide(w) ELSE "warm")
     \/ /\ ApiOk /\ primary = "gone"
        /\ Goto(w, IF ctl[w].seen THEN Decide(w) ELSE "resume")
        /\ UNCHANGED ctl
  /\ UNCHANGED <<plane, tick>>

LedgerAdvanced(w) ==
  /\ pc[w] = "resume"
  /\ \/ ApiFails /\ Goto(w, "warm")
     \/ ApiOk /\ Goto(w, IF ledger.gen > BaseGeneration THEN Decide(w) ELSE "warm")
  /\ UNCHANGED <<plane, ctl, tick>>

-----------------------------------------------------------------------------
(* failover: read, validate, reserve, promote, flip, bounce.                *)

\* A reservation this instance already holds is resumed, never below the
\* ledger; otherwise the next generation is aimed at.
\* Slip: the failover re-uses the generation it read.
AimAtCurrent(w, gen, rv) ==
  /\ tick' = [tick EXCEPT ![w].gen = gen, ![w].rv = rv, ![w].todo = Tenants, ![w].keep = {}]
  /\ Goto(w, "validate")
Aim(w, gen, rv) ==
  LET new == IF ctl[w].resv = 0 THEN gen + 1 ELSE ctl[w].resv IN
  IF new < gen
  THEN EndDetection(w)
  ELSE /\ tick' = [tick EXCEPT ![w].gen = new, ![w].rv = rv,
                               ![w].todo = Tenants, ![w].keep = {}]
       /\ Goto(w, "validate")

ReadLedger(w) ==
  /\ pc[w] = "failover"
  /\ \/ ApiFails /\ EndDetection(w)
     \/ ApiOk /\ ledger.gen # 0 /\ Aim(w, ledger.gen, ledger.rv)
     \/ /\ ApiOk /\ ledger.gen = 0
        /\ tick' = [tick EXCEPT ![w].rv = ledger.rv]
        /\ Goto(w, "recover")
  /\ UNCHANGED <<plane, ctl>>

\* An absent key is recovered from the routed view, or the failover aborts.
Recover(w) ==
  /\ pc[w] = "recover"
  /\ \/ Reads(Base) /\ Aim(w, Larger(loc[route][Base].gen, BaseGeneration), tick[w].rv)
     \/ (Misses(Base) \/ Blind(Base)) /\ EndDetection(w)
  /\ UNCHANGED <<plane, ctl>>

\* Tenant t has been validated, keep being the tenants to promote so far.
\* Slip: the order before ADR-0010 D4, promotions ahead of the reservation.
ValidatedPromotesFirst(w, t, keep) ==
  LET left == tick[w].todo \ {t} IN
  /\ tick' = [tick EXCEPT ![w].todo = IF left = {} THEN keep ELSE left, ![w].keep = keep]
  /\ Goto(w, IF left = {} THEN "promote" ELSE "validate")
Validated(w, t, keep) ==
  LET left == tick[w].todo \ {t} IN
  IF left # {}
  THEN /\ tick' = [tick EXCEPT ![w].todo = left, ![w].keep = keep]
       /\ Goto(w, "validate")
  ELSE /\ tick' = [tick EXCEPT ![w].todo = keep, ![w].keep = {}]
       /\ Goto(w, IF ctl[w].resv = 0 THEN "reserve" ELSE "promote")

\* PASS 1: the standby's own listing; a missing base tenant aborts.
Validate(w) ==
  LET t    == First(tick[w].todo)
      held == Held(Standby, t) IN
  /\ pc[w] = "validate"
  /\ \/ Silent(Standby) /\ EndDetection(w)
     \/ Answers(Standby) /\ held /\ Validated(w, t, tick[w].keep \cup {t})
     \/ Answers(Standby) /\ ~held /\ t = Base /\ EndDetection(w)
     \/ Answers(Standby) /\ ~held /\ t # Base /\ Goto(w, "corroborate") /\ UNCHANGED tick
  /\ UNCHANGED <<plane, ctl>>

\* skippable: another missing tenant is skipped only if the routed view
\* misses it too.
Corroborate(w) ==
  LET t == First(tick[w].todo) IN
  /\ pc[w] = "corroborate"
  /\ \/ Misses(t) /\ Validated(w, t, tick[w].keep)
     \/ (Reads(t) \/ Blind(t)) /\ EndDetection(w)
  /\ UNCHANGED <<plane, ctl>>

Reserve(w) ==
  /\ pc[w] = "reserve"
  /\ \/ /\ CasWins(w)
        /\ ctl' = [ctl EXCEPT ![w].resv = tick[w].gen]
        /\ Goto(w, "promote")
        /\ UNCHANGED tick
     \/ (CasLoses(w) \/ CasErrs(w)) /\ EndDetection(w) /\ UNCHANGED ctl
  /\ UNCHANGED <<route, loc, computes, primary, freeze>>

\* Slip: the flip after the base tenant alone (#1098).
PromotedBaseOnly(w, t) == UNCHANGED tick /\ Goto(w, "flip")
Promoted(w, t) ==
  LET left == tick[w].todo \ {t} IN
  /\ tick' = [tick EXCEPT ![w].todo = left]
  /\ Goto(w, IF left = {} THEN "flip" ELSE "promote")

\* PASS 2: the first tenant refused or failing aborts before the flip.
Promote(w) ==
  LET t == First(tick[w].todo)
      g == tick[w].gen IN
  /\ pc[w] = "promote"
  /\ \/ /\ Answers(Standby) /\ Accepts(Standby, t, g) /\ Attach(Standby, t, g)
        /\ Promoted(w, t)
     \/ /\ Answers(Standby) /\ ~Accepts(Standby, t, g) /\ UNCHANGED loc
        /\ EndDetection(w)
     \/ /\ Silent(Standby)
        /\ UNCHANGED loc \/ (Accepts(Standby, t, g) /\ Attach(Standby, t, g))
        /\ EndDetection(w)
  /\ UNCHANGED <<ledger, route, computes, primary, freeze, ctl>>

Flip(w) ==
  /\ pc[w] = "flip"
  /\ \/ ApiOk /\ route' = Standby /\ Goto(w, "bounce")
     \/ ApiFails /\ route' \in {route, Standby} /\ Goto(w, "warm")
  /\ UNCHANGED <<ledger, loc, computes, primary, freeze, ctl, tick>>

\* DeletePods may fail with some of the pods deleted.
PodsDeleted == ApiOk /\ computes' = {}
DeleteFails == ApiFails /\ computes' \in SUBSET computes

Bounce(w) ==
  /\ pc[w] = "bounce"
  /\ \/ /\ PodsDeleted
        /\ ctl' = [ctl EXCEPT ![w] = [@ EXCEPT !.done = TRUE, !.promoted = TRUE,
                                               !.failures = 0, !.resv = 0]]
     \/ DeleteFails /\ UNCHANGED ctl
  /\ EndDetection(w)
  /\ UNCHANGED <<ledger, route, loc, primary, freeze>>

-----------------------------------------------------------------------------
(* The adopted failover: converge every routed tenant, then bounce once.    *)

Converge(w) ==
  /\ pc[w] = "converge"
  /\ \/ ApiFails /\ Goto(w, "adopt") /\ UNCHANGED tick
     \/ ApiOk /\ ledger.gen <= BaseGeneration /\ Goto(w, "adopt") /\ UNCHANGED tick
     \/ /\ ApiOk /\ ledger.gen > BaseGeneration
        /\ tick' = [tick EXCEPT ![w].gen = ledger.gen, ![w].todo = Tenants]
        /\ Goto(w, "cview")
  /\ UNCHANGED <<plane, ctl>>

Converged(w, t) ==
  LET left == tick[w].todo \ {t} IN
  /\ tick' = [tick EXCEPT ![w].todo = left]
  /\ Goto(w, IF left = {} THEN "adopt" ELSE "cview")

\* Slip: off by one.
LagsByTwo(t, g) == loc[route][t].gen + 1 < g
Lags(t, g)      == loc[route][t].gen < g

\* Only a tenant the routed view reports below the ledger is re-attached.
ConvergeView(w) ==
  LET t == First(tick[w].todo) IN
  /\ pc[w] = "cview"
  /\ \/ Misses(t) /\ Converged(w, t)
     \/ Blind(t) /\ Converged(w, t)
     \/ Reads(t) /\ ~Lags(t, tick[w].gen) /\ Converged(w, t)
     \/ Reads(t) /\ Lags(t, tick[w].gen) /\ Goto(w, "cput") /\ UNCHANGED tick
  /\ UNCHANGED <<plane, ctl>>

\* One tenant's failure never abandons the others.
ConvergePut(w) ==
  LET t == First(tick[w].todo)
      g == tick[w].gen IN
  /\ pc[w] = "cput"
  /\ \/ Answers(Standby) /\ Accepts(Standby, t, g) /\ Attach(Standby, t, g)
     \/ Answers(Standby) /\ ~Accepts(Standby, t, g) /\ UNCHANGED loc
     \/ /\ Silent(Standby)
        /\ UNCHANGED loc \/ (Accepts(Standby, t, g) /\ Attach(Standby, t, g))
  /\ Converged(w, t)
  /\ UNCHANGED <<ledger, route, computes, primary, freeze, ctl>>

\* Slip: the latch that the failover happened taken for the bounce.
HasBouncedIfDone(w) == ctl[w].done
HasBounced(w) == ctl[w].promoted \/ ctl[w].bounced

\* An instance that did not promote itself bounces the computes once.
Adopt(w) ==
  /\ pc[w] = "adopt"
  /\ \/ HasBounced(w) /\ UNCHANGED <<computes, faults, ctl>>
     \/ /\ ~HasBounced(w)
        /\ \/ PodsDeleted /\ ctl' = [ctl EXCEPT ![w].bounced = TRUE]
           \/ DeleteFails /\ UNCHANGED ctl
  /\ EndDetection(w)
  /\ UNCHANGED <<ledger, route, loc, primary, freeze>>

-----------------------------------------------------------------------------
(* The deferred standby-warm pass, at most once per WarmInterval.           *)

WarmThrottled(w) ==
  /\ pc[w] = "warm"
  /\ EndTick(w)
  /\ UNCHANGED <<plane, faults, ctl>>

\* The standby is the node the client Service does not select.
WarmResolve(w) ==
  /\ pc[w] = "warm"
  /\ \/ ApiFails /\ EndTick(w)
     \/ /\ ApiOk
        /\ tick' = [tick EXCEPT ![w].node = Other(route), ![w].todo = Tenants]
        /\ Goto(w, "wcheck")
  /\ UNCHANGED <<plane, ctl>>

Warmed(w, t) ==
  LET left == tick[w].todo \ {t} IN
  IF left = {} THEN EndTick(w)
  ELSE tick' = [tick EXCEPT ![w].todo = left] /\ Goto(w, "wcheck")

\* A tenant held there, attached or warm, is left alone.
WarmCheck(w) ==
  LET t == First(tick[w].todo)
      n == tick[w].node IN
  /\ pc[w] = "wcheck"
  /\ \/ Silent(n) /\ Warmed(w, t)
     \/ Answers(n) /\ Held(n, t) /\ Warmed(w, t)
     \/ Answers(n) /\ ~Held(n, t) /\ Goto(w, "wput") /\ UNCHANGED tick
  /\ UNCHANGED <<plane, ctl>>

\* PUT location_config Secondary, whatever the mode the tenant is in by now.
WarmPut(w) ==
  LET t == First(tick[w].todo)
      n == tick[w].node
      Register == MayAnswer(n) /\ loc' = [loc EXCEPT ![n][t] = Secondary] IN
  /\ pc[w] = "wput"
  /\ \/ Answers(n) /\ Register
     \/ Silent(n) /\ (UNCHANGED loc \/ Register)
  /\ Warmed(w, t)
  /\ UNCHANGED <<ledger, route, computes, primary, freeze, ctl>>

-----------------------------------------------------------------------------
(* Crashes, and everything that is not the watcher.                         *)

Crash(w) ==
  /\ Faulty
  /\ Goto(w, "boot")
  /\ ctl' = [ctl EXCEPT ![w] = Fresh]
  /\ tick' = [tick EXCEPT ![w] = Blank]
  /\ UNCHANGED plane

PrimaryWorsens ==
  /\ \E s \in {"degraded", "down", "lost", "gone"} :
       /\ primary' = s
       /\ \/ primary = "up"
          \/ primary = "degraded" /\ s # "degraded"
          \/ primary \in {"down", "lost"} /\ s = "gone"
  /\ UNCHANGED <<ledger, route, loc, computes, freeze, faults, pc, ctl, tick>>

Emptied(n) == [loc EXCEPT ![n] = [t \in Tenants |-> None]]

\* The primary returns with its volume, or rebuilt on an empty one.
PrimaryReturns ==
  /\ primary # "up" /\ primary' = "up"
  /\ Faulty
  /\ loc' \in {loc, Emptied(Primary)}
  /\ UNCHANGED <<ledger, route, computes, freeze, pc, ctl, tick>>

StandbyRebuilt ==
  /\ StandbyLosesVolume
  /\ Faulty
  /\ loc' = Emptied(Standby)
  /\ UNCHANGED <<ledger, route, computes, primary, freeze, pc, ctl, tick>>

SetFreeze ==
  /\ ~freeze /\ freeze' = TRUE
  /\ Faulty
  /\ UNCHANGED <<ledger, route, loc, computes, primary, pc, ctl, tick>>

\* The window passes, or its clamp to MaxFreezeDuration does.
FreezeLapses ==
  /\ freeze /\ freeze' = FALSE
  /\ UNCHANGED <<ledger, route, loc, computes, primary, faults, pc, ctl, tick>>

\* storage-init and provision-app attach on the routed node at
\* max(ledger, view), and refuse while the ledger is absent.
ReaderAttaches(t) ==
  /\ ledger.gen # 0
  /\ MayAnswer(route)
  /\ Attach(route, t, Larger(ledger.gen, loc[route][t].gen))
  /\ UNCHANGED <<ledger, route, computes, primary, freeze, faults, pc, ctl, tick>>

\* A compute wakes against the node the client Service selects.
ComputeWakes ==
  /\ computes' = computes \cup {route}
  /\ UNCHANGED <<ledger, route, loc, primary, freeze, faults, pc, ctl, tick>>

-----------------------------------------------------------------------------

Seeding(w)  == SeedRead(w) \/ SeedView(w) \/ SeedWrite(w)
Detecting(w) == \/ ReadFreeze(w) \/ ReadSelector(w) \/ Probe(w) \/ Sight(w)
                \/ Vantage(w) \/ LedgerAdvanced(w)
Failover(w) == \/ ReadLedger(w) \/ Recover(w) \/ Validate(w) \/ Corroborate(w)
               \/ Reserve(w) \/ Promote(w) \/ Flip(w) \/ Bounce(w)
Adopting(w) == Converge(w) \/ ConvergeView(w) \/ ConvergePut(w) \/ Adopt(w)
Warming(w)  == WarmThrottled(w) \/ WarmResolve(w) \/ WarmCheck(w) \/ WarmPut(w)

Runs(w) == Seeding(w) \/ Detecting(w) \/ Failover(w) \/ Adopting(w) \/ Warming(w)

Environment ==
  \/ PrimaryWorsens \/ PrimaryReturns \/ StandbyRebuilt
  \/ SetFreeze \/ FreezeLapses \/ ComputeWakes
  \/ \E t \in Tenants : ReaderAttaches(t)

Next == (\E w \in Watchers : Runs(w) \/ Crash(w)) \/ Environment

Spec == Init /\ [][Next]_vars

\* The run loop ticks forever, every call is bounded by a client timeout,
\* WarmInterval passes again and again, and a freeze lapses by its clamp.
Fairness ==
  /\ \A w \in Watchers : WF_vars(Runs(w)) /\ SF_vars(WarmResolve(w))
  /\ WF_vars(FreezeLapses)

FairSpec == Spec /\ Fairness

-----------------------------------------------------------------------------
(* Safety.                                                                  *)

\* No pageserver holds a tenant above the ledger's generation: reality is never
\* ahead of the ledger, the skew in which a promotion would fence nobody
\* (failover's reserve-before-promote, converge, the readers' max contract).
AttachedWithinLedger ==
  ledger.gen # 0 => \A n \in Nodes, t \in Tenants : loc[n][t].gen <= ledger.gen

\* Two instances never hold the same reserved generation, whichever replies
\* the ledger's writes lost (SetGeneration's compare-and-swap).
ReservationsDistinct ==
  \A v, w \in Watchers :
    v # w /\ ctl[v].resv # 0 => ctl[v].resv # ctl[w].resv

\* The ledger is never lowered, and never unset, by any write of any instance
\* (SeedLedger's heal-up only, SetGeneration's precondition).
LedgerNeverLowers == [][ledger'.gen >= ledger.gen]_vars

\* Before the flip, the standby never comes to hold a tenant attached that it
\* did not hold at all: PASS 1 keeps the PUT, which answers 200 for an absent
\* tenant, from attaching a phantom.
NoPhantomAttach ==
  [][route = Primary =>
       \A t \in Tenants : loc[Standby][t].mode = "none"
                          => loc'[Standby][t].mode # "attached"]_vars

\* The warm pass never turns an attached tenant of either node into a
\* secondary, across aborted promotions, flips and lost replies: a Secondary
\* PUT on the just promoted, not yet selected standby would demote the writer.
NeverDemotes ==
  [][\A n \in Nodes, t \in Tenants :
       loc[n][t].mode = "attached" => loc'[n][t].mode # "secondary"]_vars

\* The Service is cut over only to a standby that serves the base tenant at
\* the ledger's generation and has no routed tenant left as a secondary.
PromotedBeforeFlip ==
  [][route' # route =>
       /\ loc[Standby][Base] = Attached(ledger.gen)
       /\ \A t \in Tenants : loc[Standby][t] # Secondary]_vars

-----------------------------------------------------------------------------
(* The inductive invariant behind AttachedWithinLedger,                     *)
(* ReservationsDistinct and ImplementsLedger.                               *)

\* A generation the ledger has not granted yet, above every attached tenant.
Above(g) == /\ g > ledger.gen
            /\ \A n \in Nodes, t \in Tenants : loc[n][t].gen <= g

\* The calls between a read of the ledger and the write at its token.
Holding == {"view", "seed", "recover", "validate", "corroborate", "reserve"}

\* While w's token is the ledger's, what w concluded from its read still holds.
Conclusion(w) ==
  CASE pc[w] = "view"    -> tick[w].gen = ledger.gen
    [] pc[w] = "recover" -> ledger.gen = 0
    [] pc[w] = "seed"    -> Above(tick[w].gen)
    [] OTHER             -> ctl[w].resv = 0 => Above(tick[w].gen)

TokenSound(w) ==
  pc[w] \in Holding =>
    /\ tick[w].rv <= ledger.rv
    /\ tick[w].rv = ledger.rv => Conclusion(w)

\* A resumed failover aims at its own reservation; a reservation, and every
\* generation put on the standby, has been granted by the ledger.
GrantSound(w) ==
  /\ ctl[w].resv <= ledger.gen
  /\ pc[w] \in {"validate", "corroborate"} /\ ctl[w].resv # 0 => tick[w].gen = ctl[w].resv
  /\ pc[w] = "reserve" => ctl[w].resv = 0
  /\ pc[w] \in {"promote", "flip", "cview", "cput"} => tick[w].gen \in 1..ledger.gen

\* Only an attached tenant has a generation, and while the ledger is unset
\* every attached tenant has the same one.
LocationsSound ==
  /\ \A n \in Nodes, t \in Tenants : loc[n][t].mode = "attached" => loc[n][t].gen # 0
  /\ ledger.gen = 0 =>
       \A m, n \in Nodes, s, t \in Tenants :
         loc[m][s].gen # 0 /\ loc[n][t].gen # 0 => loc[m][s].gen = loc[n][t].gen

\* The inductive invariant: what each instance concluded from the ledger stays
\* true until its compare-and-swap can no longer succeed.
LedgerInvariant ==
  /\ AttachedWithinLedger
  /\ ReservationsDistinct
  /\ LocationsSound
  /\ \A w \in Watchers : TokenSound(w) /\ GrantSound(w)

-----------------------------------------------------------------------------
(* The inductive invariant behind NoPhantomAttach, NeverDemotes and          *)
(* PromotedBeforeFlip: what an instance has learnt of the standby before the *)
(* flip stays true until it acts on it.                                      *)

\* One instance: the deployment, whose single replica is recreated.
Alone == \A v, w \in Watchers : v = w

\* Before the flip no instance has latched a failover or is past one.
LatchSound ==
  route = Primary =>
    \A w \in Watchers :
      ~ctl[w].done /\ pc[w] \notin {"bounce", "converge", "cview", "cput", "adopt"}

\* Whatever PASS 1 found held on the standby still is, the base tenant included.
HeldSound(w) ==
  /\ pc[w] \in {"validate", "corroborate"} => \A t \in tick[w].keep : Held(Standby, t)
  /\ pc[w] = "validate" => Base \in tick[w].todo \cup tick[w].keep
  /\ pc[w] = "corroborate" => Base \in tick[w].keep
  /\ pc[w] \in {"reserve", "promote"} =>
       tick[w].todo # {} /\ \A t \in tick[w].todo : Held(Standby, t)

\* The warm pass of a lone instance works on the node the Service does not
\* select, and what it found missing there still is.
WarmSound(w) ==
  /\ pc[w] \in {"wcheck", "wput"} => tick[w].node = Other(route) /\ tick[w].todo # {}
  /\ pc[w] = "wput" => ~Held(tick[w].node, First(tick[w].todo))

\* Served at the generation aimed at, or not provisioned at all.
Settled(w, t) == loc[Standby][t] = Attached(tick[w].gen) \/ ~Held(Standby, t)

\* Of a lone instance before the flip: the tenants it has passed over are not
\* on the standby, those it has promoted are served at the ledger's generation.
CutSound(w) ==
  route = Primary =>
    /\ pc[w] = "recover" => ledger.gen = 0
    /\ pc[w] \in {"validate", "corroborate"} =>
         /\ ctl[w].resv # 0 => tick[w].gen = ledger.gen
         /\ \A t \in Tenants \ (tick[w].todo \cup tick[w].keep) : ~Held(Standby, t)
    /\ pc[w] = "corroborate" => ~Held(Standby, First(tick[w].todo))
    /\ pc[w] = "reserve" =>
         Base \in tick[w].todo /\ \A t \in Tenants \ tick[w].todo : ~Held(Standby, t)
    /\ pc[w] = "promote" =>
         /\ tick[w].gen = ledger.gen
         /\ Base \in tick[w].todo \/ Held(Standby, Base)
         /\ \A t \in Tenants \ tick[w].todo : Settled(w, t)
    /\ pc[w] = "flip" =>
         /\ tick[w].gen = ledger.gen
         /\ Held(Standby, Base)
         /\ \A t \in Tenants : Settled(w, t)

\* What a lone instance over a standby that keeps its volume has concluded of
\* the two nodes is true whenever it promotes, flips or warms.
CutoverInvariant ==
  /\ LatchSound
  /\ \A w \in Watchers : HeldSound(w) /\ WarmSound(w) /\ CutSound(w)

-----------------------------------------------------------------------------
(* Liveness, under FairSpec.                                                *)

\* A primary that is dead for good: stopped, lost with its node, whatever the status
\* of its containers was last (nodeLost), or gone, which is trusted of a pod never
\* seen only if the ledger is past the base generation.
Dead ==
  \/ primary \in {"down", "lost"} /\ ledger.gen # 0
  \/ primary = "gone" /\ ledger.gen > BaseGeneration

ProbeAnswered(w) == Probe(w) /\ ctl'[w].failures = 0

\* A primary that is dead for good, and no longer answers probes either, is failed
\* over, through crashes, freezes, lost replies, an anchor that was never seen and
\* a standby that had to be warmed first.
DeathFailsOver ==
  <>[]Dead /\ <>[][\A w \in Watchers : ~ProbeAnswered(w)]_vars => <>(route = Standby)

\* Once the Service is cut over no compute stays pinned to the old primary,
\* even if the instance that flipped died before its bounce (#57).
FlipBounces == (route = Standby) ~> [](Primary \notin computes)

\* Once the Service is cut over, every tenant the standby serves ends at the
\* ledger's generation, for good (#1100).
FlipConverges ==
  (route = Standby) ~>
    [](\A t \in Tenants : loc[Standby][t].mode = "attached"
                          => loc[Standby][t].gen = ledger.gen)

-----------------------------------------------------------------------------
(* The abstract ledger this protocol implements.                            *)

Abstract == INSTANCE GenerationLedger
              WITH epoch <- ledger.gen,
                   held <- [n \in Nodes |-> [t \in Tenants |-> loc[n][t].gen]],
                   routed <- route,
                   From <- Primary,
                   To <- Standby

\* Whatever the watchers, crashes and lost replies, the ledger only grows, a
\* tenant is only attached at a granted generation and never lower than it
\* was, and the Service moves to the standby once (GenerationLedger).
ImplementsLedger == Abstract!Spec
=============================================================================
