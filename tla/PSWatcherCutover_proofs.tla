----------------------- MODULE PSWatcherCutover_proofs -----------------------
(***************************************************************************)
(* What the watcher does to the two pageservers around the flip: it never  *)
(* attaches a phantom, never demotes a served tenant, and cuts over only   *)
(* to a standby it has promoted.  For any number of tenants and faults;    *)
(* the first result for any number of watchers, the others for a lone one. *)
(***************************************************************************)
EXTENDS PSWatcher_proofs

USE DEF Goto, EndTick, EndDetection, Faulty, ApiOk, ApiFails, plane

-----------------------------------------------------------------------------
(* Helpers.                                                                 *)

\* The tenant served first is one of those left.
LEMMA FirstIn == ASSUME NEW S, S # {} PROVE First(S) \in S
  BY DEF First

\* The base tenant is served before any other.
LEMMA FirstIsBase == ASSUME NEW S, Base \in S PROVE First(S) = Base
  BY DEF First

\* A step of a watcher leaves the others alone.
LEMMA WatcherOnly ==
  ASSUME TypeOK, NEW w \in Watchers, Runs(w) \/ Crash(w) PROVE Only(w)
  <1>1. CASE Crash(w)
    BY <1>1 DEF Crash, Only, TypeOK
  <1> QED
    BY <1>1, RunsOnly

\* Every step is a call of a watcher, a crash, or a step of its environment.
LEMMA NextCases ==
  ASSUME [Next]_vars
  PROVE  \/ \E w \in Watchers : Runs(w)
         \/ \E w \in Watchers : Crash(w)
         \/ Environment
         \/ UNCHANGED vars
  BY DEF Next

\* A rebuilt volume holds nothing, the other node what it did.
LEMMA EmptiedAt ==
  ASSUME loc \in Locations, NEW n, loc' = Emptied(n)
  PROVE  \A m \in Nodes, s \in Tenants : loc'[m][s] \in {loc[m][s], None}
  BY DEF Emptied, Locations

\* The steps that PUT nothing: all but those of the promotion, the convergence
\* and the warm pass.
LEMMA PutsNothing ==
  ASSUME NEW w, Runs(w), ~Promote(w), ~ConvergePut(w), ~WarmPut(w)
  PROVE  UNCHANGED loc
  <1>1. CASE Seeding(w) \/ Detecting(w)
    BY <1>1 DEF Seeding, SeedRead, SeedView, SeedWrite, Detecting, ReadFreeze,
                ReadSelector, Probe, Sight, Vantage, LedgerAdvanced
  <1>2. CASE Failover(w)
    BY <1>2 DEF Failover, ReadLedger, Recover, Validate, Corroborate, Reserve, Flip, Bounce
  <1>3. CASE Adopting(w) \/ Warming(w)
    BY <1>3 DEF Adopting, Converge, ConvergeView, Adopt, Warming, WarmThrottled,
                WarmResolve, WarmCheck
  <1> QED
    BY <1>1, <1>2, <1>3 DEF Runs

\* The selector is written by the flip alone, and only to the standby.
LEMMA FlipRoutes ==
  ASSUME NEW w, Runs(w) PROVE route' = route \/ (Flip(w) /\ route' = Standby)
  <1>1. CASE Seeding(w) \/ Detecting(w)
    BY <1>1 DEF Seeding, SeedRead, SeedView, SeedWrite, Detecting, ReadFreeze,
                ReadSelector, Probe, Sight, Vantage, LedgerAdvanced
  <1>2. CASE Failover(w)
    BY <1>2 DEF Failover, ReadLedger, Recover, Validate, Corroborate, Reserve, Promote,
                Flip, Bounce
  <1>3. CASE Adopting(w) \/ Warming(w)
    BY <1>3 DEF Adopting, Converge, ConvergeView, ConvergePut, Adopt, Warming,
                WarmThrottled, WarmResolve, WarmCheck, WarmPut
  <1> QED
    BY <1>1, <1>2, <1>3 DEF Runs

\* No step selects the primary again.
LEMMA RoutesOnce ==
  ASSUME [Next]_vars PROVE route' = route \/ route' = Standby
  <1>1. CASE Environment
    BY <1>1 DEF Environment, PrimaryWorsens, PrimaryReturns, StandbyRebuilt, SetFreeze,
                FreezeLapses, ComputeWakes, ReaderAttaches
  <1>2. CASE (\E w \in Watchers : Crash(w)) \/ UNCHANGED vars
    BY <1>2 DEF Crash, vars
  <1> QED
    BY <1>1, <1>2, NextCases, FlipRoutes

\* Outside the watchers no one moves their locals, the ledger or the selector.
LEMMA EnvironmentOnly ==
  ASSUME Environment PROVE UNCHANGED <<ledger, route, pc, ctl, tick>>
  BY DEF Environment, PrimaryWorsens, PrimaryReturns, StandbyRebuilt, SetFreeze,
         FreezeLapses, ComputeWakes, ReaderAttaches

\* A crash moves nothing of the plane.
LEMMA CrashOnly ==
  ASSUME TypeOK, NEW w \in Watchers, Crash(w)
  PROVE  /\ Only(w) /\ UNCHANGED <<ledger, route, loc>>
         /\ pc'[w] = "boot" /\ ~ctl'[w].done
  BY DEF Crash, Only, TypeOK, Fresh

-----------------------------------------------------------------------------
(* Before the flip: the latch.                                              *)

\* Before the flip no instance latches a failover, nor gets past one.
LEMMA LatchRuns ==
  ASSUME TypeOK, LatchSound, NEW w \in Watchers, Runs(w), route' = Primary
  PROVE  ~ctl'[w].done /\ pc'[w] \notin {"bounce", "converge", "cview", "cput", "adopt"}
  <1>0. /\ route = Primary
        /\ ~ctl[w].done /\ pc[w] \notin {"bounce", "converge", "cview", "cput", "adopt"}
        /\ pc \in [Watchers -> Labels] /\ ctl \in [Watchers -> Ctls]
    BY FlipRoutes, ConstantsAssumption DEF LatchSound, TypeOK, Ctls
  <1>1. CASE Seeding(w)
    BY <1>0, <1>1 DEF Seeding, SeedRead, SeedView, SeedWrite, Propose
  <1>2. CASE ReadSelector(w)
    BY <1>0, <1>2, ConstantsAssumption DEF ReadSelector, Ctls
  <1>3. CASE ReadFreeze(w) \/ Sight(w) \/ LedgerAdvanced(w)
    BY <1>0, <1>3 DEF ReadFreeze, Sight, LedgerAdvanced, Decide, Ctls
  <1>4. CASE Probe(w)
    BY <1>0, <1>4 DEF Probe, Ctls
  <1>5. CASE Vantage(w)
    BY <1>0, <1>5 DEF Vantage, Decide, Ctls
  <1>6. CASE ReadLedger(w) \/ Recover(w)
    BY <1>0, <1>6 DEF ReadLedger, Recover, Aim
  <1>7. CASE Validate(w) \/ Corroborate(w)
    BY <1>0, <1>7 DEF Validate, Corroborate, Validated
  <1>8. CASE Reserve(w)
    BY <1>0, <1>8 DEF Reserve, Ctls
  <1>9. CASE Promote(w)
    BY <1>0, <1>9 DEF Promote, Promoted
  <1>10. CASE Flip(w)
    BY <1>0, <1>10, ConstantsAssumption DEF Flip
  <1>11. CASE Bounce(w) \/ Adopting(w)
    BY <1>0, <1>11 DEF Bounce, Adopting, Converge, ConvergeView, ConvergePut, Adopt
  <1>12. CASE Warming(w)
    BY <1>0, <1>12 DEF Warming, WarmThrottled, WarmResolve, WarmCheck, WarmPut, Warmed
  <1> QED
    BY <1>1, <1>2, <1>3, <1>4, <1>5, <1>6, <1>7, <1>8, <1>9, <1>10, <1>11, <1>12
       DEF Runs, Detecting, Failover

\* Every step keeps the latch.
LEMMA LatchStep == TypeOK /\ LatchSound /\ [Next]_vars => LatchSound'
  <1> SUFFICES ASSUME TypeOK, LatchSound, [Next]_vars, route' = Primary, NEW v \in Watchers
               PROVE  ~ctl'[v].done /\ pc'[v] \notin {"bounce", "converge", "cview", "cput", "adopt"}
    BY DEF LatchSound
  <1>0. ~ctl[v].done /\ pc[v] \notin {"bounce", "converge", "cview", "cput", "adopt"}
    BY RoutesOnce, ConstantsAssumption DEF LatchSound
  <1>1. ASSUME NEW w \in Watchers, Runs(w)
        PROVE  ~ctl'[v].done /\ pc'[v] \notin {"bounce", "converge", "cview", "cput", "adopt"}
    BY <1>0, <1>1, LatchRuns, RunsOnly DEF Only
  <1>2. ASSUME NEW w \in Watchers, Crash(w)
        PROVE  ~ctl'[v].done /\ pc'[v] \notin {"bounce", "converge", "cview", "cput", "adopt"}
    BY <1>0, <1>2, CrashOnly DEF Only
  <1>3. CASE Environment
    BY <1>0, <1>3, EnvironmentOnly
  <1>4. CASE UNCHANGED vars
    BY <1>0, <1>4 DEF vars
  <1> QED
    BY <1>1, <1>2, <1>3, <1>4, NextCases

-----------------------------------------------------------------------------
(* Before the promotion: what PASS 1 has found held.                        *)

\* A standby that keeps its volume gives no tenant up: it is promoted, warmed
\* or left alone.
LEMMA StandbyKeeps ==
  ASSUME TypeOK, ~StandbyLosesVolume, [Next]_vars, NEW t \in Tenants, Held(Standby, t)
  PROVE  Held(Standby, t)'
  <1>0. /\ loc \in Locations /\ route \in Nodes /\ Standby \in Nodes /\ Primary \in Nodes
        /\ \A w \in Watchers : tick[w].node \in Nodes
        /\ loc[Standby][t].mode # "none"
    BY DEF TypeOK, Locations, Modes, Nodes, Held
  <1> SUFFICES loc'[Standby][t].mode # "none"
    BY DEF Held
  <1>1. ASSUME NEW n \in Nodes, NEW s, NEW g, Attach(n, s, g)
        PROVE  loc'[Standby][t].mode # "none"
    BY <1>0, <1>1 DEF Attach, Attached, Locations
  <1>2. ASSUME NEW n \in Nodes, NEW s, loc' = [loc EXCEPT ![n][s] = Secondary]
        PROVE  loc'[Standby][t].mode # "none"
    BY <1>0, <1>2 DEF Secondary, Locations
  <1>3. CASE UNCHANGED loc
    BY <1>0, <1>3
  <1>4. ASSUME NEW w \in Watchers, Runs(w) PROVE loc'[Standby][t].mode # "none"
    <2>1. CASE Promote(w)
      BY <1>0, <1>1, <1>3, <2>1 DEF Promote
    <2>2. CASE ConvergePut(w)
      BY <1>0, <1>1, <1>3, <2>2 DEF ConvergePut
    <2>3. CASE WarmPut(w)
      BY <1>0, <1>2, <1>3, <2>3 DEF WarmPut
    <2> QED
      BY <1>3, <1>4, <2>1, <2>2, <2>3, PutsNothing
  <1>5. CASE Environment
    <2>1. CASE PrimaryReturns
      BY <1>0, <1>3, <2>1, ConstantsAssumption DEF PrimaryReturns, Emptied, Locations
    <2>2. CASE \E s \in Tenants : ReaderAttaches(s)
      BY <1>0, <1>1, <2>2 DEF ReaderAttaches
    <2>3. CASE PrimaryWorsens \/ SetFreeze \/ FreezeLapses \/ ComputeWakes
      BY <1>3, <2>3 DEF PrimaryWorsens, SetFreeze, FreezeLapses, ComputeWakes
    <2> QED
      BY <1>5, <2>1, <2>2, <2>3 DEF Environment, StandbyRebuilt
  <1>6. CASE (\E w \in Watchers : Crash(w)) \/ UNCHANGED vars
    BY <1>3, <1>6, CrashOnly DEF vars
  <1> QED
    BY <1>4, <1>5, <1>6, NextCases

\* What an instance knows to be held survives a step of another.
LEMMA HeldKept ==
  ASSUME TypeOK, ~StandbyLosesVolume, [Next]_vars, NEW v \in Watchers, HeldSound(v),
         pc'[v] = pc[v], tick'[v] = tick[v]
  PROVE  HeldSound(v)'
  <1>1. tick[v].keep \subseteq Tenants /\ tick[v].todo \subseteq Tenants
    BY DEF TypeOK
  <1>2. \A t \in Tenants : Held(Standby, t) => Held(Standby, t)'
    BY StandbyKeeps
  <1> QED
    BY <1>1, <1>2 DEF HeldSound

\* A step that leaves PASS 1 and PASS 2 has nothing to know.
LEMMA HeldReleased ==
  ASSUME NEW w, pc'[w] \notin {"validate", "corroborate", "reserve", "promote"}
  PROVE  HeldSound(w)'
  BY DEF HeldSound

\* The validation starts with the whole routed set, the base tenant in it.
LEMMA HeldAimed ==
  ASSUME TypeOK, NEW w \in Watchers, NEW gen, NEW rv, Aim(w, gen, rv)
  PROVE  HeldSound(w)'
  <1>0. pc \in [Watchers -> Labels] /\ tick \in [Watchers -> Ticks]
    BY DEF TypeOK, Ticks
  <1>1. CASE EndDetection(w)
    BY <1>0, <1>1, HeldReleased
  <1>2. CASE ~EndDetection(w)
    <2>1. pc'[w] = "validate" /\ tick'[w].todo = Tenants /\ tick'[w].keep = {}
      BY <1>0, <1>2 DEF Aim, Ticks
    <2> QED
      BY <2>1, ConstantsAssumption DEF HeldSound
  <1> QED
    BY <1>1, <1>2

\* A tenant validated is kept if it is held; the last one hands the kept ones
\* over to the promotion.
LEMMA HeldValidated ==
  ASSUME TypeOK, NEW w \in Watchers, pc[w] \in {"validate", "corroborate"}, HeldSound(w),
         UNCHANGED loc, NEW t, NEW keep \in SUBSET Tenants, Validated(w, t, keep),
         \A s \in keep : Held(Standby, s), Base \in (tick[w].todo \ {t}) \cup keep
  PROVE  HeldSound(w)'
  <1>0. /\ pc \in [Watchers -> Labels] /\ tick \in [Watchers -> Ticks]
        /\ \A s \in keep : Held(Standby, s)'
    BY DEF TypeOK, Ticks, Held
  <1>1. CASE tick[w].todo \ {t} # {}
    <2>1. pc'[w] = "validate" /\ tick'[w].todo = tick[w].todo \ {t} /\ tick'[w].keep = keep
      BY <1>0, <1>1 DEF Validated, Ticks
    <2> QED
      BY <1>0, <2>1 DEF HeldSound
  <1>2. CASE tick[w].todo \ {t} = {}
    <2>1. pc'[w] \in {"reserve", "promote"} /\ tick'[w].todo = keep
      BY <1>0, <1>2 DEF Validated, Ticks
    <2>2. keep # {}
      BY <1>2
    <2> QED
      BY <1>0, <2>1, <2>2 DEF HeldSound
  <1> QED
    BY <1>1, <1>2

\* The calls of PASS 1 and PASS 2 keep what they rely on.
LEMMA HeldRuns ==
  ASSUME TypeOK, ~StandbyLosesVolume, NEW w \in Watchers, HeldSound(w), Runs(w)
  PROVE  HeldSound(w)'
  <1>0. /\ pc \in [Watchers -> Labels] /\ tick \in [Watchers -> Ticks]
        /\ tick[w].keep \in SUBSET Tenants /\ tick[w].todo \in SUBSET Tenants
    BY DEF TypeOK, Ticks
  <1>1. CASE Seeding(w)
    BY <1>0, <1>1, HeldReleased DEF Seeding, SeedRead, SeedView, SeedWrite, Propose
  <1>2. CASE Detecting(w)
    BY <1>0, <1>2, HeldReleased
       DEF Detecting, ReadFreeze, ReadSelector, Probe, Sight, Vantage, LedgerAdvanced, Decide
  <1>3. CASE ReadLedger(w) \/ Recover(w)
    <2>1. CASE \E gen, rv : Aim(w, gen, rv)
      BY <2>1, HeldAimed
    <2>2. CASE EndDetection(w) \/ Goto(w, "recover")
      BY <1>0, <2>2, HeldReleased
    <2> QED
      BY <1>3, <2>1, <2>2 DEF ReadLedger, Recover
  <1>4. CASE Validate(w)
    <2> DEFINE t == First(tick[w].todo)
    <2>1. /\ pc[w] = "validate" /\ UNCHANGED loc /\ t \in tick[w].todo
          /\ \A s \in tick[w].keep : Held(Standby, s)
          /\ Base \in tick[w].todo \cup tick[w].keep
      BY <1>4, FirstIn DEF Validate, TypeOK, HeldSound
    <2>2. Base \in tick[w].todo => t = Base
      BY FirstIsBase
    <2> HIDE DEF t
    <2>3. CASE Held(Standby, t) /\ Validated(w, t, tick[w].keep \cup {t})
      <3>1. tick[w].keep \cup {t} \in SUBSET Tenants
        BY <1>0, <2>1
      <3>2. \A s \in tick[w].keep \cup {t} : Held(Standby, s)
        BY <2>1, <2>3
      <3>3. Base \in (tick[w].todo \ {t}) \cup (tick[w].keep \cup {t})
        BY <2>1
      <3> QED
        BY <2>1, <2>3, <3>1, <3>2, <3>3, HeldValidated
    <2>4. CASE t # Base /\ Goto(w, "corroborate") /\ UNCHANGED tick
      <3>1. pc'[w] = "corroborate" /\ Base \in tick[w].keep
        BY <1>0, <2>1, <2>2, <2>4
      <3> QED
        BY <2>1, <2>4, <3>1 DEF HeldSound, Held
    <2>5. CASE EndDetection(w)
      BY <1>0, <2>5, HeldReleased
    <2> QED
      BY <1>4, <2>3, <2>4, <2>5 DEF Validate, t
  <1>5. CASE Corroborate(w)
    <2>1. /\ pc[w] = "corroborate" /\ UNCHANGED loc
          /\ \A s \in tick[w].keep : Held(Standby, s)
          /\ Base \in tick[w].keep
      BY <1>5 DEF Corroborate, HeldSound
    <2>2. CASE \E t : Validated(w, t, tick[w].keep)
      BY <1>0, <2>1, <2>2, HeldValidated
    <2>3. CASE EndDetection(w)
      BY <1>0, <2>3, HeldReleased
    <2> QED
      BY <1>5, <2>2, <2>3 DEF Corroborate
  <1>6. CASE Reserve(w)
    <2>1. CASE pc'[w] = "promote"
      BY <1>0, <1>6, <2>1 DEF Reserve, HeldSound, Held
    <2>2. CASE pc'[w] # "promote"
      BY <1>0, <1>6, <2>2, HeldReleased DEF Reserve
    <2> QED
      BY <2>1, <2>2
  <1>7. CASE Promote(w)
    <2>1. CASE pc'[w] = "promote"
      <3>1. tick'[w].todo # {} /\ tick'[w].todo \subseteq tick[w].todo
        BY <1>0, <1>7, <2>1 DEF Promote, Promoted, Ticks
      <3>2. \A s \in tick[w].todo : Held(Standby, s)'
        BY <1>0, <1>7, StandbyKeeps DEF Promote, HeldSound, Next, Runs, Failover
      <3> QED
        BY <2>1, <3>1, <3>2 DEF HeldSound
    <2>2. CASE pc'[w] # "promote"
      BY <1>0, <1>7, <2>2, HeldReleased DEF Promote, Promoted
    <2> QED
      BY <2>1, <2>2
  <1>8. CASE Flip(w) \/ Bounce(w)
    BY <1>0, <1>8, HeldReleased DEF Flip, Bounce
  <1>9. CASE Adopting(w)
    BY <1>0, <1>9, HeldReleased
       DEF Adopting, Converge, ConvergeView, ConvergePut, Adopt, Converged
  <1>10. CASE Warming(w)
    BY <1>0, <1>10, HeldReleased
       DEF Warming, WarmThrottled, WarmResolve, WarmCheck, WarmPut, Warmed
  <1> QED
    BY <1>1, <1>2, <1>3, <1>4, <1>5, <1>6, <1>7, <1>8, <1>9, <1>10 DEF Runs, Failover

\* Every step keeps what PASS 1 found, for all the instances.
LEMMA HeldStep ==
  ASSUME TypeOK, ~StandbyLosesVolume, [Next]_vars, \A w \in Watchers : HeldSound(w)
  PROVE  \A w \in Watchers : HeldSound(w)'
  <1> SUFFICES ASSUME NEW v \in Watchers PROVE HeldSound(v)'
    OBVIOUS
  <1>1. ASSUME NEW w \in Watchers, Runs(w) PROVE HeldSound(v)'
    BY <1>1, HeldRuns, HeldKept, RunsOnly DEF Only
  <1>2. ASSUME NEW w \in Watchers, Crash(w) PROVE HeldSound(v)'
    BY <1>2, CrashOnly, HeldReleased, HeldKept DEF Only
  <1>3. CASE Environment
    BY <1>3, EnvironmentOnly, HeldKept
  <1>4. CASE UNCHANGED vars
    BY <1>4, HeldKept DEF vars
  <1> QED
    BY <1>1, <1>2, <1>3, <1>4, NextCases

-----------------------------------------------------------------------------
(* No phantom.                                                              *)

\* Before the flip the only PUT on the standby that attaches is the promotion
\* of a tenant found held.
LEMMA AttachesHeld ==
  ASSUME TypeOK, LatchSound, \A w \in Watchers : HeldSound(w), [Next]_vars,
         route = Primary, NEW t \in Tenants, ~Held(Standby, t)
  PROVE  loc'[Standby][t].mode # "attached"
  <1>0. /\ loc \in Locations /\ route \in Nodes /\ Standby \in Nodes /\ Primary \in Nodes
        /\ \A w \in Watchers : tick[w].node \in Nodes /\ tick[w].todo \subseteq Tenants
        /\ loc[Standby][t].mode = "none" /\ Primary # Standby
    BY ConstantsAssumption DEF TypeOK, Locations, Modes, Nodes, Held
  <1>1. CASE UNCHANGED loc
    BY <1>0, <1>1
  <1>2. ASSUME NEW w \in Watchers, Runs(w) PROVE loc'[Standby][t].mode # "attached"
    <2>1. CASE Promote(w)
      <3>1. First(tick[w].todo) \in tick[w].todo /\ Held(Standby, First(tick[w].todo))
        BY <2>1, FirstIn DEF Promote, HeldSound
      <3>2. First(tick[w].todo) # t
        BY <3>1
      <3>3. ASSUME NEW g, Attach(Standby, First(tick[w].todo), g)
            PROVE  loc'[Standby][t] = loc[Standby][t]
        BY <1>0, <3>2, <3>3 DEF Attach, Locations
      <3> QED
        BY <1>0, <1>1, <2>1, <3>3 DEF Promote
    <2>2. CASE ConvergePut(w)
      BY <2>2 DEF ConvergePut, LatchSound
    <2>3. CASE WarmPut(w)
      <3>1. ASSUME NEW n \in Nodes, NEW s, loc' = [loc EXCEPT ![n][s] = Secondary]
            PROVE  loc'[Standby][t] \in {loc[Standby][t], Secondary}
        BY <1>0, <3>1 DEF Locations
      <3> QED
        BY <1>0, <1>1, <2>3, <3>1 DEF WarmPut, Secondary
    <2> QED
      BY <1>1, <1>2, <2>1, <2>2, <2>3, PutsNothing
  <1>3. CASE Environment
    <2>1. CASE PrimaryReturns \/ StandbyRebuilt
      BY <1>0, <1>1, <2>1, EmptiedAt DEF PrimaryReturns, StandbyRebuilt, None
    <2>2. CASE \E s \in Tenants : ReaderAttaches(s)
      BY <1>0, <2>2 DEF ReaderAttaches, Attach, Locations
    <2>3. CASE PrimaryWorsens \/ SetFreeze \/ FreezeLapses \/ ComputeWakes
      BY <1>1, <2>3 DEF PrimaryWorsens, SetFreeze, FreezeLapses, ComputeWakes
    <2> QED
      BY <1>3, <2>1, <2>2, <2>3 DEF Environment
  <1>4. CASE (\E w \in Watchers : Crash(w)) \/ UNCHANGED vars
    BY <1>1, <1>4, CrashOnly DEF vars
  <1> QED
    BY <1>2, <1>3, <1>4, NextCases

\* A plane before its first failover has concluded nothing.
LEMMA CutoverInit == Init => CutoverInvariant
  BY DEF Init, CutoverInvariant, LatchSound, HeldSound, WarmSound, CutSound, Fresh

\* No watcher attaches on the standby, before the flip, a tenant it does not
\* hold, whatever the other watchers, their crashes and the lost replies: PASS 1
\* keeps the PUT, which would answer 200, from making a phantom (while the
\* standby keeps its volume).
THEOREM NoPhantom == ~StandbyLosesVolume => (Spec => NoPhantomAttach)
  <1> SUFFICES ASSUME ~StandbyLosesVolume PROVE Spec => NoPhantomAttach
    OBVIOUS
  <1> DEFINE HeldAll == \A w \in Watchers : HeldSound(w)
  <1>1. Init => LatchSound /\ HeldAll
    BY CutoverInit DEF CutoverInvariant
  <1>2. TypeOK /\ LatchSound /\ HeldAll /\ [Next]_vars => LatchSound' /\ HeldAll'
    BY LatchStep, HeldStep
  <1>3. TypeOK /\ LatchSound /\ HeldAll /\ [Next]_vars =>
          [route = Primary =>
             \A t \in Tenants : loc[Standby][t].mode = "none"
                                => loc'[Standby][t].mode # "attached"]_vars
    BY AttachesHeld DEF Held
  <1> HIDE DEF HeldAll
  <1> QED
    BY <1>1, <1>2, <1>3, TypeCorrect, PTL DEF Spec, NoPhantomAttach

-----------------------------------------------------------------------------
(* The warm pass of a lone watcher.                                         *)

\* A lone watcher is the one that steps.
LEMMA LoneSteps ==
  ASSUME Alone, NEW v \in Watchers, NEW w \in Watchers PROVE v = w
  BY DEF Alone

\* A step that leaves the warm pass has nothing to know.
LEMMA WarmReleased ==
  ASSUME NEW w, pc'[w] \notin {"wcheck", "wput"} PROVE WarmSound(w)'
  BY DEF WarmSound

\* The warm pass finds its node, and finds missing what it registers.
LEMMA WarmRuns ==
  ASSUME TypeOK, NEW w \in Watchers, WarmSound(w), Runs(w) PROVE WarmSound(w)'
  <1>0. /\ pc \in [Watchers -> Labels] /\ tick \in [Watchers -> Ticks]
        /\ tick[w].todo \in SUBSET Tenants /\ Tenants # {}
    BY ConstantsAssumption DEF TypeOK, Ticks
  <1>1. CASE Seeding(w)
    BY <1>0, <1>1, WarmReleased DEF Seeding, SeedRead, SeedView, SeedWrite, Propose
  <1>2. CASE Detecting(w)
    BY <1>0, <1>2, WarmReleased
       DEF Detecting, ReadFreeze, ReadSelector, Probe, Sight, Vantage, LedgerAdvanced, Decide
  <1>3. CASE Failover(w)
    BY <1>0, <1>3, WarmReleased
       DEF Failover, ReadLedger, Recover, Validate, Corroborate, Reserve, Promote, Flip,
           Bounce, Aim, Validated, Promoted
  <1>4. CASE Adopting(w)
    BY <1>0, <1>4, WarmReleased
       DEF Adopting, Converge, ConvergeView, ConvergePut, Adopt, Converged
  <1>5. CASE WarmThrottled(w)
    BY <1>0, <1>5, WarmReleased DEF WarmThrottled
  <1>6. CASE WarmResolve(w)
    <2>1. CASE EndTick(w)
      BY <1>0, <2>1, WarmReleased
    <2>2. CASE ~EndTick(w)
      BY <1>0, <1>6, <2>2 DEF WarmResolve, WarmSound, Ticks, Other
    <2> QED
      BY <2>1, <2>2
  <1>7. ASSUME NEW t, pc[w] \in {"wcheck", "wput"}, Warmed(w, t), UNCHANGED route
        PROVE  WarmSound(w)'
    <2>1. CASE EndTick(w)
      BY <1>0, <2>1, WarmReleased
    <2>2. CASE ~EndTick(w)
      BY <1>0, <1>7, <2>2 DEF Warmed, WarmSound, Ticks, Other
    <2> QED
      BY <2>1, <2>2
  <1>8. CASE WarmCheck(w)
    <2>1. CASE Warmed(w, First(tick[w].todo))
      BY <1>7, <1>8, <2>1 DEF WarmCheck
    <2>2. CASE ~Held(tick[w].node, First(tick[w].todo)) /\ Goto(w, "wput") /\ UNCHANGED tick
      <3>1. pc'[w] = "wput" /\ UNCHANGED <<loc, route>> /\ pc[w] = "wcheck"
        BY <1>0, <1>8, <2>2 DEF WarmCheck
      <3> QED
        BY <2>2, <3>1 DEF WarmSound, Held, Other
    <2> QED
      BY <1>8, <2>1, <2>2 DEF WarmCheck
  <1>9. CASE WarmPut(w)
    BY <1>7, <1>9 DEF WarmPut
  <1> QED
    BY <1>1, <1>2, <1>3, <1>4, <1>5, <1>6, <1>8, <1>9 DEF Runs, Warming

\* Outside a lone watcher nothing is attached on the node not selected.
LEMMA WarmEnvironment ==
  ASSUME TypeOK, NEW w \in Watchers, WarmSound(w), Environment PROVE WarmSound(w)'
  <1>0. /\ loc \in Locations /\ tick[w].todo \subseteq Tenants /\ route \in Nodes
        /\ UNCHANGED <<ledger, route, pc, ctl, tick>>
    BY EnvironmentOnly DEF TypeOK, Locations, Modes
  <1>1. CASE pc[w] # "wput"
    BY <1>0, <1>1 DEF WarmSound, Other
  <1>2. CASE pc[w] = "wput"
    <2> DEFINE n == Other(route)
               t == First(tick[w].todo)
    <2>1. /\ tick[w].node = n /\ t \in Tenants /\ loc[n][t].mode = "none"
          /\ n \in Nodes /\ n # route /\ tick[w].todo # {}
      BY <1>0, <1>2, FirstIn, ConstantsAssumption DEF WarmSound, Held, Other, Nodes
    <2> HIDE DEF n, t
    <2>2. loc'[n][t].mode = "none"
      <3>1. CASE PrimaryReturns \/ StandbyRebuilt
        BY <1>0, <2>1, <3>1, EmptiedAt DEF PrimaryReturns, StandbyRebuilt, None
      <3>2. CASE \E s \in Tenants : ReaderAttaches(s)
        BY <1>0, <2>1, <3>2 DEF ReaderAttaches, Attach, Locations
      <3>3. CASE PrimaryWorsens \/ SetFreeze \/ FreezeLapses \/ ComputeWakes
        BY <2>1, <3>3 DEF PrimaryWorsens, SetFreeze, FreezeLapses, ComputeWakes
      <3> QED
        BY <3>1, <3>2, <3>3 DEF Environment
    <2> QED
      BY <1>0, <2>1, <2>2 DEF WarmSound, Held, Other, n, t
  <1> QED
    BY <1>1, <1>2

\* Every step keeps what the warm pass found.
LEMMA WarmStep ==
  ASSUME TypeOK, Alone, [Next]_vars, \A w \in Watchers : WarmSound(w)
  PROVE  \A w \in Watchers : WarmSound(w)'
  <1> SUFFICES ASSUME NEW v \in Watchers PROVE WarmSound(v)'
    OBVIOUS
  <1>1. ASSUME NEW w \in Watchers, Runs(w) PROVE WarmSound(v)'
    <2>1. v = w
      BY LoneSteps
    <2> QED
      BY <1>1, <2>1, WarmRuns
  <1>2. ASSUME NEW w \in Watchers, Crash(w) PROVE WarmSound(v)'
    <2>1. v = w
      BY LoneSteps
    <2> QED
      BY <1>2, <2>1, CrashOnly, WarmReleased
  <1>3. CASE Environment
    BY <1>3, WarmEnvironment
  <1>4. CASE UNCHANGED vars
    BY <1>4 DEF vars, WarmSound, Held, Other
  <1> QED
    BY <1>1, <1>2, <1>3, <1>4, NextCases

\* Only the warm pass leaves a tenant as a secondary, and only one it found
\* missing.
LEMMA DemotesNone ==
  ASSUME TypeOK, \A w \in Watchers : WarmSound(w), [Next]_vars,
         NEW n \in Nodes, NEW t \in Tenants, loc[n][t].mode = "attached"
  PROVE  loc'[n][t].mode # "secondary"
  <1>0. /\ loc \in Locations /\ route \in Nodes
        /\ \A w \in Watchers : tick[w].node \in Nodes /\ tick[w].todo \subseteq Tenants
    BY DEF TypeOK, Locations, Modes
  <1>1. CASE UNCHANGED loc
    BY <1>1
  <1>2. ASSUME NEW m \in Nodes, NEW s, NEW g, Attach(m, s, g)
        PROVE  loc'[n][t].mode # "secondary"
    BY <1>0, <1>2 DEF Attach, Attached, Locations
  <1>3. ASSUME NEW w \in Watchers, Runs(w) PROVE loc'[n][t].mode # "secondary"
    <2>1. CASE Promote(w)
      BY <1>1, <1>2, <2>1 DEF Promote, Nodes
    <2>2. CASE ConvergePut(w)
      BY <1>1, <1>2, <2>2 DEF ConvergePut, Nodes
    <2>3. CASE WarmPut(w)
      <3>1. ~Held(tick[w].node, First(tick[w].todo))
        BY <2>3 DEF WarmPut, WarmSound
      <3>2. tick[w].node # n \/ First(tick[w].todo) # t
        BY <3>1 DEF Held
      <3>3. loc' = [loc EXCEPT ![tick[w].node][First(tick[w].todo)] = Secondary]
            => loc'[n][t] = loc[n][t]
        BY <1>0, <3>2 DEF Locations
      <3> QED
        BY <1>1, <2>3, <3>3 DEF WarmPut
    <2> QED
      BY <1>1, <1>3, <2>1, <2>2, <2>3, PutsNothing
  <1>4. CASE Environment
    <2>1. CASE PrimaryReturns \/ StandbyRebuilt
      BY <1>0, <1>1, <2>1, EmptiedAt DEF PrimaryReturns, StandbyRebuilt, None
    <2>2. CASE \E s \in Tenants : ReaderAttaches(s)
      BY <1>0, <1>2, <2>2 DEF ReaderAttaches
    <2>3. CASE PrimaryWorsens \/ SetFreeze \/ FreezeLapses \/ ComputeWakes
      BY <1>1, <2>3 DEF PrimaryWorsens, SetFreeze, FreezeLapses, ComputeWakes
    <2> QED
      BY <1>4, <2>1, <2>2, <2>3 DEF Environment
  <1>5. CASE (\E w \in Watchers : Crash(w)) \/ UNCHANGED vars
    BY <1>1, <1>5, CrashOnly DEF vars
  <1> QED
    BY <1>3, <1>4, <1>5, NextCases

\* The warm pass of a lone watcher never demotes a tenant that either node
\* serves, across aborted promotions, flips, crashes, lost replies and rebuilt
\* volumes: what it registers is missing on the node not selected, where no
\* one else attaches.
THEOREM NoDemotion == Alone => (Spec => NeverDemotes)
  <1> SUFFICES ASSUME Alone PROVE Spec => NeverDemotes
    OBVIOUS
  <1> DEFINE WarmAll == \A w \in Watchers : WarmSound(w)
  <1>1. Init => WarmAll
    BY CutoverInit DEF CutoverInvariant
  <1>2. TypeOK /\ WarmAll /\ [Next]_vars => WarmAll'
    BY WarmStep
  <1>3. TypeOK /\ WarmAll /\ [Next]_vars =>
          [\A n \in Nodes, t \in Tenants :
             loc[n][t].mode = "attached" => loc'[n][t].mode # "secondary"]_vars
    BY DemotesNone
  <1> HIDE DEF WarmAll
  <1> QED
    BY <1>1, <1>2, <1>3, TypeCorrect, PTL DEF Spec, NeverDemotes

-----------------------------------------------------------------------------
(* The flip of a lone watcher.                                              *)

\* Before the flip the environment leaves a standby that keeps its volume alone.
LEMMA EnvironmentSpares ==
  ASSUME TypeOK, ~StandbyLosesVolume, Environment, route = Primary, NEW t \in Tenants
  PROVE  loc'[Standby][t] = loc[Standby][t]
  <1>0. loc \in Locations /\ Standby \in Nodes /\ Primary \in Nodes /\ Primary # Standby
    BY ConstantsAssumption DEF TypeOK, Locations, Modes, Nodes
  <1>1. CASE PrimaryReturns
    BY <1>0, <1>1 DEF PrimaryReturns, Emptied, Locations
  <1>2. CASE \E s \in Tenants : ReaderAttaches(s)
    BY <1>0, <1>2 DEF ReaderAttaches, Attach, Locations
  <1>3. CASE PrimaryWorsens \/ SetFreeze \/ FreezeLapses \/ ComputeWakes
    BY <1>3 DEF PrimaryWorsens, SetFreeze, FreezeLapses, ComputeWakes
  <1> QED
    BY <1>1, <1>2, <1>3 DEF Environment, StandbyRebuilt

\* What a lone watcher knows before the flip survives a step that moves neither
\* its locals, nor the ledger, nor the standby.
LEMMA CutKept ==
  ASSUME TypeOK, NEW w \in Watchers, CutSound(w), HeldSound(w), UNCHANGED <<ledger, pc, ctl, tick>>,
         route' = Primary => route = Primary,
         route' = Primary => \A t \in Tenants : loc'[Standby][t] = loc[Standby][t]
  PROVE  CutSound(w)'
  <1>1. pc[w] = "corroborate" => First(tick[w].todo) \in Tenants
    BY FirstIn DEF TypeOK
  <1>2. Base \in Tenants
    BY ConstantsAssumption
  <1> SUFFICES ASSUME route' = Primary PROVE CutSound(w)'
    BY DEF CutSound
  <1>3. /\ pc'[w] = pc[w] /\ tick'[w] = tick[w] /\ ctl'[w] = ctl[w] /\ ledger' = ledger
        /\ \A t \in Tenants : Held(Standby, t)' = Held(Standby, t) /\ Settled(w, t)' = Settled(w, t)
    BY DEF Held, Settled
  <1>4. pc[w] = "corroborate" =>
          Held(Standby, First(tick[w].todo))' = Held(Standby, First(tick[w].todo))
    BY <1>1, <1>3 DEF Held
  <1> HIDE DEF Held, Settled
  <1> QED
    BY <1>1, <1>2, <1>3, <1>4 DEF CutSound

\* A step that leaves the failover has nothing to know.
LEMMA CutReleased ==
  ASSUME NEW w,
         pc'[w] \notin {"recover", "validate", "corroborate", "reserve", "promote", "flip"}
  PROVE  CutSound(w)'
  BY DEF CutSound

\* Aiming at or above the ledger, a resumed reservation can only be its own
\* generation.
LEMMA CutAimed ==
  ASSUME TypeOK, NEW w \in Watchers, UNCHANGED <<ledger, ctl>>, ctl[w].resv <= ledger.gen,
         NEW gen \in Nat, NEW rv, gen >= ledger.gen, Aim(w, gen, rv)
  PROVE  CutSound(w)'
  <1>0. /\ pc \in [Watchers -> Labels] /\ tick \in [Watchers -> Ticks]
        /\ ctl[w].resv \in Nat /\ ledger.gen \in Nat
    BY DEF TypeOK, Ticks
  <1>1. CASE EndDetection(w)
    BY <1>0, <1>1, CutReleased
  <1>2. CASE ~EndDetection(w)
    <2>1. /\ pc'[w] = "validate" /\ tick'[w].todo = Tenants
          /\ ctl[w].resv # 0 => tick'[w].gen = ctl[w].resv /\ ctl[w].resv >= gen
      BY <1>0, <1>2 DEF Aim, Ticks
    <2> QED
      BY <1>0, <2>1 DEF CutSound
  <1> QED
    BY <1>1, <1>2

\* The tenants passed over are missing on the standby, and the base tenant is
\* not one of them.
LEMMA CutValidated ==
  ASSUME TypeOK, NEW w \in Watchers, pc[w] \in {"validate", "corroborate"}, CutSound(w),
         UNCHANGED <<ledger, ctl, route, loc>>, route = Primary,
         NEW t, NEW keep \in SUBSET Tenants, Validated(w, t, keep),
         tick[w].keep \subseteq keep, t \in keep \/ ~Held(Standby, t),
         Base \in (tick[w].todo \ {t}) \cup keep
  PROVE  CutSound(w)'
  <1>0. /\ pc \in [Watchers -> Labels] /\ tick \in [Watchers -> Ticks]
        /\ ctl[w].resv # 0 => tick[w].gen = ledger.gen
        /\ \A s \in Tenants \ ((tick[w].todo \ {t}) \cup keep) : ~Held(Standby, s)
    BY DEF TypeOK, Ticks, CutSound
  <1>1. CASE tick[w].todo \ {t} # {}
    <2>1. /\ pc'[w] = "validate" /\ tick'[w].todo = tick[w].todo \ {t}
          /\ tick'[w].keep = keep /\ tick'[w].gen = tick[w].gen
      BY <1>0, <1>1 DEF Validated, Ticks
    <2> QED
      BY <1>0, <2>1 DEF CutSound, Held
  <1>2. CASE tick[w].todo \ {t} = {}
    <2>1. /\ pc'[w] = IF ctl[w].resv = 0 THEN "reserve" ELSE "promote"
          /\ tick'[w].todo = keep /\ tick'[w].gen = tick[w].gen
      BY <1>0, <1>2 DEF Validated, Ticks
    <2>2. \A s \in Tenants \ keep : ~Held(Standby, s)' /\ Settled(w, s)'
      BY <1>0, <1>2 DEF Held, Settled
    <2>3. Base \in keep
      BY <1>2
    <2> QED
      BY <1>0, <2>1, <2>2, <2>3 DEF CutSound
  <1> QED
    BY <1>1, <1>2

\* A promotion leaves the tenants it has dealt with served at the ledger's
\* generation, or missing.
LEMMA CutPromoted ==
  ASSUME TypeOK, NEW w \in Watchers, CutSound(w), HeldSound(w), Promote(w), route = Primary
  PROVE  CutSound(w)'
  <1> DEFINE t == First(tick[w].todo)
             g == tick[w].gen
  <1>0. /\ pc \in [Watchers -> Labels] /\ tick \in [Watchers -> Ticks] /\ loc \in Locations
        /\ tick[w].todo \in SUBSET Tenants /\ Base \in Tenants /\ Standby \in Nodes
        /\ pc[w] = "promote" /\ UNCHANGED <<ledger, route>>
    BY ConstantsAssumption DEF Promote, TypeOK, Ticks, Locations, Modes, Nodes
  <1>1. /\ g = ledger.gen
        /\ Base \in tick[w].todo \/ Held(Standby, Base)
        /\ \A s \in Tenants \ tick[w].todo : Settled(w, s)
        /\ t \in tick[w].todo
    BY <1>0, FirstIn DEF CutSound, HeldSound
  <1> HIDE DEF t
  <1>2. CASE EndDetection(w)
    BY <1>0, <1>2, CutReleased
  <1>3. CASE Attach(Standby, t, g) /\ Promoted(w, t)
    <2>1. /\ tick'[w].todo = tick[w].todo \ {t} /\ tick'[w].gen = g
          /\ pc'[w] = IF tick'[w].todo = {} THEN "flip" ELSE "promote"
      BY <1>0, <1>3 DEF Promoted, Ticks
    <2>2. \A s \in Tenants :
            loc'[Standby][s] = IF s = t THEN Attached(g) ELSE loc[Standby][s]
      BY <1>0, <1>3 DEF Attach, Locations
    <2>3. \A s \in Tenants \ tick'[w].todo : Settled(w, s)'
      BY <1>1, <2>1, <2>2 DEF Settled, Held
    <2>4. Base \in tick'[w].todo \/ Held(Standby, Base)'
      BY <1>0, <1>1, <2>1, <2>2 DEF Held, Attached
    <2>5. tick'[w].todo = {} => \A s \in Tenants : Settled(w, s)'
      BY <2>3
    <2> QED
      BY <1>0, <1>1, <2>1, <2>3, <2>4, <2>5 DEF CutSound
  <1> QED
    BY <1>2, <1>3 DEF Promote, t

\* The calls of failover keep what the flip relies on.
LEMMA CutFailover ==
  ASSUME TypeOK, LedgerInvariant, NEW w \in Watchers, HeldSound(w), CutSound(w),
         Failover(w), route' = Primary, route = Primary
  PROVE  CutSound(w)'
  <1>0. /\ pc \in [Watchers -> Labels] /\ tick \in [Watchers -> Ticks]
        /\ ctl \in [Watchers -> Ctls]
        /\ tick[w].keep \in SUBSET Tenants /\ tick[w].todo \in SUBSET Tenants
        /\ ledger.gen \in Nat /\ ctl[w].resv <= ledger.gen
    BY DEF TypeOK, Ticks, Ctls, LedgerInvariant, GrantSound
  <1>1. CASE ReadLedger(w)
    <2>1. CASE Aim(w, ledger.gen, ledger.rv)
      BY <1>0, <1>1, <2>1, CutAimed DEF ReadLedger
    <2>2. CASE ledger.gen = 0 /\ Goto(w, "recover")
      BY <1>0, <1>1, <2>2 DEF ReadLedger, CutSound
    <2>3. CASE EndDetection(w)
      BY <1>0, <2>3, CutReleased
    <2> QED
      BY <1>1, <2>1, <2>2, <2>3 DEF ReadLedger
  <1>2. CASE Recover(w)
    <2>1. CASE EndDetection(w)
      BY <1>0, <2>1, CutReleased
    <2>2. CASE Aim(w, Larger(loc[route][Base].gen, BaseGeneration), tick[w].rv)
      <3>1. ledger.gen = 0 /\ UNCHANGED <<ledger, ctl>>
        BY <1>2 DEF Recover, CutSound
      <3>2. Larger(loc[route][Base].gen, BaseGeneration) \in Nat
        BY ConstantsAssumption DEF TypeOK, Larger
      <3> QED
        BY <1>0, <2>2, <3>1, <3>2, CutAimed
    <2> QED
      BY <1>2, <2>1, <2>2 DEF Recover
  <1>3. CASE Validate(w)
    <2> DEFINE t == First(tick[w].todo)
    <2>1. /\ pc[w] = "validate" /\ UNCHANGED <<plane, ctl>> /\ t \in tick[w].todo
          /\ Base \in tick[w].todo \cup tick[w].keep
      BY <1>3, FirstIn DEF Validate, TypeOK, HeldSound
    <2> HIDE DEF t
    <2>2. CASE Validated(w, t, tick[w].keep \cup {t})
      <3>1. /\ tick[w].keep \cup {t} \in SUBSET Tenants
            /\ Base \in (tick[w].todo \ {t}) \cup (tick[w].keep \cup {t})
        BY <1>0, <2>1
      <3> QED
        BY <2>1, <2>2, <3>1, CutValidated
    <2>3. CASE ~Held(Standby, t) /\ Goto(w, "corroborate") /\ UNCHANGED tick
      <3>1. pc'[w] = "corroborate" /\ UNCHANGED <<ledger, ctl, loc>>
        BY <1>0, <2>1, <2>3
      <3> QED
        BY <2>1, <2>3, <3>1 DEF CutSound, Held, t
    <2>4. CASE EndDetection(w)
      BY <1>0, <2>4, CutReleased
    <2> QED
      BY <1>3, <2>2, <2>3, <2>4 DEF Validate, t
  <1>4. CASE Corroborate(w)
    <2> DEFINE t == First(tick[w].todo)
    <2>1. /\ pc[w] = "corroborate" /\ UNCHANGED <<plane, ctl>>
          /\ Base \in tick[w].keep /\ ~Held(Standby, t)
      BY <1>4 DEF Corroborate, HeldSound, CutSound
    <2> HIDE DEF t
    <2>2. CASE Validated(w, t, tick[w].keep)
      BY <1>0, <2>1, <2>2, CutValidated
    <2>3. CASE EndDetection(w)
      BY <1>0, <2>3, CutReleased
    <2> QED
      BY <1>4, <2>2, <2>3 DEF Corroborate, t
  <1>5. CASE Reserve(w)
    <2>1. CASE EndDetection(w)
      BY <1>0, <2>1, CutReleased
    <2>2. CASE WriteLedger(w) /\ Goto(w, "promote") /\ UNCHANGED tick
      <3>1. /\ pc'[w] = "promote" /\ ledger'.gen = tick[w].gen
            /\ pc[w] = "reserve" /\ UNCHANGED <<loc, tick>>
        BY <1>0, <1>5, <2>2 DEF Reserve, WriteLedger
      <3>2. Base \in tick[w].todo /\ \A s \in Tenants \ tick[w].todo : Settled(w, s)'
        BY <3>1 DEF CutSound, Settled, Held
      <3> QED
        BY <3>1, <3>2 DEF CutSound
    <2> QED
      BY <1>5, <2>1, <2>2 DEF Reserve, CasWins
  <1>6. CASE Promote(w)
    BY <1>6, CutPromoted
  <1>7. CASE Flip(w) \/ Bounce(w)
    BY <1>0, <1>7, CutReleased DEF Flip, Bounce
  <1> QED
    BY <1>1, <1>2, <1>3, <1>4, <1>5, <1>6, <1>7 DEF Failover

\* The other calls are outside the failover.
LEMMA CutRuns ==
  ASSUME TypeOK, LedgerInvariant, NEW w \in Watchers, HeldSound(w), CutSound(w), Runs(w)
  PROVE  CutSound(w)'
  <1> SUFFICES ASSUME route' = Primary PROVE CutSound(w)'
    BY DEF CutSound
  <1>0. pc \in [Watchers -> Labels] /\ route = Primary
    BY FlipRoutes, ConstantsAssumption DEF TypeOK
  <1>1. CASE Seeding(w)
    BY <1>0, <1>1, CutReleased DEF Seeding, SeedRead, SeedView, SeedWrite, Propose
  <1>2. CASE Detecting(w)
    BY <1>0, <1>2, CutReleased
       DEF Detecting, ReadFreeze, ReadSelector, Probe, Sight, Vantage, LedgerAdvanced, Decide
  <1>3. CASE Failover(w)
    BY <1>0, <1>3, CutFailover
  <1>4. CASE Adopting(w)
    BY <1>0, <1>4, CutReleased
       DEF Adopting, Converge, ConvergeView, ConvergePut, Adopt, Converged
  <1>5. CASE Warming(w)
    BY <1>0, <1>5, CutReleased
       DEF Warming, WarmThrottled, WarmResolve, WarmCheck, WarmPut, Warmed
  <1> QED
    BY <1>1, <1>2, <1>3, <1>4, <1>5 DEF Runs

\* Every step keeps what the flip relies on.
LEMMA CutStep ==
  ASSUME TypeOK, LedgerInvariant, Alone, ~StandbyLosesVolume, [Next]_vars,
         \A w \in Watchers : HeldSound(w) /\ CutSound(w)
  PROVE  \A w \in Watchers : CutSound(w)'
  <1> SUFFICES ASSUME NEW v \in Watchers PROVE CutSound(v)'
    OBVIOUS
  <1>1. ASSUME NEW w \in Watchers, Runs(w) PROVE CutSound(v)'
    <2>1. v = w
      BY LoneSteps
    <2> QED
      BY <1>1, <2>1, CutRuns
  <1>2. ASSUME NEW w \in Watchers, Crash(w) PROVE CutSound(v)'
    <2>1. v = w
      BY LoneSteps
    <2> QED
      BY <1>2, <2>1, CrashOnly, CutReleased
  <1>3. CASE Environment
    BY <1>3, EnvironmentOnly, EnvironmentSpares, CutKept
  <1>4. CASE UNCHANGED vars
    <2>1. UNCHANGED <<ledger, route, loc, pc, ctl, tick>>
      BY <1>4 DEF vars
    <2> QED
      BY <2>1, CutKept
  <1> QED
    BY <1>1, <1>2, <1>3, <1>4, NextCases

\* Everything a lone watcher has concluded of a standby that keeps its volume
\* is true whenever it acts on it.
THEOREM CutoverSound == Alone /\ ~StandbyLosesVolume => (Spec => []CutoverInvariant)
  <1> SUFFICES ASSUME Alone, ~StandbyLosesVolume PROVE Spec => []CutoverInvariant
    OBVIOUS
  <1>1. TypeOK /\ LedgerInvariant /\ CutoverInvariant /\ [Next]_vars => CutoverInvariant'
    BY LatchStep, HeldStep, WarmStep, CutStep DEF CutoverInvariant
  <1> QED
    BY CutoverInit, <1>1, TypeCorrect, LedgerSound, PTL DEF Spec

\* The flip of a lone watcher finds the base tenant promoted at the ledger's
\* generation, and no routed tenant still a secondary.
LEMMA FlipPromoted ==
  ASSUME TypeOK, CutoverInvariant, [Next]_vars, route' # route
  PROVE  /\ loc[Standby][Base] = Attached(ledger.gen)
         /\ \A t \in Tenants : loc[Standby][t] # Secondary
  <1>1. ~Environment
    BY EnvironmentOnly
  <1>2. PICK w \in Watchers : Flip(w) /\ route' = Standby
    BY <1>1, NextCases, FlipRoutes, CrashOnly DEF vars
  <1>3. route = Primary
    BY <1>2 DEF TypeOK, Nodes
  <1>4. /\ tick[w].gen = ledger.gen /\ Held(Standby, Base)
        /\ \A t \in Tenants : Settled(w, t)
    BY <1>2, <1>3 DEF Flip, CutoverInvariant, CutSound
  <1>5. \A t \in Tenants : loc[Standby][t] = Attached(ledger.gen) \/ ~Held(Standby, t)
    BY <1>4 DEF Settled
  <1>6. ~(Secondary.mode = "none") /\ Secondary # Attached(ledger.gen)
    BY DEF Secondary, Attached
  <1> QED
    BY <1>4, <1>5, <1>6, ConstantsAssumption DEF Held

\* A lone watcher cuts the Service over only to a standby that serves the base
\* tenant at the ledger's generation and no routed tenant as a secondary,
\* through aborted promotions, resumed reservations and crashes (while the
\* standby keeps its volume).
THEOREM PromotedFirst == Alone /\ ~StandbyLosesVolume => (Spec => PromotedBeforeFlip)
  <1> SUFFICES ASSUME Alone, ~StandbyLosesVolume PROVE Spec => PromotedBeforeFlip
    OBVIOUS
  <1>1. TypeOK /\ CutoverInvariant /\ [Next]_vars =>
          [route' # route =>
             /\ loc[Standby][Base] = Attached(ledger.gen)
             /\ \A t \in Tenants : loc[Standby][t] # Secondary]_vars
    BY FlipPromoted
  <1> QED
    BY <1>1, CutoverSound, TypeCorrect, PTL DEF Spec, PromotedBeforeFlip
=============================================================================
