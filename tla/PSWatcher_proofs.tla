--------------------------- MODULE PSWatcher_proofs ---------------------------
(***************************************************************************)
(* PSWatcher's type correctness, the inductive invariant that keeps the    *)
(* generation ledger ahead of every attached tenant, and the refinement of *)
(* GenerationLedger, for any number of watchers, tenants and faults.       *)
(***************************************************************************)
EXTENDS PSWatcher, TLAPS

USE DEF Goto, EndTick, EndDetection, Faulty, ApiOk, ApiFails, plane

Modes     == {"none", "secondary", "attached"}
Locations == [Nodes -> [Tenants -> [mode : Modes, gen : Nat]]]
Ticks     == [frozen : BOOLEAN, gen : Nat, rv : Nat, todo : SUBSET Tenants,
              keep : SUBSET Tenants, node : Nodes]
Ctls      == [failures : Nat, done : BOOLEAN, promoted : BOOLEAN,
              bounced : BOOLEAN, seen : BOOLEAN, resv : Nat]

-----------------------------------------------------------------------------
(* Type correctness.                                                        *)

\* The locals of a fresh tick and the fields of a fresh Controller are typed.
LEMMA BlankType == Blank \in Ticks /\ Fresh \in Ctls
  BY DEF Blank, Fresh, Ticks, Ctls, Nodes

\* An AttachedSingle PUT leaves typed locations.
LEMMA AttachType ==
  ASSUME NEW n, NEW t, NEW g \in Nat, loc \in Locations, Attach(n, t, g)
  PROVE  loc' \in Locations
  BY DEF Locations, Modes, Attached, Attach

\* A Secondary PUT leaves typed locations.
LEMMA SecondaryType ==
  ASSUME NEW n, NEW t, loc \in Locations, loc' = [loc EXCEPT ![n][t] = Secondary]
  PROVE  loc' \in Locations
  BY DEF Locations, Modes, Secondary

\* A rebuilt volume leaves typed locations.
LEMMA EmptiedType ==
  ASSUME NEW n, loc \in Locations, loc' = Emptied(n)
  PROVE  loc' \in Locations
  BY DEF Locations, Modes, Emptied, None

\* A plane before its first failover is typed.
LEMMA InitType == Init => TypeOK
  <1> SUFFICES ASSUME Init PROVE TypeOK
    OBVIOUS
  <1>1. PICK g \in StartGens, apps \in SUBSET (Tenants \ {Base}), warmed \in BOOLEAN :
          /\ loc = [n \in Nodes |-> [t \in Tenants |->
                  CASE n = Primary /\ t \in {Base} \cup apps -> Attached(g)
                    [] n = Standby /\ t = Base /\ warmed     -> Secondary
                    [] OTHER                                 -> None]]
          /\ \/ \E rv \in {0, 1} : ledger = [gen |-> 0, rv |-> rv]
             \/ \E l \in StartGens : l >= g /\ ledger = [gen |-> l, rv |-> 1]
    BY DEF Init
  <1>2. loc \in Locations
    BY <1>1, ConstantsAssumption DEF Locations, Modes, Attached, Secondary, None
  <1>3. ledger \in [gen : Nat, rv : Nat]
    BY <1>1, ConstantsAssumption
  <1>4. pc \in [Watchers -> Labels]
    BY DEF Init, Labels
  <1>5. ctl \in [Watchers -> Ctls] /\ tick \in [Watchers -> Ticks]
    BY BlankType DEF Init
  <1> QED
    BY <1>2, <1>3, <1>4, <1>5 DEF Init, TypeOK, Locations, Modes, Ctls, Ticks, Nodes

\* The names of the calls.
LEMMA LabelNames ==
  /\ {"boot", "view", "seed", "idle", "select", "probe", "sight", "vantage"} \subseteq Labels
  /\ {"resume", "failover", "recover", "validate", "corroborate", "reserve"} \subseteq Labels
  /\ {"promote", "flip", "bounce", "converge", "cview", "cput", "adopt"} \subseteq Labels
  /\ {"warm", "wcheck", "wput"} \subseteq Labels
  BY DEF Labels

\* Every call is followed by a call, or the end of the tick.
LEMMA PcType ==
  ASSUME TypeOK, NEW w \in Watchers, Runs(w) PROVE pc' \in [Watchers -> Labels]
  <1> pc \in [Watchers -> Labels]
    BY DEF TypeOK
  <1>1. CASE Seeding(w)
    BY <1>1, LabelNames DEF Seeding, SeedRead, SeedView, SeedWrite, Propose
  <1>2. CASE Detecting(w)
    BY <1>2, LabelNames
       DEF Detecting, ReadFreeze, ReadSelector, Probe, Sight, Vantage, LedgerAdvanced, Decide
  <1>3. CASE Failover(w)
    BY <1>3, LabelNames
       DEF Failover, ReadLedger, Recover, Validate, Corroborate, Reserve, Promote, Flip,
           Bounce, Aim, Validated, Promoted
  <1>4. CASE Adopting(w)
    BY <1>4, LabelNames DEF Adopting, Converge, ConvergeView, ConvergePut, Adopt, Converged
  <1>5. CASE Warming(w)
    BY <1>5, LabelNames DEF Warming, WarmThrottled, WarmResolve, WarmCheck, WarmPut, Warmed
  <1> QED
    BY <1>1, <1>2, <1>3, <1>4, <1>5 DEF Runs

\* No call refunds a fault.
LEMMA FaultsType == ASSUME TypeOK, NEW w \in Watchers, Runs(w) PROVE faults' \in Nat
  <1> faults \in Nat /\ faults+1 \in Nat
    BY DEF TypeOK
  <1>1. CASE Seeding(w)
    BY <1>1
       DEF Seeding, SeedRead, SeedView, SeedWrite, Reads, Misses, Blind, Answers, Silent,
           CasWins, CasLoses, CasErrs
  <1>2. CASE Detecting(w)
    BY <1>2
       DEF Detecting, ReadFreeze, ReadSelector, Probe, Sight, Vantage, LedgerAdvanced,
           Answers, Silent
  <1>3. CASE Failover(w)
    BY <1>3
       DEF Failover, ReadLedger, Recover, Validate, Corroborate, Reserve, Promote, Flip,
           Bounce, Reads, Misses, Blind, Answers, Silent, CasWins, CasLoses, CasErrs,
           PodsDeleted, DeleteFails
  <1>4. CASE Adopting(w)
    BY <1>4
       DEF Adopting, Converge, ConvergeView, ConvergePut, Adopt, Converged, Reads, Misses,
           Blind, Answers, Silent, PodsDeleted, DeleteFails
  <1>5. CASE Warming(w)
    BY <1>5
       DEF Warming, WarmThrottled, WarmResolve, WarmCheck, WarmPut, Warmed, Answers, Silent
  <1> QED
    BY <1>1, <1>2, <1>3, <1>4, <1>5 DEF Runs

\* What Tick, failover and SeedLedger keep in local variables is typed.
LEMMA TickType ==
  ASSUME TypeOK, NEW w \in Watchers, Runs(w) PROVE tick' \in [Watchers -> Ticks]
  <1>0. /\ tick \in [Watchers -> Ticks]
        /\ ledger.gen \in Nat /\ ledger.rv \in Nat
        /\ tick[w].gen \in Nat /\ tick[w].rv \in Nat /\ ctl[w].resv \in Nat
        /\ loc[route][Base].gen \in Nat
    BY ConstantsAssumption DEF TypeOK, Ticks
  <1>1. CASE SeedRead(w)
    BY <1>0, <1>1, BlankType DEF SeedRead, Ticks
  <1>2. CASE SeedView(w)
    BY <1>0, <1>2, BlankType, ConstantsAssumption DEF SeedView, Propose, Larger, Ticks
  <1>3. CASE SeedWrite(w)
    BY <1>0, <1>3, BlankType DEF SeedWrite
  <1>4. CASE ReadFreeze(w)
    <2>1. freeze = TRUE \/ freeze = FALSE
      BY DEF TypeOK
    <2> QED
      BY <1>0, <1>4, <2>1 DEF ReadFreeze, Ticks
  <1>5. CASE ReadSelector(w) \/ Probe(w) \/ Sight(w) \/ Vantage(w) \/ LedgerAdvanced(w)
    BY <1>0, <1>5 DEF ReadSelector, Probe, Sight, Vantage, LedgerAdvanced
  <1>6. ASSUME NEW gen \in Nat, NEW rv \in Nat, Aim(w, gen, rv)
        PROVE  tick' \in [Watchers -> Ticks]
    BY <1>0, <1>6 DEF Aim, Ticks
  <1>7. CASE ReadLedger(w)
    BY <1>0, <1>6, <1>7 DEF ReadLedger, Ticks
  <1>8. CASE Recover(w)
    BY <1>0, <1>6, <1>8, ConstantsAssumption DEF Recover, Larger
  <1>9. ASSUME NEW t, NEW keep \in SUBSET Tenants, Validated(w, t, keep)
        PROVE  tick' \in [Watchers -> Ticks]
    BY <1>0, <1>9 DEF Validated, Ticks
  <1>10. CASE Validate(w)
    <2>1. tick[w].keep \in SUBSET Tenants /\ First(tick[w].todo) \in Tenants
      BY <1>10, ConstantsAssumption DEF Validate, TypeOK, First
    <2>2. CASE Validated(w, First(tick[w].todo), tick[w].keep \cup {First(tick[w].todo)})
      BY <1>0, <2>1, <2>2, <1>9
    <2> QED
      BY <1>0, <1>10, <2>2 DEF Validate
  <1>11. CASE Corroborate(w)
    BY <1>0, <1>9, <1>11 DEF Corroborate, Ticks
  <1>12. CASE Reserve(w) \/ Flip(w) \/ Bounce(w)
    BY <1>0, <1>12 DEF Reserve, Flip, Bounce
  <1>13. CASE Promote(w)
    BY <1>0, <1>13 DEF Promote, Promoted, Ticks
  <1>14. CASE Converge(w)
    BY <1>0, <1>14 DEF Converge, Ticks
  <1>15. CASE ConvergeView(w) \/ ConvergePut(w) \/ Adopt(w)
    BY <1>0, <1>15 DEF ConvergeView, ConvergePut, Adopt, Converged, Ticks
  <1>16. CASE WarmThrottled(w)
    BY <1>0, <1>16, BlankType DEF WarmThrottled
  <1>17. CASE WarmResolve(w)
    BY <1>0, <1>17, BlankType DEF WarmResolve, Other, Nodes, Ticks
  <1>18. CASE WarmCheck(w) \/ WarmPut(w)
    BY <1>0, <1>18, BlankType DEF WarmCheck, WarmPut, Warmed, Ticks
  <1> QED
    BY <1>1, <1>2, <1>3, <1>4, <1>5, <1>7, <1>8, <1>10, <1>11, <1>12, <1>13, <1>14, <1>15,
       <1>16, <1>17, <1>18 DEF Runs, Seeding, Detecting, Failover, Adopting, Warming

\* The fields of the Controller are typed.
LEMMA CtlType ==
  ASSUME TypeOK, NEW w \in Watchers, Runs(w) PROVE ctl' \in [Watchers -> Ctls]
  <1>0. ctl \in [Watchers -> Ctls] /\ tick[w].gen \in Nat
    BY DEF TypeOK, Ctls
  <1>1. CASE Seeding(w)
    BY <1>0, <1>1 DEF Seeding, SeedRead, SeedView, SeedWrite
  <1>2. CASE ReadFreeze(w) \/ LedgerAdvanced(w)
    BY <1>0, <1>2 DEF ReadFreeze, LedgerAdvanced
  <1>3. CASE ReadSelector(w)
    BY <1>0, <1>3 DEF ReadSelector, Ctls
  <1>4. CASE Probe(w)
    BY <1>0, <1>4, ConstantsAssumption DEF Probe, Ctls
  <1>5. CASE Sight(w)
    BY <1>0, <1>5 DEF Sight, Ctls
  <1>6. CASE Vantage(w)
    BY <1>0, <1>6 DEF Vantage, Ctls
  <1>7. CASE Reserve(w)
    BY <1>0, <1>7 DEF Reserve, Ctls
  <1>8. CASE Bounce(w)
    <2>1. [ctl[w] EXCEPT !.done = TRUE, !.promoted = TRUE, !.failures = 0, !.resv = 0] \in Ctls
      BY <1>0 DEF Ctls
    <2> QED
      BY <1>0, <1>8, <2>1 DEF Bounce
  <1>9. CASE \/ ReadLedger(w) \/ Recover(w) \/ Validate(w) \/ Corroborate(w)
              \/ Promote(w) \/ Flip(w)
    BY <1>0, <1>9 DEF ReadLedger, Recover, Validate, Corroborate, Promote, Flip
  <1>10. CASE Adopt(w)
    BY <1>0, <1>10 DEF Adopt, Ctls
  <1>11. CASE Converge(w) \/ ConvergeView(w) \/ ConvergePut(w) \/ Warming(w)
    BY <1>0, <1>11 DEF Converge, ConvergeView, ConvergePut, Warming, WarmThrottled,
                       WarmResolve, WarmCheck, WarmPut
  <1> QED
    BY <1>1, <1>2, <1>3, <1>4, <1>5, <1>6, <1>7, <1>8, <1>9, <1>10, <1>11
       DEF Runs, Detecting, Failover, Adopting

\* The PUTs of failover, convergeFailover and the warm pass leave typed locations.
LEMMA LocType ==
  ASSUME TypeOK, NEW w \in Watchers, Runs(w) PROVE loc' \in Locations
  <1>0. loc \in Locations /\ tick[w].gen \in Nat
    BY DEF TypeOK, Locations, Modes
  <1>1. CASE Promote(w)
    BY <1>0, <1>1, AttachType DEF Promote
  <1>2. CASE ConvergePut(w)
    BY <1>0, <1>2, AttachType DEF ConvergePut
  <1>3. CASE WarmPut(w)
    BY <1>0, <1>3, SecondaryType DEF WarmPut
  <1>4. CASE Seeding(w) \/ Detecting(w)
    BY <1>0, <1>4 DEF Seeding, SeedRead, SeedView, SeedWrite, Detecting, ReadFreeze,
                      ReadSelector, Probe, Sight, Vantage, LedgerAdvanced
  <1>5. CASE \/ ReadLedger(w) \/ Recover(w) \/ Validate(w) \/ Corroborate(w)
              \/ Reserve(w) \/ Flip(w) \/ Bounce(w)
    BY <1>0, <1>5 DEF ReadLedger, Recover, Validate, Corroborate, Reserve, Flip, Bounce
  <1>6. CASE \/ Converge(w) \/ ConvergeView(w) \/ Adopt(w)
              \/ WarmThrottled(w) \/ WarmResolve(w) \/ WarmCheck(w)
    BY <1>0, <1>6 DEF Converge, ConvergeView, Adopt, WarmThrottled, WarmResolve, WarmCheck
  <1> QED
    BY <1>1, <1>2, <1>3, <1>4, <1>5, <1>6 DEF Runs, Failover, Adopting, Warming

\* The ledger writes, the flip and the bounces leave a typed plane.
LEMMA LedgerType == ASSUME TypeOK, NEW w \in Watchers, Runs(w)
  PROVE  ledger' \in [gen : Nat, rv : Nat] /\ route' \in Nodes /\ computes' \in SUBSET Nodes
         /\ primary' = primary /\ freeze' = freeze
  <1> tick[w].gen \in Nat
    BY DEF TypeOK
  <1>1. CASE Seeding(w)
    BY <1>1
       DEF Seeding, SeedRead, SeedView, SeedWrite, TypeOK, CasWins, CasLoses, CasErrs,
           WriteLedger
  <1>2. CASE Detecting(w)
    BY <1>2
       DEF Detecting, ReadFreeze, ReadSelector, Probe, Sight, Vantage, LedgerAdvanced, TypeOK
  <1>3. CASE Failover(w)
    BY <1>3
       DEF Failover, ReadLedger, Recover, Validate, Corroborate, Reserve, Promote, Flip,
           Bounce, TypeOK, CasWins, CasLoses, CasErrs, WriteLedger, PodsDeleted, DeleteFails,
           Nodes
  <1>4. CASE Adopting(w)
    BY <1>4
       DEF Adopting, Converge, ConvergeView, ConvergePut, Adopt, TypeOK, PodsDeleted,
           DeleteFails
  <1>5. CASE Warming(w)
    BY <1>5 DEF Warming, WarmThrottled, WarmResolve, WarmCheck, WarmPut, TypeOK
  <1> QED
    BY <1>1, <1>2, <1>3, <1>4, <1>5 DEF Runs

\* A validation always has a tenant left: an emptied list promotes or reserves.
LEMMA TodoType ==
  ASSUME TypeOK, NEW w \in Watchers, Runs(w)
  PROVE  \A v \in Watchers : pc'[v] \in {"validate", "corroborate"} => tick'[v].todo # {}
  <1>0. /\ pc \in [Watchers -> Labels] /\ tick \in [Watchers -> Ticks]
        /\ Tenants # {}
        /\ \A v \in Watchers : pc[v] \in {"validate", "corroborate"} => tick[v].todo # {}
    BY ConstantsAssumption DEF TypeOK, Ticks
  <1>1. ASSUME NEW gen, NEW rv, Aim(w, gen, rv)
        PROVE  \A v \in Watchers : pc'[v] \in {"validate", "corroborate"} => tick'[v].todo # {}
    BY <1>0, <1>1 DEF Aim, Ticks
  <1>2. ASSUME NEW t, NEW keep, Validated(w, t, keep)
        PROVE  \A v \in Watchers : pc'[v] \in {"validate", "corroborate"} => tick'[v].todo # {}
    BY <1>0, <1>2 DEF Validated, Ticks
  <1>3. CASE Seeding(w)
    BY <1>0, <1>3 DEF Seeding, SeedRead, SeedView, SeedWrite, Propose
  <1>4. CASE Detecting(w)
    BY <1>0, <1>4
       DEF Detecting, ReadFreeze, ReadSelector, Probe, Sight, Vantage, LedgerAdvanced, Decide
  <1>5. CASE ReadLedger(w) \/ Recover(w)
    BY <1>0, <1>1, <1>5 DEF ReadLedger, Recover
  <1>6. CASE Validate(w) \/ Corroborate(w)
    BY <1>0, <1>2, <1>6 DEF Validate, Corroborate
  <1>7. CASE Reserve(w) \/ Promote(w) \/ Flip(w) \/ Bounce(w)
    BY <1>0, <1>7 DEF Reserve, Promote, Promoted, Flip, Bounce
  <1>8. CASE Adopting(w)
    BY <1>0, <1>8 DEF Adopting, Converge, ConvergeView, ConvergePut, Adopt, Converged
  <1>9. CASE Warming(w)
    BY <1>0, <1>9 DEF Warming, WarmThrottled, WarmResolve, WarmCheck, WarmPut, Warmed
  <1> QED
    BY <1>3, <1>4, <1>5, <1>6, <1>7, <1>8, <1>9 DEF Runs, Failover

\* The nodes, the readers, the computes and the operators leave a typed plane.
LEMMA EnvironmentType == TypeOK /\ Environment => TypeOK'
  <1> SUFFICES ASSUME TypeOK, Environment PROVE TypeOK'
    OBVIOUS
  <1>0. loc \in Locations
    BY DEF TypeOK, Locations, Modes
  <1>1. CASE PrimaryWorsens
    BY <1>1 DEF PrimaryWorsens, TypeOK
  <1>2. CASE PrimaryReturns
    <2>1. loc' \in Locations
      BY <1>0, <1>2, EmptiedType DEF PrimaryReturns
    <2> QED
      BY <1>2, <2>1 DEF PrimaryReturns, TypeOK, Locations, Modes
  <1>3. CASE StandbyRebuilt
    BY <1>3, EmptiedType DEF StandbyRebuilt, TypeOK, Locations, Modes
  <1>4. CASE SetFreeze
    BY <1>4 DEF SetFreeze, TypeOK
  <1>5. CASE FreezeLapses
    BY <1>5 DEF FreezeLapses, TypeOK
  <1>6. CASE ComputeWakes
    BY <1>6 DEF ComputeWakes, TypeOK
  <1>7. ASSUME NEW t \in Tenants, ReaderAttaches(t) PROVE TypeOK'
    <2> Larger(ledger.gen, loc[route][t].gen) \in Nat
      BY DEF TypeOK, Larger
    <2> QED
      BY <1>7, AttachType DEF ReaderAttaches, TypeOK, Locations, Modes
  <1> QED
    BY <1>1, <1>2, <1>3, <1>4, <1>5, <1>6, <1>7 DEF Environment

\* Every step keeps the types.
LEMMA NextType == TypeOK /\ [Next]_vars => TypeOK'
  <1> SUFFICES ASSUME TypeOK, [Next]_vars PROVE TypeOK'
    OBVIOUS
  <1>1. ASSUME NEW w \in Watchers, Runs(w) PROVE TypeOK'
    BY <1>1, PcType, FaultsType, TickType, CtlType, LocType, LedgerType, TodoType
       DEF TypeOK, Ticks, Ctls, Locations, Modes
  <1>2. ASSUME NEW w \in Watchers, Crash(w) PROVE TypeOK'
    BY <1>2, BlankType, LabelNames DEF Crash, TypeOK, Ticks, Ctls
  <1>3. CASE Environment
    BY <1>3, EnvironmentType
  <1>4. CASE UNCHANGED vars BY <1>4 DEF vars, TypeOK
  <1> QED
    BY <1>1, <1>2, <1>3, <1>4 DEF Next

\* Every variable of the watcher and of the plane it drives keeps its type,
\* and PASS 1 of failover always has a tenant left to validate.
THEOREM TypeCorrect == Spec => []TypeOK
  BY InitType, NextType, PTL DEF Spec

-----------------------------------------------------------------------------
(* The ledger invariant.                                                    *)

\* A step that leaves every location alone, empties or demotes it, or attaches
\* it at a generation the ledger has granted.
LocStep ==
  \A n \in Nodes, t \in Tenants :
    \/ loc'[n][t] \in {loc[n][t], None, Secondary}
    \/ \E g \in 1..ledger.gen : loc'[n][t] = Attached(g)

\* A step of watcher w alone.
Only(w) ==
  \A v \in Watchers : v # w => pc'[v] = pc[v] /\ tick'[v] = tick[v] /\ ctl'[v] = ctl[v]

\* A plane before its first failover is within its ledger.
LEMMA InitInvariant == Init => LedgerInvariant
  <1> SUFFICES ASSUME Init PROVE LedgerInvariant
    OBVIOUS
  <1>1. TypeOK
    BY InitType
  <1>2. PICK g \in StartGens : \E apps \in SUBSET (Tenants \ {Base}), warmed \in BOOLEAN :
          /\ loc = [n \in Nodes |-> [t \in Tenants |->
                  CASE n = Primary /\ t \in {Base} \cup apps -> Attached(g)
                    [] n = Standby /\ t = Base /\ warmed     -> Secondary
                    [] OTHER                                 -> None]]
          /\ \/ \E rv \in {0, 1} : ledger = [gen |-> 0, rv |-> rv]
             \/ \E l \in StartGens : l >= g /\ ledger = [gen |-> l, rv |-> 1]
    BY DEF Init
  <1>3. g \in Nat /\ g # 0 /\ (ledger.gen # 0 => g <= ledger.gen)
    BY <1>2, ConstantsAssumption
  <1>4. ASSUME NEW n \in Nodes, NEW t \in Tenants
        PROVE  \/ loc[n][t].gen = g
               \/ loc[n][t].gen = 0 /\ loc[n][t].mode # "attached"
    <2>1. loc[n][t] \in {Attached(g), Secondary, None}
      BY <1>2
    <2> QED
      BY <2>1 DEF Attached, Secondary, None
  <1>5. AttachedWithinLedger /\ LocationsSound
    BY <1>1, <1>3, <1>4 DEF AttachedWithinLedger, LocationsSound, TypeOK
  <1>6. ReservationsDistinct /\ \A w \in Watchers : TokenSound(w) /\ GrantSound(w)
    BY <1>1 DEF Init, TypeOK, ReservationsDistinct, TokenSound, GrantSound, Holding, Fresh
  <1> QED
    BY <1>5, <1>6 DEF LedgerInvariant

\* A step that attaches only at granted generations keeps the locations within
\* the ledger, and whatever was above the plane above it.
LEMMA LocStepSound ==
  ASSUME TypeOK, TypeOK', LedgerInvariant, UNCHANGED ledger, LocStep
  PROVE  /\ AttachedWithinLedger'
         /\ LocationsSound'
         /\ \A g \in Nat : Above(g) => Above(g)'
  <1>1. /\ ledger.gen \in Nat
        /\ \A n \in Nodes, t \in Tenants : loc[n][t].gen \in Nat /\ loc'[n][t].gen \in Nat
    BY DEF TypeOK
  <1>2. ASSUME NEW n \in Nodes, NEW t \in Tenants
        PROVE  \/ loc'[n][t] = loc[n][t]
               \/ loc'[n][t].gen = 0 /\ loc'[n][t].mode # "attached"
               \/ loc'[n][t].gen # 0 /\ loc'[n][t].gen <= ledger.gen
    <2>1. CASE loc'[n][t] \in {loc[n][t], None, Secondary}
      BY <2>1 DEF None, Secondary
    <2>2. CASE \E g \in 1..ledger.gen : loc'[n][t] = Attached(g)
      BY <1>1, <2>2 DEF Attached
    <2> QED
      BY <2>1, <2>2 DEF LocStep
  <1>3. AttachedWithinLedger'
    BY <1>1, <1>2 DEF LedgerInvariant, AttachedWithinLedger
  <1>4. LocationsSound'
    BY <1>1, <1>2 DEF LedgerInvariant, LocationsSound
  <1>5. ASSUME NEW g \in Nat, Above(g) PROVE Above(g)'
    BY <1>1, <1>2, <1>5 DEF Above
  <1> QED
    BY <1>3, <1>4, <1>5

\* What another watcher knows survives a step that writes no ledger.
LEMMA KeepsSound ==
  ASSUME TypeOK, TypeOK', LedgerInvariant, UNCHANGED ledger, LocStep,
         NEW v \in Watchers, pc'[v] = pc[v], tick'[v] = tick[v], ctl'[v] = ctl[v]
  PROVE  TokenSound(v)' /\ GrantSound(v)'
  <1>1. TokenSound(v) /\ GrantSound(v) /\ tick[v].gen \in Nat
    BY DEF LedgerInvariant, TypeOK
  <1>2. GrantSound(v)'
    BY <1>1 DEF GrantSound
  <1>3. Above(tick[v].gen) => Above(tick[v].gen)'
    BY <1>1, LocStepSound
  <1>4. TokenSound(v)'
    BY <1>1, <1>3 DEF TokenSound, Conclusion, Above
  <1> QED
    BY <1>2, <1>4

\* A step of w that writes no ledger and leaves w knowing what it should.
Quiet(w) ==
  /\ UNCHANGED ledger
  /\ LocStep
  /\ ctl'[w].resv \in {ctl[w].resv, 0}
  /\ TokenSound(w)'
  /\ GrantSound(w)'

\* A quiet step of one instance keeps the invariant for all of them.
LEMMA QuietStep ==
  ASSUME TypeOK, TypeOK', LedgerInvariant, NEW w \in Watchers, Only(w), Quiet(w)
  PROVE  LedgerInvariant'
  <1>0. UNCHANGED ledger /\ LocStep
    BY DEF Quiet
  <1>1. \A v \in Watchers : TokenSound(v)' /\ GrantSound(v)'
    BY <1>0, KeepsSound DEF Only, Quiet
  <1>2. ReservationsDistinct'
    BY DEF LedgerInvariant, ReservationsDistinct, Only, Quiet
  <1> QED
    BY <1>0, <1>1, <1>2, LocStepSound DEF LedgerInvariant

\* A write at the token read makes every other token stale.
LEMMA WriteStep ==
  ASSUME TypeOK, TypeOK', LedgerInvariant, NEW w \in Watchers, Only(w),
         pc[w] \in {"seed", "reserve"}, tick[w].rv = ledger.rv,
         WriteLedger(w), UNCHANGED loc, pc'[w] \notin Holding,
         ctl'[w].resv \in {ctl[w].resv, 0, tick[w].gen}, GrantSound(w)'
  PROVE  LedgerInvariant'
  <1>1. /\ ledger.gen \in Nat /\ ledger.rv \in Nat /\ tick[w].gen \in Nat
        /\ ledger'.gen = tick[w].gen /\ ledger'.rv = ledger.rv + 1
        /\ \A v \in Watchers : tick[v].rv \in Nat /\ ctl[v].resv \in Nat
    BY DEF TypeOK, WriteLedger
  <1>2. Above(tick[w].gen)
    BY DEF LedgerInvariant, TokenSound, GrantSound, Conclusion, Holding
  <1>3. AttachedWithinLedger' /\ LocationsSound'
    BY <1>1, <1>2 DEF LedgerInvariant, AttachedWithinLedger, LocationsSound, Above
  <1>4. ASSUME NEW v \in Watchers PROVE TokenSound(v)' /\ GrantSound(v)'
    <2>1. CASE v = w
      BY <2>1 DEF TokenSound
    <2>2. CASE v # w
      <3>1. TokenSound(v) /\ GrantSound(v) /\ pc'[v] = pc[v] /\ tick'[v] = tick[v] /\ ctl'[v] = ctl[v]
        BY <2>2 DEF LedgerInvariant, Only
      <3>2. TokenSound(v)'
        BY <1>1, <3>1 DEF TokenSound
      <3>3. GrantSound(v)'
        BY <1>1, <1>2, <3>1 DEF GrantSound, Above, TypeOK
      <3> QED
        BY <3>2, <3>3
    <2> QED
      BY <2>1, <2>2
  <1>5. ReservationsDistinct'
    BY <1>1, <1>2 DEF LedgerInvariant, ReservationsDistinct, GrantSound, Only, Above
  <1> QED
    BY <1>3, <1>4, <1>5 DEF LedgerInvariant

\* A call of one instance touches no other instance.
LEMMA RunsOnly == ASSUME TypeOK, NEW w \in Watchers, Runs(w) PROVE Only(w)
  <1>0. pc \in [Watchers -> Labels] /\ ctl \in [Watchers -> Ctls] /\ tick \in [Watchers -> Ticks]
    BY DEF TypeOK, Ctls, Ticks
  <1>1. CASE Seeding(w)
    BY <1>0, <1>1 DEF Only, Seeding, SeedRead, SeedView, SeedWrite, Propose
  <1>2. CASE Detecting(w)
    BY <1>0, <1>2
       DEF Only, Detecting, ReadFreeze, ReadSelector, Probe, Sight, Vantage, LedgerAdvanced
  <1>3. CASE Failover(w)
    BY <1>0, <1>3
       DEF Only, Failover, ReadLedger, Recover, Validate, Corroborate, Reserve, Promote,
                      Flip, Bounce, Aim, Validated, Promoted
  <1>4. CASE Adopting(w)
    BY <1>0, <1>4 DEF Only, Adopting, Converge, ConvergeView, ConvergePut, Adopt, Converged
  <1>5. CASE Warming(w)
    BY <1>0, <1>5 DEF Only, Warming, WarmThrottled, WarmResolve, WarmCheck, WarmPut, Warmed
  <1> QED
    BY <1>1, <1>2, <1>3, <1>4, <1>5 DEF Runs

\* Ending a call sequence without a ledger write leaves nothing to know.
LEMMA ReleasedQuiet ==
  ASSUME TypeOK, TypeOK', LedgerInvariant, NEW w \in Watchers, UNCHANGED ledger, LocStep,
         ctl'[w].resv \in {ctl[w].resv, 0},
         pc'[w] \notin Holding \cup {"promote", "flip", "cview", "cput"}
  PROVE  Quiet(w)
  BY DEF Quiet, TokenSound, GrantSound, LedgerInvariant, TypeOK, Holding

\* A call that PUTs nothing moves no location.
LEMMA UnmovedLocStep == UNCHANGED loc => LocStep
  BY DEF LocStep

\* An AttachedSingle PUT at a granted generation is a sound move.
LEMMA AttachLocStep ==
  ASSUME TypeOK, NEW n \in Nodes, NEW t, NEW g \in 1..ledger.gen, Attach(n, t, g)
  PROVE  LocStep
  <1>1. ASSUME NEW m \in Nodes, NEW s \in Tenants
        PROVE  loc'[m][s] = loc[m][s] \/ loc'[m][s] = Attached(g)
    BY DEF TypeOK, Attach
  <1> QED
    BY <1>1 DEF LocStep

\* SeedLedger: a generation concluded from the ledger and the view is written
\* only while both still hold.
LEMMA SeedingSound ==
  ASSUME TypeOK, TypeOK', LedgerInvariant, NEW w \in Watchers, Seeding(w)
  PROVE  LedgerInvariant'
  <1>0. /\ Only(w)
        /\ pc \in [Watchers -> Labels] /\ tick \in [Watchers -> Ticks]
        /\ ledger.gen \in Nat /\ ledger.rv \in Nat /\ tick[w].gen \in Nat /\ tick[w].rv \in Nat
        /\ TokenSound(w) /\ GrantSound(w) /\ AttachedWithinLedger /\ LocationsSound
        /\ route \in Nodes
        /\ \A n \in Nodes, t \in Tenants : loc[n][t].gen \in Nat
    BY RunsOnly DEF Runs, TypeOK, LedgerInvariant, Ticks
  <1>1. CASE SeedRead(w)
    <2>1. CASE pc'[w] = "view"
      <3>1. tick'[w].gen = ledger.gen /\ tick'[w].rv = ledger.rv
        BY <1>0, <1>1, <2>1 DEF SeedRead, Ticks
      <3>2. Quiet(w)
        BY <1>0, <1>1, <2>1, <3>1, UnmovedLocStep
           DEF SeedRead, Quiet, TokenSound, GrantSound, Conclusion
      <3> QED
        BY <1>0, <3>2, QuietStep
    <2>2. CASE pc'[w] # "view"
      <3>1. pc'[w] = "idle"
        BY <1>0, <1>1, <2>2 DEF SeedRead
      <3>2. Quiet(w)
        BY <1>1, <3>1, UnmovedLocStep, ReleasedQuiet DEF SeedRead, Holding
      <3> QED
        BY <1>0, <3>2, QuietStep
    <2> QED
      BY <2>1, <2>2
  <1>2. CASE SeedView(w)
    <2>1. CASE pc'[w] = "seed"
      <3> DEFINE led == tick[w].gen
                 target == tick'[w].gen
      <3>1. /\ tick'[w].rv = tick[w].rv /\ target > led
            /\ led = 0 => loc[route][Base].mode = "attached" /\ loc[route][Base].gen <= target
        BY <1>0, <1>2, <2>1, ConstantsAssumption
           DEF SeedView, Propose, Reads, Larger, Ticks
      <3>2. ASSUME tick[w].rv = ledger.rv PROVE Above(target)
        <4>1. led = ledger.gen
          BY <1>0, <1>2, <3>2 DEF SeedView, TokenSound, Conclusion, Holding
        <4>2. CASE ledger.gen # 0
          BY <1>0, <3>1, <4>1, <4>2 DEF Above, AttachedWithinLedger, TypeOK
        <4>3. CASE ledger.gen = 0
          <5>1. loc[route][Base].gen # 0
            BY <1>0, <3>1, <4>1, <4>3, ConstantsAssumption DEF LocationsSound
          <5>2. \A n \in Nodes, t \in Tenants :
                  loc[n][t].gen = 0 \/ loc[n][t].gen = loc[route][Base].gen
            BY <1>0, <4>3, <5>1, ConstantsAssumption DEF LocationsSound
          <5>3. target \in Nat
            BY DEF TypeOK
          <5> QED
            BY <1>0, <3>1, <4>1, <4>3, <5>2, <5>3 DEF Above
        <4> QED
          BY <4>2, <4>3
      <3>3. tick[w].rv <= ledger.rv
        BY <1>0, <1>2 DEF SeedView, TokenSound, Holding
      <3>4. Quiet(w)
        BY <1>0, <1>2, <2>1, <3>1, <3>2, <3>3, UnmovedLocStep
           DEF SeedView, Quiet, TokenSound, GrantSound, Conclusion, Above
      <3> QED
        BY <1>0, <3>4, QuietStep
    <2>2. CASE pc'[w] # "seed"
      <3>1. pc'[w] = "idle"
        BY <1>0, <1>2, <2>2 DEF SeedView, Propose
      <3>2. Quiet(w)
        BY <1>2, <3>1, UnmovedLocStep, ReleasedQuiet DEF SeedView, Holding
      <3> QED
        BY <1>0, <3>2, QuietStep
    <2> QED
      BY <2>1, <2>2
  <1>3. CASE SeedWrite(w)
    <2>1. pc'[w] = "idle" /\ pc[w] = "seed" /\ UNCHANGED <<loc, ctl>>
      BY <1>0, <1>3 DEF SeedWrite
    <2>2. CASE UNCHANGED ledger
      <3>1. Quiet(w)
        BY <2>1, <2>2, UnmovedLocStep, ReleasedQuiet DEF Holding
      <3> QED
        BY <1>0, <3>1, QuietStep
    <2>3. CASE ledger.rv = tick[w].rv /\ WriteLedger(w)
      <3>1. Above(tick[w].gen)
        BY <1>0, <2>1, <2>3 DEF TokenSound, Conclusion, Holding
      <3>2. GrantSound(w)'
        BY <1>0, <2>1, <2>3, <3>1 DEF GrantSound, WriteLedger, Above, TypeOK
      <3> QED
        BY <1>0, <2>1, <2>3, <3>2, WriteStep DEF Holding
    <2> QED
      BY <1>3, <2>2, <2>3 DEF SeedWrite, CasWins, CasLoses, CasErrs
  <1> QED
    BY <1>1, <1>2, <1>3 DEF Seeding

\* The steps that neither hold a token nor put anything on a pageserver.
LEMMA ReleasedSteps ==
  ASSUME TypeOK, TypeOK', LedgerInvariant, NEW w \in Watchers,
         \/ Detecting(w) \/ Flip(w) \/ Bounce(w) \/ Adopt(w)
         \/ WarmThrottled(w) \/ WarmResolve(w) \/ WarmCheck(w)
  PROVE  LedgerInvariant'
  <1>0. /\ Only(w)
        /\ pc \in [Watchers -> Labels] /\ ctl \in [Watchers -> Ctls]
    BY RunsOnly DEF Runs, Failover, Adopting, Warming, TypeOK, Ctls
  <1>1. /\ UNCHANGED <<ledger, loc>>
        /\ ctl'[w].resv \in {ctl[w].resv, 0}
        /\ pc'[w] \notin Holding \cup {"promote", "flip", "cview", "cput"}
    <2>1. CASE ReadFreeze(w) \/ ReadSelector(w) \/ LedgerAdvanced(w)
      BY <1>0, <2>1 DEF ReadFreeze, ReadSelector, LedgerAdvanced, Decide, Holding, Ctls
    <2>2. CASE Probe(w) \/ Sight(w) \/ Vantage(w)
      BY <1>0, <2>2 DEF Probe, Sight, Vantage, Decide, Holding, Ctls
    <2>3. CASE Flip(w) \/ Bounce(w) \/ Adopt(w)
      BY <1>0, <2>3 DEF Flip, Bounce, Adopt, Holding, Ctls
    <2>4. CASE WarmThrottled(w) \/ WarmResolve(w) \/ WarmCheck(w)
      BY <1>0, <2>4 DEF WarmThrottled, WarmResolve, WarmCheck, Warmed, Holding
    <2> QED
      BY <2>1, <2>2, <2>3, <2>4 DEF Detecting
  <1>2. Quiet(w)
    BY <1>1, UnmovedLocStep, ReleasedQuiet
  <1> QED
    BY <1>0, <1>2, QuietStep

\* Aiming above a generation that is the ledger's, or bounds the plane while
\* the ledger is unset.
LEMMA AimSound ==
  ASSUME TypeOK, TypeOK', LedgerInvariant, NEW w \in Watchers,
         UNCHANGED <<ledger, loc, ctl>>, NEW gen \in Nat, NEW rv \in Nat, Aim(w, gen, rv),
         rv <= ledger.rv,
         rv = ledger.rv => /\ gen >= ledger.gen
                           /\ \A n \in Nodes, t \in Tenants : loc[n][t].gen <= gen
  PROVE  Quiet(w)
  <1>0. /\ pc \in [Watchers -> Labels] /\ tick \in [Watchers -> Ticks]
        /\ ctl[w].resv \in Nat /\ ledger.gen \in Nat /\ LocStep
        /\ \A n \in Nodes, t \in Tenants : loc[n][t].gen \in Nat
        /\ GrantSound(w)
    BY UnmovedLocStep DEF TypeOK, Ticks, LedgerInvariant
  <1>1. CASE pc'[w] = "validate"
    <2>1. /\ tick'[w].rv = rv
          /\ tick'[w].gen = IF ctl[w].resv = 0 THEN gen + 1 ELSE ctl[w].resv
      BY <1>0, <1>1 DEF Aim, Ticks
    <2>2. GrantSound(w)'
      BY <1>0, <1>1, <2>1 DEF GrantSound
    <2>3. TokenSound(w)'
      BY <1>0, <1>1, <2>1 DEF TokenSound, Conclusion, Above
    <2> QED
      BY <1>0, <2>2, <2>3 DEF Quiet
  <1>2. CASE pc'[w] # "validate"
    <2>1. pc'[w] = "warm"
      BY <1>0, <1>2 DEF Aim
    <2> QED
      BY <1>0, <2>1, ReleasedQuiet DEF Holding
  <1> QED
    BY <1>1, <1>2

\* Validating the rest of the routed set keeps the aim and its token.
LEMMA ValidatedSound ==
  ASSUME TypeOK, TypeOK', LedgerInvariant, NEW w \in Watchers,
         pc[w] \in {"validate", "corroborate"}, UNCHANGED <<ledger, loc, ctl>>,
         NEW t, NEW keep, Validated(w, t, keep)
  PROVE  Quiet(w)
  <1>0. /\ pc \in [Watchers -> Labels] /\ tick \in [Watchers -> Ticks]
        /\ ctl[w].resv \in Nat /\ ledger.gen \in Nat /\ LocStep /\ tick[w].gen \in Nat
        /\ TokenSound(w) /\ GrantSound(w)
    BY UnmovedLocStep DEF TypeOK, Ticks, LedgerInvariant
  <1>1. /\ tick'[w].gen = tick[w].gen /\ tick'[w].rv = tick[w].rv
        /\ pc'[w] \in {"validate", "reserve", "promote"}
        /\ pc'[w] = "reserve" => ctl[w].resv = 0
        /\ pc'[w] = "promote" => ctl[w].resv # 0
    BY <1>0 DEF Validated, Ticks
  <1>2. GrantSound(w)'
    BY <1>0, <1>1 DEF GrantSound
  <1>3. TokenSound(w)'
    BY <1>0, <1>1 DEF TokenSound, Conclusion, Above, Holding
  <1> QED
    BY <1>0, <1>2, <1>3 DEF Quiet

\* failover, from its read of the ledger to the bounce.
LEMMA FailoverSound ==
  ASSUME TypeOK, TypeOK', LedgerInvariant, NEW w \in Watchers, Failover(w)
  PROVE  LedgerInvariant'
  <1>0. /\ Only(w)
        /\ pc \in [Watchers -> Labels] /\ tick \in [Watchers -> Ticks] /\ ctl \in [Watchers -> Ctls]
        /\ ledger.gen \in Nat /\ ledger.rv \in Nat /\ tick[w].gen \in Nat /\ tick[w].rv \in Nat
        /\ TokenSound(w) /\ GrantSound(w) /\ AttachedWithinLedger /\ LocationsSound
        /\ route \in Nodes /\ ctl[w].resv \in Nat
        /\ \A n \in Nodes, t \in Tenants : loc[n][t].gen \in Nat
    BY RunsOnly DEF Runs, TypeOK, LedgerInvariant, Ticks, Ctls
  <1> SUFFICES ASSUME \neg Quiet(w) PROVE LedgerInvariant'
    BY <1>0, QuietStep
  <1>1. CASE ReadLedger(w)
    <2>1. CASE ledger.gen # 0 /\ Aim(w, ledger.gen, ledger.rv)
      BY <1>0, <1>1, <2>1, AimSound DEF ReadLedger, AttachedWithinLedger
    <2>2. CASE ledger.gen = 0 /\ tick' = [tick EXCEPT ![w].rv = ledger.rv] /\ Goto(w, "recover")
      <3>1. tick'[w].rv = ledger.rv /\ pc'[w] = "recover"
        BY <1>0, <2>2 DEF Ticks
      <3> QED
        BY <1>0, <1>1, <2>2, <3>1, UnmovedLocStep
           DEF ReadLedger, Quiet, TokenSound, GrantSound, Conclusion, Holding
    <2>3. CASE EndDetection(w)
      BY <1>0, <1>1, <2>3, UnmovedLocStep, ReleasedQuiet DEF ReadLedger, Holding
    <2> QED
      BY <1>1, <2>1, <2>2, <2>3 DEF ReadLedger
  <1>2. CASE Recover(w)
    <2> DEFINE gen == Larger(loc[route][Base].gen, BaseGeneration)
    <2>1. CASE Reads(Base) /\ Aim(w, gen, tick[w].rv)
      <3>1. gen \in Nat /\ gen >= loc[route][Base].gen
        BY <1>0, ConstantsAssumption DEF Larger
      <3>2. tick[w].rv <= ledger.rv /\ (tick[w].rv = ledger.rv => ledger.gen = 0)
        BY <1>0, <1>2 DEF Recover, TokenSound, Conclusion, Holding
      <3>3. loc[route][Base].gen # 0
        BY <1>0, <2>1, ConstantsAssumption DEF Reads, LocationsSound
      <3>4. ledger.gen = 0 => \A n \in Nodes, t \in Tenants :
                                loc[n][t].gen = 0 \/ loc[n][t].gen = loc[route][Base].gen
        BY <1>0, <3>3, ConstantsAssumption DEF LocationsSound
      <3>5. tick[w].rv = ledger.rv =>
              gen >= ledger.gen /\ \A n \in Nodes, t \in Tenants : loc[n][t].gen <= gen
        BY <1>0, <3>1, <3>2, <3>4
      <3> HIDE DEF gen
      <3> QED
        BY <1>0, <1>2, <2>1, <3>1, <3>2, <3>5, AimSound DEF Recover
    <2>2. CASE EndDetection(w)
      BY <1>0, <1>2, <2>2, UnmovedLocStep, ReleasedQuiet DEF Recover, Holding
    <2> QED
      BY <1>2, <2>1, <2>2 DEF Recover
  <1>3. CASE Validate(w)
    <2>1. CASE EndDetection(w)
      BY <1>0, <1>3, <2>1, UnmovedLocStep, ReleasedQuiet DEF Validate, Holding
    <2>2. CASE Goto(w, "corroborate") /\ UNCHANGED tick
      BY <1>0, <1>3, <2>2, UnmovedLocStep
         DEF Validate, Quiet, TokenSound, GrantSound, Conclusion, Above, Holding
    <2>3. CASE \E t, keep : Validated(w, t, keep)
      BY <1>0, <1>3, <2>3, ValidatedSound DEF Validate
    <2> QED
      BY <1>3, <2>1, <2>2, <2>3 DEF Validate
  <1>4. CASE Corroborate(w)
    <2>1. CASE EndDetection(w)
      BY <1>0, <1>4, <2>1, UnmovedLocStep, ReleasedQuiet DEF Corroborate, Holding
    <2>2. CASE \E t, keep : Validated(w, t, keep)
      BY <1>0, <1>4, <2>2, ValidatedSound DEF Corroborate
    <2> QED
      BY <1>4, <2>1, <2>2 DEF Corroborate
  <1>5. CASE Reserve(w)
    <2>1. pc[w] = "reserve" /\ UNCHANGED <<loc, tick>> /\ ctl[w].resv = 0
      BY <1>0, <1>5 DEF Reserve, GrantSound
    <2>2. CASE EndDetection(w) /\ UNCHANGED ledger /\ UNCHANGED ctl
      BY <1>0, <2>1, <2>2, UnmovedLocStep, ReleasedQuiet DEF Holding
    <2>3. CASE ledger.rv = tick[w].rv /\ WriteLedger(w)
      <3>1. Above(tick[w].gen)
        BY <1>0, <2>1, <2>3 DEF TokenSound, Conclusion, Holding
      <3>2. ledger'.gen = tick[w].gen /\ tick[w].gen \in 1..ledger'.gen
        BY <1>0, <2>3, <3>1 DEF WriteLedger, Above
      <3>3. /\ pc'[w] \in {"promote", "warm"}
            /\ ctl'[w].resv \in {ctl[w].resv, tick[w].gen}
        BY <1>0, <1>5 DEF Reserve, Ctls
      <3>4. GrantSound(w)'
        BY <1>0, <2>1, <3>2, <3>3 DEF GrantSound
      <3> QED
        BY <1>0, <2>1, <2>3, <3>3, <3>4, WriteStep DEF Holding
    <2> QED
      BY <1>5, <2>2, <2>3 DEF Reserve, CasWins, CasLoses, CasErrs
  <1>6. CASE Promote(w)
    <2>1. LocStep
      <3>1. tick[w].gen \in 1..ledger.gen
        BY <1>0, <1>6 DEF Promote, GrantSound
      <3> QED
        BY <1>6, <3>1, UnmovedLocStep, AttachLocStep DEF Promote, Nodes
    <2>2. tick'[w].gen = tick[w].gen /\ pc'[w] \in {"promote", "flip", "warm"} /\ UNCHANGED <<ledger, ctl>>
      BY <1>0, <1>6 DEF Promote, Promoted, Ticks
    <2> QED
      BY <1>0, <1>6, <2>1, <2>2 DEF Promote, Quiet, TokenSound, GrantSound, Holding
  <1> QED
    BY <1>1, <1>2, <1>3, <1>4, <1>5, <1>6, ReleasedSteps DEF Failover

\* convergeFailover attaches at the generation the ledger held when read.
LEMMA AdoptingSound ==
  ASSUME TypeOK, TypeOK', LedgerInvariant, NEW w \in Watchers, Adopting(w)
  PROVE  LedgerInvariant'
  <1>0. /\ Only(w)
        /\ pc \in [Watchers -> Labels] /\ tick \in [Watchers -> Ticks]
        /\ ledger.gen \in Nat /\ GrantSound(w)
    BY RunsOnly DEF Runs, TypeOK, LedgerInvariant, Ticks
  <1>1. CASE Converge(w)
    <2>1. CASE pc'[w] = "cview"
      <3>1. tick'[w].gen = ledger.gen /\ ledger.gen > BaseGeneration
        BY <1>0, <1>1, <2>1 DEF Converge, Ticks
      <3>2. tick'[w].gen \in 1..ledger.gen
        BY <1>0, <3>1, ConstantsAssumption
      <3>3. Quiet(w)
        BY <1>0, <1>1, <2>1, <3>2, UnmovedLocStep
           DEF Converge, Quiet, TokenSound, GrantSound, Holding
      <3> QED
        BY <1>0, <3>3, QuietStep
    <2>2. CASE pc'[w] # "cview"
      <3>1. pc'[w] = "adopt"
        BY <1>0, <1>1, <2>2 DEF Converge
      <3> QED
        BY <1>0, <1>1, <3>1, UnmovedLocStep, ReleasedQuiet, QuietStep DEF Converge, Holding
    <2> QED
      BY <2>1, <2>2
  <1>2. CASE ConvergeView(w) \/ ConvergePut(w)
    <2>1. tick[w].gen \in 1..ledger.gen
      BY <1>0, <1>2 DEF ConvergeView, ConvergePut, GrantSound
    <2>2. LocStep
      BY <1>2, <2>1, UnmovedLocStep, AttachLocStep DEF ConvergeView, ConvergePut, Nodes
    <2>3. /\ tick'[w].gen = tick[w].gen /\ pc'[w] \in {"cview", "cput", "adopt"}
          /\ UNCHANGED <<ledger, ctl>>
      BY <1>0, <1>2 DEF ConvergeView, ConvergePut, Converged, Ticks
    <2>4. Quiet(w)
      BY <1>0, <2>1, <2>2, <2>3 DEF Quiet, TokenSound, GrantSound, Holding
    <2> QED
      BY <1>0, <2>4, QuietStep
  <1>3. CASE Adopt(w)
    BY <1>3, ReleasedSteps
  <1> QED
    BY <1>1, <1>2, <1>3 DEF Adopting

\* A Secondary PUT is a sound move.
LEMMA SecondaryLocStep ==
  ASSUME TypeOK, NEW n \in Nodes, NEW t, loc' = [loc EXCEPT ![n][t] = Secondary]
  PROVE  LocStep
  <1>1. ASSUME NEW m \in Nodes, NEW s \in Tenants
        PROVE  loc'[m][s] = loc[m][s] \/ loc'[m][s] = Secondary
    BY DEF TypeOK
  <1> QED
    BY <1>1 DEF LocStep

\* The standby-warm pass takes generations away, never gives one.
LEMMA WarmingSound ==
  ASSUME TypeOK, TypeOK', LedgerInvariant, NEW w \in Watchers, Warming(w)
  PROVE  LedgerInvariant'
  <1>0. Only(w) /\ pc \in [Watchers -> Labels] /\ tick[w].node \in Nodes
    BY RunsOnly DEF Runs, TypeOK
  <1>1. CASE WarmPut(w)
    <2>1. LocStep
      BY <1>0, <1>1, UnmovedLocStep, SecondaryLocStep DEF WarmPut
    <2>2. UNCHANGED <<ledger, ctl>> /\ pc'[w] \in {"idle", "wcheck"}
      BY <1>0, <1>1 DEF WarmPut, Warmed
    <2>3. Quiet(w)
      BY <2>1, <2>2, ReleasedQuiet DEF Holding
    <2> QED
      BY <1>0, <2>3, QuietStep
  <1> QED
    BY <1>1, ReleasedSteps DEF Warming

\* A crash forgets the reservation, never the ledger.
LEMMA CrashSound ==
  ASSUME TypeOK, TypeOK', LedgerInvariant, NEW w \in Watchers, Crash(w)
  PROVE  LedgerInvariant'
  <1>1. /\ Only(w) /\ LocStep /\ UNCHANGED ledger
        /\ ctl'[w].resv = 0 /\ pc'[w] = "boot"
    BY UnmovedLocStep DEF Crash, Only, TypeOK, Fresh
  <1>2. Quiet(w)
    BY <1>1, ReleasedQuiet DEF Holding
  <1> QED
    BY <1>1, <1>2, QuietStep

\* Nodes lose volumes, readers attach at max(ledger, view): within the ledger.
LEMMA EnvironmentSound ==
  ASSUME TypeOK, TypeOK', LedgerInvariant, Environment
  PROVE  LedgerInvariant'
  <1>1. LocStep
    <2>1. ASSUME NEW n \in Nodes, loc' = Emptied(n) PROVE LocStep
      BY <2>1 DEF LocStep, Emptied, TypeOK
    <2>2. CASE PrimaryReturns \/ StandbyRebuilt
      BY <2>1, <2>2, UnmovedLocStep DEF PrimaryReturns, StandbyRebuilt, Nodes
    <2>3. ASSUME NEW t \in Tenants, ReaderAttaches(t) PROVE LocStep
      <3> DEFINE g == Larger(ledger.gen, loc[route][t].gen)
      <3>1. route \in Nodes /\ ledger.gen \in Nat /\ loc[route][t].gen \in Nat
        BY DEF TypeOK
      <3>2. g \in 1..ledger.gen
        BY <2>3, <3>1 DEF ReaderAttaches, LedgerInvariant, AttachedWithinLedger, Larger
      <3> HIDE DEF g
      <3>3. Attach(route, t, g)
        BY <2>3 DEF ReaderAttaches, g
      <3> QED
        BY <3>1, <3>2, <3>3, AttachLocStep
    <2>4. CASE PrimaryWorsens \/ SetFreeze \/ FreezeLapses \/ ComputeWakes
      BY <2>4, UnmovedLocStep DEF PrimaryWorsens, SetFreeze, FreezeLapses, ComputeWakes
    <2> QED
      BY <2>2, <2>3, <2>4 DEF Environment
  <1>2. UNCHANGED <<ledger, pc, ctl, tick>>
    BY DEF Environment, PrimaryWorsens, PrimaryReturns, StandbyRebuilt, SetFreeze,
           FreezeLapses, ComputeWakes, ReaderAttaches
  <1>3. \A w \in Watchers : TokenSound(w)' /\ GrantSound(w)'
    BY <1>1, <1>2, KeepsSound
  <1>4. ReservationsDistinct'
    BY <1>2 DEF LedgerInvariant, ReservationsDistinct
  <1> QED
    BY <1>1, <1>2, <1>3, <1>4, LocStepSound DEF LedgerInvariant

\* Every step keeps the ledger invariant.
LEMMA NextInvariant == TypeOK /\ TypeOK' /\ LedgerInvariant /\ [Next]_vars => LedgerInvariant'
  <1> SUFFICES ASSUME TypeOK, TypeOK', LedgerInvariant, [Next]_vars PROVE LedgerInvariant'
    OBVIOUS
  <1>1. ASSUME NEW w \in Watchers, Runs(w) PROVE LedgerInvariant'
    BY <1>1, SeedingSound, ReleasedSteps, FailoverSound, AdoptingSound, WarmingSound DEF Runs
  <1>2. ASSUME NEW w \in Watchers, Crash(w) PROVE LedgerInvariant'
    BY <1>2, CrashSound
  <1>3. CASE Environment
    BY <1>3, EnvironmentSound
  <1>4. CASE UNCHANGED vars
    BY <1>4 DEF vars, LedgerInvariant, AttachedWithinLedger, ReservationsDistinct,
                LocationsSound, TokenSound, GrantSound, Conclusion, Above
  <1> QED
    BY <1>1, <1>2, <1>3, <1>4 DEF Next

\* The ledger invariant: what an instance concluded from the ledger and the
\* routed view stays true until its compare-and-swap can no longer succeed,
\* so every reservation and every attached generation was granted.
THEOREM LedgerSound == Spec => []LedgerInvariant
  <1>1. TypeOK /\ LedgerInvariant /\ [Next]_vars => TypeOK' /\ LedgerInvariant'
    BY NextType, NextInvariant
  <1> QED
    BY InitType, InitInvariant, <1>1, PTL DEF Spec

\* No tenant is ever attached above the ledger, for any number of watchers
\* and routed tenants: reserve before promote (ADR-0010 D4).
THEOREM NeverAheadOfLedger == Spec => []AttachedWithinLedger
  BY LedgerSound, PTL DEF LedgerInvariant

\* No two watchers ever hold the same reserved generation, whichever replies
\* of SetGeneration were lost (ADR-0010 D4).
THEOREM NoSharedReservation == Spec => []ReservationsDistinct
  BY LedgerSound, PTL DEF LedgerInvariant

-----------------------------------------------------------------------------
(* The ledger only grows, and the refinement of GenerationLedger.           *)

\* A tenant put on node n at a generation granted and not below the one held.
Attaches(n, t) ==
  \E g \in 1..ledger.gen : Accepts(n, t, g) /\ Attach(n, t, g)

\* What one step may do to the locations.
LocMoves ==
  \/ UNCHANGED loc
  \/ \E n \in Nodes, t \in Tenants : Attaches(n, t) \/ loc' = [loc EXCEPT ![n][t] = Secondary]
  \/ \E n \in Nodes : loc' = Emptied(n)

\* What one step may do to the ledger, the locations and the Service.
PlaneMoves ==
  \/ UNCHANGED <<ledger, route>> /\ LocMoves
  \/ Above(ledger'.gen) /\ UNCHANGED <<loc, route>>
  \/ ledger.gen # 0 /\ route' = Standby /\ UNCHANGED <<ledger, loc>>

\* A PUT for a tenant outside the routed set would move no location.
LEMMA AttachMoves ==
  ASSUME TypeOK, NEW n \in Nodes, NEW t, NEW g \in 1..ledger.gen,
         Accepts(n, t, g), Attach(n, t, g)
  PROVE  LocMoves
  <1>1. CASE t \in Tenants
    BY <1>1 DEF LocMoves, Attaches
  <1>2. CASE t \notin Tenants
    BY <1>2 DEF LocMoves, Attach, TypeOK
  <1> QED
    BY <1>1, <1>2

\* A Secondary PUT for a tenant outside the routed set would move no location.
LEMMA SecondaryMoves ==
  ASSUME TypeOK, NEW n \in Nodes, NEW t, loc' = [loc EXCEPT ![n][t] = Secondary]
  PROVE  LocMoves
  <1>1. CASE t \in Tenants
    BY <1>1 DEF LocMoves
  <1>2. CASE t \notin Tenants
    BY <1>2 DEF LocMoves, TypeOK
  <1> QED
    BY <1>1, <1>2

\* The calls of a watcher: only the seed and the reservation write the ledger,
\* only a promotion, a convergence or a warm PUT a location, only the flip the
\* Service.
LEMMA RunsMoves ==
  ASSUME TypeOK, LedgerInvariant, NEW w \in Watchers, Runs(w) PROVE PlaneMoves
  <1>0. TokenSound(w) /\ GrantSound(w) /\ tick[w].node \in Nodes
    BY DEF LedgerInvariant, TypeOK
  <1>1. CASE SeedWrite(w) \/ Reserve(w)
    <2>1. CASE UNCHANGED ledger
      BY <1>1, <2>1 DEF SeedWrite, Reserve, PlaneMoves, LocMoves
    <2>2. CASE ledger.rv = tick[w].rv /\ WriteLedger(w)
      <3>1. Above(tick[w].gen)
        BY <1>0, <1>1, <2>2
           DEF SeedWrite, Reserve, TokenSound, GrantSound, Conclusion, Holding
      <3> QED
        BY <1>1, <2>2, <3>1 DEF SeedWrite, Reserve, WriteLedger, PlaneMoves
    <2> QED
      BY <1>1, <2>1, <2>2 DEF SeedWrite, Reserve, CasWins, CasLoses, CasErrs
  <1>2. CASE Promote(w) \/ ConvergePut(w)
    <2>1. tick[w].gen \in 1..ledger.gen /\ UNCHANGED <<ledger, route>>
      BY <1>0, <1>2 DEF Promote, ConvergePut, GrantSound
    <2>2. LocMoves
      BY <1>2, <2>1, AttachMoves DEF Promote, ConvergePut, LocMoves, Nodes
    <2> QED
      BY <2>1, <2>2 DEF PlaneMoves
  <1>3. CASE WarmPut(w)
    <2>1. LocMoves
      BY <1>0, <1>3, SecondaryMoves DEF WarmPut, LocMoves
    <2> QED
      BY <1>3, <2>1 DEF WarmPut, PlaneMoves
  <1>4. CASE Flip(w)
    <2>1. ledger.gen # 0
      BY <1>0, <1>4 DEF Flip, GrantSound, TypeOK
    <2> QED
      BY <1>4, <2>1 DEF Flip, PlaneMoves, LocMoves
  <1>5. CASE SeedRead(w) \/ SeedView(w) \/ Detecting(w)
    BY <1>5 DEF SeedRead, SeedView, Detecting, ReadFreeze, ReadSelector, Probe, Sight,
                Vantage, LedgerAdvanced, PlaneMoves, LocMoves
  <1>6. CASE ReadLedger(w) \/ Recover(w) \/ Validate(w) \/ Corroborate(w) \/ Bounce(w)
    BY <1>6 DEF ReadLedger, Recover, Validate, Corroborate, Bounce, PlaneMoves, LocMoves
  <1>7. CASE \/ Converge(w) \/ ConvergeView(w) \/ Adopt(w)
              \/ WarmThrottled(w) \/ WarmResolve(w) \/ WarmCheck(w)
    BY <1>7 DEF Converge, ConvergeView, Adopt, WarmThrottled, WarmResolve, WarmCheck,
                PlaneMoves, LocMoves
  <1> QED
    BY <1>1, <1>2, <1>3, <1>4, <1>5, <1>6, <1>7 DEF Runs, Seeding, Failover, Adopting, Warming

\* Outside the watchers nobody writes the ledger or the selector.
LEMMA EnvironmentMoves ==
  ASSUME TypeOK, LedgerInvariant, Environment PROVE PlaneMoves
  <1>1. CASE PrimaryReturns \/ StandbyRebuilt
    BY <1>1 DEF PrimaryReturns, StandbyRebuilt, PlaneMoves, LocMoves, Nodes
  <1>2. ASSUME NEW t \in Tenants, ReaderAttaches(t) PROVE PlaneMoves
    <2> DEFINE g == Larger(ledger.gen, loc[route][t].gen)
    <2>1. route \in Nodes /\ ledger.gen \in Nat /\ loc[route][t].gen \in Nat
      BY DEF TypeOK
    <2>2. g \in 1..ledger.gen /\ Accepts(route, t, g)
      BY <1>2, <2>1 DEF ReaderAttaches, LedgerInvariant, AttachedWithinLedger, Larger, Accepts
    <2> HIDE DEF g
    <2>3. Attach(route, t, g)
      BY <1>2 DEF ReaderAttaches, g
    <2>4. LocMoves
      BY <2>1, <2>2, <2>3, AttachMoves
    <2> QED
      BY <1>2, <2>4 DEF ReaderAttaches, PlaneMoves
  <1>3. CASE PrimaryWorsens \/ SetFreeze \/ FreezeLapses \/ ComputeWakes
    BY <1>3 DEF PrimaryWorsens, SetFreeze, FreezeLapses, ComputeWakes, PlaneMoves, LocMoves
  <1> QED
    BY <1>1, <1>2, <1>3 DEF Environment

\* Every step moves the plane in one of these ways.
LEMMA NextMoves ==
  ASSUME TypeOK, LedgerInvariant, [Next]_vars PROVE PlaneMoves
  <1>1. CASE \E w \in Watchers : Runs(w)
    BY <1>1, RunsMoves
  <1>2. CASE \E w \in Watchers : Crash(w)
    BY <1>2 DEF Crash, PlaneMoves, LocMoves
  <1>3. CASE Environment
    BY <1>3, EnvironmentMoves
  <1>4. CASE UNCHANGED vars
    BY <1>4 DEF vars, PlaneMoves, LocMoves
  <1> QED
    BY <1>1, <1>2, <1>3, <1>4 DEF Next

\* No write of any instance, at whatever token, lowers or unsets the ledger:
\* SeedLedger's heal-up and SetGeneration's compare-and-swap, across crashes
\* and lost replies.
THEOREM LedgerMonotone == Spec => LedgerNeverLowers
  <1>1. TypeOK /\ LedgerInvariant /\ [Next]_vars => [ledger'.gen >= ledger.gen]_vars
    <2> SUFFICES ASSUME TypeOK, LedgerInvariant, [Next]_vars, TypeOK'
                 PROVE  ledger'.gen >= ledger.gen
      BY NextType
    <2>1. ledger.gen \in Nat /\ ledger'.gen \in Nat
      BY DEF TypeOK
    <2> QED
      BY <2>1, NextMoves DEF PlaneMoves, Above
  <1> QED
    BY <1>1, TypeCorrect, LedgerSound, PTL DEF Spec, LedgerNeverLowers

\* The abstract state of a step.
AbsHeld == [n \in Nodes |-> [t \in Tenants |-> loc[n][t].gen]]

\* A plane before its first failover is an abstract one.
LEMMA AbstractInit == Init => Abstract!Init
  <1> SUFFICES ASSUME Init PROVE Abstract!Init
    OBVIOUS
  <1>1. TypeOK /\ AttachedWithinLedger
    BY InitType, InitInvariant DEF LedgerInvariant
  <1> QED
    BY <1>1 DEF Init, TypeOK, AttachedWithinLedger, Abstract!Init, Abstract!Within

\* Each of these moves is an abstract step or a stutter.
LEMMA AbstractStep ==
  ASSUME TypeOK, TypeOK', PlaneMoves PROVE [Abstract!Next]_(Abstract!absvars)
  <1>0. /\ ledger.gen \in Nat /\ ledger'.gen \in Nat
        /\ \A n \in Nodes, t \in Tenants : loc[n][t].gen \in Nat
    BY DEF TypeOK
  <1>1. CASE Above(ledger'.gen) /\ UNCHANGED <<loc, route>>
    BY <1>0, <1>1 DEF Above, Abstract!Next, Abstract!Advance, Abstract!Within
  <1>2. CASE ledger.gen # 0 /\ route' = Standby /\ UNCHANGED <<ledger, loc>>
    BY <1>2 DEF Abstract!Next, Abstract!CutOver
  <1>3. CASE UNCHANGED <<ledger, route>> /\ LocMoves
    <2>1. CASE UNCHANGED loc
      BY <1>3, <2>1 DEF Abstract!absvars
    <2>2. ASSUME NEW n \in Nodes, NEW t \in Tenants, Attaches(n, t) PROVE Abstract!Next
      <3>1. PICK g \in 1..ledger.gen : Accepts(n, t, g) /\ Attach(n, t, g)
        BY <2>2 DEF Attaches
      <3>2. AbsHeld' = [AbsHeld EXCEPT ![n][t] = g]
        BY <3>1 DEF Attach, Attached, TypeOK, AbsHeld
      <3>3. g >= AbsHeld[n][t]
        BY <3>1 DEF Accepts, AbsHeld
      <3> QED
        <4>1. /\ \E h \in 1..ledger.gen : /\ h >= AbsHeld[n][t]
                                         /\ AbsHeld' = [AbsHeld EXCEPT ![n][t] = h]
              /\ UNCHANGED <<ledger.gen, route>>
          BY <1>3, <3>2, <3>3
        <4>2. Abstract!Attach(n, t)
          BY <4>1 DEF Abstract!Attach, AbsHeld
        <4> QED
          BY <4>2 DEF Abstract!Next
    <2>3. ASSUME NEW n \in Nodes, NEW t \in Tenants, loc' = [loc EXCEPT ![n][t] = Secondary]
          PROVE  Abstract!Next
      <3>1. AbsHeld' = [AbsHeld EXCEPT ![n] = [s \in Tenants |-> IF s \in {t} THEN 0 ELSE AbsHeld[n][s]]]
        BY <2>3 DEF Secondary, TypeOK, AbsHeld
      <3>2. {t} \in SUBSET Tenants
        OBVIOUS
      <3> QED
        BY <1>3, <3>1, <3>2 DEF Abstract!Next, Abstract!Release, AbsHeld
    <2>4. ASSUME NEW n \in Nodes, loc' = Emptied(n) PROVE Abstract!Next
      <3>1. AbsHeld' = [AbsHeld EXCEPT ![n] = [s \in Tenants |-> IF s \in Tenants THEN 0 ELSE AbsHeld[n][s]]]
        BY <2>4 DEF Emptied, None, TypeOK, AbsHeld
      <3>2. Tenants \in SUBSET Tenants
        OBVIOUS
      <3> QED
        BY <1>3, <3>1, <3>2 DEF Abstract!Next, Abstract!Release, AbsHeld
    <2> QED
      BY <1>3, <2>1, <2>2, <2>3, <2>4 DEF LocMoves
  <1> QED
    BY <1>1, <1>2, <1>3 DEF PlaneMoves

\* Any number of watchers implement the abstract ledger: whatever is crashed,
\* partitioned, lost or retried, tenants are only attached at granted
\* generations, none is lowered, and the Service is cut over once.
THEOREM Implements == Spec => ImplementsLedger
  <1>1. TypeOK /\ LedgerInvariant /\ [Next]_vars => [Abstract!Next]_(Abstract!absvars)
    BY NextType, NextMoves, AbstractStep
  <1> QED
    BY <1>1, AbstractInit, TypeCorrect, LedgerSound, PTL
       DEF Spec, ImplementsLedger, Abstract!Spec
=============================================================================
