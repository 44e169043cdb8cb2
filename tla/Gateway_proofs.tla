----------------------------- MODULE Gateway_proofs -----------------------------
(***************************************************************************)
(* The gateway's invariants, for any number of replicas, connections,      *)
(* timers and failures: every connection gives its compute slot back once, *)
(* a scale-down spares the sessions older than its looks at the fleet, and *)
(* a lone replica never strands a client it has woken the compute for.     *)
(***************************************************************************)
EXTENDS Gateway, FiniteSetTheorems, TLAPS

-----------------------------------------------------------------------------
(* The inductive invariant.                                                *)

ConnRecord == [pc : ConnPcs, at : Gateways \cup {Nowhere}, backend : BOOLEAN,
               forced : BOOLEAN, cancelled : BOOLEAN]

ConnsOK == /\ conn \in [Conns -> ConnRecord]
           /\ \A c \in Conns : Pc(c) = "out" <=> conn[c].at = Nowhere

TimersOK == /\ timer \in [Gateways -> [Slots -> [pc : TimerPcs, after : SUBSET Conns]]]
            /\ cur \in [Gateways -> 0..MaxTimers]

FleetOK == /\ up \in [Gateways -> {"open", "draining", "forced", "gone"}]
           /\ flight \in [Gateways -> {"none", "on", "doomed"}]

ComputeOK == replicas \in {0, 1} /\ pod \in {"none", "booting", "up"} /\ faults \in Nat

\* The count is a number because it counts: connEnded never takes it below zero.
SlotsOK == count \in [Gateways -> Nat] /\ CountsSlots

\* A replica that is gone has no connection left.
GoneOK == \A c \in Conns, g \in Gateways : up[g] = "gone" => conn[c].at # g

IInv == ConnsOK /\ TimersOK /\ FleetOK /\ ComputeOK /\ SlotsOK /\ GoneOK

Holds(c, g)  == conn[c].at = g /\ Pc(c) \in Slotted
HoldersOf(g) == {c \in Conns : conn[c].at = g /\ Pc(c) \in Slotted}

\* What most steps keep: who holds a slot, and where.
SameHolders == \A c \in Conns, g \in Gateways : Holds(c, g)' <=> Holds(c, g)

\* No connection is published by the step, and none moves to another replica.
NonePublished ==
  \A c \in Conns : Pc(c)' \in Published => Pc(c) \in Published /\ conn'[c].at = conn[c].at

\* No connection is accepted by the step.
NoneAccepted == \A c \in Conns : conn'[c].at \in {conn[c].at, Nowhere}

ConnsKept == ConnsOK' /\ SameHolders /\ NonePublished /\ NoneAccepted

-----------------------------------------------------------------------------
(* Steps of the connections.                                               *)

\* A connection that moves between two calls, both of which hold a slot or neither.
LEMMA Moves ==
  ASSUME ConnsOK, NEW c \in Conns, Pc(c) # "out", NEW q \in ConnPcs \ {"out"},
         \/ conn' = [conn EXCEPT ![c].pc = q]
         \/ \E b \in BOOLEAN : conn' = [conn EXCEPT ![c].pc = q, ![c].backend = b],
         Pc(c) \in Slotted <=> q \in Slotted,
         q \in Published => Pc(c) \in Published
  PROVE ConnsKept
  <1>1. /\ conn'[c].pc = q /\ conn'[c].at = conn[c].at
        /\ \A d \in Conns \ {c} : conn'[d] = conn[d]
        /\ conn' \in [Conns -> ConnRecord]
    BY DEF ConnsOK, ConnRecord
  <1>2. ConnsOK'
    BY <1>1 DEF ConnsOK, Pc
  <1> QED
    BY <1>1, <1>2 DEF ConnsKept, SameHolders, Holds, NonePublished, NoneAccepted, Pc

\* A connection that holds no slot leaves.
LEMMA Leaves ==
  ASSUME ConnsOK, NEW c \in Conns, Pc(c) \notin Slotted, Leave(c)
  PROVE ConnsKept
  <1>1. conn'[c] = Out /\ \A d \in Conns \ {c} : conn'[d] = conn[d]
    BY DEF ConnsOK, Leave
  <1>2. Out \in ConnRecord /\ Out.pc = "out" /\ Out.at = Nowhere
    BY DEF Out, ConnRecord, ConnPcs
  <1>3. conn' \in [Conns -> ConnRecord]
    BY <1>2 DEF ConnsOK, Leave
  <1>4. ConnsOK'
    BY <1>1, <1>2, <1>3 DEF ConnsOK, Pc
  <1>5. "out" \notin Slotted /\ Published \subseteq Slotted
    BY DEF Slotted, Published
  <1> QED
    BY <1>1, <1>2, <1>4, <1>5, ConstantsAssumption
    DEF ConnsKept, SameHolders, Holds, NonePublished, NoneAccepted, Pc

\* Steps that rewrite connections without moving any of them.
LEMMA Marks ==
  ASSUME ConnsOK, conn' \in [Conns -> ConnRecord],
         \A c \in Conns : conn'[c].pc = conn[c].pc /\ conn'[c].at = conn[c].at
  PROVE ConnsKept
  BY DEF ConnsKept, ConnsOK, SameHolders, Holds, NonePublished, NoneAccepted, Pc

\* The steps of one connection that neither take, publish nor give back a slot.
Quiet(c) == \/ GiveUp(c) \/ Parse(c) \/ Dial(c) \/ Abandon(c) \/ Poll(c) \/ Reply(c)
            \/ WriteFails(c) \/ ClientCloses(c) \/ Reset(c) \/ Unpublish(c) \/ Arm(c)

\* A quiet step keeps the holders and publishes nothing.
LEMMA QuietKeeps ==
  ASSUME ConnsOK, NEW c \in Conns, Quiet(c)
  PROVE ConnsKept
  <1> USE DEF Published, Slotted, ConnPcs
  <1>1. CASE GiveUp(c) \/ Arm(c)
    BY <1>1, Leaves DEF GiveUp, Arm, Pc
  <1>2. CASE Parse(c) \/ Abandon(c) \/ WriteFails(c) \/ ClientCloses(c) \/ Reset(c)
             \/ Unpublish(c)
    <2>1. CASE Parse(c)
      BY <2>1, Moves DEF Parse, GoTo
    <2>2. CASE Abandon(c) \/ WriteFails(c)
      BY <2>2, Moves DEF Abandon, WriteFails, GoTo
    <2>3. CASE ClientCloses(c) \/ Reset(c)
      BY <2>3, Moves DEF ClientCloses, Reset, GoTo
    <2>4. CASE Unpublish(c)
      BY <2>4, Moves DEF Unpublish, GoTo
    <2> QED
      BY <1>2, <2>1, <2>2, <2>3, <2>4
  <1>3. CASE Dial(c) \/ Poll(c)
    BY <1>3, Moves DEF Dial, Poll, Connected, GoTo
  <1>4. CASE Reply(c)
    BY <1>4, Moves DEF Reply, GoTo
  <1> QED
    BY <1>1, <1>2, <1>3, <1>4 DEF Quiet

\* Whatever a shared wake delivers, its callers keep their slots.
LEMMA WakeReturnsKeeps ==
  ASSUME ConnsOK, NEW g \in Gateways, WakeReturns(g)
  PROVE ConnsKept
  <1>1. PICK q \in {"poll", "ending"} : Deliver(g, q)
    BY DEF WakeReturns
  <1>2. conn' \in [Conns -> ConnRecord]
    BY <1>1 DEF Deliver, ConnsOK, ConnRecord, ConnPcs, Slotted, Published
  <1>3. \A c \in Conns : /\ conn'[c].at = conn[c].at
                         /\ \/ conn'[c].pc = conn[c].pc
                            \/ conn[c].pc = "wake" /\ conn'[c].pc = q
    BY <1>1 DEF Deliver, ConnsOK, ConnRecord, Pc
  <1>4. {"wake", "poll", "ending"} \subseteq Published /\ Published \subseteq Slotted
    BY DEF Slotted, Published
  <1>5. ConnsOK'
    BY <1>2, <1>3 DEF ConnsOK, Pc
  <1> QED
    BY <1>3, <1>4, <1>5 DEF ConnsKept, SameHolders, Holds, NonePublished, NoneAccepted, Pc

\* A compute that stops, and a step that leaves connections alone.
LEMMA CutKeeps ==
  ASSUME ConnsOK, Cut \/ UNCHANGED conn
  PROVE ConnsKept
  <1>1. CASE UNCHANGED conn
    BY <1>1, Marks DEF ConnsOK
  <1>2. CASE Cut
    BY <1>2, Marks DEF ConnsOK, Cut, ConnRecord
  <1> QED
    BY <1>1, <1>2

\* The drain deadline marks connections and moves none.
LEMMA ForceCloseKeeps ==
  ASSUME ConnsOK, NEW g \in Gateways, ForceClose(g)
  PROVE ConnsKept
  <1>1. \A c \in Conns : /\ Forced(c) \in ConnRecord
                         /\ Forced(c).pc = conn[c].pc /\ Forced(c).at = conn[c].at
    <2>1. \A c \in Conns : Bound(c) \in BOOLEAN
      BY DEF Bound
    <2> QED
      BY <2>1 DEF ConnsOK, Forced, ConnRecord
  <1>2. \A c \in Conns : conn'[c] \in {conn[c], Forced(c)}
    BY DEF ForceClose
  <1>3. conn' \in [Conns -> ConnRecord]
    BY <1>1 DEF ConnsOK, ForceClose
  <1> QED
    BY <1>1, <1>2, <1>3, Marks

\* A connection is accepted by an open replica, without a slot.
LEMMA AcceptOpens ==
  ASSUME ConnsOK, NEW c \in Conns, NEW g \in Gateways, Accept(c, g)
  PROVE /\ ConnsOK' /\ SameHolders /\ NonePublished
        /\ Open(g) /\ \A d \in Conns : conn'[d].at \in {conn[d].at, g}
  <1>1. /\ conn'[c].pc = "reading" /\ conn'[c].at = g
        /\ \A d \in Conns \ {c} : conn'[d] = conn[d]
        /\ conn' \in [Conns -> ConnRecord]
    BY DEF ConnsOK, Accept, Out, ConnRecord, ConnPcs
  <1>2. ConnsOK'
    BY <1>1, ConstantsAssumption DEF ConnsOK, Pc
  <1>3. {"out", "reading"} \cap Slotted = {} /\ Published \subseteq Slotted
    BY DEF Slotted, Published
  <1> QED
    BY <1>1, <1>2, <1>3 DEF Accept, SameHolders, Holds, NonePublished, Pc

\* A connection is published while it holds its slot.
LEMMA PublishShows ==
  ASSUME ConnsOK, NEW c \in Conns, Publish(c)
  PROVE /\ ConnsOK' /\ SameHolders /\ NoneAccepted
        /\ \A d \in Conns \ {c} : conn'[d] = conn[d]
  <1>1. /\ conn'[c].pc = "dial" /\ conn'[c].at = conn[c].at
        /\ \A d \in Conns \ {c} : conn'[d] = conn[d]
        /\ conn' \in [Conns -> ConnRecord]
    BY DEF ConnsOK, Publish, GoTo, ConnRecord, ConnPcs, Slotted, Published
  <1>2. ConnsOK'
    BY <1>1 DEF ConnsOK, Publish, Pc
  <1>3. {"started", "dial"} \subseteq Slotted
    BY DEF Slotted, Published
  <1> QED
    BY <1>1, <1>2, <1>3 DEF Publish, SameHolders, Holds, NoneAccepted, Pc

\* A connection that starts becomes a holder on its replica.
LEMMA StartTakes ==
  ASSUME ConnsOK, NEW c \in Conns, Start(c), NEW g \in Gateways, g = conn[c].at
  PROVE /\ ConnsOK' /\ NonePublished /\ NoneAccepted
        /\ c \notin HoldersOf(g)
        /\ HoldersOf(g)' = HoldersOf(g) \cup {c}
        /\ \A h \in Gateways \ {g} : HoldersOf(h)' = HoldersOf(h)
  <1>1. /\ conn'[c].pc = "started" /\ conn'[c].at = conn[c].at
        /\ \A d \in Conns \ {c} : conn'[d] = conn[d]
        /\ conn' \in [Conns -> ConnRecord]
    BY DEF ConnsOK, Start, GoTo, ConnRecord, ConnPcs, Slotted
  <1>2. ConnsOK'
    BY <1>1 DEF ConnsOK, Start, Pc
  <1>3. "started" \in Slotted /\ "started" \notin Published /\ "parsed" \notin Slotted
    BY DEF Slotted, Published
  <1>4. Pc(c) = "parsed"
    BY DEF Start
  <1> QED
    BY <1>1, <1>2, <1>3, <1>4 DEF HoldersOf, NonePublished, NoneAccepted, Pc

\* A connection that ends is a holder no more.
LEMMA EndGives ==
  ASSUME ConnsOK, NEW c \in Conns, End(c), NEW g \in Gateways, g = conn[c].at
  PROVE /\ ConnsOK' /\ NonePublished /\ NoneAccepted
        /\ c \in HoldersOf(g)
        /\ HoldersOf(g)' = HoldersOf(g) \ {c}
        /\ \A h \in Gateways \ {g} : HoldersOf(h)' = HoldersOf(h)
  <1>1. Pc(c) = "closed"
    BY DEF End
  <1>2. GoTo(c, "window") \/ Leave(c)
    BY DEF End, Ended
  <1>3. Out \in ConnRecord /\ Out.pc = "out" /\ Out.at = Nowhere
    BY DEF Out, ConnRecord, ConnPcs
  <1>4. /\ \/ conn'[c].pc = "window" /\ conn'[c].at = conn[c].at
           \/ conn'[c].pc = "out" /\ conn'[c].at = Nowhere
        /\ \A d \in Conns \ {c} : conn'[d] = conn[d]
        /\ conn' \in [Conns -> ConnRecord]
    BY <1>2, <1>3 DEF ConnsOK, GoTo, Leave, ConnRecord, ConnPcs
  <1>5. ConnsOK'
    BY <1>1, <1>4, ConstantsAssumption DEF ConnsOK, Pc
  <1>6. "closed" \in Slotted /\ {"window", "out"} \cap Slotted = {} /\ Published \subseteq Slotted
    BY DEF Slotted, Published
  <1>7. /\ c \in HoldersOf(g)
        /\ HoldersOf(g)' = HoldersOf(g) \ {c}
        /\ \A h \in Gateways \ {g} : HoldersOf(h)' = HoldersOf(h)
    <2>1. \A d \in Conns, h \in Gateways : Holds(d, h)' <=> Holds(d, h) /\ d # c
      BY <1>4, <1>6, ConstantsAssumption DEF Holds, Pc
    <2>2. Holds(c, g) /\ \A h \in Gateways \ {g} : ~Holds(c, h)
      BY <1>1, <1>6 DEF Holds
    <2> QED
      BY <2>1, <2>2 DEF Holds, HoldersOf
  <1> QED
    BY <1>1, <1>4, <1>5, <1>6, <1>7 DEF NonePublished, NoneAccepted, Pc

\* A crash takes the connections of its replica with it.
LEMMA CrashClears ==
  ASSUME ConnsOK, NEW g \in Gateways, Crash(g)
  PROVE /\ ConnsOK' /\ NonePublished /\ NoneAccepted
        /\ \A c \in Conns : conn'[c].at # g
        /\ \A h \in Gateways \ {g} : HoldersOf(h)' = HoldersOf(h)
  <1>1. Out \in ConnRecord /\ Out.pc = "out" /\ Out.at = Nowhere
    BY DEF Out, ConnRecord, ConnPcs
  <1>2. /\ conn' \in [Conns -> ConnRecord]
        /\ \A c \in Conns : conn'[c] = IF conn[c].at = g THEN Out ELSE conn[c]
    BY <1>1 DEF Crash, ConnsOK
  <1>3. ConnsOK'
    BY <1>1, <1>2 DEF ConnsOK, Pc
  <1>4. "out" \notin Slotted /\ Published \subseteq Slotted
    BY DEF Slotted, Published
  <1> QED
    BY <1>1, <1>2, <1>3, <1>4, ConstantsAssumption
    DEF HoldersOf, NonePublished, NoneAccepted, Pc

-----------------------------------------------------------------------------
(* The slots and their count.                                              *)

\* A count is the cardinality of a finite set.
LEMMA HoldersFinite ==
  \A g \in Gateways : /\ IsFiniteSet(HoldersOf(g))
                      /\ Cardinality(HoldersOf(g)) \in Nat
  <1>1. \A g \in Gateways : HoldersOf(g) \subseteq Conns
    BY DEF HoldersOf
  <1> QED
    BY <1>1, ConstantsAssumption, FS_Subset, FS_CardinalityType

\* The count in terms of the holders, before and after a step.
LEMMA Counted ==
  /\ SlotsOK <=> /\ count \in [Gateways -> Nat]
                 /\ \A g \in Gateways : count[g] = Cardinality(HoldersOf(g))
  /\ SlotsOK' <=> /\ count' \in [Gateways -> Nat]
                  /\ \A g \in Gateways : count'[g] = Cardinality(HoldersOf(g)')
  BY DEF SlotsOK, CountsSlots, HoldersOf

\* The count stays right while the holders and it stay the same.
LEMMA SlotsKept ==
  ASSUME SlotsOK, SameHolders, UNCHANGED count
  PROVE SlotsOK'
  <1>1. \A g \in Gateways : HoldersOf(g)' = HoldersOf(g)
    BY DEF SameHolders, Holds, HoldersOf
  <1> QED
    BY <1>1, Counted

\* connStarted adds the slot it takes.
LEMMA SlotTaken ==
  ASSUME ConnsOK, SlotsOK, NEW c \in Conns, Start(c)
  PROVE SlotsOK'
  <1>. PICK g \in Gateways : g = conn[c].at
    BY DEF Start, ConnsOK, ConnRecord, ConnPcs
  <1>1. c \notin HoldersOf(g) /\ HoldersOf(g)' = HoldersOf(g) \cup {c}
    BY StartTakes
  <1>2. Cardinality(HoldersOf(g) \cup {c}) = Cardinality(HoldersOf(g)) + 1
    BY <1>1, HoldersFinite, FS_AddElement
  <1>3. count' = [count EXCEPT ![g] = @ + 1]
    BY DEF Start
  <1>4. \A h \in Gateways : h # g => HoldersOf(h)' = HoldersOf(h)
    BY StartTakes
  <1>5. count \in [Gateways -> Nat] /\ \A h \in Gateways : count[h] = Cardinality(HoldersOf(h))
    BY Counted
  <1>6. \A h \in Gateways : count'[h] = Cardinality(HoldersOf(h)')
    BY <1>1, <1>2, <1>3, <1>4, <1>5
  <1>7. count' \in [Gateways -> Nat]
    BY <1>1, <1>2, <1>3, <1>5, HoldersFinite
  <1> QED
    BY <1>6, <1>7, Counted

\* connEnded subtracts the slot it gives back, and one was held.
LEMMA SlotGiven ==
  ASSUME ConnsOK, SlotsOK, NEW c \in Conns, End(c)
  PROVE SlotsOK'
  <1>. PICK g \in Gateways : g = conn[c].at
    BY DEF End, ConnsOK, ConnRecord, ConnPcs
  <1>1. c \in HoldersOf(g) /\ HoldersOf(g)' = HoldersOf(g) \ {c}
    BY EndGives
  <1>2. /\ Cardinality(HoldersOf(g) \ {c}) = Cardinality(HoldersOf(g)) - 1
        /\ Cardinality(HoldersOf(g) \ {c}) \in Nat
    BY <1>1, HoldersFinite, FS_RemoveElement, FS_CardinalityType
  <1>3. count' = [count EXCEPT ![g] = @ - 1]
    BY DEF End, Ended
  <1>4. \A h \in Gateways : h # g => HoldersOf(h)' = HoldersOf(h)
    BY EndGives
  <1>5. count \in [Gateways -> Nat] /\ \A h \in Gateways : count[h] = Cardinality(HoldersOf(h))
    BY Counted
  <1>6. \A h \in Gateways : count'[h] = Cardinality(HoldersOf(h)')
    BY <1>1, <1>2, <1>3, <1>4, <1>5
  <1>7. count' \in [Gateways -> Nat]
    BY <1>1, <1>2, <1>3, <1>5, HoldersFinite
  <1> QED
    BY <1>6, <1>7, Counted

\* A replica that ends counts nothing and holds nothing.
LEMMA SlotsCleared ==
  ASSUME SlotsOK, NEW g \in Gateways, Ends(g),
         \A c \in Conns : conn'[c].at # g,
         \A h \in Gateways \ {g} : HoldersOf(h)' = HoldersOf(h)
  PROVE SlotsOK'
  <1>1. HoldersOf(g)' = {}
    BY DEF HoldersOf
  <1>2. Cardinality(HoldersOf(g)') = 0
    BY <1>1, FS_EmptySet
  <1> QED
    BY <1>2, Counted DEF Ends

-----------------------------------------------------------------------------
(* Steps of the timers.                                                    *)

Timer == [pc : TimerPcs, after : SUBSET Conns]

\* A slot without a timer is typed, and so is the number of a slot.
LEMMA FreeType == Free \in Timer /\ 0 \in 0..MaxTimers /\ Slots \subseteq 0..MaxTimers
  BY ConstantsAssumption DEF Free, Timer, TimerPcs, Slots

Armed == [pc |-> "armed", after |-> {}]

\* A timer as it is armed.
LEMMA ArmedType == Armed \in Timer /\ Armed.pc = "armed"
  BY DEF Armed, Timer, TimerPcs

\* One timer is replaced, and the entry points to some slot or to none.
LEMMA TimerSet ==
  ASSUME TimersOK, NEW g \in Gateways, NEW s \in Slots, NEW r \in Timer,
         timer' = [timer EXCEPT ![g][s] = r],
         cur' = cur \/ cur' = [cur EXCEPT ![g] = s]
  PROVE TimersOK'
  <1>1. timer' \in [Gateways -> [Slots -> Timer]]
    BY DEF TimersOK, Timer
  <1>2. cur' \in [Gateways -> 0..MaxTimers]
    BY FreeType DEF TimersOK
  <1> QED
    BY <1>1, <1>2 DEF TimersOK, Timer

\* Stopping the timer of the entry keeps the types.
LEMMA StoppedTyped ==
  ASSUME TimersOK, NEW g \in Gateways
  PROVE Stopped(g) \in [Gateways -> [Slots -> Timer]]
  <1>1. cur[g] # 0 => cur[g] \in Slots
    BY ConstantsAssumption DEF TimersOK, Slots
  <1>2. CASE cur[g] # 0 /\ timer[g][cur[g]].pc = "armed"
    BY <1>1, <1>2, FreeType DEF TimersOK, Stopped, Timer
  <1>3. CASE ~(cur[g] # 0 /\ timer[g][cur[g]].pc = "armed")
    BY <1>3 DEF TimersOK, Stopped, Timer
  <1> QED
    BY <1>2, <1>3

\* So does a timer that moves on,
LEMMA TimerToTyped ==
  ASSUME TimersOK, NEW g \in Gateways, NEW s \in Slots, NEW q \in TimerPcs, TimerTo(g, s, q)
  PROVE TimersOK'
  <1>1. [timer[g][s] EXCEPT !.pc = q] \in Timer
    <2>1. timer[g][s] \in Timer
      BY DEF TimersOK, Timer
    <2> QED
      BY <2>1 DEF Timer
  <1>2. timer' = [timer EXCEPT ![g][s] = [timer[g][s] EXCEPT !.pc = q]] /\ cur' = cur
    BY DEF TimersOK, TimerTo
  <1> QED
    BY <1>1, <1>2, TimerSet

\* and one that ends.
LEMMA TimerEndsTyped ==
  ASSUME TimersOK, NEW g \in Gateways, NEW s \in Slots, TimerEnds(g, s)
  PROVE TimersOK'
  BY FreeType DEF TimersOK, TimerEnds, Timer

\* One step of a timer leaves connections, counts and replicas alone.
LEMMA TickTyped ==
  ASSUME TimersOK, ComputeOK, NEW g \in Gateways, NEW s \in Slots, Ticks(g, s)
  PROVE TimersOK' /\ ComputeOK' /\ UNCHANGED <<conn, up, count, flight, pod>>
  <1> USE DEF TimerPcs, compute, ComputeOK
  <1>1. CASE Fire(g, s)
    BY <1>1, TimerToTyped, TimerEndsTyped DEF Fire
  <1>2. CASE Scrape(g, s)
    BY <1>2, TimerToTyped DEF Scrape, ScrapeFails, Fault
  <1>3. CASE Rearm(g, s)
    <2>1. CASE count[g] = 0 /\ Open(g)
      <3>1. TimersOK'
        BY <1>3, <2>1, ArmedType, TimerSet DEF Rearm, Rearmed, Armed
      <3> QED
        BY <1>3, <3>1 DEF Rearm
    <2>2. CASE ~(count[g] = 0 /\ Open(g))
      BY <1>3, <2>2, TimerEndsTyped DEF Rearm, Rearmed
    <2> QED
      BY <1>3, <2>1, <2>2 DEF Rearm
  <1>4. CASE Final(g, s)
    <2>1. CASE Idle(g)
      <3>1. timer[g][s] \in Timer
        BY DEF TimersOK, Timer
      <3>2. [pc |-> "sleep", after |-> {c \in timer[g][s].after : conn[c].at # g}] \in Timer
        BY <3>1 DEF Timer
      <3>3. timer' = [timer EXCEPT ![g][s] =
              [pc |-> "sleep", after |-> {c \in timer[g][s].after : conn[c].at # g}]]
        BY <1>4, <2>1, <3>1 DEF Final, TimersOK, Timer
      <3>4. TimersOK'
        BY <1>4, <2>1, <3>2, <3>3, TimerSet DEF Final
      <3> QED
        BY <1>4, <3>4 DEF Final
    <2>2. CASE ~Idle(g)
      BY <1>4, <2>2, TimerEndsTyped DEF Final
    <2> QED
      BY <1>4, <2>1, <2>2 DEF Final
  <1>5. CASE Sleep(g, s)
    BY <1>5, TimerToTyped, TimerEndsTyped DEF Sleep, Fault
  <1>6. CASE Heal(g, s)
    BY <1>6, TimerToTyped, TimerEndsTyped DEF Heal
  <1>7. CASE WakeBack(g, s)
    BY <1>7, TimerEndsTyped DEF WakeBack, Fault
  <1> QED
    BY <1>1, <1>2, <1>3, <1>4, <1>5, <1>6, <1>7 DEF Ticks

\* A connection that ends arms a timer of its replica in a free slot, or none.
LEMMA ArmSets ==
  ASSUME TimersOK, ConnsOK, NEW c \in Conns, Arm(c)
  PROVE \/ UNCHANGED <<timer, cur>>
        \/ \E g \in Gateways, s \in Slots : /\ timer[g][s] = Free
                                            /\ timer' = [timer EXCEPT ![g][s] = Armed]
                                            /\ cur' = [cur EXCEPT ![g] = s]
  <1>1. PICK g \in Gateways : g = conn[c].at
    BY DEF Arm, ConnsOK, ConnRecord, ConnPcs
  <1>2. CASE Idle(g)
    <2>1. PICK s \in Slots : /\ timer[g][s] = Free
                             /\ timer' = [timer EXCEPT ![g][s].pc = "armed"]
                             /\ cur' = [cur EXCEPT ![g] = s]
      BY <1>1, <1>2 DEF Arm
    <2>2. timer' = [timer EXCEPT ![g][s] = [timer[g][s] EXCEPT !.pc = "armed"]]
      BY <2>1 DEF TimersOK
    <2>3. [Free EXCEPT !.pc = "armed"] = Armed
      BY DEF Free, Armed
    <2> QED
      BY <2>1, <2>2, <2>3
  <1>3. CASE ~Idle(g)
    BY <1>1, <1>3 DEF Arm
  <1> QED
    BY <1>2, <1>3

\* Arming a timer keeps the types.
LEMMA ArmTyped ==
  ASSUME TimersOK, ConnsOK, NEW c \in Conns, Arm(c)
  PROVE TimersOK'
  <1>1. CASE UNCHANGED <<timer, cur>>
    BY <1>1 DEF TimersOK
  <1> QED
    BY <1>1, ArmSets, ArmedType, TimerSet

\* A connection that starts stops at most one timer.
LEMMA StartTimers ==
  ASSUME TimersOK, ConnsOK, NEW c \in Conns, Start(c)
  PROVE TimersOK'
  <1>1. PICK g \in Gateways : g = conn[c].at
    BY DEF Start, ConnsOK, ConnRecord, ConnPcs
  <1> QED
    BY <1>1, StoppedTyped, FreeType DEF Start, TimersOK, Timer

\* A connection that is published is noted by timers as it should be.
LEMMA PublishTimers ==
  ASSUME TimersOK, NEW c \in Conns, Publish(c)
  PROVE TimersOK'
  <1>1. \A g \in Gateways, s \in Slots :
          [timer[g][s] EXCEPT !.after = @ \cup {c}] \in Timer
    BY DEF TimersOK, Timer
  <1>2. Noted(c) \in [Gateways -> [Slots -> Timer]]
    BY <1>1 DEF Noted, TimersOK, Timer
  <1> QED
    BY <1>2 DEF Publish, TimersOK, Timer

\* The end of a replica keeps the types.
LEMMA EndsTyped ==
  ASSUME TimersOK, FleetOK, NEW g \in Gateways, Ends(g)
  PROVE TimersOK' /\ FleetOK'
  BY FreeType DEF Ends, TimersOK, FleetOK, Timer

\* The start of a drain keeps them too.
LEMMA DrainTyped ==
  ASSUME TimersOK, FleetOK, NEW g \in Gateways, Drain(g)
  PROVE TimersOK' /\ FleetOK'
  BY StoppedTyped, FreeType DEF Drain, TimersOK, FleetOK, Timer

-----------------------------------------------------------------------------
(* Every step keeps the invariant.                                         *)

\* No connection is accepted, and no replica ends.
LEMMA GoneKept ==
  ASSUME GoneOK, NoneAccepted, \A g \in Gateways : up'[g] = "gone" => up[g] = "gone"
  PROVE GoneOK'
  BY ConstantsAssumption DEF GoneOK, NoneAccepted

\* The steps of a connection keep the invariant.
LEMMA Serving ==
  ASSUME IInv, NEW c \in Conns, Serves(c) \/ ClientCloses(c)
  PROVE IInv'
  <1> USE DEF IInv
  <1>1. CASE Quiet(c)
    <2>1. ConnsKept
      BY <1>1, QuietKeeps
    <2>2. UNCHANGED <<up, count, replicas, pod>>
      BY <1>1 DEF Quiet, GiveUp, Parse, Dial, Abandon, Poll, Reply, WriteFails, ClientCloses,
                  Reset, Unpublish, Arm, compute
    <2>3. TimersOK'
      <3>1. CASE Arm(c)
        BY <3>1, ArmTyped
      <3>2. CASE ~Arm(c)
        <4>1. UNCHANGED <<timer, cur>>
          BY <1>1, <3>2 DEF Quiet, GiveUp, Parse, Dial, Abandon, Poll, Reply, WriteFails,
                            ClientCloses, Reset, Unpublish
        <4> QED
          BY <4>1 DEF TimersOK
      <3> QED
        BY <3>1, <3>2
    <2>4. FleetOK'
      <3>1. CASE Dial(c)
        BY <3>1, <2>2 DEF Dial, FleetOK
      <3>2. CASE ~Dial(c)
        <4>1. UNCHANGED flight
          BY <1>1, <3>2 DEF Quiet, GiveUp, Parse, Abandon, Poll, Reply, WriteFails,
                            ClientCloses, Reset, Unpublish, Arm
        <4> QED
          BY <2>2, <4>1 DEF FleetOK
      <3> QED
        BY <3>1, <3>2
    <2>5. ComputeOK'
      <3>1. CASE WriteFails(c)
        BY <3>1, <2>2 DEF WriteFails, Fault, ComputeOK
      <3>2. CASE ~WriteFails(c)
        <4>1. UNCHANGED faults
          BY <1>1, <3>2 DEF Quiet, GiveUp, Parse, Dial, Abandon, Poll, Reply,
                            ClientCloses, Reset, Unpublish, Arm
        <4> QED
          BY <2>2, <4>1 DEF ComputeOK
      <3> QED
        BY <3>1, <3>2
    <2> QED
      BY <2>1, <2>2, <2>3, <2>4, <2>5, SlotsKept, GoneKept DEF ConnsKept
  <1>2. CASE Start(c)
    <2>1. ConnsOK' /\ NoneAccepted
      <3>1. PICK g \in Gateways : g = conn[c].at
        BY <1>2 DEF Start, ConnsOK, ConnRecord, ConnPcs
      <3> QED
        BY <1>2, <3>1, StartTakes
    <2>2. UNCHANGED <<replicas, pod, up, flight, faults>>
      BY <1>2 DEF Start, compute
    <2>3. FleetOK' /\ ComputeOK' /\ GoneOK'
      BY <2>1, <2>2, GoneKept DEF FleetOK, ComputeOK
    <2> QED
      BY <1>2, <2>1, <2>3, StartTimers, SlotTaken
  <1>3. CASE Publish(c)
    <2>1. UNCHANGED <<replicas, pod, up, count, flight, faults>>
      BY <1>3 DEF Publish, compute
    <2>2. FleetOK' /\ ComputeOK'
      BY <2>1 DEF FleetOK, ComputeOK
    <2> QED
      BY <1>3, <2>1, <2>2, PublishShows, PublishTimers, SlotsKept, GoneKept
  <1>4. CASE End(c)
    <2>1. ConnsOK' /\ NoneAccepted
      <3>1. PICK g \in Gateways : g = conn[c].at
        BY <1>4 DEF End, ConnsOK, ConnRecord, ConnPcs, Slotted
      <3> QED
        BY <1>4, <3>1, EndGives
    <2>2. UNCHANGED <<replicas, pod, up, flight, faults, timer, cur>>
      BY <1>4 DEF End, compute
    <2>3. FleetOK' /\ ComputeOK' /\ TimersOK' /\ GoneOK'
      BY <2>1, <2>2, GoneKept DEF FleetOK, ComputeOK, TimersOK
    <2> QED
      BY <1>4, <2>1, <2>3, SlotGiven
  <1> QED
    BY <1>1, <1>2, <1>3, <1>4 DEF Serves, Quiet

\* Accepting a connection keeps it.
LEMMA Accepting ==
  ASSUME IInv, NEW c \in Conns, NEW g \in Gateways, Accept(c, g)
  PROVE IInv'
  <1> USE DEF IInv
  <1>1. UNCHANGED <<replicas, pod, up, count, cur, timer, flight, faults>>
    BY DEF Accept, compute
  <1>2. GoneOK'
    BY <1>1, AcceptOpens DEF GoneOK, Open
  <1>3. TimersOK' /\ FleetOK' /\ ComputeOK'
    BY <1>1 DEF TimersOK, FleetOK, ComputeOK
  <1> QED
    BY <1>1, <1>2, <1>3, AcceptOpens, SlotsKept

\* A returning wake and the steps of a drain, a crash or a restart keep it.
LEMMA Running ==
  ASSUME IInv, NEW g \in Gateways, WakeReturns(g) \/ Stops(g) \/ Closes(g)
  PROVE IInv'
  <1> USE DEF IInv
  <1>1. CASE WakeReturns(g)
    <2>1. UNCHANGED <<pod, up, count, cur, timer>>
      BY <1>1 DEF WakeReturns
    <2>2. ComputeOK'
      BY <1>1 DEF WakeReturns, ComputeOK, Fault
    <2>3. FleetOK' /\ TimersOK'
      BY <1>1, <2>1 DEF WakeReturns, Deliver, FleetOK, TimersOK
    <2> QED
      BY <1>1, <2>1, <2>2, <2>3, WakeReturnsKeeps, SlotsKept, GoneKept DEF ConnsKept
  <1>2. CASE Drain(g)
    <2>1. UNCHANGED <<replicas, pod, conn, count>> /\ faults' = faults + 1
      BY <1>2 DEF Drain, Fault, compute
    <2>2. ComputeOK'
      BY <2>1 DEF ComputeOK
    <2>3. ConnsKept
      BY <2>1, CutKeeps
    <2>4. \A h \in Gateways : up'[h] = "gone" => up[h] = "gone"
      BY <1>2 DEF Drain, FleetOK
    <2> QED
      BY <1>2, <2>1, <2>2, <2>3, <2>4, DrainTyped, SlotsKept, GoneKept DEF ConnsKept
  <1>3. CASE Crash(g)
    <2>1. Ends(g) /\ UNCHANGED <<replicas, pod>> /\ faults' = faults + 1
      BY <1>3 DEF Crash, Fault, compute
    <2>2. ComputeOK'
      BY <2>1 DEF ComputeOK
    <2>3. GoneOK'
      BY <1>3, <2>1, CrashClears, ConstantsAssumption DEF GoneOK, Ends, FleetOK, NoneAccepted
    <2> QED
      BY <1>3, <2>1, <2>2, <2>3, CrashClears, EndsTyped, SlotsCleared
  <1>4. CASE Restart(g)
    <2>1. UNCHANGED <<replicas, pod, conn, count, cur, timer, flight, faults>>
      BY <1>4 DEF Restart, compute
    <2>2. TimersOK' /\ ComputeOK' /\ FleetOK'
      BY <1>4, <2>1 DEF Restart, TimersOK, ComputeOK, FleetOK
    <2>3. \A h \in Gateways : up'[h] = "gone" => up[h] = "gone"
      BY <1>4 DEF Restart, FleetOK
    <2>4. ConnsKept
      BY <2>1, CutKeeps
    <2> QED
      BY <2>1, <2>2, <2>3, <2>4, SlotsKept, GoneKept DEF ConnsKept
  <1>5. CASE ForceClose(g)
    <2>1. UNCHANGED <<replicas, pod, count, cur, timer, faults>>
      BY <1>5 DEF ForceClose, compute
    <2>2. TimersOK' /\ ComputeOK' /\ FleetOK'
      BY <1>5, <2>1 DEF ForceClose, TimersOK, ComputeOK, FleetOK
    <2>3. \A h \in Gateways : up'[h] = "gone" => up[h] = "gone"
      BY <1>5 DEF ForceClose, FleetOK
    <2> QED
      BY <1>5, <2>1, <2>2, <2>3, ForceCloseKeeps, SlotsKept, GoneKept DEF ConnsKept
  <1>6. CASE Exit(g)
    <2>1. Ends(g) /\ UNCHANGED <<replicas, pod, conn, faults>>
      BY <1>6 DEF Exit, compute
    <2>2. ComputeOK' /\ ConnsOK'
      BY <2>1 DEF ComputeOK, ConnsOK, Pc
    <2>3. GoneOK'
      BY <1>6, <2>1 DEF Exit, GoneOK, Ends, FleetOK
    <2>4. \A h \in Gateways : HoldersOf(h)' = HoldersOf(h)
      BY <2>1 DEF HoldersOf, Pc
    <2> QED
      BY <1>6, <2>1, <2>2, <2>3, <2>4, EndsTyped, SlotsCleared DEF Exit
  <1> QED
    BY <1>1, <1>2, <1>3, <1>4, <1>5, <1>6 DEF Stops, Closes

\* The steps of a timer keep it.
LEMMA Ticking ==
  ASSUME IInv, NEW g \in Gateways, NEW s \in Slots, Ticks(g, s)
  PROVE IInv'
  <1> USE DEF IInv
  <1>1. TimersOK' /\ ComputeOK' /\ UNCHANGED <<conn, up, count, flight, pod>>
    BY TickTyped
  <1>2. ConnsKept
    BY <1>1, CutKeeps
  <1>3. FleetOK' /\ \A h \in Gateways : up'[h] = "gone" => up[h] = "gone"
    BY <1>1 DEF FleetOK
  <1> QED
    BY <1>1, <1>2, <1>3, SlotsKept, GoneKept DEF ConnsKept

\* The steps of the compute, and stuttering, keep it.
LEMMA Computing ==
  ASSUME IInv, PodBoots \/ PodReady \/ PodStops \/ UNCHANGED vars
  PROVE IInv'
  <1> USE DEF IInv
  <1>1. UNCHANGED <<replicas, up, count, cur, timer, flight>>
    BY DEF PodBoots, PodReady, PodStops, vars, compute
  <1>2. ComputeOK'
    BY <1>1 DEF PodBoots, PodReady, PodStops, vars, compute, ComputeOK, Fault
  <1>3. ConnsKept
    BY CutKeeps DEF PodBoots, PodReady, PodStops, vars
  <1>4. TimersOK' /\ FleetOK' /\ \A h \in Gateways : up'[h] = "gone" => up[h] = "gone"
    BY <1>1 DEF TimersOK, FleetOK
  <1> QED
    BY <1>1, <1>2, <1>3, <1>4, SlotsKept, GoneKept DEF ConnsKept

\* It holds at the start.
LEMMA Starting == Init => IInv
  <1> SUFFICES ASSUME Init PROVE IInv
    OBVIOUS
  <1>1. ConnsOK /\ \A c \in Conns : Pc(c) \notin Slotted /\ conn[c].at = Nowhere
    BY DEF Init, ConnsOK, ConnRecord, ConnPcs, Out, Pc, Slotted, Published
  <1>2. TimersOK
    BY FreeType DEF Init, TimersOK, Timer
  <1>3. FleetOK /\ ComputeOK
    BY DEF Init, FleetOK, ComputeOK
  <1>4. SlotsOK
    <2>1. \A g \in Gateways : HoldersOf(g) = {}
      BY <1>1 DEF HoldersOf
    <2> QED
      BY <2>1, Counted, FS_EmptySet DEF Init
  <1>5. GoneOK
    BY <1>1, ConstantsAssumption DEF GoneOK
  <1> QED
    BY <1>1, <1>2, <1>3, <1>4, <1>5 DEF IInv

\* Every step keeps it.
LEMMA Stepping == IInv /\ [Next]_vars => IInv'
  BY Serving, Accepting, Running, Ticking, Computing DEF Next

\* The invariant behind the theorems: the types, the slots that the connections
\* of each replica hold, and the emptiness of a replica that is gone.
THEOREM Inductive == Spec => []IInv
  BY Starting, Stepping, PTL DEF Spec

\* Every state the fleet reaches has its type, and the count of compute slots
\* is never negative (gateway.go, activeEntry).
THEOREM TypeCorrect == Spec => []TypeOK
  <1>1. IInv => TypeOK
    <2> SUFFICES ASSUME IInv PROVE TypeOK
      OBVIOUS
    <2>1. /\ conn \in [Conns -> [pc : ConnPcs, at : Gateways \cup {Nowhere}, backend : BOOLEAN,
                               forced : BOOLEAN, cancelled : BOOLEAN]]
          /\ \A c \in Conns : conn[c].pc = "out" <=> conn[c].at = Nowhere
      BY DEF IInv, ConnsOK, ConnRecord, Pc
    <2> QED
      BY <2>1 DEF IInv, TimersOK, FleetOK, ComputeOK, SlotsOK, TypeOK
  <1> QED
    BY <1>1, Inductive, PTL

\* Whichever exit it takes, a connection gives its compute slot back exactly
\* once, over any number of replicas, drains, crashes and failures
\* (connStarted, connEnded).
THEOREM SlotsBalance == Spec => []CountsSlots
  <1>1. IInv => CountsSlots
    BY DEF IInv, SlotsOK
  <1> QED
    BY <1>1, Inductive, PTL

-----------------------------------------------------------------------------
(* What a timer has looked at when it decides to scale down.               *)

\* Past its look at the peers a timer has noted every published connection of
\* theirs; past its last look at its own replica, every one.
Looked ==
  \A g \in Gateways, s \in Slots :
    timer[g][s].pc \in {"final", "sleep"} =>
      \A c \in Conns : Pc(c) \in Published =>
        \/ c \in timer[g][s].after
        \/ timer[g][s].pc = "final" /\ conn[c].at = g

\* No timer gets past a look.
NoneLooks ==
  \A g \in Gateways, s \in Slots :
    timer'[g][s].pc \in {"final", "sleep"} => timer'[g][s] = timer[g][s]

\* What was noted stays noted by a step that neither publishes nor looks.
LEMMA LookedKept ==
  ASSUME Looked, NonePublished, NoneLooks
  PROVE Looked'
  BY DEF Looked, NonePublished, NoneLooks

\* A timer that is armed, ends or waits for its next step has no look to keep.
LEMMA SetLooks ==
  ASSUME TimersOK, NEW g \in Gateways, NEW s \in Slots, NEW r \in Timer,
         timer' = [timer EXCEPT ![g][s] = r], r.pc \notin {"final", "sleep"}
  PROVE NoneLooks
  BY DEF TimersOK, NoneLooks

\* Nor has a timer that moves on to anything but a look or the scale-down,
LEMMA MoveLooks ==
  ASSUME TimersOK, NEW g \in Gateways, NEW s \in Slots, NEW q \in TimerPcs \ {"final", "sleep"},
         TimerTo(g, s, q)
  PROVE NoneLooks
  <1>1. timer' = [timer EXCEPT ![g][s] = [timer[g][s] EXCEPT !.pc = q]]
    BY DEF TimerTo, TimersOK
  <1>2. timer[g][s] \in Timer
    BY DEF TimersOK, Timer
  <1>3. /\ [timer[g][s] EXCEPT !.pc = q] \in Timer
        /\ [timer[g][s] EXCEPT !.pc = q].pc = q
    BY <1>2 DEF Timer
  <1> QED
    BY <1>1, <1>3, SetLooks

\* nor one that ends,
LEMMA EndLooks ==
  ASSUME TimersOK, NEW g \in Gateways, NEW s \in Slots, TimerEnds(g, s)
  PROVE NoneLooks
  <1>1. Free \in Timer /\ Free.pc = "free"
    BY FreeType DEF Free
  <1> QED
    BY <1>1, SetLooks DEF TimerEnds

\* nor one that is stopped.
LEMMA StopLooks ==
  ASSUME TimersOK, NEW g \in Gateways, timer' = Stopped(g)
  PROVE NoneLooks
  <1>1. CASE cur[g] # 0 /\ timer[g][cur[g]].pc = "armed"
    <2>1. cur[g] \in Slots
      BY <1>1, ConstantsAssumption DEF TimersOK, Slots
    <2>2. Free \in Timer /\ Free.pc = "free"
      BY FreeType DEF Free
    <2> QED
      BY <1>1, <2>1, <2>2, SetLooks DEF Stopped
  <1>2. CASE ~(cur[g] # 0 /\ timer[g][cur[g]].pc = "armed")
    BY <1>2 DEF Stopped, NoneLooks
  <1> QED
    BY <1>1, <1>2

\* A quiet step of a connection takes no look.
LEMMA QuietLooks ==
  ASSUME TimersOK, ConnsOK, NEW c \in Conns, Quiet(c)
  PROVE NoneLooks
  <1>1. CASE Arm(c)
    <2>1. CASE UNCHANGED timer
      BY <2>1 DEF NoneLooks
    <2> QED
      BY <1>1, <2>1, ArmSets, ArmedType, SetLooks
  <1>2. CASE ~Arm(c)
    <2>1. UNCHANGED timer
      BY <1>2 DEF Quiet, GiveUp, Parse, Dial, Abandon, Poll, Reply, WriteFails,
                  ClientCloses, Reset, Unpublish
    <2> QED
      BY <2>1 DEF NoneLooks
  <1> QED
    BY <1>1, <1>2

\* A connection published after the looks is noted by every timer past them.
LEMMA PublishLooked ==
  ASSUME TimersOK, ConnsOK, Looked, NEW c \in Conns, Publish(c)
  PROVE Looked'
  <1>1. \A g \in Gateways, s \in Slots :
          timer[g][s] \in Timer
    BY DEF TimersOK, Timer
  <1>2. \A g \in Gateways, s \in Slots :
          /\ timer'[g][s].pc = timer[g][s].pc
          /\ timer[g][s].pc \in {"final", "sleep"} =>
               timer'[g][s].after = timer[g][s].after \cup {c}
    BY <1>1 DEF Publish, Noted, Timer
  <1>3. \A d \in Conns \ {c} : conn'[d] = conn[d]
    BY PublishShows
  <1> QED
    BY <1>2, <1>3 DEF Looked, Pc

\* The peers report every published connection of a replica that still runs,
\* when the registry they serve is the one the lane counts in.
LEMMA ScrapeLooked ==
  ASSUME Served, IInv, Looked, NEW g \in Gateways, NEW s \in Slots, Scrape(g, s)
  PROVE Looked'
  <1> USE DEF IInv
  <1>1. UNCHANGED conn
    BY DEF Scrape
  <1>2. CASE TimerTo(g, s, "rearm")
    <2>1. NoneLooks /\ NonePublished
      BY <1>1, <1>2, MoveLooks, CutKeeps DEF ConnsKept, TimerPcs
    <2> QED
      BY <2>1, LookedKept
  <1>3. CASE ~PeersBusy(g) /\ TimerTo(g, s, "final")
    <2>1. \A c \in Conns : Pc(c) \in Published => conn[c].at = g
      <3>1. \A c \in Conns : Pc(c) \in Published => conn[c].at \in Gateways
        BY DEF ConnsOK, ConnRecord, Published
      <3> QED
        BY <1>3, <3>1 DEF PeersBusy, Peers, GoneOK
    <2>2. /\ timer'[g][s].pc = "final"
          /\ \A h \in Gateways, r \in Slots :
               h # g \/ r # s => timer'[h][r] = timer[h][r]
      BY <1>3 DEF TimerTo, TimersOK
    <2> QED
      BY <1>1, <2>1, <2>2 DEF Looked, Pc
  <1> QED
    BY <1>2, <1>3 DEF Scrape, ScrapeFails

\* A replica that counts no slot has no published connection of its own.
LEMMA IdleHoldsNone ==
  ASSUME SlotsOK, NEW g \in Gateways, count[g] <= 0
  PROVE \A c \in Conns : ~Holds(c, g)
  <1>1. Cardinality(HoldersOf(g)) = 0
    BY Counted, HoldersFinite
  <1>2. HoldersOf(g) = {}
    BY <1>1, HoldersFinite, FS_EmptySet
  <1> QED
    BY <1>2 DEF HoldersOf, Holds

\* The last look at its own count covers the connections of the replica itself.
LEMMA FinalLooked ==
  ASSUME IInv, Looked, NEW g \in Gateways, NEW s \in Slots, Final(g, s)
  PROVE Looked'
  <1> USE DEF IInv
  <1>1. UNCHANGED conn
    BY DEF Final
  <1>2. CASE Idle(g)
    <2>1. \A c \in Conns : Pc(c) \in Published => conn[c].at # g
      BY <1>2, IdleHoldsNone DEF Idle, Holds, Slotted
    <2>2. timer[g][s] \in Timer /\ timer[g][s].pc = "final"
      BY DEF TimersOK, Timer, Final
    <2>3. /\ timer'[g][s].pc = "sleep"
          /\ timer'[g][s].after = {c \in timer[g][s].after : conn[c].at # g}
          /\ \A h \in Gateways, r \in Slots :
               h # g \/ r # s => timer'[h][r] = timer[h][r]
      BY <1>2, <2>2 DEF Final, TimersOK, Timer
    <2> QED
      BY <1>1, <2>1, <2>2, <2>3 DEF Looked, Pc
  <1>3. CASE ~Idle(g)
    <2>1. NoneLooks /\ NonePublished
      BY <1>1, <1>3, EndLooks, CutKeeps DEF Final, ConnsKept
    <2> QED
      BY <2>1, LookedKept
  <1> QED
    BY <1>2, <1>3

\* Every step of a timer keeps what the looks have found.
LEMMA TickLooked ==
  ASSUME Served, IInv, Looked, NEW g \in Gateways, NEW s \in Slots, Ticks(g, s)
  PROVE Looked'
  <1>1. CASE Scrape(g, s)
    BY <1>1, ScrapeLooked
  <1>2. CASE Final(g, s)
    BY <1>2, FinalLooked
  <1>3. CASE Fire(g, s) \/ Rearm(g, s) \/ Sleep(g, s) \/ Heal(g, s) \/ WakeBack(g, s)
    <2>1. NoneLooks
      <3> USE DEF IInv, TimerPcs
      <3>1. CASE Fire(g, s)
        BY <3>1, MoveLooks, EndLooks DEF Fire
      <3>2. CASE Rearm(g, s)
        BY <3>2, ArmedType, SetLooks, EndLooks DEF Rearm, Rearmed, Armed
      <3>3. CASE Sleep(g, s)
        BY <3>3, MoveLooks, EndLooks DEF Sleep
      <3>4. CASE Heal(g, s)
        BY <3>4, MoveLooks, EndLooks DEF Heal
      <3>5. CASE WakeBack(g, s)
        BY <3>5, EndLooks DEF WakeBack
      <3> QED
        BY <1>3, <3>1, <3>2, <3>3, <3>4, <3>5
    <2>2. NonePublished
      BY TickTyped, CutKeeps DEF IInv, ConnsKept
    <2> QED
      BY <2>1, <2>2, LookedKept
  <1> QED
    BY <1>1, <1>2, <1>3 DEF Ticks

\* Every step does.
LEMMA LookedSteps ==
  ASSUME Served, IInv, Looked, [Next]_vars
  PROVE Looked'
  <1> USE DEF IInv
  <1>1. CASE \E c \in Conns : Publish(c)
    BY <1>1, PublishLooked
  <1>2. CASE \E g \in Gateways, s \in Slots : Ticks(g, s)
    BY <1>2, TickLooked
  <1>3. ASSUME NEW c \in Conns, Quiet(c) PROVE Looked'
    BY <1>3, QuietLooks, QuietKeeps, LookedKept DEF ConnsKept
  <1>4. ASSUME NEW c \in Conns, Start(c) PROVE Looked'
    <2>1. PICK g \in Gateways : g = conn[c].at
      BY <1>4 DEF Start, ConnsOK, ConnRecord, ConnPcs
    <2>2. timer' = Stopped(g)
      BY <1>4, <2>1 DEF Start
    <2> QED
      BY <1>4, <2>1, <2>2, StartTakes, StopLooks, LookedKept
  <1>5. ASSUME NEW c \in Conns, End(c) PROVE Looked'
    <2>1. PICK g \in Gateways : g = conn[c].at
      BY <1>5 DEF End, ConnsOK, ConnRecord, ConnPcs, Slotted
    <2>2. NoneLooks
      BY <1>5 DEF End, NoneLooks
    <2> QED
      BY <1>5, <2>1, <2>2, EndGives, LookedKept
  <1>6. ASSUME NEW c \in Conns, NEW g \in Gateways, Accept(c, g) PROVE Looked'
    <2>1. NoneLooks
      BY <1>6 DEF Accept, NoneLooks
    <2> QED
      BY <1>6, <2>1, AcceptOpens, LookedKept
  <1>7. ASSUME NEW g \in Gateways, Crash(g) \/ Exit(g) PROVE Looked'
    <2>1. NoneLooks
      <3>1. timer' = [timer EXCEPT ![g] = [s \in Slots |-> Free]]
        BY <1>7 DEF Crash, Exit, Ends
      <3> QED
        BY <3>1 DEF NoneLooks, TimersOK, Free
    <2>2. NonePublished
      BY <1>7, CrashClears, CutKeeps DEF Exit, ConnsKept
    <2> QED
      BY <2>1, <2>2, LookedKept
  <1>8. ASSUME NEW g \in Gateways, Drain(g) PROVE Looked'
    BY <1>8, StopLooks, CutKeeps, LookedKept DEF Drain, ConnsKept
  <1>9. ASSUME NEW g \in Gateways, WakeReturns(g) \/ ForceClose(g) \/ Restart(g) PROVE Looked'
    <2>1. NoneLooks
      BY <1>9 DEF WakeReturns, ForceClose, Restart, NoneLooks
    <2>2. NonePublished
      BY <1>9, WakeReturnsKeeps, ForceCloseKeeps, CutKeeps DEF Restart, ConnsKept
    <2> QED
      BY <2>1, <2>2, LookedKept
  <1>10. CASE PodBoots \/ PodReady \/ PodStops \/ UNCHANGED vars
    <2>1. NoneLooks
      BY <1>10 DEF PodBoots, PodReady, PodStops, vars, NoneLooks
    <2>2. NonePublished
      BY <1>10, CutKeeps DEF PodBoots, PodReady, PodStops, vars, ConnsKept
    <2> QED
      BY <2>1, <2>2, LookedKept
  <1> QED
    BY <1>1, <1>2, <1>3, <1>4, <1>5, <1>6, <1>7, <1>8, <1>9, <1>10
    DEF Next, Serves, Quiet, Stops, Closes

\* In a lane whose registry the peers serve, no scale-down ever runs over a
\* session published before the look at the peers, for any number of replicas
\* and pending timers, through drains, crashes and failed scrapes
\* (scheduleSleep, PeerChecker).
THEOREM OlderSessionsSpared == Served => (Spec => []SparesOlderSessions)
  <1> SUFFICES ASSUME Served PROVE Spec => []SparesOlderSessions
    OBVIOUS
  <1>1. Init => Looked
    BY DEF Init, Looked, Free
  <1>2. IInv /\ Looked /\ [Next]_vars => Looked'
    BY LookedSteps
  <1>3. Looked => SparesOlderSessions
    BY DEF Looked, SparesOlderSessions
  <1> QED
    BY <1>1, <1>2, <1>3, Inductive, PTL DEF Spec

-----------------------------------------------------------------------------
(* The wake back.                                                          *)

\* One replica, whose scale calls return what they did.
Solo == (\E g \in Gateways : Gateways = {g}) /\ {"wake", "sleep"} \cap Failing = {}

Mending(g) == \E s \in Slots : timer[g][s].pc \in {"heal", "back"}

\* A client that polls on an open replica has the compute scaled to one, or a
\* timer of that replica on its way to wake it back.
Awaited == \A c \in Conns, g \in Gateways :
             Pc(c) = "poll" /\ conn[c].at = g /\ Open(g) => replicas = 1 \/ Mending(g)

\* No client starts to poll, and no replica opens with one that polls.
NonePolls == \A c \in Conns, g \in Gateways :
               Pc(c)' = "poll" /\ conn'[c].at = g /\ Open(g)' =>
                 Pc(c) = "poll" /\ conn[c].at = g /\ Open(g)

\* The compute stays scaled to one, or the wake back under way.
StaysMended == /\ replicas = 1 => replicas' = 1
               /\ \A g \in Gateways : Open(g)' /\ Mending(g) => Mending(g)' \/ replicas' = 1

\* A polling client stays awaited by a step that starts no poll and mends nothing less.
LEMMA AwaitedKept ==
  ASSUME Awaited, NonePolls, StaysMended
  PROVE Awaited'
  BY DEF Awaited, NonePolls, StaysMended

\* A connection starts to poll only when its wake returns.
LEMMA ServingPolls ==
  ASSUME IInv, NEW c \in Conns, Serves(c) \/ ClientCloses(c)
  PROVE NonePolls
  <1>1. UNCHANGED up
    BY DEF Serves, GiveUp, Parse, Start, Publish, Dial, Abandon, Poll, Reply, WriteFails,
           ClientCloses, Reset, Unpublish, End, Arm
  <1>2. \A d \in Conns \ {c} : conn'[d] = conn[d]
    BY DEF IInv, ConnsOK, Serves, GiveUp, Parse, Start, Publish, Dial, Abandon, Poll, Reply,
           WriteFails, ClientCloses, Reset, Unpublish, End, Ended, Arm, Connected, GoTo, Leave
  <1>3. conn'[c] = conn[c] \/ conn'[c].pc # "poll"
    <2> USE DEF IInv, ConnsOK, ConnRecord, GoTo
    <2>1. Out.pc # "poll"
      BY DEF Out
    <2>2. CASE GiveUp(c) \/ Arm(c) \/ End(c)
      BY <2>1, <2>2 DEF GiveUp, Arm, End, Ended, Leave
    <2>3. CASE Dial(c) \/ Poll(c)
      BY <2>3 DEF Dial, Poll, Connected
    <2>4. CASE Reply(c)
      BY <2>4 DEF Reply
    <2>5. CASE Parse(c) \/ Start(c) \/ Publish(c) \/ Abandon(c)
      BY <2>5 DEF Parse, Start, Publish, Abandon
    <2>6. CASE WriteFails(c) \/ ClientCloses(c) \/ Reset(c) \/ Unpublish(c)
      BY <2>6 DEF WriteFails, ClientCloses, Reset, Unpublish
    <2> QED
      BY <2>2, <2>3, <2>4, <2>5, <2>6 DEF Serves
  <1> QED
    BY <1>1, <1>2, <1>3 DEF NonePolls, Open, Pc

\* A timer that waits to fire is on its way to no wake back.
LEMMA SetMends ==
  ASSUME TimersOK, NEW g \in Gateways, NEW s \in Slots, NEW r \in Timer,
         timer' = [timer EXCEPT ![g][s] = r],
         timer[g][s].pc \notin {"heal", "back"} \/ r.pc \in {"heal", "back"}
  PROVE \A h \in Gateways : Mending(h) => Mending(h)'
  BY DEF TimersOK, Mending

\* A connection disturbs no wake back.
LEMMA ServingMends ==
  ASSUME IInv, NEW c \in Conns, Serves(c) \/ ClientCloses(c)
  PROVE StaysMended
  <1> USE DEF IInv
  <1>1. UNCHANGED replicas
    BY DEF Serves, GiveUp, Parse, Start, Publish, Dial, Abandon, Poll, Reply, WriteFails,
           ClientCloses, Reset, Unpublish, End, Arm, compute
  <1>2. CASE Arm(c)
    <2>1. CASE UNCHANGED timer
      BY <1>1, <2>1 DEF StaysMended, Mending
    <2>2. CASE \E g \in Gateways, s \in Slots :
                 timer[g][s] = Free /\ timer' = [timer EXCEPT ![g][s] = Armed]
      <3>1. Free.pc = "free"
        BY DEF Free
      <3> QED
        BY <1>1, <2>2, <3>1, ArmedType, SetMends DEF StaysMended
    <2> QED
      BY <1>2, <2>1, <2>2, ArmSets
  <1>3. CASE Start(c)
    <2>1. PICK g \in Gateways : g = conn[c].at
      BY <1>3 DEF Start, ConnsOK, ConnRecord, ConnPcs
    <2>2. timer' = Stopped(g)
      BY <1>3, <2>1 DEF Start
    <2>3. \A h \in Gateways : Mending(h) => Mending(h)'
      <3>1. CASE cur[g] # 0 /\ timer[g][cur[g]].pc = "armed"
        <4>1. cur[g] \in Slots
          BY <3>1, ConstantsAssumption DEF TimersOK, Slots
        <4> QED
          BY <2>2, <3>1, <4>1, FreeType, SetMends DEF Stopped
      <3>2. CASE ~(cur[g] # 0 /\ timer[g][cur[g]].pc = "armed")
        BY <2>2, <3>2 DEF Stopped, Mending
      <3> QED
        BY <3>1, <3>2
    <2> QED
      BY <1>1, <2>3 DEF StaysMended
  <1>4. CASE Publish(c)
    <2>1. \A g \in Gateways, s \in Slots : timer[g][s] \in Timer
      BY DEF TimersOK, Timer
    <2>2. \A g \in Gateways, s \in Slots : timer'[g][s].pc = timer[g][s].pc
      BY <1>4, <2>1 DEF Publish, Noted, Timer
    <2> QED
      BY <1>1, <2>2 DEF StaysMended, Mending
  <1>5. CASE UNCHANGED timer
    BY <1>1, <1>5 DEF StaysMended, Mending
  <1> QED
    BY <1>2, <1>3, <1>4, <1>5
    DEF Serves, GiveUp, Parse, Dial, Abandon, Poll, Reply, WriteFails, ClientCloses, Reset,
        Unpublish, End

\* A lone replica with a client that polls wakes the compute back after each of
\* its own scale-downs, and no other replica scales it down.
LEMMA TickAwaited ==
  ASSUME Solo, IInv, Awaited, NEW g \in Gateways, NEW s \in Slots, Ticks(g, s)
  PROVE Awaited'
  <1> USE DEF IInv
  <1>1. UNCHANGED <<conn, up, count>>
    BY TickTyped
  <1>2. NonePolls
    BY <1>1 DEF NonePolls, Pc, Open
  <1>3. timer[g][s] \in Timer
    BY DEF TimersOK, Timer
  <1>4. CASE Fire(g, s) \/ Scrape(g, s) \/ Rearm(g, s) \/ Final(g, s)
    <2>1. UNCHANGED replicas
      BY <1>4 DEF Fire, Scrape, Rearm, Final, compute
    <2>2. timer[g][s].pc \notin {"heal", "back"}
      BY <1>4 DEF Fire, Scrape, Rearm, Final
    <2>3. \A h \in Gateways, r \in Slots : h # g \/ r # s => timer'[h][r] = timer[h][r]
      BY <1>4 DEF Fire, Scrape, ScrapeFails, Rearm, Rearmed, Final, TimerTo, TimerEnds, TimersOK
    <2> QED
      BY <1>2, <2>1, <2>2, <2>3, AwaitedKept DEF StaysMended, Mending
  <1>5. CASE Sleep(g, s)
    <2>1. TimerTo(g, s, "heal")
      BY <1>5 DEF Sleep, Fault, Solo
    <2>2. timer'[g][s].pc = "heal"
      BY <1>3, <2>1 DEF TimerTo, TimersOK, Timer
    <2>3. \A h \in Gateways : Mending(h)'
      BY <2>2 DEF Mending, Solo
    <2> QED
      BY <2>3 DEF Awaited
  <1>6. CASE Heal(g, s)
    <2>1. CASE Arrived(g)
      <3>1. timer'[g][s].pc = "back"
        BY <1>3, <1>6, <2>1 DEF Heal, TimerTo, TimersOK, Timer
      <3>2. \A h \in Gateways : Mending(h)'
        BY <3>1 DEF Mending, Solo
      <3> QED
        BY <3>2 DEF Awaited
    <2>2. CASE ~Arrived(g)
      <3>1. \A c \in Conns : Pc(c) = "poll" => ~(conn[c].at = g /\ Open(g))
        <4>1. CASE Open(g)
          <5>1. count[g] <= 0
            BY <2>2, <4>1 DEF Arrived, SlotsOK
          <5> QED
            BY <5>1, IdleHoldsNone DEF Holds, Slotted, Published
        <4> QED
          BY <4>1
      <3> QED
        BY <1>1, <3>1 DEF Awaited, Solo, Pc, Open
    <2> QED
      BY <2>1, <2>2
  <1>7. CASE WakeBack(g, s)
    <2>1. replicas' = 1
      BY <1>7 DEF WakeBack, Fault, Solo
    <2> QED
      BY <2>1 DEF Awaited
  <1> QED
    BY <1>4, <1>5, <1>6, <1>7 DEF Ticks

\* Every step keeps the polling clients awaited.
LEMMA AwaitedSteps ==
  ASSUME Solo, IInv, Awaited, [Next]_vars
  PROVE Awaited'
  <1> USE DEF IInv
  <1>1. ASSUME NEW c \in Conns, Serves(c) \/ ClientCloses(c) PROVE Awaited'
    BY <1>1, ServingPolls, ServingMends, AwaitedKept
  <1>2. ASSUME NEW c \in Conns, NEW g \in Gateways, Accept(c, g) PROVE Awaited'
    <2>1. NonePolls
      <3>1. /\ UNCHANGED up /\ \A d \in Conns \ {c} : conn'[d] = conn[d]
            /\ conn'[c].pc = "reading"
        BY <1>2 DEF Accept, ConnsOK, Out
      <3> QED
        BY <3>1 DEF NonePolls, Open, Pc
    <2>2. StaysMended
      BY <1>2 DEF Accept, StaysMended, Mending, compute
    <2> QED
      BY <2>1, <2>2, AwaitedKept
  <1>3. ASSUME NEW g \in Gateways, WakeReturns(g) PROVE Awaited'
    <2>1. CASE replicas' = 1
      BY <2>1 DEF Awaited
    <2>2. CASE Deliver(g, "ending") /\ replicas' \in {replicas, 1}
      <3>1. \A c \in Conns : conn'[c] = conn[c] \/ conn'[c].pc = "ending"
        BY <2>2 DEF Deliver, ConnsOK, ConnRecord
      <3>2. UNCHANGED <<up, timer>>
        BY <1>3 DEF WakeReturns
      <3> QED
        BY <2>2, <3>1, <3>2, AwaitedKept DEF NonePolls, StaysMended, Mending, Open, Pc
    <2> QED
      BY <1>3, <2>1, <2>2 DEF WakeReturns
  <1>4. ASSUME NEW g \in Gateways, Drain(g) \/ ForceClose(g) \/ Exit(g) \/ Crash(g)
        PROVE Awaited'
    <2>1. ~Open(g)'
      BY <1>4 DEF Drain, ForceClose, Exit, Crash, Ends, FleetOK, Open
    <2> QED
      BY <2>1 DEF Awaited, Solo
  <1>5. ASSUME NEW g \in Gateways, Restart(g) PROVE Awaited'
    <2>1. \A c \in Conns : conn[c].at # g
      BY <1>5 DEF Restart, GoneOK
    <2>2. UNCHANGED conn
      BY <1>5 DEF Restart
    <2> QED
      BY <2>1, <2>2 DEF Awaited, Solo
  <1>6. ASSUME NEW g \in Gateways, NEW s \in Slots, Ticks(g, s) PROVE Awaited'
    BY <1>6, TickAwaited
  <1>7. CASE PodBoots \/ PodReady \/ PodStops \/ UNCHANGED vars
    <2>1. UNCHANGED <<replicas, up, timer>>
      BY <1>7 DEF PodBoots, PodReady, PodStops, vars, compute
    <2>2. \A c \in Conns : conn'[c].pc = conn[c].pc /\ conn'[c].at = conn[c].at
      BY <1>7 DEF PodBoots, PodReady, PodStops, vars, Cut, ConnsOK, ConnRecord
    <2> QED
      BY <2>1, <2>2, AwaitedKept DEF NonePolls, StaysMended, Mending, Open, Pc
  <1> QED
    BY <1>1, <1>2, <1>3, <1>4, <1>5, <1>6, <1>7 DEF Next, Stops, Closes

\* A client of a lone replica that was woken is never left polling for a compute
\* that is scaled to zero with no call under way to bring it back, whatever the
\* interleaving of timers, wakes, drains and crashes, as long as scale calls do
\* not fail (ConnectWithWake, the wake back of scheduleSleep).
THEOREM WokenNotStranded == Solo => (Spec => []WokenStayAwaited)
  <1> SUFFICES ASSUME Solo PROVE Spec => []WokenStayAwaited
    OBVIOUS
  <1>1. Init => Awaited
    BY DEF Init, Awaited, Out, Pc
  <1>2. IInv /\ Awaited /\ [Next]_vars => Awaited'
    BY AwaitedSteps
  <1>3. IInv /\ Awaited => WokenStayAwaited
    <2> SUFFICES ASSUME IInv, Awaited, NEW c \in Conns, Pc(c) = "poll", Open(conn[c].at)
                 PROVE ~Stuck
      BY DEF WokenStayAwaited
    <2>1. conn[c].at \in Gateways
      BY DEF IInv, ConnsOK, ConnRecord, ConnPcs, Pc
    <2> QED
      BY <2>1 DEF Awaited, Mending, Stuck
  <1> QED
    BY <1>1, <1>2, <1>3, Inductive, PTL DEF Spec
=============================================================================
