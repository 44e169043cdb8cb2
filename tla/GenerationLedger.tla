-------------------------- MODULE GenerationLedger --------------------------
(***************************************************************************)
(* What the pageserver failover promises the storage plane, whatever the   *)
(* number of watchers, crashes and lost replies: one shared generation     *)
(* (the pageserver-generation ConfigMap) that only grows, tenant locations *)
(* that are attached at a generation the ledger already holds and never    *)
(* move back to a lower one, and a client Service that is cut over to the  *)
(* standby once and never back.  PSWatcher implements this module.         *)
(***************************************************************************)
EXTENDS Naturals

CONSTANTS Nodes,      \* the pageserver nodes
          Tenants,    \* the routed tenants
          From, To    \* the node the client Service selects before and after

VARIABLES epoch,  \* the ledger's generation, 0 while it is not established
          held,   \* held[n][t]: generation tenant t is attached at on n, or 0
          routed  \* the node the client Service selects

absvars == <<epoch, held, routed>>

Within(h, g) == \A n \in Nodes, t \in Tenants : h[n][t] <= g

Init ==
  /\ epoch \in Nat
  /\ held \in [Nodes -> [Tenants -> Nat]]
  /\ epoch # 0 => Within(held, epoch)
  /\ routed = From

\* The ledger is established, or advanced, to a generation no attached
\* tenant is above.
Advance ==
  /\ epoch' \in Nat
  /\ epoch' > epoch
  /\ Within(held, epoch')
  /\ UNCHANGED <<held, routed>>

\* A tenant is attached on a node at a generation the ledger has granted.
Attach(n, t) ==
  /\ \E g \in 1..epoch : /\ g >= held[n][t]
                         /\ held' = [held EXCEPT ![n][t] = g]
  /\ UNCHANGED <<epoch, routed>>

\* A node loses, or is made to give up, some of the tenants it serves.
Release(n) ==
  /\ \E S \in SUBSET Tenants :
        held' = [held EXCEPT ![n] = [t \in Tenants |-> IF t \in S THEN 0 ELSE held[n][t]]]
  /\ UNCHANGED <<epoch, routed>>

\* The client Service is pointed at the standby.
CutOver ==
  /\ epoch # 0
  /\ routed' = To
  /\ UNCHANGED <<epoch, held>>

Next ==
  \/ Advance
  \/ CutOver
  \/ \E n \in Nodes : Release(n)
  \/ \E n \in Nodes, t \in Tenants : Attach(n, t)

Spec == Init /\ [][Next]_absvars
=============================================================================
