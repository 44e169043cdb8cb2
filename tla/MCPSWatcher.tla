----------------------------- MODULE MCPSWatcher -----------------------------
(***************************************************************************)
(* Instances of PSWatcher for TLC, and what the repository's documents     *)
(* claim of it.                                                            *)
(***************************************************************************)
EXTENDS PSWatcher, TLC

\* Instances are interchangeable (safety runs only).
Instances == Permutations(Watchers)

\* docs/operations.md: the ledger "advances exactly once per episode even if a
\* promotion is retried".  Read on a plane whose ledger starts at
\* BaseGeneration, with one watcher.
OneAdvancePerEpisode == ledger.gen <= BaseGeneration + 1

\* docs/operations.md: "the higher generation fences the dead primary".  Once
\* the Service is cut over, a tenant both nodes hold attached is held at a
\* higher generation on the standby.
HigherGenerationFences ==
  route = Standby =>
    \A t \in Tenants :
      loc[Standby][t].mode = "attached" /\ loc[Primary][t].mode = "attached"
        => loc[Standby][t].gen > loc[Primary][t].gen
=============================================================================
