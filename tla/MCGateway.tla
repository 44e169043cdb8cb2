------------------------------- MODULE MCGateway -------------------------------
(***************************************************************************)
(* Instances of Gateway for TLC.                                           *)
(***************************************************************************)
EXTENDS Gateway, TLC

\* Replicas, and connections, are interchangeable (safety runs only).
Interchangeable == Permutations(Gateways) \cup Permutations(Conns)
=============================================================================
