---------------------------- MODULE MCCacheHandler ----------------------------
(***************************************************************************)
(* Instances of CacheHandler for TLC.                                      *)
(***************************************************************************)
EXTENDS CacheHandler, TLC

\* The slots for calls are interchangeable; used by runs without liveness only.
CallSymmetry == Permutations(Calls)
=============================================================================
