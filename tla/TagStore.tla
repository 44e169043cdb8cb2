------------------------------- MODULE TagStore -------------------------------
(***************************************************************************)
(* What the cache handler promises of the store its pods share: entries    *)
(* and the tag index are written together and deleted together, in one     *)
(* step, whoever dies meanwhile (execAtomic and its two callers in         *)
(* cache-handler.js).  CacheHandler is shown to implement it.              *)
(***************************************************************************)
EXTENDS Naturals

CONSTANTS Keys,   \* cache keys of one app
          Tags,   \* revalidation tags
          Absent  \* the value of a key without an entry, never an entry itself

Entry == [tags : SUBSET Tags]

VARIABLES store,   \* what Redis holds under each key
          index,   \* the members of each tag's set
          lapsed   \* memberships dropped with a tag set that was deleted
                   \* although the entry was not (history variable)

tvars == <<store, index, lapsed>>

TypeOK ==
  /\ store \in [Keys -> Entry \cup {Absent}]
  /\ index \in [Tags -> SUBSET Keys]
  /\ lapsed \subseteq Keys \X Tags

Init ==
  /\ store = [k \in Keys |-> Absent]
  /\ index = [t \in Tags |-> {}]
  /\ lapsed = {}

\* One set: the entry, and one membership per tag.
Write(k, e) ==
  /\ store' = [store EXCEPT ![k] = e]
  /\ index' = [t \in Tags |-> IF t \in e.tags THEN index[t] \cup {k} ELSE index[t]]
  /\ lapsed' = lapsed \ ({k} \X e.tags)

\* One invalidation of tag t, over the members seen by an earlier read.
Invalidate(t, seen) ==
  /\ store' = [k \in Keys |-> IF k \in seen THEN Absent ELSE store[k]]
  /\ index' = [index EXCEPT ![t] = {}]
  /\ lapsed' = lapsed \cup ((index[t] \ seen) \X {t})

\* A deletion by Next, or the end of the entry's time to live.
Remove(k) ==
  /\ store' = [store EXCEPT ![k] = Absent]
  /\ UNCHANGED <<index, lapsed>>

Next ==
  \/ \E k \in Keys, e \in Entry : Write(k, e)
  \/ \E t \in Tags, seen \in (SUBSET Keys) \ {{}} : Invalidate(t, seen)
  \/ \E k \in Keys : Remove(k)

Spec == Init /\ [][Next]_tvars

\* An entry is in the index of each of its tags, so that revalidateTag finds
\* it, unless the tag set was deleted by an invalidation that read it before the
\* entry was written.
Reachable ==
  \A k \in Keys : store[k] # Absent =>
    \A t \in store[k].tags : k \in index[t] \/ <<k, t>> \in lapsed
=============================================================================
