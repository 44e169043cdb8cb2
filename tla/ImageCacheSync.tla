--------------------------- MODULE ImageCacheSync ---------------------------
(***************************************************************************)
(* The sync of a pod's optimized images with the object store              *)
(* (packages/kn-next/src/adapters/image-cache-sync.ts).  It starts when the*)
(* child already serves: it lists the store once, restores what is missing *)
(* on the disk, attaches a file watcher, probes it until an event proves it*)
(* live, and reconciles the disk with the listing; every variant that an   *)
(* event or the reconciliation names is pushed by the next flush.  Each    *)
(* await is a step, and the child writes and evicts variants throughout.   *)
(*                                                                         *)
(* A variant is a directory of files; its content is its set of files.     *)
(* Left out: the guards that disable the sync of a pod for good, and       *)
(* concurrent uploads of one file, which carry the same bytes.  Every call *)
(* of the store and every reading of a directory may fail.                 *)
(***************************************************************************)
CONSTANTS Files,     \* the files of variants
          Variant,   \* the variant directory of each file
          Stored     \* the files that earlier pods stored

ASSUME StoredAssumption == Stored \subseteq Files

VARIABLES disk,       \* the files in the image cache of the pod
          store,      \* the files in the object store
          phase,      \* where the sync is
          known,      \* the listing made at the start, and whether there is one
          listed,
          todo,       \* files to restore
          scanned,    \* variants the reconciliation has yet to look at
          live,       \* the watcher reports events
          confirmed,  \* the probe saw its event
          events,     \* variants with an event that is not delivered
          pending,    \* variants to be pushed by the next flush
          timer,      \* the flush is scheduled
          reading,    \* variants whose push is about to read the directory
          uploading,  \* files a push is about to upload
          lost        \* files whose upload failed, or whose directory was not readable

syncVars == <<disk, store, phase, known, listed, todo, scanned, live, confirmed, events,
              pending, timer, reading, uploading, lost>>
pushVars == <<reading, uploading, lost>>

Variants == {Variant[f] : f \in Files}
Of(v) == {f \in Files : Variant[f] = v}

SyncTypeOK ==
  /\ disk \subseteq Files /\ store \subseteq Files /\ lost \subseteq Files
  /\ phase \in {"idle", "list", "relist", "restore", "probe", "reconcile", "scan",
                "watching", "off", "stopped"}
  /\ known \subseteq store
  /\ todo \subseteq store /\ (todo # {} => phase = "restore")
  /\ scanned \subseteq Variants /\ (scanned # {} => phase = "scan")
  /\ events \subseteq Variants /\ (events # {} => live)
  /\ (confirmed => live) /\ live \in BOOLEAN /\ listed \in BOOLEAN
  /\ pending \subseteq Variants
  /\ timer => pending # {}
  /\ reading \subseteq Variants
  /\ uploading \subseteq Files

SyncInit ==
  /\ disk = {} /\ store = Stored
  /\ phase = "idle"
  /\ known = {} /\ listed = FALSE /\ todo = {} /\ scanned = {}
  /\ live = FALSE /\ confirmed = FALSE
  /\ events = {} /\ pending = {} /\ timer = FALSE
  /\ reading = {} /\ uploading = {} /\ lost = {}

-----------------------------------------------------------------------------
\* The child.  A watcher that is not live yet drops the event.

Notified(v) == events' = IF live THEN events \cup {v} ELSE events

ChildKeeps ==
  UNCHANGED <<store, phase, known, listed, todo, scanned, live, confirmed, pending, timer,
              reading, uploading>>

\* A variant is written, in the place of an older file of it: a file that was given
\* up is due again.
Write(f) ==
  /\ f \notin disk
  /\ disk' = (disk \ Of(Variant[f])) \cup {f}
  /\ lost' = lost \ {f}
  /\ Notified(Variant[f])
  /\ ChildKeeps

Evict(v) ==
  /\ disk \cap Of(v) # {}
  /\ disk' = disk \ Of(v)
  /\ Notified(v)
  /\ ChildKeeps /\ UNCHANGED lost

-----------------------------------------------------------------------------
\* startImageCacheSync, up to the watcher.

Start ==
  /\ phase = "idle"
  /\ phase' = "list"
  /\ UNCHANGED <<disk, store, known, listed, todo, scanned, live, confirmed, events,
                 pending, timer, pushVars>>

\* One listing for the restore and the reconciliation; without it each lists for
\* itself.
PreList ==
  /\ phase = "list"
  /\ \/ /\ known' = store /\ listed' = TRUE
        /\ todo' = store
        /\ phase' = "restore"
     \/ phase' = "relist" /\ UNCHANGED <<known, listed, todo>>
  /\ UNCHANGED <<disk, store, scanned, live, confirmed, events, pending, timer, pushVars>>

RestoreList ==
  /\ phase = "relist"
  /\ phase' = "restore"
  /\ \/ todo' = store
     \/ UNCHANGED todo
  /\ UNCHANGED <<disk, store, known, listed, scanned, live, confirmed, events, pending, timer,
                 pushVars>>

\* restoreImageCache: one file; a file that is there is skipped.
Restore(f) ==
  /\ phase = "restore" /\ f \in todo
  /\ todo' = todo \ {f}
  /\ disk' = disk \cup {f} \/ UNCHANGED disk
  /\ UNCHANGED <<store, phase, known, listed, scanned, live, confirmed, events, pending, timer,
                 pushVars>>

\* watchAndPushImageCache: fs.watch returns before its stream is attached, or
\* throws, and then the sync only has restored.
Attach ==
  /\ phase = "restore" /\ todo = {}
  /\ \/ phase' = "probe"
     \/ phase' = "off"
  /\ UNCHANGED <<disk, store, known, listed, todo, scanned, live, confirmed, events, pending,
                 timer, pushVars>>

Attached ==
  /\ phase \in {"probe", "reconcile", "scan", "watching"} /\ ~live
  /\ live' = TRUE
  /\ UNCHANGED <<disk, store, phase, known, listed, todo, scanned, confirmed, events, pending,
                 timer, pushVars>>

-----------------------------------------------------------------------------
\* The probe and the reconciliation.

ProbeKeeps ==
  UNCHANGED <<disk, store, known, listed, todo, scanned, live, events, pending, timer, pushVars>>

\* Slip: A confirmed probe is taken to make the reconciliation needless.
ProbeSeenOnly ==
  /\ phase = "probe" /\ live
  /\ confirmed' = TRUE
  /\ phase' = "watching"
  /\ ProbeKeeps

ProbeSeen ==
  /\ phase = "probe" /\ live
  /\ confirmed' = TRUE
  /\ phase' = "reconcile"
  /\ ProbeKeeps

\* The deadline passes first: it goes on, and warns.
ProbeTimesOut ==
  /\ phase = "probe"
  /\ phase' = "reconcile"
  /\ UNCHANGED confirmed
  /\ ProbeKeeps

\* The cache directory is read, and the store listed if it was not before; a listing
\* that fails counts as empty, so that everything is pushed.  A directory that cannot
\* be read ends the reconciliation at once.
Scan ==
  /\ phase = "reconcile"
  /\ phase' = "scan"
  /\ \/ /\ scanned' = {Variant[f] : f \in disk}
        /\ \/ listed /\ UNCHANGED known
           \/ ~listed /\ known' = store
           \/ ~listed /\ UNCHANGED known
        /\ UNCHANGED lost
     \/ lost' = lost \cup disk /\ UNCHANGED <<scanned, known>>
  /\ UNCHANGED <<disk, store, listed, todo, live, confirmed, events, pending, timer, reading,
                 uploading>>

\* enqueue: a flush is scheduled unless one is.
Enqueued(v) == pending' = pending \cup {v} /\ timer' = TRUE

\* A variant that cannot be read is skipped, also when it has not vanished.
ScanVariant(v) ==
  /\ v \in scanned
  /\ scanned' = scanned \ {v}
  /\ \/ /\ IF disk \cap Of(v) \subseteq known
           THEN UNCHANGED <<pending, timer>>
           ELSE Enqueued(v)
        /\ UNCHANGED lost
     \/ lost' = lost \cup (disk \cap Of(v)) /\ UNCHANGED <<pending, timer>>
  /\ UNCHANGED <<disk, store, phase, known, listed, todo, live, confirmed, events, reading,
                 uploading>>

\* The handle is returned: stop() works from here on, and the listing is done with.
Watch ==
  /\ phase = "scan" /\ scanned = {}
  /\ phase' = "watching"
  /\ known' = {} /\ listed' = FALSE
  /\ UNCHANGED <<disk, store, todo, scanned, live, confirmed, events, pending,
                 timer, pushVars>>

-----------------------------------------------------------------------------
\* The watcher and the pushes.

Deliver(v) ==
  /\ v \in events
  /\ events' = events \ {v}
  /\ Enqueued(v)
  /\ UNCHANGED <<disk, store, phase, known, listed, todo, scanned, live, confirmed, pushVars>>

FlushKeeps ==
  UNCHANGED <<disk, store, phase, known, listed, todo, scanned, live, confirmed, events,
              uploading, lost>>

\* Slip: The flush leaves its timer set.
FlushKeepsTimer ==
  /\ timer
  /\ reading' = reading \cup pending
  /\ pending' = {}
  /\ UNCHANGED timer
  /\ FlushKeeps

\* Slip: The pending keys are cleared before they are copied.
FlushCleared ==
  /\ timer
  /\ timer' = FALSE
  /\ pending' = {}
  /\ UNCHANGED reading
  /\ FlushKeeps

\* flush: the pushes are not awaited.
Flush ==
  /\ timer
  /\ timer' = FALSE
  /\ reading' = reading \cup pending
  /\ pending' = {}
  /\ FlushKeeps

\* pushVariant reads the directory and uploads file after file; one that cannot be
\* read it takes for evicted.
ReadVariant(v) ==
  /\ v \in reading
  /\ reading' = reading \ {v}
  /\ \/ uploading' = uploading \cup (disk \cap Of(v)) /\ UNCHANGED lost
     \/ lost' = lost \cup (disk \cap Of(v)) /\ UNCHANGED uploading
  /\ UNCHANGED <<disk, store, phase, known, listed, todo, scanned, live, confirmed, events,
                 pending, timer>>

\* A file that has gone cannot be uploaded; an upload that fails is not retried.
Upload(f) ==
  /\ f \in uploading
  /\ uploading' = uploading \ {f}
  /\ \/ f \in disk /\ store' = store \cup {f} /\ lost' = lost \ {f}
     \/ f \notin disk /\ UNCHANGED <<store, lost>>
     \/ f \in disk /\ lost' = lost \cup {f} /\ UNCHANGED store
  /\ UNCHANGED <<disk, phase, known, listed, todo, scanned, live, confirmed, events, pending,
                 timer, reading>>

\* Slip: The scheduled flush survives the stop.
StopKeepsTimer ==
  IF phase = "watching"
  THEN /\ phase' = "stopped" /\ live' = FALSE /\ confirmed' = FALSE /\ events' = {}
       /\ UNCHANGED <<disk, store, known, listed, todo, scanned, pending, timer, pushVars>>
  ELSE UNCHANGED syncVars

\* stop(), a no-op until the handle is returned: the timer is cleared and the
\* watcher closed.  What is pending is dropped.
Stop ==
  IF phase = "watching"
  THEN /\ phase' = "stopped" /\ live' = FALSE /\ confirmed' = FALSE
       /\ events' = {} /\ timer' = FALSE
       /\ UNCHANGED <<disk, store, known, listed, todo, scanned, pending, pushVars>>
  ELSE UNCHANGED syncVars

\* The process ends: its watcher, its timer and its pushes with it.
Ended ==
  /\ phase' = "off" /\ live' = FALSE /\ confirmed' = FALSE /\ timer' = FALSE
  /\ known' = {} /\ listed' = FALSE /\ todo' = {} /\ scanned' = {}
  /\ events' = {} /\ pending' = {} /\ reading' = {} /\ uploading' = {} /\ lost' = {}
  /\ UNCHANGED <<disk, store>>

SyncStep ==
  \/ PreList \/ RestoreList \/ Attach \/ Attached \/ ProbeSeen \/ ProbeTimesOut \/ Scan
  \/ Watch \/ Flush
  \/ \E f \in Files : Restore(f) \/ Upload(f)
  \/ \E v \in Variants : ScanVariant(v) \/ Deliver(v) \/ ReadVariant(v)
=============================================================================
