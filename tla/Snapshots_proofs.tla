--------------------------- MODULE Snapshots_proofs ---------------------------
(***************************************************************************)
(* That the permits and mutexes of a session's calls keep them apart, and  *)
(* that what a snapshot finds in the caches is what its database holds,    *)
(* for any number of sessions and loading threads.                         *)
(***************************************************************************)
EXTENDS Snapshots, FiniteSetTheorems, TLAPS

SessionPlaces ==
    {"off", "idle", "access", "snapshot", "waits", "permitted", "applies", "unregister",
     "leaves", "collect", "registry", "world", "sweep", "swept", "gone"}
LoaderPlaces == {"idle", "waits", "permitted", "applies"}

View == Nat \X Nat

Sweeping(p) == Collecting(p) \/ pc[p] = "swept"

(* A thread that asks for a snapshot has room for it, and one that drops   *)
(* its runtime has no snapshot left.                                       *)
Places ==
    /\ pc \in [Threads -> SessionPlaces]
    /\ \A l \in Loaders : pc[l] \in LoaderPlaces
    /\ job \in [Threads -> {"none", "sync", "commit", "drop"}]
    /\ snaps \in [Sessions -> SUBSET [slot : 1..2, visible : View, holds : View]]
    /\ \A s \in Sessions :
          /\ pc[s] \in {"access", "snapshot"} => Free(s) # {}
          /\ job[s] = "drop" =>
                snaps[s] = {} /\ pc[s] \in {"waits", "permitted", "applies"}

(* A granted write permit and the readers of other sessions, which is what *)
(* module WorldAccess has as Exclusion.                                    *)
WriteAlone ==
    \A p \in Threads : pc[p] \in {"permitted", "applies"} =>
        \A s \in Sessions \ {p} : ~Reading(s)

OneInMutex ==
    \A p, q \in Threads :
        pc[p] \in {"applies", "sweep"} /\ pc[q] \in {"applies", "sweep"} => p = q

(* A granted collection and the readers, of which a reader counts from its *)
(* first permit on.                                                        *)
SweepAlone ==
    \A p \in Threads : pc[p] \in {"registry", "world", "sweep"} =>
        \A s \in Sessions : pc[s] # "access" /\ ~Reading(s)

(* The flag is up as long as somebody collects, and nobody else does.      *)
OneCollector ==
    /\ collecting \in BOOLEAN
    /\ collecting <=> \E p \in Threads : Sweeping(p)
    /\ \A p, q \in Threads : Sweeping(p) /\ Sweeping(q) => p = q

Permits == Places /\ WriteAlone /\ OneInMutex /\ SweepAlone /\ OneCollector

Typed ==
    /\ base \in Nat /\ generation = base
    /\ own \in [Sessions -> Nat] /\ record \in [Sessions -> Nat]
    /\ \A s \in Sessions : record[s] \in {own[s], NoOverlay}
    /\ cached \in [Sessions -> [generation : Int, visible : View]]
    /\ \A s \in Sessions : cached[s].generation <= generation
    /\ mapped \in [Sessions -> View]

SlotsDiffer == \A s \in Sessions : \A x, y \in snaps[s] : x.slot = y.slot => x = y

(* Nothing a session reads changes while it has a snapshot of it.          *)
Current == \A s \in Sessions : \A x \in snaps[s] : x.holds = Holds(s)

(* SnapshotsAgree, and the same of the cache the next snapshot may find:   *)
(* as long as its generation is the world's it tells the truth.            *)
CacheTrue ==
    \A s \in Sessions : record[s] = own[s] =>
        /\ \A x \in snaps[s] : x.visible = x.holds /\ mapped[s] = x.holds
        /\ cached[s].generation = generation =>
              cached[s].visible = Recorded(s) /\ mapped[s] = Recorded(s)

Data == Typed /\ SlotsDiffer /\ Current /\ CacheTrue

IInv == Permits /\ Data

-----------------------------------------------------------------------------
(* Nobody has anything, and the caches are of no generation.              *)
LEMMA InitInv == Init => IInv
  <1> SUFFICES ASSUME Init PROVE IInv
    OBVIOUS
  <1>1. Permits
    <2>1. Places
      <3>1. \A s \in Sessions : Free(s) = IF s \in Double THEN 1..2 ELSE {1}
        BY DEF Init, Free
      <3> QED
        BY ThreadsAssumption DEF Init, Places, SessionPlaces, LoaderPlaces, Threads
    <2> QED
      BY <2>1, ThreadsAssumption
      DEF Init, Permits, WriteAlone, OneInMutex, SweepAlone, OneCollector, Sweeping,
          Collecting, Threads
  <1>2. Typed
    <2>1. <<0, NoOverlay>> \in View /\ Empty \in [generation : Int, visible : View]
      BY DEF View, Empty, NoOverlay, None
    <2>2. /\ cached \in [Sessions -> [generation : Int, visible : View]]
          /\ mapped \in [Sessions -> View]
      BY <2>1 DEF Init
    <2>3. \A s \in Sessions : cached[s].generation <= generation
      BY DEF Init, Empty, None
    <2> QED
      BY <2>2, <2>3 DEF Init, Typed, NoOverlay
  <1>3. SlotsDiffer /\ Current /\ CacheTrue
    BY DEF Init, SlotsDiffer, Current, CacheTrue, Empty, None
  <1> QED
    BY <1>1, <1>2, <1>3 DEF IInv, Data

(* A slot for a new snapshot is one that no snapshot has.                  *)
LEMMA FreeSlot ==
    ASSUME NEW s \in Sessions, Free(s) # {}
    PROVE  Min(Free(s)) \in 1..2 /\ \A x \in snaps[s] : x.slot # Min(Free(s))
  <1>1. Free(s) \subseteq 1..2
    BY DEF Free
  <1>2. Min(Free(s)) \in Free(s)
    <2>1. CASE 1 \in Free(s)
      BY DEF Min, Free
    <2>2. CASE 1 \notin Free(s)
      <3>1. Free(s) = {2}
        BY <2>2 DEF Free
      <3> QED
        BY <3>1 DEF Min
    <2> QED
      BY <2>1, <2>2
  <1>3. \A x \in snaps[s] : x.slot \notin Free(s)
    BY DEF Free
  <1> QED
    BY <1>1, <1>2, <1>3


(* Steps that leave the data alone.                                        *)
LEMMA DataFrame ==
    ASSUME Data, UNCHANGED <<snaps, base, generation, own, record, cached, mapped>>
    PROVE  Data'
  BY DEF Data, Typed, SlotsDiffer, Current, CacheTrue, Holds, Recorded

-----------------------------------------------------------------------------
(* analysis() and its end.                                                 *)

(* The session starts with what is recorded; its cache is still empty.     *)
LEMMA RegisterStep ==
    ASSUME IInv, NEW s \in Sessions, Register(s)
    PROVE  IInv'
  <1>1. Permits'
    BY ThreadsAssumption
    DEF Register, IInv, Permits, Places, SessionPlaces, Threads, WriteAlone, OneInMutex,
        SweepAlone, OneCollector, Sweeping, Collecting, Reading, Free, Go
  <1>2. Data'
    <2>1. Typed' /\ SlotsDiffer'
      BY DEF Register, IInv, Data, Typed, SlotsDiffer, View, Recorded, world
    <2>2. /\ UNCHANGED <<snaps, base, generation, own, record, cached>>
          /\ mapped' = [mapped EXCEPT ![s] = Recorded(s)]
      BY DEF Register, world
    <2>3. \A t \in Sessions :
             /\ Holds(t)' = Holds(t) /\ Recorded(t)' = Recorded(t)
             /\ record[t] = own[t] => Recorded(t) = Holds(t)
             /\ mapped'[t] = IF t = s THEN Recorded(t) ELSE mapped[t]
      BY <2>2 DEF Holds, Recorded, IInv, Data, Typed
    <2>4. Current'
      BY <2>2, <2>3 DEF IInv, Data, Current
    <2>5. CacheTrue'
      BY <2>2, <2>3 DEF IInv, Data, Current, CacheTrue
    <2> QED
      BY <2>1, <2>4, <2>5 DEF Data
  <1> QED
    BY <1>1, <1>2 DEF IInv

(* No collection is under way that the session would have to stay out of.  *)
LEMMA TakeGcStep ==
    ASSUME IInv, NEW s \in Sessions, TakeGc(s)
    PROVE  IInv'
  <1>1. Permits'
    BY ThreadsAssumption
    DEF TakeGc, Free, GcReadIsBlocked, IInv, Permits, Places, SessionPlaces, Threads,
        WriteAlone, OneInMutex, SweepAlone, OneCollector, Sweeping, Collecting, Reading,
        Free, Go
  <1>2. Data'
    BY DataFrame DEF TakeGc, IInv, world, caches
  <1> QED
    BY <1>1, <1>2 DEF IInv

(* No writer waits, let alone writes.                                      *)
LEMMA TakeAccessStep ==
    ASSUME IInv, NEW s \in Sessions, TakeAccess(s)
    PROVE  IInv'
  <1>1. Permits'
    BY ThreadsAssumption
    DEF TakeAccess, ReadIsBlocked, Writing, IInv, Permits, Places, SessionPlaces,
        Threads, WriteAlone, OneInMutex, SweepAlone, OneCollector, Sweeping, Collecting,
        Free, Go, gc
  <1>2. Data'
    BY DataFrame DEF TakeAccess, IInv, world, caches
  <1> QED
    BY <1>1, <1>2 DEF IInv

(* The snapshot finds a cache of this generation, or makes it.             *)
LEMMA TakeSnapshotStep ==
    ASSUME IInv, NEW s \in Sessions, TakeSnapshot(s)
    PROVE  IInv'
  <1> DEFINE fresh == cached[s].generation = generation
             v == IF fresh THEN cached[s].visible ELSE Recorded(s)
             new == [slot |-> Min(Free(s)), visible |-> v, holds |-> Holds(s)]
  <1>1. /\ v \in View /\ Holds(s) \in View
        /\ new \in [slot : 1..2, visible : View, holds : View]
        /\ \A x \in snaps[s] : x.slot # new.slot
    <2>1. Min(Free(s)) \in 1..2 /\ \A x \in snaps[s] : x.slot # Min(Free(s))
      BY FreeSlot DEF IInv, Permits, Places, TakeSnapshot
    <2>2. v \in View /\ Holds(s) \in View
      BY DEF IInv, Data, Typed, View, Recorded, Holds
    <2> QED
      BY <2>1, <2>2
  <1>2. /\ cached' = [cached EXCEPT ![s] = [generation |-> generation, visible |-> v]]
        /\ mapped' = IF fresh THEN mapped ELSE [mapped EXCEPT ![s] = v]
        /\ snaps' = [snaps EXCEPT ![s] = @ \cup {new}]
        /\ pc[s] = "snapshot" /\ pc' = [pc EXCEPT ![s] = "idle"]
        /\ UNCHANGED <<job, base, generation, own, record, collecting>>
    BY DEF TakeSnapshot, Go, world, gc
  <1>3. snaps'[s] = snaps[s] \cup {new} /\ \A t \in Sessions \ {s} : snaps'[t] = snaps[t]
    BY <1>2 DEF IInv, Permits, Places
  <1> HIDE DEF new
  <1>4. Permits'
    <2>1. snaps' \in [Sessions -> SUBSET [slot : 1..2, visible : View, holds : View]]
      BY <1>1, <1>2 DEF IInv, Permits, Places
    <2>2. \A t \in Sessions : pc'[t] \in {"access", "snapshot"} => t # s /\ pc'[t] = pc[t]
      BY <1>2 DEF IInv, Permits, Places, Threads
    <2>3. ASSUME NEW t \in Sessions, t # s PROVE Free(t)' = Free(t)
      BY <1>3, <2>3 DEF Free
    <2>4. Places'
      BY <1>2, <2>1, <2>2, <2>3, ThreadsAssumption
      DEF IInv, Permits, Places, SessionPlaces
    <2>5. WriteAlone' /\ OneInMutex' /\ SweepAlone' /\ OneCollector'
      BY <1>2
      DEF IInv, Permits, WriteAlone, OneInMutex, SweepAlone, Reading, OneCollector,
          Sweeping, Collecting
    <2> QED
      BY <2>4, <2>5 DEF Permits
  <1>5. Typed'
    <2>1. /\ cached' \in [Sessions -> [generation : Int, visible : View]]
          /\ mapped' \in [Sessions -> View]
      BY <1>1, <1>2 DEF IInv, Data, Typed
    <2> QED
      BY <1>2, <2>1 DEF IInv, Data, Typed
  <1>6. SlotsDiffer'
    BY <1>1, <1>3 DEF IInv, Data, SlotsDiffer
  <1>7. Current'
    <2>1. new.holds = Holds(s)
      BY DEF new
    <2> QED
      BY <1>2, <2>1 DEF IInv, Data, Current, Holds
  <1>8. CacheTrue'
    <2>1. record[s] = own[s] => v = Recorded(s) /\ Recorded(s) = Holds(s)
      BY DEF IInv, Data, CacheTrue, Recorded, Holds
    <2>2. /\ cached'[s] = [generation |-> generation, visible |-> v]
          /\ record[s] = own[s] => mapped'[s] = v
      BY <1>2 DEF IInv, Data, Typed, CacheTrue
    <2>3. new.visible = v /\ new.holds = Holds(s)
      BY DEF new
    <2>4. ASSUME record[s] = own[s], NEW x \in snaps'[s]
          PROVE  x.visible = x.holds /\ mapped'[s] = x.holds
      BY <1>3, <2>1, <2>2, <2>3, <2>4 DEF IInv, Data, Current, CacheTrue
    <2>5. ASSUME NEW t \in Sessions, t # s
          PROVE  cached'[t] = cached[t] /\ mapped'[t] = mapped[t] /\ snaps'[t] = snaps[t]
      BY <1>2, <2>5
    <2>6. ASSUME NEW t \in Sessions, record[t] = own[t], t # s
          PROVE  /\ \A x \in snaps'[t] : x.visible = x.holds /\ mapped'[t] = x.holds
                 /\ cached'[t].generation = generation =>
                       cached'[t].visible = Recorded(t) /\ mapped'[t] = Recorded(t)
      BY <2>5, <2>6 DEF IInv, Data, CacheTrue
    <2>7. \A t \in Sessions : Recorded(t)' = Recorded(t)
      BY <1>2 DEF Recorded
    <2>8. record[s] = own[s] => cached'[s].visible = Recorded(s) /\ mapped'[s] = Recorded(s)
      BY <2>1, <2>2
    <2> HIDE DEF v, fresh
    <2> QED
      BY <1>2, <2>4, <2>6, <2>7, <2>8 DEF CacheTrue
  <1> QED
    BY <1>4, <1>5, <1>6, <1>7, <1>8 DEF IInv, Data

(* One reader less.                                                        *)
LEMMA DropSnapshotStep ==
    ASSUME IInv, NEW s \in Sessions, NEW x \in snaps[s], DropSnapshot(s, x)
    PROVE  IInv'
  <1>1. Permits'
    <2>1. Places'
      BY DEF DropSnapshot, IInv, Permits, Places, SessionPlaces, Free
    <2>2. WriteAlone' /\ SweepAlone'
      BY DEF DropSnapshot, IInv, Permits, WriteAlone, SweepAlone, Reading
    <2>3. OneInMutex'
      BY DEF DropSnapshot, IInv, Permits, OneInMutex
    <2>4. OneCollector'
      BY DEF DropSnapshot, IInv, Permits, gc, OneCollector, Sweeping, Collecting
    <2> QED
      BY <2>1, <2>2, <2>3, <2>4 DEF Permits
  <1>2. Data'
    <2>1. Typed' /\ SlotsDiffer'
      BY DEF DropSnapshot, IInv, Data, Typed, SlotsDiffer, world, caches
    <2>2. Current' /\ CacheTrue'
      BY DEF DropSnapshot, IInv, Data, Current, CacheTrue, Holds, Recorded, world,
             caches
    <2> QED
      BY <2>1, <2>2 DEF Data
  <1> QED
    BY <1>1, <1>2 DEF IInv

-----------------------------------------------------------------------------
(* The writers.                                                            *)

(* A writer that waits has no permit yet.                                  *)
LEMMA BeginSyncStep ==
    ASSUME IInv, NEW s \in Sessions, BeginSync(s)
    PROVE  IInv'
  <1>1. Permits'
    BY ThreadsAssumption
    DEF BeginSync, Begin, IInv, Permits, Places, SessionPlaces, Threads, WriteAlone,
        OneInMutex, SweepAlone, OneCollector, Sweeping, Collecting, Reading, Free, Go
  <1>2. Data'
    BY DataFrame DEF BeginSync, Begin, IInv, world, caches
  <1> QED
    BY <1>1, <1>2 DEF IInv

(* As for BeginSync; the session has no snapshot left.                     *)
LEMMA BeginDropStep ==
    ASSUME IInv, NEW s \in Sessions, BeginDrop(s)
    PROVE  IInv'
  <1>1. Permits'
    BY ThreadsAssumption
    DEF BeginDrop, Begin, IInv, Permits, Places, SessionPlaces, Threads, WriteAlone,
        OneInMutex, SweepAlone, OneCollector, Sweeping, Collecting, Reading, Free, Go
  <1>2. Data'
    BY DataFrame DEF BeginDrop, Begin, IInv, world, caches
  <1> QED
    BY <1>1, <1>2 DEF IInv

(* As for BeginSync.                                                       *)
LEMMA BeginCommitStep ==
    ASSUME IInv, NEW l \in Loaders, BeginCommit(l)
    PROVE  IInv'
  <1>1. Permits'
    BY DEF BeginCommit, Begin, IInv, Permits, Places, SessionPlaces, LoaderPlaces,
           Threads, WriteAlone, OneInMutex, SweepAlone, OneCollector, Sweeping,
           Collecting, Reading, Free, Go
  <1>2. Data'
    BY DataFrame DEF BeginCommit, Begin, IInv, world, caches
  <1> QED
    BY <1>1, <1>2 DEF IInv

(* No other session reads.                                                 *)
LEMMA TakeWriteStep ==
    ASSUME IInv, NEW p \in Threads, TakeWrite(p)
    PROVE  IInv'
  <1>1. Permits'
    BY DEF TakeWrite, WriteIsBlocked, IInv, Permits, Places, SessionPlaces,
           LoaderPlaces, WriteAlone, OneInMutex, SweepAlone, OneCollector, Sweeping,
           Collecting, Reading, Free, Go, gc
  <1>2. Data'
    BY DataFrame DEF TakeWrite, IInv, world, caches
  <1> QED
    BY <1>1, <1>2 DEF IInv

(* Nobody has the mutex.                                                   *)
LEMMA TakeMutexStep ==
    ASSUME IInv, NEW p \in Threads, TakeMutex(p)
    PROVE  IInv'
  <1>1. Permits'
    BY DEF TakeMutex, MutexFree, IInv, Permits, Places, SessionPlaces, LoaderPlaces,
           WriteAlone, OneInMutex, SweepAlone, OneCollector, Sweeping, Collecting,
           Reading, Free, Go, gc
  <1>2. Data'
    BY DataFrame DEF TakeMutex, IInv, world, caches
  <1> QED
    BY <1>1, <1>2 DEF IInv

(* There is no clone of the database, and the cache is emptied.            *)
LEMMA SyncStep ==
    ASSUME IInv, NEW s \in Sessions, Sync(s)
    PROVE  IInv'
  <1>1. Permits'
    <2>1. Places'
      BY ThreadsAssumption
      DEF Sync, IInv, Permits, Places, Threads, Go, world, caches, gc, SessionPlaces,
          LoaderPlaces, Free
    <2>2. WriteAlone' /\ SweepAlone'
      BY DEF Sync, IInv, Permits, Go, WriteAlone, SweepAlone, Reading
    <2>3. OneInMutex'
      BY DEF Sync, IInv, Permits, Go, OneInMutex
    <2>4. OneCollector'
      BY DEF Sync, IInv, Permits, Go, OneCollector, Sweeping, Collecting
    <2> QED
      BY <2>1, <2>2, <2>3, <2>4 DEF Permits
  <1>2. Data'
    <2>1. Typed' /\ SlotsDiffer'
      BY DEF Sync, IInv, Data, Typed, SlotsDiffer, View, NoOverlay, Empty, None
    <2>2. Current' /\ CacheTrue'
      BY DEF Sync, IInv, Data, Typed, Current, CacheTrue, Recorded, Empty, None,
             NoClones
    <2> QED
      BY <2>1, <2>2 DEF Data
  <1> QED
    BY <1>1, <1>2 DEF IInv

(* The mappings are refreshed to what they are.                            *)
LEMMA SyncUnchangedStep ==
    ASSUME IInv, NEW s \in Sessions, SyncUnchanged(s)
    PROVE  IInv'
  <1>1. Permits'
    BY ThreadsAssumption
    DEF SyncUnchanged, IInv, Permits, Places, SessionPlaces, Threads, WriteAlone,
        OneInMutex, SweepAlone, OneCollector, Sweeping, Collecting, Reading, Free, Go,
        gc
  <1>2. Data'
    <2>1. Typed' /\ SlotsDiffer'
      BY DEF SyncUnchanged, IInv, Data, Typed, SlotsDiffer, View, Recorded, world
    <2>2. /\ UNCHANGED <<snaps, base, generation, own, record, cached>>
          /\ mapped' = [mapped EXCEPT ![s] = Recorded(s)]
      BY DEF SyncUnchanged, world
    <2>3. \A t \in Sessions :
             /\ Holds(t)' = Holds(t) /\ Recorded(t)' = Recorded(t)
             /\ record[t] = own[t] => Recorded(t) = Holds(t)
             /\ mapped'[t] = IF t = s THEN Recorded(t) ELSE mapped[t]
      BY <2>2 DEF Holds, Recorded, IInv, Data, Typed
    <2>4. Current'
      BY <2>2, <2>3 DEF IInv, Data, Current
    <2>5. CacheTrue'
      BY <2>2, <2>3 DEF IInv, Data, Current, CacheTrue
    <2> QED
      BY <2>1, <2>4, <2>5 DEF Data
  <1> QED
    BY <1>1, <1>2 DEF IInv

(* What is recorded leaves what the database holds, which excuses the      *)
(* session; if they stay the same nothing changes.                         *)
LEMMA SyncFailsStep ==
    ASSUME IInv, NEW s \in Sessions, SyncFails(s)
    PROVE  IInv'
  <1>1. Permits'
    BY ThreadsAssumption
    DEF SyncFails, IInv, Permits, Places, SessionPlaces, Threads, WriteAlone,
        OneInMutex, SweepAlone, OneCollector, Sweeping, Collecting, Reading, Free, Go,
        gc
  <1>2. Data'
    <2>1. Typed' /\ SlotsDiffer'
      BY DEF SyncFails, IInv, Data, Typed, SlotsDiffer, NoOverlay, caches
    <2>2. Current' /\ CacheTrue'
      BY DEF SyncFails, IInv, Data, Typed, Current, CacheTrue, Holds, Recorded, caches
    <2> QED
      BY <2>1, <2>2 DEF Data
  <1> QED
    BY <1>1, <1>2 DEF IInv

(* There is no clone of the database, and every cache is of an older       *)
(* generation.                                                             *)
LEMMA CommitStep ==
    ASSUME IInv, NEW l \in Loaders, Commit(l)
    PROVE  IInv'
  <1>1. Permits'
    BY DEF Commit, IInv, Permits, Places, SessionPlaces, LoaderPlaces, Threads,
           WriteAlone, OneInMutex, SweepAlone, OneCollector, Sweeping, Collecting,
           Reading, Free, Go
  <1>2. Data'
    <2>1. Typed' /\ SlotsDiffer'
      BY DEF Commit, IInv, Data, Typed, SlotsDiffer, caches
    <2>2. Current' /\ CacheTrue'
      BY DEF Commit, IInv, Data, Typed, Current, CacheTrue, NoClones, caches
    <2> QED
      BY <2>1, <2>2 DEF Data
  <1> QED
    BY <1>1, <1>2 DEF IInv

(* The permit and the mutex go.                                            *)
LEMMA CommitNothingStep ==
    ASSUME IInv, NEW l \in Loaders, CommitNothing(l)
    PROVE  IInv'
  <1>1. Permits'
    BY DEF CommitNothing, IInv, Permits, Places, SessionPlaces, LoaderPlaces, Threads,
           WriteAlone, OneInMutex, SweepAlone, OneCollector, Sweeping, Collecting,
           Reading, Free, Go, gc
  <1>2. Data'
    BY DataFrame DEF CommitNothing, IInv, world, caches
  <1> QED
    BY <1>1, <1>2 DEF IInv

(* A session that drops its runtime has no snapshot.                       *)
LEMMA DropStep ==
    ASSUME IInv, NEW s \in Sessions, Drop(s)
    PROVE  IInv'
  <1>1. Permits'
    <2>1. Places'
      BY ThreadsAssumption
      DEF Drop, IInv, Permits, Places, Threads, Go, world, caches, gc, SessionPlaces,
          LoaderPlaces, Free
    <2>2. WriteAlone' /\ SweepAlone'
      BY DEF Drop, IInv, Permits, Go, WriteAlone, SweepAlone, Reading
    <2>3. OneInMutex'
      BY DEF Drop, IInv, Permits, Go, OneInMutex
    <2>4. OneCollector'
      BY DEF Drop, IInv, Permits, Go, OneCollector, Sweeping, Collecting
    <2> QED
      BY <2>1, <2>2, <2>3, <2>4 DEF Permits
  <1>2. Data'
    <2>1. Typed' /\ SlotsDiffer'
      BY DEF Drop, IInv, Data, Typed, SlotsDiffer, View, NoOverlay, Empty, None
    <2>2. Current' /\ CacheTrue'
      BY DEF Drop, IInv, Data, Permits, Places, Typed, Current, CacheTrue, Holds,
             Recorded, Empty, None
    <2> QED
      BY <2>1, <2>2 DEF Data
  <1> QED
    BY <1>1, <1>2 DEF IInv

(* The registry is asked; nothing changes.                                 *)
LEMMA UnregisterStep ==
    ASSUME IInv, NEW s \in Sessions, Unregister(s)
    PROVE  IInv'
  <1>1. Permits'
    BY ThreadsAssumption
    DEF Unregister, IInv, Permits, Places, SessionPlaces, Threads, WriteAlone,
        OneInMutex, SweepAlone, OneCollector, Sweeping, Collecting, Reading, Free, Go,
        gc
  <1>2. Data'
    BY DataFrame DEF Unregister, IInv, world, caches
  <1> QED
    BY <1>1, <1>2 DEF IInv

-----------------------------------------------------------------------------
(* The collector.                                                          *)

(* The thread becomes the collector if nobody is.                          *)
LEMMA LeaveStep ==
    ASSUME IInv, NEW s \in Sessions, Leave(s)
    PROVE  IInv'
  <1>1. Permits'
    <2>1. Places'
      BY ThreadsAssumption
      DEF Leave, StartIfReady, IInv, Permits, Places, Threads, Go, SessionPlaces, Free
    <2>2. WriteAlone' /\ SweepAlone'
      BY DEF Leave, StartIfReady, IInv, Permits, Go, WriteAlone, SweepAlone, Reading
    <2>3. OneInMutex'
      BY DEF Leave, StartIfReady, IInv, Permits, Go, OneInMutex
    <2>4. OneCollector'
      BY ThreadsAssumption
      DEF Leave, StartIfReady, IInv, Permits, Places, Threads, Go, world, caches, gc,
          OneCollector, Sweeping, Collecting
    <2> QED
      BY <2>1, <2>2, <2>3, <2>4 DEF Permits
  <1>2. Data'
    BY DataFrame DEF Leave, StartIfReady, IInv, world, caches
  <1> QED
    BY <1>1, <1>2 DEF IInv

(* As for Leave.                                                           *)
LEMMA SetIdleStep ==
    ASSUME IInv, NEW s \in Sessions, SetIdle(s)
    PROVE  IInv'
  <1>1. Permits'
    <2>1. Places'
      BY ThreadsAssumption
      DEF SetIdle, StartIfReady, IInv, Permits, Places, Threads, Go, SessionPlaces, Free
    <2>2. WriteAlone' /\ SweepAlone'
      BY DEF SetIdle, StartIfReady, IInv, Permits, Go, WriteAlone, SweepAlone, Reading
    <2>3. OneInMutex'
      BY DEF SetIdle, StartIfReady, IInv, Permits, Go, OneInMutex
    <2>4. OneCollector'
      BY ThreadsAssumption
      DEF SetIdle, StartIfReady, IInv, Permits, Places, Threads, Go, world, caches, gc,
          OneCollector, Sweeping, Collecting
    <2> QED
      BY <2>1, <2>2, <2>3, <2>4 DEF Permits
  <1>2. Data'
    BY DataFrame DEF SetIdle, StartIfReady, IInv, world, caches
  <1> QED
    BY <1>1, <1>2 DEF IInv

(* No session reads.                                                       *)
LEMMA TakeGcWriteStep ==
    ASSUME IInv, NEW s \in Sessions, TakeGcWrite(s)
    PROVE  IInv'
  <1>1. Permits'
    BY ThreadsAssumption
    DEF TakeGcWrite, GcWriteIsBlocked, IInv, Permits, Places, SessionPlaces, Threads,
        WriteAlone, OneInMutex, SweepAlone, OneCollector, Sweeping, Collecting, Reading,
        Go, gc
  <1>2. Data'
    BY DataFrame DEF TakeGcWrite, IInv, world, caches
  <1> QED
    BY <1>1, <1>2 DEF IInv

(* The collector goes on.                                                  *)
LEMMA TakeRegistryStep ==
    ASSUME IInv, NEW s \in Sessions, TakeRegistry(s)
    PROVE  IInv'
  <1>1. Permits'
    BY ThreadsAssumption
    DEF TakeRegistry, IInv, Permits, Places, SessionPlaces, Threads, WriteAlone,
        OneInMutex, SweepAlone, OneCollector, Sweeping, Collecting, Reading, Go, gc
  <1>2. Data'
    BY DataFrame DEF TakeRegistry, IInv, world, caches
  <1> QED
    BY <1>1, <1>2 DEF IInv

(* Nobody has the mutex.                                                   *)
LEMMA TakeWorldStep ==
    ASSUME IInv, NEW s \in Sessions, TakeWorld(s)
    PROVE  IInv'
  <1>1. Permits'
    BY ThreadsAssumption
    DEF TakeWorld, MutexFree, IInv, Permits, Places, SessionPlaces, Threads, WriteAlone,
        OneInMutex, SweepAlone, OneCollector, Sweeping, Collecting, Reading, Go, gc
  <1>2. Data'
    BY DataFrame DEF TakeWorld, IInv, world, caches
  <1> QED
    BY <1>1, <1>2 DEF IInv

(* The collector leaves the mutex.                                         *)
LEMMA SweepStep ==
    ASSUME IInv, NEW s \in Sessions, Sweep(s)
    PROVE  IInv'
  <1>1. Permits'
    BY ThreadsAssumption
    DEF Sweep, IInv, Permits, Places, SessionPlaces, Threads, WriteAlone, OneInMutex,
        SweepAlone, OneCollector, Sweeping, Collecting, Reading, Go, gc
  <1>2. Data'
    BY DataFrame DEF Sweep, IInv, world, caches
  <1> QED
    BY <1>1, <1>2 DEF IInv

(* The collector stays the only one, or nobody is.                         *)
LEMMA CollectAgainStep ==
    ASSUME IInv, NEW s \in Sessions, CollectAgain(s)
    PROVE  IInv'
  <1>1. Permits'
    <2>1. Places'
      BY ThreadsAssumption
      DEF CollectAgain, StartIfReady, IInv, Permits, Places, Threads, Go, SessionPlaces,
          Free
    <2>2. WriteAlone' /\ SweepAlone'
      BY DEF CollectAgain, StartIfReady, IInv, Permits, Go, WriteAlone, SweepAlone,
             Reading
    <2>3. OneInMutex'
      BY DEF CollectAgain, StartIfReady, IInv, Permits, Go, OneInMutex
    <2>4. OneCollector'
      BY ThreadsAssumption
      DEF CollectAgain, StartIfReady, IInv, Permits, Places, Threads, Go, world, caches,
          gc, OneCollector, Sweeping, Collecting
    <2> QED
      BY <2>1, <2>2, <2>3, <2>4 DEF Permits
  <1>2. Data'
    BY DataFrame DEF CollectAgain, StartIfReady, IInv, world, caches
  <1> QED
    BY <1>1, <1>2 DEF IInv

-----------------------------------------------------------------------------
(* No part of the invariant is about more than the variables.              *)
LEMMA Stutter == ASSUME IInv, UNCHANGED vars PROVE IInv'
  <1>1. Permits'
    BY DEF IInv, Permits, Places, WriteAlone, OneInMutex, SweepAlone, OneCollector,
           Sweeping, Collecting, Reading, Free, world, gc, vars
  <1>2. Data'
    BY DataFrame DEF IInv, vars, world, caches
  <1> QED
    BY <1>1, <1>2 DEF IInv

(* analysis(), the three writers and the collector keep who excludes whom  *)
(* at each lock, and what a cache of the current generation holds.         *)
THEOREM Invariance == Spec => []IInv
  <1>1. ASSUME IInv, [Next]_vars PROVE IInv'
    <2>1. ASSUME NEW s \in Sessions,
                 \/ Register(s) \/ Snapshot(s)
                 \/ BeginSync(s) \/ BeginDrop(s) \/ Apply(s)
                 \/ Unregister(s) \/ Leave(s) \/ SetIdle(s) \/ Collect(s)
                 \/ \E x \in snaps[s] : DropSnapshot(s, x)
          PROVE  IInv'
      BY <1>1, <2>1, RegisterStep, TakeGcStep, TakeAccessStep, TakeSnapshotStep,
         DropSnapshotStep, BeginSyncStep, BeginDropStep, SyncStep, SyncUnchangedStep,
         SyncFailsStep, DropStep, UnregisterStep, LeaveStep, SetIdleStep,
         TakeGcWriteStep, TakeRegistryStep, TakeWorldStep, SweepStep, CollectAgainStep
      DEF Snapshot, Apply, Collect
    <2>2. ASSUME NEW l \in Loaders, BeginCommit(l) \/ Commit(l) \/ CommitNothing(l)
          PROVE  IInv'
      BY <1>1, <2>2, BeginCommitStep, CommitStep, CommitNothingStep
    <2>3. ASSUME NEW p \in Threads, Write(p) PROVE IInv'
      BY <1>1, <2>3, TakeWriteStep, TakeMutexStep DEF Write
    <2>4. CASE UNCHANGED vars
      BY <1>1, <2>4, Stutter
    <2> QED
      BY <1>1, <2>1, <2>2, <2>3, <2>4 DEF Next
  <1> QED
    BY <1>1, InitInv, PTL DEF Spec

(* The variables keep their types. A session has no more than two          *)
(* snapshots, since each has a slot for itself.                            *)
THEOREM TypeCorrect == Spec => []TypeOK
  <1>1. ASSUME IInv, NEW s \in Sessions PROVE Cardinality(snaps[s]) <= 2
    <2> DEFINE slot == [x \in snaps[s] |-> x.slot]
    <2>1. slot \in Injection(snaps[s], 1..2)
      BY <1>1 DEF IInv, Permits, Places, Data, SlotsDiffer, Injection, IsInjective
    <2>2. \A n \in Nat : IsFiniteSet(1..n) /\ Cardinality(1..n) = n
      BY FS_Interval
    <2>3. IsFiniteSet(1..2) /\ Cardinality(1..2) = 2
      BY <2>2
    <2> QED
      BY <2>1, <2>3, FS_Injection
  <1>2. IInv => TypeOK
    BY <1>1
    DEF IInv, Permits, Places, SessionPlaces, OneCollector, Sweeping, Data, Typed,
        TypeOK
  <1> QED
    BY <1>2, Invariance, PTL

(* What analysis() puts together under the mutex (visible files, mappings, *)
(* database) stays of one state for as long as the query runs, in any      *)
(* number of sessions and loads.                                           *)
THEOREM SnapshotsAgreeCorrect == Spec => []SnapshotsAgree
  <1>1. IInv => SnapshotsAgree
    BY DEF IInv, Data, CacheTrue, SnapshotsAgree
  <1> QED
    BY <1>1, Invariance, PTL

(* The permit of a writer and the order of the locks are enough for a      *)
(* sync, a drop or a commit to cancel no query of another session.         *)
THEOREM NeverCancelsOthersCorrect == Spec => []NeverCancelsOthers
  <1>1. IInv => NeverCancelsOthers
    BY DEF IInv, Permits, WriteAlone, Reading, NeverCancelsOthers
  <1> QED
    BY <1>1, Invariance, PTL

(* collect_garbage purges while there is no query and no writer in a       *)
(* world, whichever of its two modes it is in.                             *)
THEOREM CollectsAloneCorrect == Spec => []CollectsAlone
  <1>1. IInv => CollectsAlone
    BY DEF IInv, Permits, SweepAlone, OneInMutex, Reading, NoClones, CollectsAlone
  <1> QED
    BY <1>1, Invariance, PTL
=============================================================================
