---------------------------- MODULE Registry_proofs ----------------------------
(***************************************************************************)
(* What the counts of the registry and of the collector are, for any       *)
(* number of registrations, keys and panics: a world stays while somebody  *)
(* is in it and goes with the last, unless one that panicked is counted    *)
(* for good; and one thread at most collects, which holds the worlds it    *)
(* has swept.                                                              *)
(***************************************************************************)
EXTENDS Registry, FiniteSetTheorems, TLAPS

Typed ==
    /\ worlds \in [Keys -> Worlds \cup {NoWorld}]
    /\ clients \in [Keys -> Nat] /\ views \in [Keys -> Nat]
    /\ poisoned \in BOOLEAN
    /\ worldLock \in [Worlds -> Runtimes \cup {NoRuntime}]
    /\ broken \subseteq Worlds
    /\ registered \in Nat /\ busySessions \in Nat
    /\ dirty \in BOOLEAN /\ collecting \in BOOLEAN /\ gcUnderLoad \in BOOLEAN
    /\ collector \in Runtimes \cup {NoRuntime}
    /\ sweep \in Phases
    /\ swept \subseteq Worlds
    /\ pc \in [Runtimes -> Locations]
    /\ key \in [Runtimes -> Keys]
    /\ uses \in [Runtimes -> Worlds \cup {NoWorld}]
    /\ busy \in [Runtimes -> BOOLEAN]
    /\ unwinding \subseteq Runtimes
    /\ panics \in 0..MaxPanics

(* What a registration has at each place.                                  *)
Holding ==
    \A r \in Runtimes :
        /\ uses[r] = NoWorld <=> pc[r] \in {"idle", "unwound", "lost"}
        /\ busy[r] => pc[r] \in Counted

Members(places, keys, P, k) == {r \in Runtimes : places[r] \in P /\ keys[r] = k}

Inside(P, k) == Members(pc, key, P, k)

(* EntriesExact, with a reason for an entry to be there: who has found it  *)
(* will be counted in it.                                                  *)
EntryOf(k) ==
    /\ clients[k] = Cardinality(Inside(Retained, k))
    /\ views[k] = Cardinality(Inside(Viewed, k))
    /\ clients[k] > 0 => worlds[k] # NoWorld
    /\ worlds[k] # NoWorld => Inside(Retained \cup {"retain"}, k) # {}

Entries == ~poisoned => \A k \in Keys : EntryOf(k)

Busy == {r \in Runtimes : busy[r]}

GcCounts == registered = Count(Counted) /\ busySessions = Cardinality(Busy)

(* The collector is a thread that is between two steps of its session.     *)
OneSweep ==
    /\ collecting <=> sweep # "none"
    /\ sweep \in {"wait", "lock", "recheck"} <=> collector # NoRuntime
    /\ swept # {} => sweep = "lock"
    /\ collector # NoRuntime => pc[collector] \in {"idle", "live"}

(* Who has a world locked, and who thinks so.                              *)
Locks ==
    /\ \A w \in swept : worldLock[w] = collector
    /\ \A w \in Worlds \ swept : worldLock[w] # NoRuntime =>
          pc[worldLock[w]] \in {"commit", "edit"} /\ uses[worldLock[w]] = w
    /\ \A r \in Runtimes : pc[r] \in {"commit", "edit"} => worldLock[uses[r]] = r

IInv == Typed /\ Holding /\ Entries /\ GcCounts /\ OneSweep /\ Locks

-----------------------------------------------------------------------------
(* Counting.                                                               *)

(* A registration that goes to `to` enters a set of places, leaves it, or  *)
(* neither.                                                                *)
LEMMA MoveCount ==
    ASSUME Typed, NEW r \in Runtimes, NEW to, NEW P, NEW k, Goto(r, to)
    PROVE  /\ Cardinality(Members(pc, key, P, k)) \in Nat
           /\ key[r] # k \/ (pc[r] \in P <=> to \in P) =>
                 Members(pc', key, P, k) = Members(pc, key, P, k)
           /\ key[r] = k /\ pc[r] \notin P /\ to \in P =>
                 Cardinality(Members(pc', key, P, k)) = Cardinality(Members(pc, key, P, k)) + 1
           /\ key[r] = k /\ pc[r] \in P /\ to \notin P =>
                 Cardinality(Members(pc', key, P, k)) = Cardinality(Members(pc, key, P, k)) - 1
  <1> DEFINE S == Members(pc, key, P, k)
             T == Members(pc', key, P, k)
  <1>1. IsFiniteSet(S) /\ Cardinality(S) \in Nat
    BY WorldsAssumption, FS_Subset, FS_CardinalityType DEF Members
  <1>2. /\ pc'[r] = to
        /\ \A q \in Runtimes \ {r} : pc'[q] = pc[q]
    BY DEF Typed, Goto
  <1>3. ASSUME key[r] # k \/ (pc[r] \in P <=> to \in P) PROVE T = S
    BY <1>2, <1>3 DEF Members
  <1>4. ASSUME key[r] = k, pc[r] \notin P, to \in P
        PROVE  Cardinality(T) = Cardinality(S) + 1
    <2>1. T = S \cup {r} /\ r \notin S
      BY <1>2, <1>4 DEF Members
    <2> QED
      BY <1>1, <2>1, FS_AddElement
  <1>5. ASSUME key[r] = k, pc[r] \in P, to \notin P
        PROVE  Cardinality(T) = Cardinality(S) - 1
    <2>1. T = S \ {r} /\ r \in S
      BY <1>2, <1>5 DEF Members
    <2> QED
      BY <1>1, <2>1, FS_RemoveElement
  <1> QED
    BY <1>1, <1>3, <1>4, <1>5

(* The same of the registrations the collector counts.                     *)
LEMMA MoveCounted ==
    ASSUME Typed, NEW r \in Runtimes, NEW to, Goto(r, to)
    PROVE  /\ Count(Counted) \in Nat
           /\ (pc[r] \in Counted <=> to \in Counted) => Count(Counted)' = Count(Counted)
           /\ pc[r] \notin Counted /\ to \in Counted => Count(Counted)' = Count(Counted) + 1
           /\ pc[r] \in Counted /\ to \notin Counted =>
                 Count(Counted)' = Count(Counted) - 1 /\ Count(Counted) > 0
  <1> DEFINE S == {q \in Runtimes : pc[q] \in Counted}
             T == {q \in Runtimes : pc'[q] \in Counted}
  <1>1. IsFiniteSet(S) /\ IsFiniteSet(T)
    BY WorldsAssumption, FS_Subset
  <1>2. Cardinality(S) \in Nat /\ Cardinality(T) \in Nat
    BY <1>1, FS_CardinalityType
  <1>3. /\ pc'[r] = to
        /\ \A q \in Runtimes \ {r} : pc'[q] = pc[q]
    BY DEF Typed, Goto
  <1>4. ASSUME pc[r] \in Counted <=> to \in Counted PROVE T = S
    BY <1>3, <1>4
  <1>5. ASSUME pc[r] \notin Counted, to \in Counted
        PROVE  Cardinality(T) = Cardinality(S) + 1
    <2>1. T = S \cup {r} /\ r \notin S
      BY <1>3, <1>5
    <2> QED
      BY <1>1, <2>1, FS_AddElement
  <1>6. ASSUME pc[r] \in Counted, to \notin Counted
        PROVE  Cardinality(T) = Cardinality(S) - 1
    <2>1. T = S \ {r} /\ r \in S
      BY <1>3, <1>6
    <2> QED
      BY <1>1, <2>1, FS_RemoveElement
  <1>7. Count(Counted) = Cardinality(S) /\ Count(Counted)' = Cardinality(T)
    BY DEF Count
  <1> HIDE DEF S, T
  <1> QED
    BY <1>2, <1>4, <1>5, <1>6, <1>7

(* A registration becomes busy, or ceases to be.                           *)
LEMMA BusyCount ==
    ASSUME Typed, NEW r \in Runtimes, NEW b \in BOOLEAN, busy' = [busy EXCEPT ![r] = b]
    PROVE  /\ Cardinality(Busy) \in Nat
           /\ busy[r] = b => Busy' = Busy
           /\ ~busy[r] /\ b => Cardinality(Busy)' = Cardinality(Busy) + 1
           /\ busy[r] /\ ~b => Cardinality(Busy)' = Cardinality(Busy) - 1
  <1>1. IsFiniteSet(Busy)
    BY WorldsAssumption, FS_Subset DEF Busy
  <1>2. Cardinality(Busy) \in Nat
    BY <1>1, FS_CardinalityType
  <1>3. /\ busy'[r] = b
        /\ \A q \in Runtimes \ {r} : busy'[q] = busy[q]
    BY DEF Typed
  <1>4. ASSUME busy[r] = b PROVE Busy' = Busy
    BY <1>3, <1>4 DEF Busy
  <1>5. ASSUME ~busy[r], b PROVE Cardinality(Busy)' = Cardinality(Busy) + 1
    <2>1. Busy' = Busy \cup {r} /\ r \notin Busy
      BY <1>3, <1>5 DEF Busy
    <2> QED
      BY <1>1, <2>1, FS_AddElement
  <1>6. ASSUME busy[r], ~b PROVE Cardinality(Busy)' = Cardinality(Busy) - 1
    <2>1. Busy' = Busy \ {r} /\ r \in Busy
      BY <1>3, <1>6 DEF Busy
    <2> QED
      BY <1>1, <2>1, FS_RemoveElement
  <1> QED
    BY <1>2, <1>4, <1>5, <1>6

(* Who is counted in an entry makes its count positive, and two make it    *)
(* more than one.                                                          *)
LEMMA CountedIn ==
    ASSUME NEW P, NEW k, NEW r \in Inside(P, k), NEW q \in Inside(P, k)
    PROVE  /\ Cardinality(Inside(P, k)) \in Nat
           /\ Cardinality(Inside(P, k)) >= 1
           /\ q # r => Cardinality(Inside(P, k)) >= 2
  <1> DEFINE S == Inside(P, k)
  <1>1. IsFiniteSet(S)
    BY WorldsAssumption, FS_Subset DEF Inside, Members
  <1>2. IsFiniteSet(S \ {r}) /\ Cardinality(S \ {r}) = Cardinality(S) - 1
    BY <1>1, FS_RemoveElement
  <1>3. Cardinality(S) \in Nat /\ Cardinality(S \ {r}) \in Nat
    BY <1>1, <1>2, FS_CardinalityType
  <1>4. q # r => Cardinality(S \ {r}) # 0
    BY <1>2, FS_EmptySet
  <1> HIDE DEF S
  <1>5. Cardinality(S) >= 1 /\ (q # r => Cardinality(S) >= 2)
    BY <1>2, <1>3, <1>4
  <1> QED
    BY <1>3, <1>5 DEF S

(* There is a world for a key that has none, if the one who asks has none: *)
(* the other keys' and registrations' are too few to use up all of them.   *)
LEMMA WorldForKey ==
    ASSUME Typed, NEW r \in Runtimes, uses[r] = NoWorld, worlds[key[r]] = NoWorld
    PROVE  \E w \in Worlds : Unused(w)
  <1> DEFINE ks == Keys \ {key[r]}
             rs == Runtimes \ {r}
             W == {worlds[k] : k \in ks}
             U == {uses[q] : q \in rs}
  <1>1. key[r] \in Keys
    BY DEF Typed
  <1>2. /\ IsFiniteSet(ks) /\ Cardinality(ks) = Cardinality(Keys) - 1
        /\ IsFiniteSet(rs) /\ Cardinality(rs) = Cardinality(Runtimes) - 1
    BY <1>1, WorldsAssumption, FS_RemoveElement
  <1>3. IsFiniteSet(W) /\ Cardinality(W) <= Cardinality(ks)
    <2>1. [k \in ks |-> worlds[k]] \in Surjection(ks, W)
      BY DEF Surjection
    <2> HIDE DEF W, ks
    <2> QED
      BY <1>2, <2>1, FS_Surjection
  <1>4. IsFiniteSet(U) /\ Cardinality(U) <= Cardinality(rs)
    <2>1. [q \in rs |-> uses[q]] \in Surjection(rs, U)
      BY DEF Surjection
    <2> HIDE DEF U, rs
    <2> QED
      BY <1>2, <2>1, FS_Surjection
  <1>5. /\ Cardinality(W) \in Nat /\ Cardinality(U) \in Nat
        /\ Cardinality(Keys) \in Nat /\ Cardinality(Runtimes) \in Nat
        /\ Cardinality(Worlds) \in Nat
    BY <1>3, <1>4, WorldsAssumption, FS_CardinalityType
  <1> HIDE DEF W, U, ks, rs
  <1>6. IsFiniteSet(W \cup U) /\ Cardinality(W \cup U) <= Cardinality(W) + Cardinality(U)
    <2>1. IsFiniteSet(W \cap U) /\ Cardinality(W \cap U) \in Nat
      BY <1>3, FS_Subset, FS_CardinalityType
    <2> QED
      BY <1>3, <1>4, <1>5, <2>1, FS_Union
  <1>7. Cardinality(W \cup U) \in Nat /\ Cardinality(W \cup U) < Cardinality(Worlds)
    <2>1. Cardinality(W \cup U) \in Nat
      BY <1>6, FS_CardinalityType
    <2> QED
      BY <1>2, <1>3, <1>4, <1>5, <1>6, <2>1, WorldsAssumption
  <1>8. PICK w \in Worlds : w \notin W \cup U
    <2>1. ~(Worlds \subseteq W \cup U)
      <3> SUFFICES ASSUME Worlds \subseteq W \cup U PROVE FALSE
        OBVIOUS
      <3>1. Cardinality(Worlds) <= Cardinality(W \cup U)
        BY <1>6, FS_Subset
      <3> QED
        BY <1>5, <1>7, <3>1
    <2> QED
      BY <2>1
  <1>9. Unused(w)
    BY <1>8, NobodyAssumption DEF Unused, W, U, ks, rs
  <1> QED
    BY <1>9

-----------------------------------------------------------------------------
(* What a step that moves one registration keeps.                          *)

(* The entries, when the registration neither enters nor leaves one.       *)
LEMMA EntriesKept ==
    ASSUME Typed, Entries, NEW r \in Runtimes, NEW to,
           Goto(r, to), key' = key, UNCHANGED registry,
           pc[r] \in Retained <=> to \in Retained, pc[r] \in Viewed <=> to \in Viewed,
           pc[r] # "retain"
    PROVE  Entries'
  <1> SUFFICES ASSUME ~poisoned', NEW k \in Keys PROVE EntryOf(k)'
    BY DEF Entries
  <1>1. EntryOf(k)
    BY DEF Entries, registry
  <1>2. Inside(Retained, k)' = Inside(Retained, k) /\ Inside(Viewed, k)' = Inside(Viewed, k)
    BY MoveCount DEF Inside
  <1>3. Inside(Retained \cup {"retain"}, k) \subseteq Inside(Retained \cup {"retain"}, k)'
    BY DEF Inside, Members, Typed, Goto
  <1> QED
    BY <1>1, <1>2, <1>3 DEF EntryOf, registry

(* The entries, when no registration moves.                                *)
LEMMA EntriesFrame ==
    ASSUME Entries, UNCHANGED <<registry, pc, key>>
    PROVE  Entries'
  BY DEF Entries, EntryOf, Inside, Members, registry

(* The collector's counts, when it neither counts nor forgets one.         *)
LEMMA GcCountsKept ==
    ASSUME Typed, GcCounts, NEW r \in Runtimes, NEW to,
           Goto(r, to), UNCHANGED <<registered, busySessions, busy>>,
           pc[r] \in Counted <=> to \in Counted
    PROVE  GcCounts'
  BY MoveCounted DEF GcCounts, Busy

(* The collector's counts, when no registration moves.                     *)
LEMMA GcCountsFrame ==
    ASSUME GcCounts, UNCHANGED <<registered, busySessions, busy, pc>>
    PROVE  GcCounts'
  BY DEF GcCounts, Count, Busy

(* A registration that has no world locked, before or after, while nothing *)
(* of the locks changes, nor the collector that has swept some.            *)
LEMMA LocksKept ==
    ASSUME Typed, Locks, NEW r \in Runtimes, NEW to,
           Goto(r, to), UNCHANGED <<worldLock, swept>>,
           swept # {} => collector' = collector,
           pc[r] \notin {"commit", "edit"}, to \notin {"commit", "edit"},
           \A q \in Runtimes \ {r} : uses'[q] = uses[q]
    PROVE  Locks'
  BY NobodyAssumption DEF Typed, Locks, Goto

(* A registration that is not the collector moves.                         *)
LEMMA OneSweepKept ==
    ASSUME Typed, OneSweep, NEW r \in Runtimes, NEW to, collector # r,
           Goto(r, to), UNCHANGED <<collecting, collection>>
    PROVE  OneSweep'
  BY NobodyAssumption DEF Typed, OneSweep, collection, Goto

(* The last step of an action of the collector's mutex.                    *)
LEMMA StartIfReadyKeeps ==
    ASSUME Typed, OneSweep, Locks, NEW r \in Runtimes, NEW garbage \in BOOLEAN,
           registered' \in Nat, busySessions' \in Nat,
           StartIfReady(r, garbage), pc'[r] \in {"idle", "live"}, collector # r,
           \A q \in Runtimes \ {r} : pc'[q] = pc[q]
    PROVE  /\ dirty' \in BOOLEAN /\ collecting' \in BOOLEAN
           /\ collector' \in Runtimes \cup {NoRuntime} /\ sweep' \in Phases
           /\ swept' = swept
           /\ OneSweep'
           /\ swept # {} => collector' = collector
  <1>1. CASE garbage /\ Ready(registered', busySessions')
    <2>1. ~collecting /\ collector = NoRuntime /\ sweep = "none" /\ swept = {}
      BY <1>1 DEF Ready, OneSweep, Typed, Phases
    <2> QED
      BY <1>1, <2>1, NobodyAssumption DEF StartIfReady, OneSweep, Typed, Phases
  <1>2. CASE ~(garbage /\ Ready(registered', busySessions'))
    <2>1. dirty' = garbage /\ UNCHANGED <<collecting, collector, sweep, swept>>
      BY <1>2 DEF StartIfReady, collection
    <2> QED
      BY <2>1, NobodyAssumption DEF OneSweep, Typed
  <1> QED
    BY <1>1, <1>2

(* An entry that the step of a registration of another key does not touch. *)
LEMMA OtherEntry ==
    ASSUME Typed, NEW r \in Runtimes, NEW to, NEW k \in Keys, k # key[r], EntryOf(k),
           Goto(r, to), key' = key, worlds'[k] = worlds[k],
           clients'[k] = clients[k], views'[k] = views[k]
    PROVE  EntryOf(k)'
  <1>1. /\ Inside(Retained, k)' = Inside(Retained, k)
        /\ Inside(Viewed, k)' = Inside(Viewed, k)
        /\ Inside(Retained \cup {"retain"}, k)' = Inside(Retained \cup {"retain"}, k)
    <2>1. ASSUME NEW P PROVE Members(pc', key, P, k) = Members(pc, key, P, k)
      BY MoveCount
    <2> QED
      BY <2>1 DEF Inside
  <1> QED
    BY <1>1 DEF EntryOf

(* release_world_state takes the leaver out of the entry, and the entry    *)
(* away with the last.                                                     *)
LEMMA ReleaseWorldKeeps ==
    ASSUME Typed, Entries, ~poisoned, NEW r \in Runtimes, NEW to,
           pc[r] \in Retained, to \notin Retained \cup {"retain"},
           Goto(r, to), key' = key, ReleaseWorld(key[r]),
           \A k \in Keys : views'[k] = Cardinality(Inside(Viewed, k))'
    PROVE  /\ worlds' \in [Keys -> Worlds \cup {NoWorld}]
           /\ clients' \in [Keys -> Nat]
           /\ \A k \in Keys : EntryOf(k)'
  <1> DEFINE e == key[r]
  <1>1. e \in Keys /\ EntryOf(e) /\ clients[e] \in Nat
    BY DEF Typed, Entries
  <1>2. r \in Inside(Retained, e)
    BY DEF Inside, Members
  <1>3. clients[e] >= 1 /\ worlds[e] # NoWorld
    BY <1>1, <1>2, CountedIn DEF EntryOf
  <1>4. /\ clients' = [clients EXCEPT ![e] = clients[e] - 1]
        /\ worlds' = IF clients[e] = 1 THEN [worlds EXCEPT ![e] = NoWorld] ELSE worlds
    BY <1>1, <1>3 DEF ReleaseWorld, LastClient
  <1>5. worlds' \in [Keys -> Worlds \cup {NoWorld}] /\ clients' \in [Keys -> Nat]
    BY <1>1, <1>3, <1>4 DEF Typed
  <1>6. EntryOf(e)'
    <2>1. Cardinality(Inside(Retained, e)') = clients[e] - 1
      <3>1. Cardinality(Inside(Retained, e)') = Cardinality(Inside(Retained, e)) - 1
        <4>1. to \notin Retained
          OBVIOUS
        <4> QED
          BY <4>1, MoveCount DEF Inside
      <3> QED
        BY <1>1, <3>1 DEF EntryOf
    <2>2. clients'[e] = clients[e] - 1 /\ views'[e] = Cardinality(Inside(Viewed, e)')
      BY <1>1, <1>4 DEF Typed
    <2>3. CASE clients[e] = 1
      <3>1. worlds'[e] = NoWorld
        BY <1>1, <1>4, <2>3 DEF Typed
      <3> QED
        BY <2>1, <2>2, <2>3, <3>1 DEF EntryOf
    <2>4. CASE clients[e] # 1
      <3>1. Inside(Retained, e)' # {}
        <4>1. clients[e] - 1 # 0 /\ Cardinality({}) = 0
          BY <1>1, <1>3, <2>4, FS_EmptySet
        <4> QED
          BY <2>1, <4>1
      <3>2. Inside(Retained \cup {"retain"}, e)' # {}
        BY <3>1 DEF Inside, Members
      <3>3. worlds'[e] # NoWorld
        BY <1>3, <1>4, <2>4
      <3> QED
        BY <2>1, <2>2, <3>2, <3>3 DEF EntryOf
    <2> QED
      BY <2>3, <2>4
  <1>7. ASSUME NEW k \in Keys, k # e PROVE EntryOf(k)'
    <2>1. EntryOf(k)
      BY DEF Entries
    <2>2. worlds'[k] = worlds[k] /\ clients'[k] = clients[k]
      BY <1>1, <1>4, <1>7 DEF Typed
    <2>3. /\ Inside(Retained, k)' = Inside(Retained, k)
          /\ Inside(Retained \cup {"retain"}, k)' = Inside(Retained \cup {"retain"}, k)
      BY <1>7, MoveCount DEF Inside
    <2> QED
      BY <2>1, <2>2, <2>3 DEF EntryOf
  <1> QED
    BY <1>5, <1>6, <1>7

-----------------------------------------------------------------------------
(* Each action keeps the invariant.                                        *)

(* Nobody is registered, and every count is of nobody.                     *)
LEMMA InitInv == Init => IInv
  <1> SUFFICES ASSUME Init PROVE IInv
    OBVIOUS
  <1>1. Cardinality({}) = 0
    BY FS_EmptySet
  <1>2. Typed
    <2>1. panics \in 0..MaxPanics
      BY PanicsAssumption DEF Init
    <2>2. "idle" \in Locations /\ "none" \in Phases
      BY DEF Locations, Phases
    <2> QED
      BY <2>1, <2>2 DEF Init, Typed
  <1>3. Holding /\ OneSweep /\ Locks
    BY NobodyAssumption DEF Init, Holding, OneSweep, Locks
  <1>4. Entries
    <2>1. ASSUME NEW k \in Keys
          PROVE  Inside(Retained, k) = {} /\ Inside(Viewed, k) = {}
      BY DEF Init, Inside, Members, Retained, Viewed
    <2>2. ASSUME NEW k \in Keys PROVE clients[k] = 0 /\ views[k] = 0 /\ worlds[k] = NoWorld
      BY DEF Init
    <2> QED
      BY <1>1, <2>1, <2>2 DEF Entries, EntryOf
  <1>5. GcCounts
    <2>1. {r \in Runtimes : pc[r] \in Counted} = {} /\ Busy = {}
      BY DEF Init, Counted, Busy
    <2> QED
      BY <1>1, <2>1 DEF Init, GcCounts, Count
  <1> QED
    BY <1>2, <1>3, <1>4, <1>5 DEF IInv

(* The next daemon starts as the first one did.                            *)
LEMMA AbortStep ==
    ASSUME IInv, Abort, panics' \in 0..MaxPanics
    PROVE  IInv'
  <1> USE DEF Abort
  <1>1. Cardinality({}) = 0
    BY FS_EmptySet
  <1>2. Typed'
    BY DEF IInv, Typed, Locations, Phases
  <1>3. Holding' /\ OneSweep' /\ Locks'
    BY NobodyAssumption DEF Holding, OneSweep, Locks
  <1>4. Entries'
    <2>1. ASSUME NEW k \in Keys
          PROVE  Inside(Retained, k)' = {} /\ Inside(Viewed, k)' = {}
      BY DEF Inside, Members, Retained, Viewed
    <2> QED
      BY <1>1, <2>1 DEF Entries, EntryOf
  <1>5. GcCounts'
    <2>1. {r \in Runtimes : pc'[r] \in Counted} = {} /\ Busy' = {}
      BY DEF Counted, Busy
    <2> QED
      BY <1>1, <2>1 DEF GcCounts, Count
  <1> QED
    BY <1>2, <1>3, <1>4, <1>5 DEF IInv

(* A step that changes nothing.                                            *)
LEMMA Stutter ==
    ASSUME IInv, UNCHANGED vars
    PROVE  IInv'
  BY EntriesFrame, GcCountsFrame
  DEF IInv, Typed, Holding, OneSweep, Locks, vars, registry, locks, gc, collection, runtime,
      outside

(* Panics are counted up to their bound.                                   *)
LEMMA PanicIsCounted ==
    ASSUME Typed, Panics
    PROVE  panics' \in 0..MaxPanics
  BY PanicsAssumption DEF Typed, Panics

(* Who finds no entry inserts one, and is the reason for it to be there.   *)
LEMMA WorldStep ==
    ASSUME IInv, NEW r \in Runtimes, World(r)
    PROVE  IInv'
  <1>p. CASE poisoned
    BY <1>p, Stutter DEF World, vars, registry, locks, runtime, outside
  <1>n. SUFFICES ASSUME ~poisoned PROVE IInv'
    BY <1>p
  <1> USE <1>n DEF IInv, World, At
  <1> DEFINE e == key[r]
  <1>1. e \in Keys /\ uses[r] = NoWorld
    BY DEF Typed, Holding
  <1>2. /\ worlds' \in [Keys -> Worlds \cup {NoWorld}]
        /\ worlds'[e] \in Worlds
        /\ \A k \in Keys : worlds[k] # NoWorld \/ k # e => worlds'[k] = worlds[k]
    <2>1. CASE worlds[e] # NoWorld
      BY <1>1, <2>1 DEF Typed
    <2>2. CASE worlds[e] = NoWorld
      <3>1. (CHOOSE w \in Worlds : Unused(w)) \in Worlds
        BY <1>1, <2>2, WorldForKey
      <3> QED
        BY <1>1, <2>2, <3>1 DEF Typed
    <2> QED
      BY <2>1, <2>2
  <1>3. Typed'
    <2>1. broken' \subseteq Worlds
      BY DEF Typed
    <2> QED
      BY <1>1, <1>2, <2>1 DEF Typed, Locations, gc, outside, collection, Goto
  <1>4. Holding'
    <2>1. ~busy'[r] /\ pc'[r] = "retain"
      BY DEF Typed, Holding, Counted, Goto
    <2>3. uses'[r] = worlds'[e]
      BY DEF Typed
    <2>4. worlds'[e] # NoWorld
      BY <1>2, NobodyAssumption
    <2>2. \A q \in Runtimes \ {r} : uses'[q] = uses[q] /\ pc'[q] = pc[q] /\ busy'[q] = busy[q]
      BY DEF Typed, Goto
    <2> QED
      BY <2>1, <2>2, <2>3, <2>4 DEF Holding
  <1>5. Entries'
    <2> SUFFICES ASSUME NEW k \in Keys PROVE EntryOf(k)'
      BY DEF Entries
    <2>1. EntryOf(k)
      BY DEF Entries
    <2>2. CASE k = e
      <3>1. Inside(Retained, k)' = Inside(Retained, k) /\ Inside(Viewed, k)' = Inside(Viewed, k)
        <4>1. /\ pc[r] \notin Retained /\ "retain" \notin Retained
              /\ pc[r] \notin Viewed /\ "retain" \notin Viewed
          BY DEF Retained, Viewed
        <4> QED
          BY <4>1, MoveCount DEF Inside
      <3>2. r \in Inside(Retained \cup {"retain"}, k)'
        BY <2>2 DEF Inside, Members, Typed, Goto
      <3>3. worlds'[k] # NoWorld
        BY <1>2, <2>2, NobodyAssumption
      <3> QED
        BY <2>1, <3>1, <3>2, <3>3 DEF EntryOf
    <2>3. CASE k # e
      BY <1>2, <2>1, <2>3, OtherEntry
    <2> QED
      BY <2>2, <2>3
  <1>6. GcCounts'
    BY GcCountsKept DEF Counted, gc
  <1>7. OneSweep' /\ Locks'
    BY OneSweepKept, LocksKept DEF gc, collection, Typed
  <1> QED
    BY <1>3, <1>4, <1>5, <1>6, <1>7

(* The finder is counted; if the entry has gone the mutex is poisoned and  *)
(* no longer anything said of the entries.                                 *)
LEMMA RetainStep ==
    ASSUME IInv, NEW r \in Runtimes, Retain(r)
    PROVE  IInv'
  <1> USE DEF IInv, Retain, At
  <1> DEFINE e == key[r]
             to == IF ~poisoned /\ ~EntryGone(r) THEN "load" ELSE "idle"
  <1>1. e \in Keys /\ Goto(r, to) /\ key' = key
    BY DEF Typed, Abandon, Lose, runtime, Goto
  <1>2. Typed'
    <2>1. clients' \in [Keys -> Nat]
      BY <1>1 DEF Typed
    <2>2. pc' \in [Runtimes -> Locations] /\ uses' \in [Runtimes -> Worlds \cup {NoWorld}]
      BY <1>1 DEF Typed, Locations, Retained, Abandon, Lose, runtime, Goto
    <2> QED
      BY <2>1, <2>2 DEF Typed, Abandon, Lose, runtime, locks, gc, outside, collection
  <1>3. Holding'
    BY DEF Typed, Holding, Counted, Abandon, Lose, runtime, Goto
  <1>4. Entries'
    <2>1. CASE poisoned \/ EntryGone(r)
      BY <2>1 DEF Entries
    <2>2. CASE ~poisoned /\ ~EntryGone(r)
      <3> SUFFICES ASSUME NEW k \in Keys PROVE EntryOf(k)'
        BY DEF Entries
      <3>1. EntryOf(k)
        BY <2>2 DEF Entries
      <3>2. CASE k = e
        <4>1. Cardinality(Inside(Retained, k)') = Cardinality(Inside(Retained, k)) + 1
          <5>1. pc[r] \notin Retained /\ to \in Retained
            BY <2>2 DEF Retained
          <5> QED
            BY <1>1, <3>2, <5>1, MoveCount DEF Inside
        <4>2. Inside(Viewed, k)' = Inside(Viewed, k)
          <5>1. pc[r] \notin Viewed /\ to \notin Viewed
            BY <2>2 DEF Viewed
          <5> QED
            BY <1>1, <5>1, MoveCount DEF Inside
        <4>3. r \in Inside(Retained \cup {"retain"}, k)'
          BY <1>1, <2>2, <3>2 DEF Inside, Members, Retained, Typed, Goto
        <4>4. worlds'[k] # NoWorld /\ clients'[k] = clients[k] + 1 /\ views'[k] = views[k]
          BY <2>2, <3>2 DEF EntryGone, Typed
        <4> QED
          BY <3>1, <4>1, <4>2, <4>3, <4>4 DEF EntryOf
      <3>3. CASE k # e
        <4>1. worlds'[k] = worlds[k] /\ clients'[k] = clients[k] /\ views'[k] = views[k]
          BY <2>2, <3>3 DEF Typed
        <4> QED
          BY <1>1, <3>1, <3>3, <4>1, OtherEntry
      <3> QED
        BY <3>2, <3>3
    <2> QED
      BY <2>1, <2>2
  <1>5. GcCounts'
    BY <1>1, GcCountsKept DEF Counted, gc, Abandon, Lose, runtime
  <1>6. OneSweep' /\ Locks'
    BY <1>1, OneSweepKept, LocksKept DEF locks, gc, collection, Typed, Abandon, Lose, runtime
  <1> QED
    BY <1>2, <1>3, <1>4, <1>5, <1>6

(* A session takes its world, ...                                          *)
LEMMA WorldTaken ==
    ASSUME Typed, Holding, OneSweep, Locks, NEW r \in Runtimes, NEW to \in {"commit", "edit"},
           Goto(r, to), pc[r] \in {"load", "live"}, WorldFree(uses[r]),
           worldLock' = [worldLock EXCEPT ![uses[r]] = r],
           UNCHANGED <<swept, collector, uses>>
    PROVE  worldLock' \in [Worlds -> Runtimes \cup {NoRuntime}] /\ Locks'
  <1> DEFINE u == uses[r]
  <1>1. u \in Worlds /\ worldLock[u] = NoRuntime
    BY DEF Typed, Holding, WorldFree
  <1>2. u \notin swept
    BY <1>1, NobodyAssumption DEF Typed, OneSweep, Locks
  <1>3. worldLock'[u] = r /\ \A w \in Worlds \ {u} : worldLock'[w] = worldLock[w]
    BY <1>1 DEF Typed
  <1>4. pc'[r] = to /\ \A q \in Runtimes \ {r} : pc'[q] = pc[q]
    BY DEF Typed, Goto
  <1>5. \A q \in Runtimes \ {r} : pc[q] \in {"commit", "edit"} => uses[q] # u
    BY <1>1, NobodyAssumption DEF Locks
  <1>6. \A q \in Runtimes \ {r} : pc[q] \in {"commit", "edit"} => uses[q] \in Worlds
    BY DEF Typed, Holding
  <1>7. \A w \in Worlds : worldLock[w] # NoRuntime => worldLock[w] \in Runtimes
    BY DEF Typed
  <1>8. \A w \in Worlds \ swept : worldLock[w] # r
    BY NobodyAssumption DEF Typed, Locks
  <1> HIDE DEF u
  <1>9. Locks'
    <2>1. \A w \in swept' : worldLock'[w] = collector'
      BY <1>2, <1>3 DEF Typed, Locks
    <2>2. \A w \in Worlds \ swept' : worldLock'[w] # NoRuntime =>
             pc'[worldLock'[w]] \in {"commit", "edit"} /\ uses'[worldLock'[w]] = w
      BY <1>3, <1>4, <1>7, <1>8 DEF Locks, u
    <2>3. \A q \in Runtimes : pc'[q] \in {"commit", "edit"} => worldLock'[uses'[q]] = q
      BY <1>3, <1>4, <1>5, <1>6 DEF Locks, u
    <2> QED
      BY <2>1, <2>2, <2>3 DEF Locks
  <1> QED
    BY <1>9 DEF Typed

(* ... and lets it go.                                                     *)
LEMMA WorldLeft ==
    ASSUME Typed, Holding, Locks, NEW r \in Runtimes, NEW to,
           to \notin {"commit", "edit"}, collector # r,
           Goto(r, to), pc[r] \in {"commit", "edit"},
           worldLock' = [worldLock EXCEPT ![uses[r]] = NoRuntime],
           UNCHANGED <<swept, collector>>,
           \A q \in Runtimes \ {r} : uses'[q] = uses[q]
    PROVE  worldLock' \in [Worlds -> Runtimes \cup {NoRuntime}] /\ Locks'
  <1> DEFINE u == uses[r]
  <1>1. u \in Worlds /\ worldLock[u] = r /\ u \notin swept
    BY DEF Typed, Holding, Locks
  <1>2. worldLock'[u] = NoRuntime /\ \A w \in Worlds \ {u} : worldLock'[w] = worldLock[w]
    BY <1>1 DEF Typed
  <1>3. pc'[r] = to /\ \A q \in Runtimes \ {r} : pc'[q] = pc[q]
    BY DEF Typed, Goto
  <1>4. \A q \in Runtimes \ {r} : pc[q] \in {"commit", "edit"} => uses[q] \in Worlds \ {u}
    BY <1>1 DEF Typed, Holding, Locks
  <1>5. \A w \in Worlds \ (swept \cup {u}) : worldLock[w] # r
    BY NobodyAssumption DEF Typed, Locks
  <1>6. \A w \in Worlds : worldLock[w] # NoRuntime => worldLock[w] \in Runtimes
    BY DEF Typed
  <1> HIDE DEF u
  <1>7. Locks'
    <2>1. \A w \in swept' : worldLock'[w] = collector'
      BY <1>1, <1>2 DEF Typed, Locks
    <2>2. \A w \in Worlds \ swept' : worldLock'[w] # NoRuntime =>
             pc'[worldLock'[w]] \in {"commit", "edit"} /\ uses'[worldLock'[w]] = w
      BY <1>2, <1>3, <1>5, <1>6 DEF Locks
    <2>3. \A q \in Runtimes : pc'[q] \in {"commit", "edit"} => worldLock'[uses'[q]] = q
      BY <1>2, <1>3, <1>4 DEF Locks
    <2> QED
      BY <2>1, <2>2, <2>3 DEF Locks
  <1> QED
    BY <1>7 DEF Typed

(* A registration that stays counted where it is, with its world or having *)
(* lost it, and with no world locked before or after.                      *)
LEMMA StaysCounted ==
    ASSUME IInv, NEW r \in Runtimes, NEW to \in Locations, collector # r, pc[r] # "retain",
           Goto(r, to), UNCHANGED <<key, busy>>,
           pc[r] \in Retained <=> to \in Retained, pc[r] \in Viewed <=> to \in Viewed,
           pc[r] \in Counted <=> to \in Counted, pc[r] \notin {"idle", "unwound", "lost"},
           \/ to \notin {"idle", "unwound", "lost"} /\ uses' = uses
           \/ /\ to \in {"unwound", "lost"} /\ UNCHANGED unwinding
              /\ uses' = [uses EXCEPT ![r] = NoWorld],
           unwinding' \subseteq Runtimes,
           UNCHANGED <<registry, registered, busySessions, collecting, gcUnderLoad, collection>>,
           worldLock' \in [Worlds -> Runtimes \cup {NoRuntime}], Locks',
           broken' \subseteq Worlds, dirty' \in BOOLEAN, panics' \in 0..MaxPanics
    PROVE  IInv'
  <1> USE DEF IInv
  <1>1. Typed'
    BY DEF Typed, Goto, registry, collection
  <1>2. Holding'
    <2>1. /\ pc'[r] = to /\ uses[r] # NoWorld
          /\ uses'[r] = NoWorld <=> to \in {"idle", "unwound", "lost"}
      BY NobodyAssumption DEF Typed, Holding, Goto
    <2>2. \A q \in Runtimes \ {r} : uses'[q] = uses[q] /\ pc'[q] = pc[q]
      BY DEF Typed, Goto
    <2> QED
      BY <2>1, <2>2 DEF Holding
  <1>3. Entries' /\ GcCounts' /\ OneSweep'
    BY EntriesKept, GcCountsKept, OneSweepKept
  <1> QED
    BY <1>1, <1>2, <1>3

(* The world that is taken was free, so that no collector has swept it.    *)
LEMMA LoadStep ==
    ASSUME IInv, NEW r \in Runtimes, Load(r)
    PROVE  IInv'
  <1> USE DEF IInv, At
  <1> DEFINE places == {"load", "commit", "release", "unwound"}
  <1>1. /\ pc[r] = "load" /\ collector # r
        /\ places \subseteq Locations \cap Retained
        /\ places \cap Viewed = {} /\ places \cap Counted = {}
    BY DEF Load, Locations, Retained, Viewed, Counted
  <1>2. CASE /\ WorldFree(uses[r]) /\ Goto(r, "commit")
             /\ worldLock' = [worldLock EXCEPT ![uses[r]] = r]
             /\ UNCHANGED <<runtime, panics>>
    <2>1. worldLock' \in [Worlds -> Runtimes \cup {NoRuntime}] /\ Locks'
      BY <1>1, <1>2, WorldTaken DEF Load, collection, runtime
    <2> QED
      BY <1>1, <1>2, <2>1, StaysCounted DEF Load, Typed, gc, runtime
  <1>3. CASE Goto(r, "release") /\ UNCHANGED <<worldLock, runtime, panics>>
    <2>1. Locks'
      BY <1>1, <1>3, LocksKept DEF Load, collection, runtime
    <2> QED
      BY <1>1, <1>3, <2>1, StaysCounted DEF Load, Typed, gc, runtime
  <1>4. CASE Panics /\ Lose(r, "unwound") /\ UNCHANGED worldLock
    <2>1. Locks'
      BY <1>1, <1>4, LocksKept DEF Load, Lose, Typed, collection
    <2>2. panics' \in 0..MaxPanics
      BY <1>4, PanicIsCounted
    <2> QED
      BY <1>1, <1>4, <2>1, <2>2, StaysCounted DEF Load, Lose, Typed, gc
  <1> QED
    BY <1>2, <1>3, <1>4 DEF Load

(* The world that is let go was the session's own; a leader that panics    *)
(* has it no longer, and is counted still.                                 *)
LEMMA CommitStep ==
    ASSUME IInv, NEW r \in Runtimes, Commit(r)
    PROVE  IInv'
  <1> USE DEF IInv, At
  <1> DEFINE places == {"commit", "view", "release", "unwound"}
  <1>1. /\ pc[r] = "commit" /\ collector # r /\ uses[r] \in Worlds
        /\ places \subseteq Locations \cap Retained
        /\ places \cap Viewed = {} /\ places \cap Counted = {}
    BY DEF Commit, Locations, Retained, Viewed, Counted, Typed, Holding
  <1>2. PICK to \in {"view", "release", "unwound"} :
           /\ Goto(r, to)
           /\ \/ to # "unwound" /\ UNCHANGED <<broken, runtime, panics>> /\ dirty' \in {dirty, TRUE}
              \/ to = "unwound" /\ Breaks(r) /\ Lose(r, to) /\ UNCHANGED dirty
    BY DEF Commit, Lose
  <1>3. /\ \A q \in Runtimes \ {r} : uses'[q] = uses[q]
        /\ broken' \subseteq Worlds /\ panics' \in 0..MaxPanics /\ dirty' \in BOOLEAN
    BY <1>1, <1>2, PanicIsCounted DEF Typed, Breaks, Lose, runtime
  <1>4. worldLock' \in [Worlds -> Runtimes \cup {NoRuntime}] /\ Locks'
    BY <1>1, <1>2, <1>3, WorldLeft DEF Commit, collection
  <1>5. /\ UNCHANGED <<key, busy, unwinding>>
        /\ \/ to \notin {"idle", "unwound", "lost"} /\ uses' = uses
           \/ to \in {"unwound", "lost"} /\ uses' = [uses EXCEPT ![r] = NoWorld]
    BY <1>2 DEF Lose, runtime
  <1> QED
    BY <1>1, <1>2, <1>3, <1>4, <1>5, StaysCounted DEF Commit, Typed

(* The registration is counted in the view as well.                        *)
LEMMA AddViewStep ==
    ASSUME IInv, NEW r \in Runtimes, AddView(r)
    PROVE  IInv'
  <1> USE DEF IInv, At
  <1> DEFINE to == IF poisoned THEN "release" ELSE "gc"
  <1>1. Goto(r, to) /\ key' = key /\ key[r] \in Keys
    BY DEF Typed, AddView, runtime
  <1>2. Typed'
    BY <1>1
    DEF Typed, AddView, Goto, Locations, Retained, locks, gc, outside, collection, runtime
  <1>3. Holding'
    BY <1>1 DEF Typed, Holding, AddView, Goto, Counted, runtime
  <1>4. Entries'
    <2> SUFFICES ASSUME ~poisoned, NEW k \in Keys PROVE EntryOf(k)'
      BY DEF Entries, AddView
    <2>1. EntryOf(k)
      BY DEF Entries
    <2>2. CASE k = key[r]
      <3>1. pc[r] \in Retained /\ to \in Retained /\ pc[r] \notin Viewed /\ to \in Viewed
        BY DEF AddView, Retained, Viewed
      <3>2. Cardinality(Inside(Viewed, k)') = Cardinality(Inside(Viewed, k)) + 1
        BY <1>1, <2>2, <3>1, MoveCount DEF Inside
      <3>3. /\ Inside(Retained, k)' = Inside(Retained, k)
            /\ Inside(Retained \cup {"retain"}, k)' = Inside(Retained \cup {"retain"}, k)
        <4>1. pc[r] \in Retained \cup {"retain"} /\ to \in Retained \cup {"retain"}
          BY <3>1
        <4> QED
          BY <1>1, <3>1, <4>1, MoveCount DEF Inside
      <3>4. UNCHANGED <<worlds, clients>> /\ views'[k] = views[k] + 1
        BY <2>2 DEF Typed, AddView
      <3> QED
        BY <2>1, <3>2, <3>3, <3>4 DEF EntryOf
    <2>3. CASE k # key[r]
      <3>1. UNCHANGED <<worlds, clients>> /\ views'[k] = views[k]
        BY <2>3 DEF Typed, AddView
      <3> QED
        BY <1>1, <2>1, <2>3, <3>1, OtherEntry
    <2> QED
      BY <2>2, <2>3
  <1>5. pc[r] \notin Counted /\ to \notin Counted /\ pc[r] \notin {"commit", "edit"}
        /\ to \notin {"commit", "edit"}
    BY DEF AddView, Counted
  <1>6. GcCounts' /\ OneSweep' /\ Locks'
    BY <1>1, <1>5, GcCountsKept, OneSweepKept, LocksKept DEF AddView, locks, gc, runtime, collection
  <1> QED
    BY <1>2, <1>3, <1>4, <1>6

(* A registration that fails leaves the entry, and nothing else.           *)
LEMMA ReleaseStep ==
    ASSUME IInv, NEW r \in Runtimes, Release(r)
    PROVE  IInv'
  <1> USE DEF IInv, At
  <1>1. Goto(r, "idle") /\ key' = key /\ busy' = busy /\ poisoned' = poisoned
    BY DEF Release, Abandon, Lose
  <1>2. /\ pc[r] \in Retained /\ "idle" \notin Retained \cup {"retain"}
        /\ pc[r] \notin Viewed /\ "idle" \notin Viewed
        /\ pc[r] \notin Counted /\ "idle" \notin Counted
    BY DEF Release, Retained, Viewed, Counted
  <1>3. /\ Entries'
        /\ worlds' \in [Keys -> Worlds \cup {NoWorld}] /\ clients' \in [Keys -> Nat]
    <2>1. CASE poisoned
      BY <1>1, <2>1 DEF Release, Entries, Typed
    <2>2. CASE ~poisoned
      <3>1. \A k \in Keys : views'[k] = Cardinality(Inside(Viewed, k))'
        <4>1. \A k \in Keys : Inside(Viewed, k)' = Inside(Viewed, k)
          BY <1>1, <1>2, MoveCount DEF Inside
        <4>2. \A k \in Keys : views[k] = Cardinality(Inside(Viewed, k))
          BY <2>2 DEF Entries, EntryOf
        <4> QED
          BY <4>1, <4>2 DEF Release
      <3>2. ReleaseWorld(key[r])
        BY <2>2 DEF Release
      <3> QED
        BY <1>1, <1>2, <2>2, <3>1, <3>2, ReleaseWorldKeeps DEF Entries
    <2> QED
      BY <2>1, <2>2
  <1>4. Typed'
    BY <1>1, <1>3 DEF Typed, Release, Abandon, Lose, Goto, Locations, gc, locks, outside, collection
  <1>5. Holding'
    BY <1>1, <1>2 DEF Typed, Holding, Release, Abandon, Lose, Goto
  <1>6. GcCounts' /\ OneSweep' /\ Locks'
    BY <1>1, <1>2, GcCountsKept, OneSweepKept, LocksKept
    DEF Typed, Release, Abandon, Lose, locks, gc, collection
  <1> QED
    BY <1>3, <1>4, <1>5, <1>6

(* Both of the collector's counts go up, as the runtime was not busy.      *)
LEMMA GcRegisterStep ==
    ASSUME IInv, NEW r \in Runtimes, GcRegister(r)
    PROVE  IInv'
  <1> USE DEF IInv, At
  <1>1. Goto(r, "attach") /\ key' = key /\ uses' = uses
    BY DEF GcRegister
  <1>2. /\ pc[r] \in Retained /\ "attach" \in Retained
        /\ pc[r] \in Viewed /\ "attach" \in Viewed
        /\ pc[r] \notin Counted /\ "attach" \in Counted
    BY DEF GcRegister, Retained, Viewed, Counted
  <1>3. Typed'
    BY <1>1
    DEF Typed, GcRegister, Goto, Locations, Retained, registry, locks, outside, collection
  <1>4. Holding'
    BY <1>1, <1>2 DEF Typed, Holding, GcRegister, Goto
  <1>5. Entries'
    BY <1>1, <1>2, EntriesKept DEF GcRegister
  <1>6. GcCounts'
    <2>1. Count(Counted)' = Count(Counted) + 1
      BY <1>1, <1>2, MoveCounted
    <2>2. ~busy[r] /\ Cardinality(Busy)' = Cardinality(Busy) + 1
      BY <1>2, BusyCount DEF GcRegister, Holding, Typed
    <2> QED
      BY <2>1, <2>2 DEF GcRegister, GcCounts
  <1>7. OneSweep' /\ Locks'
    BY <1>1, OneSweepKept, LocksKept DEF GcRegister, locks, collection
  <1> QED
    BY <1>3, <1>4, <1>5, <1>6, <1>7

(* The registration stays counted everywhere, also when it panics.         *)
LEMMA AttachStep ==
    ASSUME IInv, NEW r \in Runtimes, Attach(r)
    PROVE  IInv'
  <1> USE DEF IInv, At
  <1>1. PICK to \in {"live", "lost"} :
           /\ Goto(r, to) /\ UNCHANGED <<key, busy, unwinding>>
           /\ \/ to = "live" /\ uses' = uses
              \/ to = "lost" /\ uses' = [uses EXCEPT ![r] = NoWorld]
    BY DEF Attach, Lose, runtime
  <1>2. /\ pc[r] = "attach" /\ collector # r
        /\ {"attach", "live", "lost"} \subseteq Locations \cap Retained \cap Viewed \cap Counted
    BY DEF Attach, Locations, Retained, Viewed, Counted
  <1>3. Locks'
    BY <1>1, <1>2, LocksKept DEF Attach, Typed, locks, collection
  <1> QED
    BY <1>1, <1>2, <1>3, StaysCounted DEF Attach, Typed, locks, gc, outside

(* An action of the collector's mutex by a live session that stays.        *)
LEMMA StaysLive ==
    ASSUME Typed, Entries, Locks, NEW r \in Runtimes, pc[r] = "live",
           UNCHANGED <<registry, worldLock, swept, pc, key, uses>>,
           swept # {} => collector' = collector
    PROVE  Entries' /\ Locks'
  <1>1. Goto(r, "live")
    BY DEF Typed, Goto
  <1> QED
    BY <1>1, EntriesFrame, LocksKept

(* The count moves by one because the flag does change; the session may    *)
(* become the collector.                                                   *)
LEMMA SetBusyStep ==
    ASSUME IInv, NEW r \in Runtimes, NEW b \in BOOLEAN, SetBusy(r, b)
    PROVE  IInv'
  <1> USE DEF IInv, At, SetBusy
  <1>1. /\ Cardinality(Busy) \in Nat
        /\ b => Cardinality(Busy)' = Cardinality(Busy) + 1
        /\ ~b => Cardinality(Busy)' = Cardinality(Busy) - 1
    BY BusyCount DEF Unchanged, Typed
  <1>2. Cardinality(Busy)' \in Nat
    <2>1. IsFiniteSet(Busy')
      BY WorldsAssumption, FS_Subset DEF Busy
    <2> QED
      BY <2>1, FS_CardinalityType
  <1>3. GcCounts' /\ busySessions' \in Nat /\ registered' \in Nat
    BY <1>1, <1>2 DEF GcCounts, Count, Typed
  <1>4. /\ dirty' \in BOOLEAN /\ collecting' \in BOOLEAN
        /\ collector' \in Runtimes \cup {NoRuntime} /\ sweep' \in Phases
        /\ swept' = swept /\ OneSweep' /\ (swept # {} => collector' = collector)
    BY <1>3, StartIfReadyKeeps DEF Typed
  <1>5. Typed'
    BY <1>3, <1>4 DEF Typed, registry, locks, outside
  <1>6. Holding'
    BY DEF Typed, Holding, Counted
  <1>7. Entries' /\ Locks'
    BY <1>4, StaysLive DEF locks
  <1> QED
    BY <1>3, <1>4, <1>5, <1>6, <1>7

(* The world is taken as in Load; a poisoned one drops the runtime.        *)
LEMMA EditStep ==
    ASSUME IInv, NEW r \in Runtimes, Edit(r)
    PROVE  IInv'
  <1> USE DEF IInv, At
  <1>1. PICK to \in {"edit", "drop"} :
           /\ Goto(r, to) /\ UNCHANGED <<key, uses, busy>>
           /\ unwinding' \in {unwinding, unwinding \cup {r}}
           /\ to = "edit" => worldLock' = [worldLock EXCEPT ![uses[r]] = r]
           /\ to = "drop" => UNCHANGED worldLock
    BY DEF Edit, Unwind, runtime
  <1>2. /\ pc[r] = "live" /\ collector # r
        /\ {"live", "edit", "drop"} \subseteq Locations \cap Retained \cap Viewed \cap Counted
    BY DEF Edit, Locations, Retained, Viewed, Counted
  <1>3. worldLock' \in [Worlds -> Runtimes \cup {NoRuntime}] /\ Locks'
    <2>1. CASE to = "edit"
      BY <1>1, <1>2, <2>1, WorldTaken DEF Edit, collection
    <2>2. CASE to = "drop"
      BY <1>1, <1>2, <2>2, LocksKept DEF Edit, Typed, collection
    <2> QED
      BY <2>1, <2>2
  <1> QED
    BY <1>1, <1>2, <1>3, StaysCounted DEF Edit, Typed, gc, outside

(* The world is let go as in Commit.                                       *)
LEMMA EditDoneStep ==
    ASSUME IInv, NEW r \in Runtimes, EditDone(r)
    PROVE  IInv'
  <1> USE DEF IInv, At
  <1>1. PICK to \in {"live", "drop"} :
           /\ Goto(r, to) /\ UNCHANGED <<key, uses, busy>>
           /\ unwinding' \in {unwinding, unwinding \cup {r}}
           /\ UNCHANGED <<broken, panics>> \/ Breaks(r)
    BY DEF EditDone, Unwind, runtime
  <1>2. /\ pc[r] = "edit" /\ collector # r /\ uses[r] \in Worlds
        /\ {"edit", "live", "drop"} \subseteq Locations \cap Retained \cap Viewed \cap Counted
    BY DEF EditDone, Locations, Retained, Viewed, Counted, Typed, Holding
  <1>3. broken' \subseteq Worlds /\ panics' \in 0..MaxPanics /\ dirty' \in BOOLEAN
    BY <1>1, <1>2, PanicIsCounted DEF EditDone, Typed, Breaks
  <1>4. worldLock' \in [Worlds -> Runtimes \cup {NoRuntime}] /\ Locks'
    BY <1>1, <1>2, WorldLeft DEF EditDone, collection
  <1> QED
    BY <1>1, <1>2, <1>3, <1>4, StaysCounted DEF EditDone, Typed

(* Nothing but the collector's own flags moves.                            *)
LEMMA RequestGcStep ==
    ASSUME IInv, NEW r \in Runtimes, RequestGc(r)
    PROVE  IInv'
  <1> USE DEF IInv, At, RequestGc
  <1>1. /\ dirty' \in BOOLEAN /\ collecting' \in BOOLEAN
        /\ collector' \in Runtimes \cup {NoRuntime} /\ sweep' \in Phases
        /\ swept' = swept /\ OneSweep' /\ (swept # {} => collector' = collector)
    BY StartIfReadyKeeps DEF Typed
  <1>2. Typed'
    BY <1>1 DEF Typed, registry, locks, outside, runtime
  <1>3. Holding' /\ GcCounts'
    BY GcCountsFrame DEF Holding, runtime
  <1>4. Entries' /\ Locks'
    BY <1>1, StaysLive DEF locks, runtime
  <1> QED
    BY <1>1, <1>2, <1>3, <1>4

(* The runtime is counted until it is unregistered, which a panic prevents *)
(* for good; one while a panic unwinds leaves nobody to be counted.        *)
LEMMA DropWorldStep ==
    ASSUME IInv, NEW r \in Runtimes, DropWorld(r)
    PROVE  IInv'
  <1> USE DEF IInv, At
  <1>1. CASE Panics /\ Abort
    BY <1>1, AbortStep, PanicIsCounted
  <1>2. ASSUME ~(Panics /\ Abort) PROVE IInv'
    <2>1. PICK to \in {"unregister", "lost"} :
             /\ Goto(r, to) /\ UNCHANGED <<key, busy, unwinding, worldLock>>
             /\ \/ to = "unregister" /\ UNCHANGED <<uses, broken, panics>>
                   /\ dirty' \in {dirty, TRUE}
                \/ to = "lost" /\ uses' = [uses EXCEPT ![r] = NoWorld] /\ Breaks(r)
                   /\ UNCHANGED dirty
             /\ UNCHANGED <<registry, registered, busySessions, collecting, gcUnderLoad,
                            collection>>
      BY <1>2 DEF DropWorld, ForgetSession, ForgetPanics, Lose, locks, gc, outside, runtime
    <2>2. /\ pc[r] \in {"live", "drop"} /\ collector # r /\ uses[r] \in Worlds
          /\ {"live", "drop", "unregister", "lost"}
                \subseteq Locations \cap Retained \cap Viewed \cap Counted
      BY DEF DropWorld, Locations, Retained, Viewed, Counted, Typed, Holding
    <2>3. broken' \subseteq Worlds /\ panics' \in 0..MaxPanics /\ dirty' \in BOOLEAN
      BY <2>1, <2>2, PanicIsCounted DEF Typed, Breaks
    <2>4. Locks'
      BY <2>1, <2>2, LocksKept DEF Typed, collection
    <2> QED
      BY <2>1, <2>2, <2>3, <2>4, StaysCounted DEF Typed
  <1> QED
    BY <1>1, <1>2

(* The leaver is one of those that the view and the entry count.           *)
LEMMA UnregisterStep ==
    ASSUME IInv, NEW r \in Runtimes, Unregister(r)
    PROVE  IInv'
  <1> USE DEF IInv, At
  <1>1. Goto(r, "ungc") /\ UNCHANGED <<key, uses, busy, unwinding, poisoned>> /\ key[r] \in Keys
    BY DEF Typed, Unregister, runtime
  <1>2. /\ pc[r] \in Retained /\ "ungc" \notin Retained \cup {"retain"}
        /\ pc[r] \in Viewed /\ "ungc" \notin Viewed
        /\ pc[r] \in Counted /\ "ungc" \in Counted
    BY DEF Unregister, Retained, Viewed, Counted
  <1>3. /\ Entries'
        /\ worlds' \in [Keys -> Worlds \cup {NoWorld}]
        /\ clients' \in [Keys -> Nat] /\ views' \in [Keys -> Nat]
    <2>1. CASE poisoned
      BY <1>1, <2>1 DEF Unregister, Entries, Typed
    <2>2. CASE ~poisoned
      <3>1. ReleaseWorld(key[r])
        BY <2>2 DEF Unregister
      <3>2. ASSUME NEW k \in Keys
            PROVE  views'[k] = Cardinality(Inside(Viewed, k))'
        <4>1. views[k] = Cardinality(Inside(Viewed, k))
          BY <2>2 DEF Entries, EntryOf
        <4>2. CASE k = key[r]
          <5>1. Cardinality(Inside(Viewed, k)') = Cardinality(Inside(Viewed, k)) - 1
            BY <1>1, <1>2, <4>2, MoveCount DEF Inside
          <5>2. r \in Inside(Viewed, k)
            BY <1>2, <4>2 DEF Inside, Members
          <5>3. Cardinality(Inside(Viewed, k)) >= 1
            BY <5>2, CountedIn
          <5>4. views'[k] = views[k] - 1
            BY <2>2, <4>1, <4>2, <5>3 DEF Unregister, Typed
          <5> QED
            BY <4>1, <5>1, <5>4
        <4>3. CASE k # key[r]
          <5>1. Inside(Viewed, k)' = Inside(Viewed, k)
            BY <1>1, <4>3, MoveCount DEF Inside
          <5>2. views'[k] = views[k]
            BY <2>2, <4>3 DEF Unregister, Typed
          <5> QED
            BY <4>1, <5>1, <5>2
        <4> QED
          BY <4>2, <4>3
      <3>3. views' \in [Keys -> Nat]
        BY <1>1, <2>2 DEF Unregister, Typed
      <3> QED
        BY <1>1, <1>2, <2>2, <3>1, <3>2, <3>3, ReleaseWorldKeeps DEF Entries
    <2> QED
      BY <2>1, <2>2
  <1>4. Typed'
    BY <1>1, <1>3
    DEF Typed, Unregister, Goto, Locations, Counted, locks, gc, outside, collection
  <1>5. Holding'
    BY <1>1, <1>2 DEF Typed, Holding, Unregister, Goto
  <1>6. GcCounts' /\ OneSweep' /\ Locks'
    BY <1>1, <1>2, GcCountsKept, OneSweepKept, LocksKept DEF Unregister, locks, gc, collection
  <1> QED
    BY <1>3, <1>4, <1>5, <1>6

(* The runtime is one of those registered, and of the busy ones if its     *)
(* flag is up: neither count is zero, and no guard against that is needed. *)
LEMMA GcUnregisterStep ==
    ASSUME IInv, NEW r \in Runtimes, GcUnregister(r)
    PROVE  IInv'
  <1> USE DEF IInv, At
  <1>1. /\ Goto(r, "idle") /\ key' = key /\ collector # r /\ pc[r] = "ungc"
        /\ uses' = [uses EXCEPT ![r] = NoWorld] /\ busy' = [busy EXCEPT ![r] = FALSE]
    BY DEF GcUnregister
  <1>2. /\ pc[r] \notin Retained /\ "idle" \notin Retained
        /\ pc[r] \notin Viewed /\ "idle" \notin Viewed
        /\ pc[r] \in Counted /\ "idle" \notin Counted
    BY <1>1 DEF Retained, Viewed, Counted
  <1>3. /\ Count(Counted) > 0 /\ Count(Counted) \in Nat
        /\ Count(Counted)' = Count(Counted) - 1
    BY <1>1, <1>2, MoveCounted
  <1>4. /\ Cardinality(Busy)' \in Nat
        /\ Cardinality(Busy)' = IF busy[r] THEN Cardinality(Busy) - 1 ELSE Cardinality(Busy)
    <2>1. IsFiniteSet(Busy')
      BY WorldsAssumption, FS_Subset DEF Busy
    <2>2. Cardinality(Busy)' \in Nat
      BY <2>1, FS_CardinalityType
    <2>3. busy[r] \in BOOLEAN
      BY DEF Typed
    <2> QED
      BY <1>1, <2>2, <2>3, BusyCount
  <1>5. GcCounts' /\ registered' \in Nat /\ busySessions' \in Nat
    BY <1>3, <1>4 DEF GcUnregister, GcCounts
  <1>6. /\ dirty' \in BOOLEAN /\ collecting' \in BOOLEAN
        /\ collector' \in Runtimes \cup {NoRuntime} /\ sweep' \in Phases
        /\ swept' = swept /\ OneSweep' /\ (swept # {} => collector' = collector)
    <2>1. dirty \in BOOLEAN /\ StartIfReady(r, dirty)
      BY DEF Typed, GcUnregister
    <2>2. pc'[r] = "idle" /\ \A q \in Runtimes \ {r} : pc'[q] = pc[q]
      BY <1>1 DEF Typed, Goto
    <2> QED
      BY <1>1, <1>5, <2>1, <2>2, StartIfReadyKeeps
  <1>7. Typed'
    BY <1>1, <1>5, <1>6 DEF Typed, GcUnregister, Goto, Locations, registry, locks, outside
  <1>8. Holding'
    BY <1>1, <1>2 DEF Typed, Holding, Goto
  <1>9. Entries' /\ Locks'
    BY <1>1, <1>2, <1>6, EntriesKept, LocksKept DEF GcUnregister, locks, Typed
  <1> QED
    BY <1>5, <1>6, <1>7, <1>8, <1>9

(* A collection that panics lets go what it has locked; its thread is no   *)
(* longer the collector, and drops its runtime.                            *)
LEMMA CollectionPanicsStep ==
    ASSUME IInv, NEW r \in Runtimes, collector = r, CollectionPanics(r),
           panics' \in 0..MaxPanics
    PROVE  IInv'
  <1> USE DEF IInv, CollectionPanics
  <1> DEFINE to == IF pc[r] = "live" THEN "drop" ELSE "idle"
  <1>1. pc[r] \in {"idle", "live"} /\ to \in {"idle", "drop"}
    BY NobodyAssumption DEF OneSweep
  <1>2. /\ Goto(r, to) /\ UNCHANGED <<key, uses, busy>>
        /\ unwinding' \in {unwinding, unwinding \cup {r}}
    BY <1>1 DEF Typed, Goto, Unwind, runtime
  <1>3. Typed'
    <2>1. worldLock' \in [Worlds -> Runtimes \cup {NoRuntime}] /\ broken' \subseteq Worlds
      BY DEF Typed
    <2>2. pc' \in [Runtimes -> Locations] /\ unwinding' \subseteq Runtimes
      BY <1>1, <1>2 DEF Typed, Goto, Locations, Retained
    <2> QED
      BY <1>2, <2>1, <2>2 DEF Typed, Phases, gc
  <1>4. Holding' /\ Entries'
    BY <1>1, <1>2 DEF Typed, Holding, Goto, Counted, Entries
  <1>5. GcCounts'
    <2>1. pc[r] \in Counted <=> to \in Counted
      BY <1>1 DEF Counted
    <2> QED
      BY <1>2, <2>1, GcCountsKept DEF gc
  <1>6. OneSweep'
    BY NobodyAssumption DEF OneSweep, gc
  <1>7. Locks'
    <2>1. pc'[r] \notin {"commit", "edit"} /\ \A q \in Runtimes \ {r} : pc'[q] = pc[q]
      BY <1>1, <1>2 DEF Typed, Goto
    <2>2. \A q \in Runtimes : pc[q] \in {"commit", "edit"} => uses[q] \in Worlds \ swept
      BY <1>1 DEF Typed, Holding, Locks
    <2>3. \A w \in Worlds : worldLock'[w] = IF w \in swept THEN NoRuntime ELSE worldLock[w]
      OBVIOUS
    <2>4. \A w \in Worlds \ swept : worldLock[w] # NoRuntime =>
             worldLock[w] \in Runtimes \ {r}
      BY <1>1 DEF Typed, Locks
    <2> QED
      BY <1>2, <2>1, <2>2, <2>3, <2>4 DEF Locks
  <1> QED
    BY <1>3, <1>4, <1>5, <1>6, <1>7

(* Either the registry is taken with no world swept yet, or it panics.     *)
LEMMA SweepBeginStep ==
    ASSUME IInv, NEW r \in Runtimes, SweepBegin(r)
    PROVE  IInv'
  <1> USE DEF IInv, SweepBegin
  <1>1. collector = r /\ swept = {}
    BY DEF OneSweep
  <1>2. CASE /\ sweep' = "lock"
             /\ UNCHANGED <<registry, locks, gc, outside, collector, swept, pc, runtime>>
    <2>1. Typed' /\ Holding'
      BY <1>2 DEF Typed, Holding, Phases, registry, locks, gc, outside, runtime
    <2>2. Entries' /\ GcCounts'
      BY <1>2, EntriesFrame, GcCountsFrame DEF gc, runtime
    <2>3. OneSweep' /\ Locks'
      BY <1>1, <1>2, NobodyAssumption DEF Typed, OneSweep, Locks, locks, gc, runtime
    <2> QED
      BY <2>1, <2>2, <2>3
  <1>3. CASE CollectorPanics(r) /\ UNCHANGED panics
    BY <1>1, <1>3, AbortStep, CollectionPanicsStep DEF CollectorPanics, Typed
  <1> QED
    BY <1>2, <1>3

(* The world that is swept was free, so that no session has it locked.     *)
LEMMA SweepWorldStep ==
    ASSUME IInv, NEW r \in Runtimes, SweepWorld(r)
    PROVE  IInv'
  <1> USE DEF IInv
  <1>p. CASE CollectorPanics(r) /\ UNCHANGED panics
    BY <1>p, AbortStep, CollectionPanicsStep DEF SweepWorld, CollectorPanics, Typed
  <1>n. SUFFICES ASSUME ~(CollectorPanics(r) /\ UNCHANGED panics) PROVE IInv'
    BY <1>p
  <1>1. PICK k \in Keys : /\ NextToSweep(k) /\ WorldFree(worlds[k])
                          /\ worldLock' = [worldLock EXCEPT ![worlds[k]] = r]
                          /\ swept' = swept \cup {worlds[k]}
                          /\ UNCHANGED <<registry, broken, gc, outside, collector, sweep, pc,
                                         runtime>>
    BY <1>n DEF SweepWorld
  <1> DEFINE v == worlds[k]
  <1>2. v \in Worlds /\ v \notin swept /\ worldLock[v] = NoRuntime
    BY <1>1 DEF Typed, NextToSweep, WorldFree
  <1>3. worldLock'[v] = r /\ \A w \in Worlds \ {v} : worldLock'[w] = worldLock[w]
    BY <1>1, <1>2 DEF Typed
  <1>4. UNCHANGED <<pc, key, uses, busy, collector, sweep>> /\ collector = r /\ sweep = "lock"
    BY <1>1 DEF SweepWorld, runtime
  <1>5. Typed' /\ Holding'
    BY <1>1, <1>2, <1>4 DEF Typed, Holding, registry, gc, outside, runtime
  <1>6. Entries' /\ GcCounts'
    BY <1>1, <1>4, EntriesFrame, GcCountsFrame DEF gc
  <1>7. OneSweep'
    BY <1>1, <1>4 DEF OneSweep, gc
  <1>8. Locks'
    <2>1. swept' = swept \cup {v}
      BY <1>1
    <2>2. \A q \in Runtimes : pc[q] \in {"commit", "edit"} => uses[q] \in Worlds \ {v}
      BY <1>2, NobodyAssumption DEF Typed, Holding, Locks
    <2> HIDE DEF v
    <2> QED
      BY <1>2, <1>3, <1>4, <2>1, <2>2 DEF Typed, Locks
  <1> QED
    BY <1>5, <1>6, <1>7, <1>8

(* The worlds that are unlocked are the collector's.                       *)
LEMMA SweepEndStep ==
    ASSUME IInv, NEW r \in Runtimes, SweepEnd(r)
    PROVE  IInv'
  <1> USE DEF IInv
  <1>p. CASE Panics /\ CollectorPanics(r)
    BY <1>p, AbortStep, CollectionPanicsStep, PanicIsCounted DEF SweepEnd, CollectorPanics
  <1>n. SUFFICES ASSUME ~(Panics /\ CollectorPanics(r)) PROVE IInv'
    BY <1>p
  <1>1. /\ worldLock' = [w \in Worlds |-> IF w \in swept THEN NoRuntime ELSE worldLock[w]]
        /\ swept' = {} /\ sweep' = "recheck" /\ sweep = "lock" /\ collector = r
        /\ UNCHANGED <<registry, broken, gc, outside, collector, pc, key, uses, busy, unwinding>>
        /\ pc[r] \in {"idle", "live"}
    BY <1>n, NobodyAssumption DEF SweepEnd, runtime, OneSweep
  <1>2. Typed' /\ Holding'
    BY <1>1 DEF Typed, Holding, Phases, registry, gc, outside
  <1>3. Entries' /\ GcCounts'
    BY <1>1, EntriesFrame, GcCountsFrame DEF gc
  <1>4. OneSweep'
    BY <1>1 DEF OneSweep, gc
  <1>5. Locks'
    <2>1. \A q \in Runtimes : pc[q] \in {"commit", "edit"} => uses[q] \in Worlds \ swept
      BY <1>1 DEF Typed, Holding, Locks
    <2>2. \A w \in Worlds : worldLock'[w] = IF w \in swept THEN NoRuntime ELSE worldLock[w]
      BY <1>1
    <2> QED
      BY <1>1, <2>1, <2>2 DEF Typed, Locks
  <1> QED
    BY <1>2, <1>3, <1>4, <1>5

(* Whoever collects again, or stops, holds no world.                       *)
LEMMA RecheckStep ==
    ASSUME IInv, NEW r \in Runtimes, Recheck(r)
    PROVE  IInv'
  <1> USE DEF IInv, Recheck
  <1>1. UNCHANGED <<pc, key, uses, busy, swept, worldLock>> /\ swept = {}
    BY DEF locks, OneSweep
  <1>2. Typed' /\ Holding'
    BY <1>1 DEF Typed, Holding, Phases, registry, locks, outside
  <1>3. Entries' /\ GcCounts'
    BY <1>1, EntriesFrame, GcCountsFrame
  <1>4. OneSweep' /\ Locks'
    BY <1>1, NobodyAssumption DEF OneSweep, Locks, Typed
  <1> QED
    BY <1>2, <1>3, <1>4

-----------------------------------------------------------------------------
(* The invariant holds in every state: who has panicked before a session   *)
(* was there stays counted, and nothing else makes a count drift.          *)
THEOREM Invariance == Spec => []IInv
  <1>1. ASSUME IInv, [Next]_vars PROVE IInv'
    <2>1. ASSUME NEW r \in Runtimes, Lifecycle(r) PROVE IInv'
      BY <1>1, <2>1, WorldStep, RetainStep, LoadStep, CommitStep, AddViewStep, ReleaseStep,
         GcRegisterStep, AttachStep, SetBusyStep, EditStep, EditDoneStep, RequestGcStep,
         DropWorldStep, UnregisterStep, GcUnregisterStep, SweepBeginStep, SweepWorldStep,
         SweepEndStep, RecheckStep
      DEF Lifecycle, Collect
    <2> QED
      BY <1>1, <2>1, Stutter DEF Next
  <1> QED
    BY <1>1, InitInv, PTL DEF Spec

(* Every variable has its type, and a thread refers to a world exactly     *)
(* while it is registered or registering and has not panicked on the way.  *)
THEOREM TypeCorrect == Spec => []TypeOK
  <1>1. IInv => TypeOK
    BY DEF IInv, Typed, Holding, TypeOK
  <1> QED
    BY <1>1, Invariance, PTL

(* The registry counts who holds a world, who has its view and, for good,  *)
(* who has panicked on the way to or from them; the entry is there while   *)
(* somebody is counted, and without a reason to be there it is not.        *)
THEOREM EntriesExactCorrect == Spec => []EntriesExact
  <1>1. ASSUME IInv PROVE EntriesExact
    <2> SUFFICES ASSUME ~poisoned, NEW k \in Keys
                 PROVE  /\ clients[k] = Cardinality(Inside(Retained, k))
                        /\ views[k] = Cardinality(Inside(Viewed, k))
                        /\ clients[k] > 0 \/ views[k] > 0 => worlds[k] # NoWorld
                        /\ worlds[k] # NoWorld =>
                              Inside(Retained \cup {"retain"}, k) # {}
      BY DEF EntriesExact, Inside, Members
    <2>1. EntryOf(k)
      BY <1>1 DEF IInv, Entries
    <2>2. Cardinality(Inside(Viewed, k)) <= Cardinality(Inside(Retained, k))
      <3>1. Inside(Viewed, k) \subseteq Inside(Retained, k)
        BY DEF Inside, Members, Viewed, Retained
      <3>2. IsFiniteSet(Inside(Retained, k))
        BY WorldsAssumption, FS_Subset DEF Inside, Members
      <3> QED
        BY <3>1, <3>2, FS_Subset
    <2>3. clients[k] \in Nat /\ views[k] \in Nat
      BY <1>1 DEF IInv, Typed
    <2> QED
      BY <2>1, <2>2, <2>3 DEF EntryOf
  <1> QED
    BY <1>1, Invariance, PTL

(* The collector's counts are those of the runtimes and, for good, of those *)
(* lost to a panic; one thread at most collects, and a world is locked by  *)
(* it or by a session at work in it.                                       *)
THEOREM OneCollectorCorrect == Spec => []OneCollector
  <1>1. IInv => OneCollector
    BY DEF IInv, Holding, OneCollector, GcCounts, OneSweep, Locks, Busy
  <1> QED
    BY <1>1, Invariance, PTL

(* Who leaves an entry leaves it to the registrations that are still in it.*)
LEMMA LeavesToOthers ==
    ASSUME IInv, ~poisoned, NEW q \in Runtimes, pc[q] \in Retained, ReleaseWorld(key[q]),
           NEW r \in Runtimes, r # q, pc[r] \in Retained
    PROVE  worlds'[key[r]] = worlds[key[r]]
  <1>1. CASE key[r] = key[q]
    <2>1. q \in Inside(Retained, key[q]) /\ r \in Inside(Retained, key[q])
      BY <1>1 DEF Inside, Members
    <2>2. key[q] \in Keys /\ clients[key[q]] = Cardinality(Inside(Retained, key[q]))
      BY DEF IInv, Typed, Entries, EntryOf
    <2>3. clients[key[q]] \in Nat /\ clients[key[q]] >= 2
      BY <2>1, <2>2, CountedIn
    <2> QED
      BY <2>3 DEF ReleaseWorld, LastClient
  <1>2. CASE key[r] # key[q]
    BY <1>2 DEF IInv, Typed, ReleaseWorld
  <1> QED
    BY <1>1, <1>2

(* Nobody takes the shared world away from under a session.                *)
THEOREM StaysSharedCorrect == Spec => StaysShared
  <1> DEFINE A == \A r \in Runtimes :
                    /\ pc[r] \in Retained /\ pc'[r] \in Retained
                    /\ worlds[key[r]] = uses[r]
                    => worlds'[key[r]] = uses[r]
  <1>1. ASSUME IInv, [Next]_vars PROVE A
    <2> SUFFICES ASSUME NEW r \in Runtimes, pc[r] \in Retained, pc'[r] \in Retained,
                        worlds[key[r]] = uses[r]
                 PROVE  worlds'[key[r]] = worlds[key[r]]
      OBVIOUS
    <2>1. ~poisoned => worlds[key[r]] # NoWorld
      <3>1. key[r] \in Keys /\ r \in Inside(Retained, key[r])
        BY <1>1 DEF IInv, Typed, Inside, Members
      <3> QED
        BY <1>1, <3>1, CountedIn DEF IInv, Entries, EntryOf
    <2>2. ASSUME NEW q \in Runtimes, World(q) PROVE worlds'[key[r]] = worlds[key[r]]
      BY <1>1, <2>1, <2>2 DEF World, IInv, Typed
    <2>3. ASSUME NEW q \in Runtimes, Release(q) PROVE worlds'[key[r]] = worlds[key[r]]
      <3>1. pc[q] \in Retained /\ pc'[q] \notin Retained
        BY <1>1, <2>3 DEF Release, Abandon, Lose, At, Goto, IInv, Typed, Retained
      <3> QED
        BY <1>1, <2>3, <3>1, LeavesToOthers DEF Release
    <2>4. ASSUME NEW q \in Runtimes, Unregister(q) PROVE worlds'[key[r]] = worlds[key[r]]
      <3>1. pc[q] \in Retained /\ pc'[q] \notin Retained
        BY <1>1, <2>4 DEF Unregister, At, Goto, IInv, Typed, Retained
      <3> QED
        BY <1>1, <2>4, <3>1, LeavesToOthers DEF Unregister
    <2>5. CASE worlds' = worlds
      BY <2>5
    <2>6. ~Abort
      BY DEF Abort, Retained
    <2>7. ASSUME NEW q \in Runtimes, Lifecycle(q)
          PROVE  World(q) \/ Release(q) \/ Unregister(q) \/ Abort \/ worlds' = worlds
      BY <2>7
      DEF Lifecycle, Collect, Retain, Load, Commit, AddView, GcRegister, Attach, SetBusy,
          Edit, EditDone, RequestGc, DropWorld, ForgetSession, ForgetPanics, GcUnregister,
          SweepBegin, SweepWorld, SweepEnd, Recheck, CollectorPanics, CollectionPanics, registry
    <2> QED
      BY <1>1, <2>2, <2>3, <2>4, <2>5, <2>6, <2>7 DEF Next, vars, registry
  <1> QED
    BY <1>1, Invariance, PTL DEF Spec, StaysShared

(* A collection asked for while another is under way is not lost.          *)
THEOREM CollectorLeavesCleanCorrect == Spec => CollectorLeavesClean
  <1>1. ASSUME Next, collecting, ~collecting'
        PROVE  ~(dirty' /\ Quiescent(registered', busySessions'))
    <2>1. Abort \/ \E r \in Runtimes : Recheck(r)
      BY <1>1
      DEF Next, Lifecycle, Collect, World, Retain, Load, Commit, AddView, Release, GcRegister,
          Attach, SetBusy, Edit, EditDone, RequestGc, StartIfReady, DropWorld, ForgetSession,
          ForgetPanics, Unregister, GcUnregister, SweepBegin, SweepWorld, SweepEnd,
          CollectorPanics, CollectionPanics, gc
    <2> QED
      BY <1>1, <2>1 DEF Recheck, Abort
  <1>2. ASSUME UNCHANGED vars PROVE collecting' = collecting
    BY <1>2 DEF vars, gc
  <1> QED
    BY <1>1, <1>2, PTL DEF Spec, CollectorLeavesClean
=============================================================================
