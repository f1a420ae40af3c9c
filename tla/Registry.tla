------------------------------- MODULE Registry -------------------------------
(***************************************************************************)
(* The registry of shared worlds, the life of a registration in it, and    *)
(* the garbage collector that stops every registered world                 *)
(* (shared_analyzer.rs: SharedAnalyzerRegistry, the drop of                *)
(* SharedAnalyzerRuntimeSession, SharedAnalyzerGcCoordinator).             *)
(*                                                                         *)
(* An action is a critical section of the registry's mutex, of the         *)
(* collector's mutex, or of a world's mutex.  The registry's mutex is held *)
(* across several steps only by the collector, which waits for the worlds  *)
(* under it; a world's mutex by a commit or an edit and by the collector.  *)
(* A world key stands for a backend key with one view of that world.       *)
(*                                                                         *)
(* A panic is a step of its own kind.  It poisons the mutexes whose guards *)
(* are dropped by it, runs the destructors of its thread and no others,    *)
(* and ends the daemon when one of these panics in its turn.               *)
(***************************************************************************)
EXTENDS Integers, FiniteSets

CONSTANTS Runtimes,   \* registrations: each a SharedAnalyzerRuntime
          Keys,       \* world keys: toolchain and Cargo configuration
          Worlds,     \* instances of SharedWorld
          NoWorld,    \* no entry, or no reference
          NoRuntime,  \* nobody
          MaxPanics   \* how often work on a world, or its loading, panics

ASSUME KeysAssumption == Keys \subseteq Int
ASSUME PanicsAssumption == MaxPanics \in Nat
ASSUME NobodyAssumption == NoWorld \notin Worlds /\ NoRuntime \notin Runtimes

(* There is memory for one more world when one is needed: every other key  *)
(* may have a world, and every other registration may refer to a late one. *)
ASSUME WorldsAssumption ==
    /\ IsFiniteSet(Runtimes) /\ IsFiniteSet(Keys) /\ IsFiniteSet(Worlds)
    /\ Cardinality(Worlds) + 1 >= Cardinality(Keys) + Cardinality(Runtimes)

VARIABLES worlds,       \* registry: the world of each key
          clients,      \* registry: client_sessions of the entry of each key
          views,        \* registry: client_sessions of the view of each key
          poisoned,     \* the registry's mutex is poisoned
          worldLock,    \* who holds the mutex of each world
          broken,       \* the worlds whose mutex is poisoned
          registered,   \* collector: registered_sessions
          busySessions, \* collector: busy_sessions
          dirty,        \* collector: there is garbage
          collecting,   \* collector: a collection is under way
          gcUnderLoad,  \* ANALYZED_GC_UNDER_LOAD is set
          collector,    \* the thread that collects
          sweep,        \* where it is
          swept,        \* the worlds it has locked
          pc,           \* where each registration is in its life
          key,          \* its key, for good: another key is another registration
          uses,         \* the world it works in
          busy,         \* its busy flag
          unwinding,    \* those whose runtime is dropped by a panic
          panics        \* how often it has panicked so far

registry   == <<worlds, clients, views, poisoned>>
locks      == <<worldLock, broken>>
gc         == <<registered, busySessions, dirty, collecting>>
collection == <<collector, sweep, swept>>
runtime    == <<key, uses, busy, unwinding>>
outside    == <<gcUnderLoad, panics>>
vars == <<registry, locks, gc, collection, pc, runtime, outside>>

(* A registration in its life.  The registry has counted it since its      *)
(* entry into "load", and the collector since "attach".  One that panics   *)
(* before it is a session stays counted for good: "unwound" in register,   *)
(* "lost" once the collector and the view have counted it too, or in the   *)
(* destructor that should have uncounted it.                               *)
Retained  == {"load", "commit", "view", "release", "gc", "attach", "live",
              "edit", "drop", "unregister", "unwound", "lost"}
Viewed    == {"gc", "attach", "live", "edit", "drop", "unregister", "lost"}
Counted   == {"attach", "live", "edit", "drop", "unregister", "ungc", "lost"}
Locations == Retained \cup Counted \cup {"idle", "retain"}
Phases    == {"none", "wait", "lock", "recheck", "dead"}

-----------------------------------------------------------------------------
(* Mutants, each a slip the code could have.                               *)

\* The world goes when a client leaves, whoever else is in it.
EntryIsUnused(k) == TRUE

\* start_if_ready trusts that nobody collects.
ReadyWhileCollecting(n, b) == (n = 0 \/ gcUnderLoad) /\ b = 0

\* The collector leaves without a second look.
RecheckNever(r) ==
    /\ collector = r /\ sweep = "recheck"
    /\ collecting' = FALSE
    /\ collector' = NoRuntime
    /\ sweep' = "none"
    /\ unwinding' = unwinding \ {r}
    /\ UNCHANGED <<registry, locks, registered, busySessions, dirty,
                   outside, swept, pc, key, uses, busy>>

\* The world is released and its view is forgotten.
UnregisterKeepsView(r) ==
    /\ pc[r] = "unregister" /\ sweep # "lock"
    /\ clients' = [clients EXCEPT ![key[r]] = @ - 1]
    /\ worlds' = [worlds EXCEPT ![key[r]] = IF clients'[key[r]] = 0 THEN NoWorld ELSE @]
    /\ pc' = [pc EXCEPT ![r] = "ungc"]
    /\ UNCHANGED <<views, poisoned, locks, gc, outside, collection, runtime>>

\* set_busy counts every call, not every change.
BusyUnchanged(r, b) == FALSE

-----------------------------------------------------------------------------
Init ==
    /\ worlds = [k \in Keys |-> NoWorld]
    /\ clients = [k \in Keys |-> 0]
    /\ views = [k \in Keys |-> 0]
    /\ poisoned = FALSE
    /\ worldLock = [w \in Worlds |-> NoRuntime]
    /\ broken = {}
    /\ registered = 0
    /\ busySessions = 0
    /\ dirty = FALSE
    /\ collecting = FALSE
    /\ gcUnderLoad \in BOOLEAN
    /\ collector = NoRuntime
    /\ sweep = "none"
    /\ swept = {}
    /\ pc = [r \in Runtimes |-> "idle"]
    /\ key \in [Runtimes -> Keys]
    /\ uses = [r \in Runtimes |-> NoWorld]
    /\ busy = [r \in Runtimes |-> FALSE]
    /\ unwinding = {}
    /\ panics = 0

(* The thread of r takes its own next step: it is not the one collecting,  *)
(* or waiting to.                                                          *)
At(r, place) == pc[r] = place /\ collector # r
Goto(r, place) == pc' = [pc EXCEPT ![r] = place]

RegistryFree == sweep # "lock"
WorldFree(w) == worldLock[w] = NoRuntime
Unused(w) == w \notin ({worlds[k] : k \in Keys} \cup {uses[r] : r \in Runtimes})

(* start_if_ready, given the counts it finds; and the step of a thread     *)
(* that asks for it and becomes the collector when it says yes.            *)
Quiescent(n, b) == (n = 0 \/ gcUnderLoad) /\ b = 0
Ready(n, b) == Quiescent(n, b) /\ ~collecting

StartIfReady(r, garbage) ==
    IF garbage /\ Ready(registered', busySessions')
      THEN /\ dirty' = FALSE
           /\ collecting' = TRUE
           /\ collector' = r
           /\ sweep' = "wait"
           /\ UNCHANGED swept
      ELSE /\ dirty' = garbage
           /\ UNCHANGED <<collecting, collection>>

-----------------------------------------------------------------------------
(* A panic of the thread of r, in work on its world.  Without a session it *)
(* has nothing to drop; a session drops its runtime, in this thread or, if *)
(* a task has the last reference, in another one that does not unwind.     *)
Panics == panics < MaxPanics /\ panics' = panics + 1

Breaks(r) == Panics /\ broken' = broken \cup {uses[r]}

Lose(r, place) ==
    /\ uses' = [uses EXCEPT ![r] = NoWorld]
    /\ Goto(r, place)
    /\ UNCHANGED <<key, busy, unwinding>>

Unwind(r) ==
    /\ Goto(r, "drop")
    /\ unwinding' \in {unwinding, unwinding \cup {r}}
    /\ UNCHANGED <<key, uses, busy>>

(* A panic in a destructor that a panic runs ends the process.  The next   *)
(* daemon starts from nothing.                                             *)
Abort ==
    /\ worlds' = [k \in Keys |-> NoWorld]
    /\ clients' = [k \in Keys |-> 0]
    /\ views' = [k \in Keys |-> 0]
    /\ poisoned' = FALSE
    /\ worldLock' = [w \in Worlds |-> NoRuntime]
    /\ broken' = {}
    /\ registered' = 0
    /\ busySessions' = 0
    /\ dirty' = FALSE
    /\ collecting' = FALSE
    /\ collector' = NoRuntime
    /\ sweep' = "none"
    /\ swept' = {}
    /\ pc' = [r \in Runtimes |-> "idle"]
    /\ uses' = [r \in Runtimes |-> NoWorld]
    /\ busy' = [r \in Runtimes |-> FALSE]
    /\ unwinding' = {}
    /\ UNCHANGED <<key, gcUnderLoad>>

-----------------------------------------------------------------------------
(* register: world() finds the entry of the key or inserts one that nobody *)
(* is counted in yet; a poisoned registry refuses.                         *)
World(r) ==
    /\ At(r, "idle") /\ RegistryFree
    /\ \/ /\ ~poisoned
          /\ IF worlds[key[r]] # NoWorld
               THEN UNCHANGED <<worlds, broken>>
               ELSE LET w == CHOOSE x \in Worlds : Unused(x)
                    IN  /\ worlds' = [worlds EXCEPT ![key[r]] = w]
                        /\ broken' = broken \ {w}
          /\ uses' = [uses EXCEPT ![r] = worlds'[key[r]]]
          /\ Goto(r, "retain")
       \/ /\ poisoned
          /\ UNCHANGED <<worlds, broken, uses, pc>>
    /\ UNCHANGED <<clients, views, poisoned, worldLock, gc, outside,
                   collection, key, busy, unwinding>>

Abandon(r) == Lose(r, "idle")

EntryGone(r) == worlds[key[r]] = NoWorld

(* retain_world, a critical section of its own.  Without the entry it      *)
(* panics, and poisons the mutex it holds.                                 *)
Retain(r) ==
    /\ At(r, "retain") /\ RegistryFree
    /\ \/ /\ ~poisoned /\ ~EntryGone(r)
          /\ clients' = [clients EXCEPT ![key[r]] = @ + 1]
          /\ Goto(r, "load")
          /\ UNCHANGED <<poisoned, runtime>>
       \/ /\ poisoned \/ EntryGone(r)
          /\ poisoned' = TRUE
          /\ Abandon(r)
          /\ UNCHANGED clients
    /\ UNCHANGED <<worlds, views, locks, gc, outside, collection>>

(* The workspaces are loaded: that takes the world, or fails before, also  *)
(* because the world is poisoned.  A panic leaves register by the way that *)
(* does not release the world.                                             *)
Load(r) ==
    /\ At(r, "load")
    /\ \/ /\ WorldFree(uses[r]) /\ uses[r] \notin broken
          /\ worldLock' = [worldLock EXCEPT ![uses[r]] = r]
          /\ Goto(r, "commit")
          /\ UNCHANGED <<runtime, panics>>
       \/ /\ Goto(r, "release")
          /\ UNCHANGED <<worldLock, runtime, panics>>
       \/ /\ Panics
          /\ Lose(r, "unwound")
          /\ UNCHANGED worldLock
    /\ UNCHANGED <<registry, broken, gc, gcUnderLoad, collection>>

(* A commit that changed the inputs leaves garbage, also when it fails but *)
(* not when it panics.                                                     *)
Commit(r) ==
    /\ At(r, "commit")
    /\ worldLock' = [worldLock EXCEPT ![uses[r]] = NoRuntime]
    /\ \/ /\ dirty' \in {dirty, TRUE}
          /\ \/ Goto(r, "view")
             \/ Goto(r, "release")
          /\ UNCHANGED <<broken, runtime, panics>>
       \/ /\ Breaks(r)
          /\ Lose(r, "unwound")
          /\ UNCHANGED dirty
    /\ UNCHANGED <<registry, registered, busySessions, collecting, gcUnderLoad,
                   collection>>

AddView(r) ==
    /\ At(r, "view") /\ RegistryFree
    /\ \/ /\ ~poisoned
          /\ views' = [views EXCEPT ![key[r]] = @ + 1]
          /\ Goto(r, "gc")
       \/ /\ poisoned
          /\ Goto(r, "release")
          /\ UNCHANGED views
    /\ UNCHANGED <<worlds, clients, poisoned, locks, gc, outside,
                   collection, runtime>>

LastClient(k) == clients[k] <= 1

(* release_world_state: the last client takes the entry with it.           *)
ReleaseWorld(k) ==
    IF worlds[k] = NoWorld THEN UNCHANGED <<worlds, clients>>
    ELSE /\ clients' = [clients EXCEPT ![k] = IF LastClient(k) THEN 0 ELSE @ - 1]
         /\ worlds' = IF LastClient(k) THEN [worlds EXCEPT ![k] = NoWorld] ELSE worlds

(* release_world of a registration that fails.                             *)
Release(r) ==
    /\ At(r, "release") /\ RegistryFree
    /\ IF poisoned THEN UNCHANGED <<worlds, clients>> ELSE ReleaseWorld(key[r])
    /\ Abandon(r)
    /\ UNCHANGED <<views, poisoned, locks, gc, outside, collection>>

(* new_with_registry: the collector counts the runtime, busy, ...          *)
GcRegister(r) ==
    /\ At(r, "gc")
    /\ registered' = registered + 1
    /\ busySessions' = busySessions + 1
    /\ busy' = [busy EXCEPT ![r] = TRUE]
    /\ Goto(r, "attach")
    /\ UNCHANGED <<registry, locks, dirty, collecting, outside,
                   collection, key, uses, unwinding>>

(* ... then its world registers it.  A poisoned world panics, with the     *)
(* session counted in three places and nothing there to be dropped.        *)
Attach(r) ==
    /\ At(r, "attach") /\ WorldFree(uses[r])
    /\ \/ /\ uses[r] \notin broken
          /\ Goto(r, "live")
          /\ UNCHANGED runtime
       \/ /\ uses[r] \in broken
          /\ Lose(r, "lost")
    /\ UNCHANGED <<registry, locks, gc, outside, collection>>

-----------------------------------------------------------------------------
Unchanged(r, b) == busy[r] = b

(* set_busy, around every event of the session's loop.                     *)
SetBusy(r, b) ==
    /\ At(r, "live")
    /\ ~Unchanged(r, b)
    /\ busy' = [busy EXCEPT ![r] = b]
    /\ busySessions' = IF b THEN busySessions + 1 ELSE busySessions - 1
    /\ registered' = registered
    /\ StartIfReady(r, dirty)
    /\ UNCHANGED <<registry, locks, outside, pc, key, uses, unwinding>>

(* An event that works on the overlay of the session takes its world,      *)
(* which panics when it is poisoned, ...                                   *)
Edit(r) ==
    /\ At(r, "live") /\ WorldFree(uses[r])
    /\ \/ /\ uses[r] \notin broken
          /\ worldLock' = [worldLock EXCEPT ![uses[r]] = r]
          /\ Goto(r, "edit")
          /\ UNCHANGED runtime
       \/ /\ uses[r] \in broken
          /\ Unwind(r)
          /\ UNCHANGED worldLock
    /\ UNCHANGED <<registry, broken, gc, outside, collection>>

(* ... and leaves garbage when it changed something.                       *)
EditDone(r) ==
    /\ At(r, "edit")
    /\ worldLock' = [worldLock EXCEPT ![uses[r]] = NoRuntime]
    /\ dirty' \in {dirty, TRUE}
    /\ \/ /\ Goto(r, "live")
          /\ UNCHANGED <<broken, runtime, panics>>
       \/ /\ Breaks(r)
          /\ Unwind(r)
    /\ UNCHANGED <<registry, registered, busySessions, collecting, gcUnderLoad,
                   collection>>

(* mark_prime_caches_gc: an event asks for a collection.                   *)
RequestGc(r) ==
    /\ At(r, "live") /\ busy[r]
    /\ UNCHANGED <<registered, busySessions>>
    /\ StartIfReady(r, TRUE)
    /\ UNCHANGED <<registry, locks, outside, pc, runtime>>

-----------------------------------------------------------------------------
(* The runtime is dropped: its world forgets it, a poisoned one is left as *)
(* it is, ...                                                              *)
ForgetSession(r) ==
    /\ dirty' \in {dirty} \cup (IF uses[r] \in broken THEN {} ELSE {TRUE})
    /\ Goto(r, "unregister")
    /\ UNCHANGED <<registry, locks, registered, busySessions, collecting,
                   outside, collection, runtime>>

ForgetPanics(r) ==
    /\ uses[r] \notin broken
    /\ IF r \in unwinding THEN Panics /\ Abort
       ELSE /\ Breaks(r)
            /\ Lose(r, "lost")
            /\ UNCHANGED <<registry, worldLock, gc, gcUnderLoad, collection>>

DropWorld(r) ==
    /\ At(r, "live") \/ At(r, "drop")
    /\ WorldFree(uses[r])
    /\ ForgetSession(r) \/ ForgetPanics(r)

(* ... the registry does, unless its mutex is poisoned, ...                *)
Unregister(r) ==
    /\ At(r, "unregister") /\ RegistryFree
    /\ \/ /\ ~poisoned
          /\ views' = [views EXCEPT ![key[r]] = IF @ = 0 THEN 0 ELSE @ - 1]
          /\ ReleaseWorld(key[r])
       \/ /\ poisoned
          /\ UNCHANGED <<worlds, clients, views>>
    /\ Goto(r, "ungc")
    /\ UNCHANGED <<poisoned, locks, gc, outside, collection, runtime>>

(* ... and the collector does, which may find that it can start.           *)
GcUnregister(r) ==
    /\ At(r, "ungc")
    /\ registered' = IF registered = 0 THEN 0 ELSE registered - 1
    /\ busySessions' = IF busy[r] THEN busySessions - 1 ELSE busySessions
    /\ busy' = [busy EXCEPT ![r] = FALSE]
    /\ uses' = [uses EXCEPT ![r] = NoWorld]
    /\ Goto(r, "idle")
    /\ StartIfReady(r, dirty)
    /\ unwinding' = IF collector' = r THEN unwinding ELSE unwinding \ {r}
    /\ UNCHANGED <<registry, locks, outside, key>>

-----------------------------------------------------------------------------
(* A panic in a collection poisons what it has locked: the registry and    *)
(* the worlds it has swept.  The collection stays under way for good, and  *)
(* the thread unwinds and drops the runtime it has, if it still has one.   *)
CollectionPanics(r) ==
    /\ poisoned' = TRUE
    /\ broken' = broken \cup swept
    /\ worldLock' = [w \in Worlds |-> IF w \in swept THEN NoRuntime ELSE worldLock[w]]
    /\ swept' = {}
    /\ sweep' = "dead"
    /\ collector' = NoRuntime
    /\ IF pc[r] = "live" THEN Unwind(r) ELSE UNCHANGED <<pc, runtime>>
    /\ UNCHANGED <<worlds, clients, views, gc, gcUnderLoad>>

CollectorPanics(r) == IF r \in unwinding THEN Abort ELSE CollectionPanics(r)

(* collect_garbage takes the registry, and keeps it to the end; a poisoned *)
(* one panics.                                                             *)
SweepBegin(r) ==
    /\ collector = r /\ sweep = "wait"
    /\ \/ /\ ~poisoned
          /\ sweep' = "lock"
          /\ UNCHANGED <<registry, locks, gc, outside, collector, swept, pc, runtime>>
       \/ /\ poisoned
          /\ CollectorPanics(r)
          /\ UNCHANGED panics

(* The worlds are locked one after the other, in the order of their keys;  *)
(* a poisoned one panics.                                                  *)
NextToSweep(k) ==
    /\ worlds[k] \notin swept \cup {NoWorld}
    /\ \A j \in Keys : j < k => worlds[j] \in swept \cup {NoWorld}

SweepWorld(r) ==
    /\ collector = r /\ sweep = "lock"
    /\ \E k \in Keys :
         /\ NextToSweep(k) /\ WorldFree(worlds[k])
         /\ \/ /\ worlds[k] \notin broken
               /\ worldLock' = [worldLock EXCEPT ![worlds[k]] = r]
               /\ swept' = swept \cup {worlds[k]}
               /\ UNCHANGED <<registry, broken, gc, outside, collector, sweep, pc,
                              runtime>>
            \/ /\ worlds[k] \in broken
               /\ CollectorPanics(r)
               /\ UNCHANGED panics

(* With all of them locked the garbage goes, and the locks with it.        *)
SweepEnd(r) ==
    /\ collector = r /\ sweep = "lock"
    /\ \A k \in Keys : worlds[k] \in swept \cup {NoWorld}
    /\ \/ /\ worldLock' = [w \in Worlds |-> IF w \in swept THEN NoRuntime ELSE worldLock[w]]
          /\ swept' = {}
          /\ sweep' = "recheck"
          /\ UNCHANGED <<registry, broken, gc, outside, collector, pc, runtime>>
       \/ /\ swept # {}
          /\ Panics
          /\ CollectorPanics(r)

(* The end of the collector's loop: again, or done.                        *)
Recheck(r) ==
    /\ collector = r /\ sweep = "recheck"
    /\ IF dirty /\ Quiescent(registered, busySessions)
         THEN /\ dirty' = FALSE
              /\ sweep' = "wait"
              /\ UNCHANGED <<collecting, collector, unwinding>>
         ELSE /\ collecting' = FALSE
              /\ collector' = NoRuntime
              /\ sweep' = "none"
              /\ unwinding' = unwinding \ {r}
              /\ UNCHANGED dirty
    /\ UNCHANGED <<registry, locks, registered, busySessions, outside,
                   swept, pc, key, uses, busy>>

Collect(r) == SweepBegin(r) \/ SweepWorld(r) \/ SweepEnd(r) \/ Recheck(r)

(* backend_snapshots: a status request, or the greeting of a client, comes *)
(* at any time, reads the entries under the registry's mutex and changes   *)
(* nothing.  The worlds' it only tries.                                    *)
StatusWaits == ~RegistryFree

Lifecycle(r) ==
      \/ World(r)
      \/ Retain(r)
      \/ Load(r)
      \/ Commit(r)
      \/ AddView(r)
      \/ Release(r)
      \/ GcRegister(r)
      \/ Attach(r)
      \/ \E b \in BOOLEAN : SetBusy(r, b)
      \/ Edit(r)
      \/ EditDone(r)
      \/ RequestGc(r)
      \/ DropWorld(r)
      \/ Unregister(r)
      \/ GcUnregister(r)
      \/ Collect(r)

Next ==
    \E r \in Runtimes : Lifecycle(r)

Spec == Init /\ [][Next]_vars

-----------------------------------------------------------------------------
Count(places) == Cardinality({r \in Runtimes : pc[r] \in places})

(* Types; a thread refers to a world exactly while it is registered or     *)
(* registering, and has not panicked on the way.                           *)
TypeOK ==
    /\ worlds \in [Keys -> Worlds \cup {NoWorld}]
    /\ clients \in [Keys -> Nat]
    /\ views \in [Keys -> Nat]
    /\ poisoned \in BOOLEAN
    /\ worldLock \in [Worlds -> Runtimes \cup {NoRuntime}]
    /\ broken \subseteq Worlds
    /\ registered \in Nat
    /\ busySessions \in Nat
    /\ dirty \in BOOLEAN
    /\ collecting \in BOOLEAN
    /\ gcUnderLoad \in BOOLEAN
    /\ collector \in Runtimes \cup {NoRuntime}
    /\ sweep \in Phases
    /\ swept \subseteq Worlds
    /\ pc \in [Runtimes -> Locations]
    /\ key \in [Runtimes -> Keys]
    /\ uses \in [Runtimes -> Worlds \cup {NoWorld}]
    /\ busy \in [Runtimes -> BOOLEAN]
    /\ unwinding \subseteq Runtimes
    /\ panics \in 0..MaxPanics
    /\ \A r \in Runtimes : uses[r] = NoWorld <=> pc[r] \in {"idle", "unwound", "lost"}

(* The registry counts, per key, the registrations that hold the world and *)
(* the sessions that have the view, and for good those that panicked:      *)
(* register releases the world when it fails, not when it unwinds.  By     *)
(* these alone the counts drift, whichever way the others come and go.     *)
(* While somebody is counted the entry is there, without which a status    *)
(* request would not report the view, and it is there for no other reason  *)
(* than somebody who is counted or about to be.                            *)
EntriesExact ==
    ~poisoned =>
      \A k \in Keys :
        /\ clients[k] = Cardinality({r \in Runtimes : pc[r] \in Retained /\ key[r] = k})
        /\ views[k] = Cardinality({r \in Runtimes : pc[r] \in Viewed /\ key[r] = k})
        /\ clients[k] > 0 \/ views[k] > 0 => worlds[k] # NoWorld
        /\ worlds[k] # NoWorld =>
              \E r \in Runtimes : pc[r] \in Retained \cup {"retain"} /\ key[r] = k

(* The collector's counts are those of the registered runtimes and of the  *)
(* busy ones among them, and for good of those "lost" to a panic: nothing  *)
(* else makes them drift, no sequence of set_busy, reload and drop, nor    *)
(* the panic of a session; and the unsigned busy_sessions never go below   *)
(* zero.  collecting is the collector's own flag: it is up while one       *)
(* thread collects, and stays up for good once that thread has panicked.   *)
(* A world is locked by that thread, or by a session at work in it.        *)
OneCollector ==
    /\ registered = Count(Counted)
    /\ busySessions = Cardinality({r \in Runtimes : busy[r]})
    /\ \A r \in Runtimes : busy[r] => pc[r] \in Counted
    /\ collecting <=> sweep # "none"
    /\ sweep \in {"wait", "lock", "recheck"} <=> collector # NoRuntime
    /\ swept # {} => sweep = "lock"
    /\ \A w \in Worlds :
         worldLock[w] # NoRuntime =>
           \/ w \in swept /\ worldLock[w] = collector
           \/ pc[worldLock[w]] \in {"commit", "edit"} /\ uses[worldLock[w]] = w

(* Nobody takes the shared world away from under a session: as long as a   *)
(* session that works in the world of the registry keeps its registration, *)
(* that world stays in the registry.                                       *)
StaysShared ==
    [][\A r \in Runtimes :
         /\ pc[r] \in Retained /\ pc'[r] \in Retained
         /\ worlds[key[r]] = uses[r]
         => worlds'[key[r]] = uses[r]]_vars

(* A collection asked for while another one is under way is not lost: the  *)
(* collector leaves only when there is nothing to collect or somebody is   *)
(* there who will ask again.                                               *)
CollectorLeavesClean ==
    [][collecting /\ ~collecting' => ~(dirty' /\ Quiescent(registered', busySessions'))]_vars

-----------------------------------------------------------------------------
(* What the code and its documents say, and the interleavings break.       *)

(* retain_world: expect("shared world was registered") does not panic.     *)
RetainFindsEntry ==
    \A r \in Runtimes : pc[r] = "retain" /\ ~poisoned => ~EntryGone(r)

(* backend_snapshots: status must never queue behind a busy world.         *)
StatusNeverBehindBusyWorld ==
    ~ /\ StatusWaits /\ ~gcUnderLoad
      /\ \E k \in Keys : NextToSweep(k) /\ ~WorldFree(worlds[k])
=============================================================================
