------------------------------ MODULE Snapshots ------------------------------
(***************************************************************************)
(* The locks a session's thread goes through, one behind the other, and    *)
(* what it finds cached behind them: analysis() takes the collector's read *)
(* permit, the read permit of the world, the world's mutex and the cache   *)
(* of visible files; a sync, a commit and the drop of a runtime take a     *)
(* write permit and the mutex and wait, within, for the clones of the      *)
(* database to go; a collection takes the collector's write permit, the    *)
(* registry and the mutex.                                                 *)
(*                                                                         *)
(* One world.  Its two permits are the lock of module WorldAccess; here    *)
(* they are read off from where the threads are.                           *)
(***************************************************************************)
EXTENDS Integers, FiniteSets, FiniteSetsExt

CONSTANTS Sessions,    \* sessions with a runtime, each with its main thread
          Loaders,     \* threads that load workspaces for sessions to come
          Double,      \* bound: sessions with two snapshots at a time, the others have one
          MaxCommits,  \* bound: commits that change the inputs
          MaxEdits     \* bound: syncs of a session that change its overlay

ASSUME ThreadsAssumption == Sessions \cap Loaders = {} /\ Double \subseteq Sessions

ASSUME BoundsAssumption == MaxCommits \in Nat /\ MaxEdits \in Nat

VARIABLES eager,       \* ANALYZED_GC_UNDER_LOAD
          pc,          \* where each thread is
          job,         \* what it holds or wants its write permit for
          snaps,       \* the snapshots of each session
          base,        \* world: version of the workspaces
          generation,  \* world: input_generation
          own,         \* world: version of each session's overlay, in the database
          record,      \* world: the same, in session_overlays
          cached,      \* analysis_cache: its generation and its visible files
          mapped,      \* session: what file_mappings and line_endings tell of
          registered, busy, dirty, collecting  \* the collector's state

world == <<base, generation, own, record>>
caches == <<cached, mapped>>
gc == <<registered, busy, dirty, collecting>>
vars == <<eager, pc, job, snaps, world, caches, gc>>

Threads == Sessions \cup Loaders
None == -1
NoOverlay == 0
Empty == [generation |-> None, visible |-> <<0, NoOverlay>>]

Free(s) == (IF s \in Double THEN 1..2 ELSE {1}) \ {x.slot : x \in snaps[s]}

Go(p, where) == pc' = [pc EXCEPT ![p] = where]
AtRest(p) == pc[p] \in {"off", "idle", "gone"}

(* What the database holds for a session, and what the world has recorded. *)
Holds(s) == <<base, own[s]>>
Recorded(s) == <<base, record[s]>>

-----------------------------------------------------------------------------
(* Mutants. *)

\* The session's caches are refreshed before the change is applied.
SyncUnwaited(s) ==
    /\ pc[s] = "applies"
    /\ job[s] = "sync"
    /\ own[s] < MaxEdits
    /\ own' = [own EXCEPT ![s] = @ + 1]
    /\ record' = [record EXCEPT ![s] = own[s] + 1]
    /\ cached' = [cached EXCEPT ![s] = Empty]
    /\ mapped' = [mapped EXCEPT ![s] = <<base, own[s] + 1>>]
    /\ dirty' = TRUE
    /\ Go(s, "idle")
    /\ job' = [job EXCEPT ![s] = "none"]
    /\ UNCHANGED <<eager, snaps, base, generation, registered, busy, collecting>>

\* A reader is counted before it is let in.
ReadingEarly(s) == pc[s] \in {"access", "snapshot"} \/ snaps[s] # {}

\* A writer heeds the readers of its own session only.
BlockedByOwn(p) == p \in Sessions /\ (pc[p] = "snapshot" \/ snaps[p] # {})

\* analysis() does not wait for a collection under way.
ReadersPassCollector == FALSE

-----------------------------------------------------------------------------
(* Who holds what.  A writer is counted from the moment it waits, and so   *)
(* is the collector; a snapshot has its permits until it has gone.         *)
Writing(p) == pc[p] \in {"waits", "permitted", "applies"}
Reading(s) == pc[s] = "snapshot" \/ snaps[s] # {}
ReadIsBlocked(s) == \E p \in Threads \ {s} : Writing(p)
WriteIsBlocked(p) == \E s \in Sessions \ {p} : Reading(s)

Collecting(p) == pc[p] \in {"collect", "registry", "world", "sweep"}
GcReadIsBlocked == \E p \in Threads : Collecting(p)
GcWriteIsBlocked == \E s \in Sessions : pc[s] = "access" \/ Reading(s)

MutexFree == \A p \in Threads : pc[p] \notin {"applies", "sweep"}
RegistryFree == \A p \in Threads : pc[p] \notin {"world", "sweep"}

NoClones == \A s \in Sessions : snaps[s] = {}

-----------------------------------------------------------------------------
Init ==
    /\ eager \in BOOLEAN
    /\ pc = [p \in Threads |-> IF p \in Sessions THEN "off" ELSE "idle"]
    /\ job = [p \in Threads |-> "none"]
    /\ snaps = [s \in Sessions |-> {}]
    /\ base = 0 /\ generation = 0
    /\ own = [s \in Sessions |-> NoOverlay]
    /\ record = own
    /\ cached = [s \in Sessions |-> Empty]
    /\ mapped = [s \in Sessions |-> <<0, NoOverlay>>]
    /\ registered = {} /\ busy = {} /\ dirty = FALSE /\ collecting = FALSE

(* new_with_registry: the session registers with the collector, then with  *)
(* the world, and fills its caches; the permits play no part.              *)
Register(s) ==
    /\ pc[s] = "off"
    /\ MutexFree
    /\ registered' = registered \cup {s}
    /\ busy' = busy \cup {s}
    /\ mapped' = [mapped EXCEPT ![s] = Recorded(s)]
    /\ Go(s, "idle")
    /\ UNCHANGED <<eager, job, snaps, world, cached, dirty, collecting>>

-----------------------------------------------------------------------------
(* analysis(), which only the session's main thread calls. *)

(* The event loop has called set_busy(true) for the event.                 *)
TakeGc(s) ==
    /\ pc[s] = "idle"
    /\ Free(s) # {}
    /\ ~GcReadIsBlocked
    /\ busy' = busy \cup {s}
    /\ Go(s, "access")
    /\ UNCHANGED <<eager, job, snaps, world, caches, registered, dirty, collecting>>

TakeAccess(s) ==
    /\ pc[s] = "access"
    /\ ~ReadIsBlocked(s)
    /\ Go(s, "snapshot")
    /\ UNCHANGED <<eager, job, snaps, world, caches, gc>>

TakeSnapshot(s) ==
    /\ pc[s] = "snapshot"
    /\ MutexFree
    /\  LET fresh == cached[s].generation = generation
            v == IF fresh THEN cached[s].visible ELSE Recorded(s)
        IN  /\ cached' = [cached EXCEPT ![s] = [generation |-> generation, visible |-> v]]
            /\ mapped' = IF fresh THEN mapped ELSE [mapped EXCEPT ![s] = v]
            /\ snaps' = [snaps EXCEPT ![s] =
                            @ \cup {[slot |-> Min(Free(s)), visible |-> v,
                                     holds |-> Holds(s)]}]
    /\ Go(s, "idle")
    /\ UNCHANGED <<eager, job, world, gc>>

(* A worker is done with its snapshot, or was cancelled.  The database of  *)
(* an Analysis is dropped before its guard, the two permits.               *)
DropSnapshot(s, x) ==
    /\ snaps' = [snaps EXCEPT ![s] = @ \ {x}]
    /\ UNCHANGED <<eager, pc, job, world, caches, gc>>

-----------------------------------------------------------------------------
(* The writers: sync_open_files, the commit of a load, the drop. *)

Begin(p, what) ==
    /\ pc[p] = "idle"
    /\ job' = [job EXCEPT ![p] = what]
    /\ busy' = busy \cup ({p} \cap Sessions)
    /\ Go(p, "waits")
    /\ UNCHANGED <<eager, snaps, world, caches, registered, dirty, collecting>>

BeginSync(s) == Begin(s, "sync")
BeginCommit(l) == Begin(l, "commit")

(* The last Arc of the runtime: no snapshot has one any more.              *)
BeginDrop(s) == snaps[s] = {} /\ Begin(s, "drop")

TakeWrite(p) ==
    /\ pc[p] = "waits"
    /\ ~WriteIsBlocked(p)
    /\ Go(p, "permitted")
    /\ UNCHANGED <<eager, job, snaps, world, caches, gc>>

TakeMutex(p) ==
    /\ pc[p] = "permitted"
    /\ MutexFree
    /\ Go(p, "applies")
    /\ UNCHANGED <<eager, job, snaps, world, caches, gc>>

Sync(s) ==
    /\ pc[s] = "applies"
    /\ job[s] = "sync"
    /\ own[s] < MaxEdits
    /\ NoClones
    /\ own' = [own EXCEPT ![s] = @ + 1]
    /\ record' = [record EXCEPT ![s] = own[s] + 1]
    /\ cached' = [cached EXCEPT ![s] = Empty]
    /\ mapped' = [mapped EXCEPT ![s] = <<base, own[s] + 1>>]
    /\ dirty' = TRUE
    /\ Go(s, "idle")
    /\ job' = [job EXCEPT ![s] = "none"]
    /\ UNCHANGED <<eager, snaps, base, generation, registered, busy, collecting>>

SyncUnchanged(s) ==
    /\ pc[s] = "applies"
    /\ job[s] = "sync"
    /\ mapped' = [mapped EXCEPT ![s] = Recorded(s)]
    /\ Go(s, "idle")
    /\ job' = [job EXCEPT ![s] = "none"]
    /\ UNCHANGED <<eager, snaps, world, cached, gc>>

(* The error comes after session_overlays.remove and before the inputs.    *)
SyncFails(s) ==
    /\ pc[s] = "applies"
    /\ job[s] = "sync"
    /\ record' = [record EXCEPT ![s] = NoOverlay]
    /\ Go(s, "idle")
    /\ job' = [job EXCEPT ![s] = "none"]
    /\ UNCHANGED <<eager, snaps, base, generation, own, caches, gc>>

(* commit_workspace moves the generation when the inputs have moved.       *)
Commit(l) ==
    /\ pc[l] = "applies"
    /\ job[l] = "commit"
    /\ base < MaxCommits
    /\ NoClones
    /\ base' = base + 1
    /\ generation' = generation + 1
    /\ dirty' = TRUE
    /\ Go(l, "idle")
    /\ job' = [job EXCEPT ![l] = "none"]
    /\ UNCHANGED <<eager, snaps, own, record, caches, registered, busy, collecting>>

(* A load of a workspace that is there.                                    *)
CommitNothing(l) ==
    /\ pc[l] = "applies"
    /\ job[l] = "commit"
    /\ Go(l, "idle")
    /\ job' = [job EXCEPT ![l] = "none"]
    /\ UNCHANGED <<eager, snaps, world, caches, gc>>

(* unregister_session, then the permit and the mutex are dropped ...       *)
Drop(s) ==
    /\ pc[s] = "applies"
    /\ job[s] = "drop"
    /\ own[s] # NoOverlay => NoClones
    /\ dirty' = (dirty \/ own[s] # NoOverlay)
    /\ own' = [own EXCEPT ![s] = NoOverlay]
    /\ record' = [record EXCEPT ![s] = NoOverlay]
    /\ cached' = [cached EXCEPT ![s] = Empty]
    /\ mapped' = [mapped EXCEPT ![s] = Empty.visible]
    /\ Go(s, "unregister")
    /\ job' = [job EXCEPT ![s] = "none"]
    /\ UNCHANGED <<eager, snaps, base, generation, registered, busy,
                   collecting>>

(* ... the registry is told ...                                            *)
Unregister(s) ==
    /\ pc[s] = "unregister"
    /\ RegistryFree
    /\ Go(s, "leaves")
    /\ UNCHANGED <<eager, job, snaps, world, caches, gc>>

-----------------------------------------------------------------------------
(* The collector.  start_if_ready decides, and the thread goes on to the   *)
(* collection or where it would go otherwise.                              *)
StartIfReady(p, reg, bsy, coll, otherwise) ==
    LET ready == (reg = {} \/ eager) /\ dirty /\ ~coll /\ bsy = {}
    IN  /\ registered' = reg
        /\ busy' = bsy
        /\ collecting' = (coll \/ ready)
        /\ dirty' = (dirty /\ ~ready)
        /\ Go(p, IF ready THEN "collect" ELSE otherwise)
        /\ UNCHANGED <<eager, job, snaps, world, caches>>

(* The drop ends with unregister_session.                                  *)
Leave(s) ==
    /\ pc[s] = "leaves"
    /\ StartIfReady(s, registered \ {s}, busy \ {s}, collecting, "gone")

(* The end of an event: no task of the session is left.                    *)
SetIdle(s) ==
    /\ pc[s] = "idle"
    /\ s \in busy
    /\ snaps[s] = {}
    /\ StartIfReady(s, registered, busy \ {s}, collecting, "idle")

TakeGcWrite(s) ==
    /\ pc[s] = "collect"
    /\ ~GcWriteIsBlocked
    /\ Go(s, "registry")
    /\ UNCHANGED <<eager, job, snaps, world, caches, gc>>

TakeRegistry(s) ==
    /\ pc[s] = "registry"
    /\ RegistryFree
    /\ Go(s, "world")
    /\ UNCHANGED <<eager, job, snaps, world, caches, gc>>

TakeWorld(s) ==
    /\ pc[s] = "world"
    /\ MutexFree
    /\ Go(s, "sweep")
    /\ UNCHANGED <<eager, job, snaps, world, caches, gc>>

(* trigger_garbage_collection cancels what runs, and waits for it.         *)
Sweep(s) ==
    /\ pc[s] = "sweep"
    /\ NoClones
    /\ Go(s, "swept")
    /\ UNCHANGED <<eager, job, snaps, world, caches, gc>>

\* A mutant: the flag is left when the collection is over.
CollectAgainForgets(s) ==
    /\ pc[s] = "swept"
    /\ Go(s, IF s \in registered THEN "idle" ELSE "gone")
    /\ UNCHANGED <<eager, job, snaps, world, caches, gc>>

CollectAgain(s) ==
    /\ pc[s] = "swept"
    /\ StartIfReady(s, registered, busy, FALSE, IF s \in registered THEN "idle" ELSE "gone")

-----------------------------------------------------------------------------
Snapshot(s) == TakeGc(s) \/ TakeAccess(s) \/ TakeSnapshot(s)
Write(p) == TakeWrite(p) \/ TakeMutex(p)
Apply(s) == Sync(s) \/ SyncUnchanged(s) \/ SyncFails(s) \/ Drop(s)
Collect(s) == TakeGcWrite(s) \/ TakeRegistry(s) \/ TakeWorld(s) \/ Sweep(s) \/ CollectAgain(s)

Next ==
    \/ \E s \in Sessions :
          \/ Register(s) \/ Snapshot(s)
          \/ BeginSync(s) \/ BeginDrop(s) \/ Apply(s)
          \/ Unregister(s) \/ Leave(s) \/ SetIdle(s) \/ Collect(s)
          \/ \E x \in snaps[s] : DropSnapshot(s, x)
    \/ \E l \in Loaders : BeginCommit(l) \/ Commit(l) \/ CommitNothing(l)
    \/ \E p \in Threads : Write(p)

(* The steps of a call once it is begun: a thread is at one of them.       *)
SessionStep(s) ==
    \/ TakeAccess(s) \/ TakeSnapshot(s)
    \/ Write(s) \/ Apply(s) \/ Unregister(s) \/ Leave(s)
    \/ Collect(s)
LoaderStep(l) == Write(l) \/ Commit(l) \/ CommitNothing(l)

(* A thread that can go on does; a query comes to its end.  Nothing makes  *)
(* a thread begin a call.                                                  *)
Fairness ==
    /\ \A s \in Sessions :
        WF_vars(SessionStep(s)) /\ WF_vars(\E x \in snaps[s] : DropSnapshot(s, x))
    /\ \A l \in Loaders : WF_vars(LoaderStep(l))

Spec == Init /\ [][Next]_vars /\ Fairness

-----------------------------------------------------------------------------
(* The variables have their types; what is recorded of an overlay is in    *)
(* the database, unless a sync has failed.                                 *)
TypeOK ==
    /\ pc \in [Threads -> {"off", "idle", "access", "snapshot", "waits",
                           "permitted", "applies", "unregister", "leaves", "collect",
                           "registry", "world", "sweep", "swept", "gone"}]
    /\ job \in [Threads -> {"none", "sync", "commit", "drop"}]
    /\ \A s \in Sessions : Cardinality(snaps[s]) <= 2
    /\ generation = base
    /\ \A s \in Sessions : record[s] \in {own[s], NoOverlay}
    /\ collecting <=> \E p \in Threads : Collecting(p) \/ pc[p] = "swept"

(* As long as a query has its snapshot, the files it may see, the paths    *)
(* and line endings its answers are converted with, and the database it    *)
(* reads are of one state of the world: no sync of its own session, no     *)
(* commit and no later snapshot moves one of them under it.  A failed sync *)
(* leaves the record behind the database, and its session out of this.     *)
SnapshotsAgree ==
    \A s \in Sessions :
        record[s] = own[s] =>
            \A x \in snaps[s] : x.visible = x.holds /\ mapped[s] = x.holds

(* A change of one session's overlay, or a commit, never cancels a query   *)
(* of another session: salsa finds no clone but those of the session that  *)
(* makes the change.                                                       *)
NeverCancelsOthers ==
    \A p \in Threads : pc[p] = "applies" => \A s \in Sessions \ {p} : snaps[s] = {}

(* Types are purged while no query runs and no other thread is in a world. *)
CollectsAlone ==
    \A p \in Threads :
        pc[p] = "sweep" => NoClones /\ \A q \in Threads : pc[q] # "applies"

(* No order of the permits, the mutex, the registry and the clones closes  *)
(* a cycle: every call returns, the drop and the collection included.  The *)
(* lock lets writers pass readers, so that a reader may wait for as long   *)
(* as writers keep coming.                                                 *)
CallsReturn ==
    \A p \in Threads :
        \/ []<>AtRest(p)
        \/ \E q \in Threads \ {p} : []<><<Write(q)>>_vars
=============================================================================
