---------------------------- MODULE WorkspaceLoad ----------------------------
(***************************************************************************)
(* ensure_workspace_loaded (shared_analyzer.rs): sessions that need the    *)
(* same workspace share one load.  The first caller to find no entry for   *)
(* the workspace leads: it reads the project from disk, commits it to the  *)
(* world, retires the entry and hands its result to the callers that       *)
(* joined.  A leader that unwinds does the same with a failure, from the   *)
(* destructor of its guard.  The actions are the critical sections of the  *)
(* registry's mutex, of the load's mutex and of the world's mutex.         *)
(*                                                                         *)
(* Loads are the reference-counted objects the waiters park on: one that   *)
(* nobody refers to is free memory and may be allocated again.             *)
(***************************************************************************)
EXTENDS Integers, FiniteSets

CONSTANTS Callers,    \* threads in ensure_workspace_loaded
          Projects,   \* workspace keys of one world
          Loads,      \* heap cells for SharedAnalyzerWorkspaceLoad
          NoLoad,     \* no entry, or no reference
          MaxDisk     \* bound: versions of the project files on disk

ASSUME LoadsAssumption ==
    /\ NoLoad \notin Loads
    /\ IsFiniteSet(Callers) /\ IsFiniteSet(Loads)
    /\ Cardinality(Loads) >= Cardinality(Callers)
ASSUME DiskAssumption == MaxDisk \in Nat \ {0}

VARIABLES loads,      \* registry: the load in flight for each project
          result,     \* what each load was given: Unset until it is finished
          content,    \* world: version of each project committed, 0 if none
          poisoned,   \* the mutex of the world is poisoned
          broken,     \* the mutex of the registry is poisoned
          disk,       \* version of the project files on disk
          pc,         \* where each caller is
          project,    \* the project the caller asks for
          reload,     \* whether it asks for a fresh load, and has yet to commit one
          load,       \* the load it leads or waits for
          prepared,   \* the version the leader has read from disk
          outcome     \* what the leader is about to publish

vars == <<loads, result, content, poisoned, broken, disk, pc, project, reload,
          load, prepared, outcome>>

Results == {"Unset", "Ok", "Err"}

(* Where the leader of a load is.  At "retire" it has a result to publish, *)
(* at "unwind" it has none; from "finish" and "fail" on, the registry has  *)
(* no entry of it any more.                                                *)
Leading   == {"prepare", "commit", "retire", "unwind", "finish", "fail"}
Armed     == {"prepare", "commit", "retire", "unwind"}
Locations == {"idle", "find", "begin", "wait", "parked"} \cup Leading

Referenced == {load[c] : c \in Callers} \cup {loads[p] : p \in Projects}

Caller == <<project, reload>>

(* The call is over and what it held is gone.  `given` is what the loads   *)
(* hold: the last reference to a load frees its cell.                      *)
Return(c, given) ==
    /\ load' = [load EXCEPT ![c] = NoLoad]
    /\ result' = [l \in Loads |->
                    IF l = load[c] /\ \A q \in Callers \ {c} : load[q] # l
                      THEN "Unset" ELSE given[l]]
    /\ reload' = [reload EXCEPT ![c] = FALSE]
    /\ UNCHANGED project

-----------------------------------------------------------------------------
(* Mutants, each a slip the code could have.                               *)

\* Nobody joins: every caller leads a load of its own.
JoinNever(c) == FALSE

\* publish hands the result out and leaves the entry in the registry.
RetireForgotten(c) ==
    /\ pc[c] = "retire"
    /\ pc' = [pc EXCEPT ![c] = "finish"]
    /\ UNCHANGED <<loads, result, content, poisoned, broken, disk, load, prepared, outcome, Caller>>

\* The destructor does nothing: the leader unwinds and is gone.
UnwindForgotten(c) ==
    /\ pc[c] = "unwind"
    /\ pc' = [pc EXCEPT ![c] = "idle"]
    /\ Return(c, result)
    /\ UNCHANGED <<loads, content, poisoned, broken, disk, prepared, outcome>>

\* A failed read publishes no result.
PrepareFailsMutely(c) ==
    /\ pc[c] = "prepare"
    /\ \/ /\ prepared' = [prepared EXCEPT ![c] = disk]
          /\ pc' = [pc EXCEPT ![c] = "commit"]
       \/ /\ pc' = [pc EXCEPT ![c] = "retire"]
          /\ UNCHANGED prepared
    /\ UNCHANGED <<loads, result, content, poisoned, broken, disk, load, outcome, Caller>>

\* A commit that finds the workspace already there replaces it all the same.
AlreadyCommittedNever(c) == FALSE

-----------------------------------------------------------------------------
Init ==
    /\ loads = [p \in Projects |-> NoLoad]
    /\ result = [l \in Loads |-> "Unset"]
    /\ content = [p \in Projects |-> 0]
    /\ poisoned = FALSE /\ broken = FALSE
    /\ disk = 1
    /\ pc = [c \in Callers |-> "idle"]
    /\ project \in [Callers -> Projects]
    /\ reload = [c \in Callers |-> FALSE]
    /\ load = [c \in Callers |-> NoLoad]
    /\ prepared = [c \in Callers |-> 0]
    /\ outcome = [c \in Callers |-> "Unset"]

(* A session is registered, or re-registered to reload: `register` comes   *)
(* here with the world it has found in the registry.                       *)
Call(c, p, r) ==
    /\ pc[c] = "idle" /\ ~broken
    /\ project' = [project EXCEPT ![c] = p]
    /\ reload' = [reload EXCEPT ![c] = r]
    /\ pc' = [pc EXCEPT ![c] = IF r THEN "begin" ELSE "find"]
    /\ UNCHANGED <<loads, result, content, poisoned, broken, disk, load, prepared, outcome>>

(* It finds no world in a registry that is poisoned.                       *)
CallFails(c) == pc[c] = "idle" /\ broken /\ UNCHANGED vars

(* The look-up in the index of the world that precedes a load: a workspace *)
(* that is there is returned, a poisoned mutex is an error.                *)
FindLoaded(c) ==
    /\ pc[c] = "find"
    /\ \/ /\ poisoned \/ content[project[c]] # 0
          /\ pc' = [pc EXCEPT ![c] = "idle"]
          /\ Return(c, result)
       \/ /\ ~poisoned /\ content[project[c]] = 0
          /\ pc' = [pc EXCEPT ![c] = "begin"]
          /\ UNCHANGED <<load, result, Caller>>
    /\ UNCHANGED <<loads, content, poisoned, broken, disk, prepared, outcome>>

Joinable(c) == loads[project[c]] # NoLoad

(* begin_workspace_load: join the load in flight ...                       *)
Join(c) ==
    /\ pc[c] = "begin" /\ ~broken
    /\ Joinable(c)
    /\ load' = [load EXCEPT ![c] = loads[project[c]]]
    /\ reload' = [reload EXCEPT ![c] = FALSE]
    /\ pc' = [pc EXCEPT ![c] = "wait"]
    /\ UNCHANGED <<loads, result, content, poisoned, broken, disk, project, prepared, outcome>>

(* ... or lead a new one, in a cell that is free.                          *)
Lead(c) ==
    /\ pc[c] = "begin" /\ ~broken
    /\ ~Joinable(c)
    /\ LET l == CHOOSE free \in Loads : free \notin Referenced
       IN  /\ loads' = [loads EXCEPT ![project[c]] = l]
           /\ load' = [load EXCEPT ![c] = l]
    /\ pc' = [pc EXCEPT ![c] = "prepare"]
    /\ UNCHANGED <<result, content, poisoned, broken, disk, prepared, outcome, Caller>>

(* A poisoned registry is an error.                                        *)
BeginFails(c) ==
    /\ pc[c] = "begin" /\ broken
    /\ pc' = [pc EXCEPT ![c] = "idle"]
    /\ Return(c, result)
    /\ UNCHANGED <<loads, content, poisoned, broken, disk, prepared, outcome>>

(* prepare_workspace_load, with no lock held: it reads the project, fails, *)
(* or panics.                                                              *)
Prepare(c) ==
    /\ pc[c] = "prepare"
    /\ \/ /\ prepared' = [prepared EXCEPT ![c] = disk]
          /\ pc' = [pc EXCEPT ![c] = "commit"]
          /\ UNCHANGED <<reload, outcome>>
       \/ /\ reload' = [reload EXCEPT ![c] = FALSE]
          /\ \/ /\ outcome' = [outcome EXCEPT ![c] = "Err"]
                /\ pc' = [pc EXCEPT ![c] = "retire"]
             \/ /\ pc' = [pc EXCEPT ![c] = "unwind"]
                /\ UNCHANGED outcome
          /\ UNCHANGED prepared
    /\ UNCHANGED <<loads, result, content, poisoned, broken, disk, project, load>>

AlreadyCommitted(c) == ~reload[c] /\ content[project[c]] # 0

(* commit_workspace, under the write permit and the mutex of the world.    *)
(* The workspace is in the index before the steps that can still fail; a   *)
(* panic under the mutex poisons it.                                       *)
Commit(c) ==
    /\ pc[c] = "commit"
    /\ prepared' = [prepared EXCEPT ![c] = 0]
    /\ reload' = [reload EXCEPT ![c] = FALSE]
    /\ \/ /\ poisoned \/ AlreadyCommitted(c)
          /\ outcome' = [outcome EXCEPT ![c] = IF poisoned THEN "Err" ELSE "Ok"]
          /\ pc' = [pc EXCEPT ![c] = "retire"]
          /\ UNCHANGED <<content, poisoned>>
       \/ /\ ~poisoned /\ ~AlreadyCommitted(c)
          /\ content' = [content EXCEPT ![project[c]] = prepared[c]]
          /\ \/ /\ \E verdict \in {"Ok", "Err"} :
                     outcome' = [outcome EXCEPT ![c] = verdict]
                /\ pc' = [pc EXCEPT ![c] = "retire"]
                /\ UNCHANGED poisoned
             \/ /\ poisoned' = TRUE
                /\ pc' = [pc EXCEPT ![c] = "unwind"]
                /\ UNCHANGED outcome
    /\ UNCHANGED <<loads, result, broken, disk, project, load>>

(* The entry leaves the registry, unless that is poisoned: then it stays,  *)
(* where nobody will look for it.                                          *)
Remove(p) == loads' = IF broken THEN loads ELSE [loads EXCEPT ![p] = NoLoad]

(* publish, first half: the entry leaves the registry.                     *)
Retire(c) ==
    /\ pc[c] = "retire"
    /\ Remove(project[c])
    /\ pc' = [pc EXCEPT ![c] = "finish"]
    /\ UNCHANGED <<result, content, poisoned, broken, disk, load, prepared, outcome, Caller>>

(* The waiters of a load are notified; its leader goes on to `to`.         *)
NotifyWaiters(c, to) ==
    pc' = [q \in Callers |->
             IF q = c THEN to
             ELSE IF pc[q] = "parked" /\ load[q] = load[c] THEN "wait"
             ELSE pc[q]]

(* publish, second half: the result is set and the waiters are notified.   *)
(* The leader then waits like everyone else.                               *)
Finish(c) ==
    /\ pc[c] = "finish"
    /\ result' = [result EXCEPT ![load[c]] = outcome[c]]
    /\ outcome' = [outcome EXCEPT ![c] = "Unset"]
    /\ NotifyWaiters(c, "wait")
    /\ UNCHANGED <<loads, content, poisoned, broken, disk, load, prepared, Caller>>

(* The destructor of an armed guard: retire the entry, ...                 *)
Unwind(c) ==
    /\ pc[c] = "unwind"
    /\ Remove(project[c])
    /\ pc' = [pc EXCEPT ![c] = "fail"]
    /\ UNCHANGED <<result, content, poisoned, broken, disk, load, prepared, outcome, Caller>>

(* ... then fail those who wait, unless a result is there.  The thread of  *)
(* the leader is gone.                                                     *)
Fail(c) ==
    /\ pc[c] = "fail"
    /\ Return(c, [result EXCEPT ![load[c]] = IF @ = "Unset" THEN "Err" ELSE @])
    /\ NotifyWaiters(c, "idle")
    /\ UNCHANGED <<loads, content, poisoned, broken, disk, prepared, outcome>>

(* SharedAnalyzerWorkspaceLoad::wait: return the result, or park.          *)
Wait(c) ==
    /\ pc[c] = "wait"
    /\ \/ /\ result[load[c]] # "Unset"
          /\ pc' = [pc EXCEPT ![c] = "idle"]
          /\ Return(c, result)
       \/ /\ result[load[c]] = "Unset"
          /\ pc' = [pc EXCEPT ![c] = "parked"]
          /\ UNCHANGED <<load, result, Caller>>
    /\ UNCHANGED <<loads, content, poisoned, broken, disk, prepared, outcome>>

(* The project files change on disk.  MaxDisk bounds the versions.         *)
EditDisk ==
    /\ disk < MaxDisk
    /\ disk' = disk + 1
    /\ UNCHANGED <<loads, result, content, poisoned, broken, pc, load, prepared, outcome,
                   Caller>>

(* A thread panics with the registry locked: retain_world of a world that  *)
(* has gone, or a collection that finds a world poisoned.                  *)
BreakRegistry ==
    /\ ~broken
    /\ broken' = TRUE
    /\ UNCHANGED <<loads, result, content, poisoned, disk, pc, load, prepared, outcome,
                   Caller>>

Step(c) ==
    \/ FindLoaded(c)
    \/ Join(c)
    \/ Lead(c)
    \/ BeginFails(c)
    \/ Prepare(c)
    \/ Commit(c)
    \/ Retire(c)
    \/ Finish(c)
    \/ Unwind(c)
    \/ Fail(c)
    \/ Wait(c)

Next ==
    \/ \E c \in Callers : Step(c)
    \/ \E c \in Callers, p \in Projects, r \in BOOLEAN : Call(c, p, r)
    \/ \E c \in Callers : CallFails(c)
    \/ EditDisk
    \/ BreakRegistry

Safety == Init /\ [][Next]_vars

(* Threads run: a caller that can take its next step takes it.  Loading a  *)
(* project and committing it end, well or badly.                           *)
Fairness == \A c \in Callers : WF_vars(Step(c))

Spec == Safety /\ Fairness

-----------------------------------------------------------------------------
(* Types, and what a caller holds at each place: a load while it leads or  *)
(* waits, what it has read while it commits, a result from there until it  *)
(* has published it.                                                       *)
TypeOK ==
    /\ loads \in [Projects -> Loads \cup {NoLoad}]
    /\ result \in [Loads -> Results]
    /\ content \in [Projects -> 0..MaxDisk]
    /\ poisoned \in BOOLEAN /\ broken \in BOOLEAN
    /\ disk \in Nat
    /\ pc \in [Callers -> Locations]
    /\ project \in [Callers -> Projects]
    /\ reload \in [Callers -> BOOLEAN]
    /\ load \in [Callers -> Loads \cup {NoLoad}]
    /\ prepared \in [Callers -> 0..MaxDisk]
    /\ outcome \in [Callers -> Results]
    /\ \A c \in Callers :
         /\ load[c] # NoLoad <=> pc[c] \in Leading \cup {"wait", "parked"}
         /\ prepared[c] # 0 <=> pc[c] = "commit"
         /\ outcome[c] # "Unset" <=> pc[c] \in {"retire", "finish"}

(* At most one load of a project is in flight, and the entry of the        *)
(* registry is there exactly while its leader has an armed guard: no entry *)
(* outlives its leader, whatever way the leader ends, unless the registry  *)
(* is poisoned and the entry cannot be reached.  A load in the registry    *)
(* has no result yet, so that nobody inherits the failure of an attempt    *)
(* that is over ("a later attempt becomes a fresh leader"); and a load     *)
(* without a result that somebody waits for has a live leader.             *)
EntryHasOneLeader ==
    /\ \A c, d \in Callers :
         pc[c] \in Armed /\ pc[d] \in Armed /\ project[c] = project[d] => c = d
    /\ \A c \in Callers : pc[c] \in Armed => loads[project[c]] = load[c]
    /\ ~broken => \A p \in Projects : loads[p] # NoLoad =>
         /\ \E c \in Callers : pc[c] \in Armed /\ project[c] = p /\ load[c] = loads[p]
         /\ result[loads[p]] = "Unset"
    /\ \A c \in Callers :
         pc[c] \in {"wait", "parked"} /\ result[load[c]] = "Unset" =>
           \E d \in Callers : pc[d] \in Leading /\ load[d] = load[c]

(* The workspace in the world never goes back to an older state of the     *)
(* disk: loads of one project do not overtake each other.                  *)
ContentMonotone == [][\A p \in Projects : content'[p] >= content[p]]_vars

(* A session that joins without asking for a reload never replaces the     *)
(* workspace other sessions are using.                                     *)
OnlyReloadReplaces ==
    [][\A p \in Projects : content[p] # 0 /\ content'[p] # content[p] =>
         \E c \in Callers : pc[c] = "commit" /\ project[c] = p /\ reload[c]]_vars

(* Every call returns: with a workspace, with the leader's error, or with  *)
(* the notice that the leader unwound.                                     *)
CallReturns == \A c \in Callers : pc[c] # "idle" ~> pc[c] = "idle"

==============================================================================
