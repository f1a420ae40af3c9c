-------------------------------- MODULE Overlay --------------------------------
(***************************************************************************)
(* Unsaved edits in a shared world (shared_analyzer.rs:                    *)
(* sync_session_overlay and its neighbours; session.rs:                    *)
(* process_shared_changes, attach_pending_shared_cone).                    *)
(*                                                                         *)
(* The sessions share one workspace of one source root.  The open buffers  *)
(* of a session reach its runtime by a sync: while the workspace is        *)
(* visible to that runtime alone, the edit is made directly in the base    *)
(* input of the file; otherwise the runtime gets an overlay copy of it,    *)
(* and, once its crate cone is attached, structural copies of the other    *)
(* files of the source root.  A session has a runtime at a time, and a     *)
(* fresh one whenever its workspaces are fetched: the old one is dropped   *)
(* when the last snapshot of it goes.                                      *)
(*                                                                         *)
(* An action is a critical section of the mutex of the world, or an event  *)
(* of a session.  Texts are abstract: the original one, and one that each  *)
(* session types.  Syncs that fail half-way are not modelled.              *)
(***************************************************************************)
EXTENDS Integers, FiniteSets, FiniteSetsExt

CONSTANTS Files,      \* files of the workspace
          Root,       \* the one that is the root of their crate
          Closed,     \* bound: the files each session never opens
          Sessions,   \* editors
          Runtimes,   \* SharedAnalyzerRuntimes
          NoRuntime,
          Original,   \* the text of every file at first
          Nothing,    \* no text: closed, absent
          MaxUpsets   \* bound: new texts that get to disk, and one for `crossed`

ASSUME RootAssumption == Root \in Files /\ Closed \in [Sessions -> SUBSET Files]

ASSUME NothingAssumption ==
    /\ NoRuntime \notin Runtimes
    /\ Original \notin Sessions
    /\ Nothing \notin Sessions \cup {Original}
    /\ MaxUpsets \in Nat

VARIABLES disk,      \* the files on disk
          saved,     \* the texts that have been on disk
          base,      \* world: the base input of each file
          joined,    \* world: the runtimes registered in the workspace
          direct,    \* world: direct edits of each runtime
          copy,      \* world: overlay copies of each runtime
          modified,  \* world: those of them that are no structural copies
          coned,     \* world: the overlay of the runtime has the crate
          input,     \* world: the inputs of the overlay copies
          pending,   \* runtime: cone_pending
          lastOpen,  \* runtime: last_open_set
          buffer,    \* session: mem_docs
          cur,       \* session: its runtime
          next,      \* session: the runtime its last fetch has got it
          stale,     \* session: the generation of the world has moved
          pc,        \* session: where it is in its turn
          files,     \* session: what it has prepared for the sync
          attach,    \* session: allow_attach of that sync
          crossed,   \* history: a runtime joined one that had direct edits
          overtaken  \* history: a sync was prepared before a reload, or with another open set

Text == Sessions \cup {Original}
MaybeText == Text \cup {Nothing}

world   == <<base, joined, direct, copy, modified, coned, input>>
runtime == <<pending, lastOpen>>
turn    == <<pc, files, attach>>
editor  == <<disk, saved, buffer>>
history == <<crossed, overtaken>>
vars == <<editor, world, runtime, cur, next, stale, turn, history>>

Blank == [f \in Files |-> Nothing]
Present(texts) == {f \in Files : texts[f] # Nothing}

(* workspace_exclusive_to; the mutant forgets the other sessions.          *)
AlwaysExclusive(r) == TRUE
Exclusive(r) == joined \subseteq {r}

-----------------------------------------------------------------------------
Init ==
    /\ disk = [f \in Files |-> Original]
    /\ saved = [f \in Files |-> {Original}]
    /\ base = disk
    /\ joined = {}
    /\ direct = [r \in Runtimes |-> Blank]
    /\ copy = [r \in Runtimes |-> Blank]
    /\ modified = [r \in Runtimes |-> {}]
    /\ coned = [r \in Runtimes |-> FALSE]
    /\ input = [r \in Runtimes |-> Blank]
    /\ pending = [r \in Runtimes |-> FALSE]
    /\ lastOpen = [r \in Runtimes |-> {}]
    /\ buffer = [s \in Sessions |-> Blank]
    /\ cur = [s \in Sessions |-> NoRuntime]
    /\ next = [s \in Sessions |-> NoRuntime]
    /\ stale = [s \in Sessions |-> FALSE]
    /\ pc = [s \in Sessions |-> "idle"]
    /\ files = [s \in Sessions |-> Blank]
    /\ attach = [s \in Sessions |-> FALSE]
    /\ crossed = FALSE /\ overtaken = FALSE

InUse == {cur[s] : s \in Sessions} \cup {next[s] : s \in Sessions}

(* How often the disk or the company has changed under an edit: what       *)
(* MaxUpsets bounds.                                                       *)
Upsets == MapThenSumSet(LAMBDA f : Cardinality(saved[f]) - 1, Files)
          + (IF crossed THEN 1 ELSE 0)
DirectEdits == \E q \in joined : direct[q] # Blank

(* register_session, set_session_workspaces: a runtime with no overlay.    *)
Register(r) ==
    /\ r \notin joined
    /\ joined' = joined \cup {r}
    /\ pending' = [pending EXCEPT ![r] = FALSE]
    /\ lastOpen' = [lastOpen EXCEPT ![r] = {}]
    /\ DirectEdits => crossed \/ Upsets < MaxUpsets
    /\ crossed' = (crossed \/ DirectEdits)
    /\ UNCHANGED <<base, direct, copy, modified, coned, input, overtaken>>

Connect(s, r) ==
    /\ cur[s] = NoRuntime
    /\ Register(r)
    /\ cur' = [cur EXCEPT ![s] = r]
    /\ stale' = [stale EXCEPT ![s] = TRUE]
    /\ UNCHANGED <<editor, next, turn>>

(* fetch_workspaces: the worker registers another runtime ...              *)
Fetch(s, r) ==
    /\ cur[s] # NoRuntime /\ next[s] = NoRuntime
    /\ Register(r)
    /\ next' = [next EXCEPT ![s] = r]
    /\ UNCHANGED <<editor, cur, stale, turn>>

(* ... and the session adopts it; it has seen no generation yet.           *)
Adopt(s) ==
    /\ pc[s] = "idle" /\ next[s] # NoRuntime
    /\ cur' = [cur EXCEPT ![s] = next[s]]
    /\ next' = [next EXCEPT ![s] = NoRuntime]
    /\ stale' = [stale EXCEPT ![s] = TRUE]
    /\ UNCHANGED <<editor, world, runtime, turn, history>>

Disconnect(s) ==
    /\ pc[s] = "idle" /\ cur[s] # NoRuntime
    /\ cur' = [cur EXCEPT ![s] = NoRuntime]
    /\ next' = [next EXCEPT ![s] = NoRuntime]
    /\ buffer' = [buffer EXCEPT ![s] = Blank]
    /\ stale' = [stale EXCEPT ![s] = FALSE]
    /\ UNCHANGED <<disk, saved, world, runtime, turn, history>>

(* What base becomes when a runtime gives up the direct edits it had for   *)
(* those in `new`: a file it lets go gets the text on disk.                *)
AfterDirect(r, new) ==
    [f \in Files |-> IF new[f] # Nothing THEN new[f]
                     ELSE IF direct[r][f] # Nothing THEN disk[f]
                     ELSE base[f]]

(* unregister_session, from the drop of a runtime nobody refers to any     *)
(* more.  The generation does not move.                                    *)
Drop(r) ==
    /\ r \in joined \ InUse
    /\ joined' = joined \ {r}
    /\ base' = AfterDirect(r, Blank)
    /\ direct' = [direct EXCEPT ![r] = Blank]
    /\ copy' = [copy EXCEPT ![r] = Blank]
    /\ modified' = [modified EXCEPT ![r] = {}]
    /\ coned' = [coned EXCEPT ![r] = FALSE]
    /\ input' = [input EXCEPT ![r] = Blank]
    /\ pending' = [pending EXCEPT ![r] = FALSE]
    /\ lastOpen' = [lastOpen EXCEPT ![r] = {}]
    /\ UNCHANGED <<editor, cur, next, stale, turn, history>>

-----------------------------------------------------------------------------
(* overlay_needed; the mutant forgets the overlay that is to be removed.    *)
OverlayNeededByText(s, opened) ==
    \E f \in Present(opened) : opened[f] # base[f]

OverlayNeeded(s, opened) ==
    \/ copy[cur[s]] # Blank \/ direct[cur[s]] # Blank
    \/ \E f \in Present(opened) : opened[f] # base[f]

(* process_shared_changes, up to the sync: is one needed, and of which     *)
(* files?  The cone is expanded when the set of open files has changed.    *)
(* (In the mutant it never is.)                                            *)
ProcessNeverExpands(s, opened) ==
    /\ stale' = [stale EXCEPT ![s] = FALSE]
    /\ \/ ~OverlayNeeded(s, opened) /\ UNCHANGED <<pc, files, lastOpen>>
       \/ /\ OverlayNeeded(s, opened)
          /\ pc' = [pc EXCEPT ![s] = "sync"]
          /\ files' = [files EXCEPT ![s] = opened]
          /\ lastOpen' = [lastOpen EXCEPT ![cur[s]] = Present(opened)]
    /\ UNCHANGED <<world, pending, cur, next, attach, history>>

Process(s, opened) ==
    /\ stale' = [stale EXCEPT ![s] = FALSE]
    /\ \/ /\ ~OverlayNeeded(s, opened)
          /\ UNCHANGED <<pc, files, lastOpen>>
       \/ /\ OverlayNeeded(s, opened) /\ lastOpen[cur[s]] # Present(opened)
          /\ pc' = [pc EXCEPT ![s] = "prepare"]
          /\ lastOpen' = [lastOpen EXCEPT ![cur[s]] = Present(opened)]
          /\ UNCHANGED files
       \/ /\ OverlayNeeded(s, opened) /\ lastOpen[cur[s]] = Present(opened)
          /\ pc' = [pc EXCEPT ![s] = "sync"]
          /\ files' = [files EXCEPT ![s] = opened]
          /\ UNCHANGED lastOpen
    /\ UNCHANGED <<world, pending, cur, next, attach, history>>

(* didOpen, didChange, didClose: a buffer changes, and the event ends in   *)
(* process_shared_changes.  Nobody else reads the buffers of a session, so *)
(* that is one step.                                                       *)
Edit(s, f, text) ==
    /\ pc[s] = "idle" /\ cur[s] # NoRuntime
    /\ text # buffer[s][f]
    /\ buffer' = [buffer EXCEPT ![s][f] = text]
    /\ Process(s, buffer'[s])
    /\ UNCHANGED <<disk, saved>>

Open(s, f)  == buffer[s][f] = Nothing /\ Edit(s, f, disk[f])
Type(s, f)  == buffer[s][f] # Nothing /\ Edit(s, f, s)
Undo(s, f)  == buffer[s][f] # Nothing /\ Edit(s, f, disk[f])
Close(s, f) == Edit(s, f, Nothing)

(* Another event: one that follows a change of the generation, or that     *)
(* tells of a file outside the model.                                      *)
Notice(s) ==
    /\ pc[s] = "idle" /\ cur[s] # NoRuntime
    /\ Process(s, buffer[s])
    /\ UNCHANGED editor

(* The editor writes a buffer to disk; nothing tells the world.            *)
Save(s, f) ==
    /\ buffer[s][f] \notin {Nothing, disk[f]}
    /\ Upsets < MaxUpsets
    /\ disk' = [disk EXCEPT ![f] = buffer[s][f]]
    /\ saved' = [saved EXCEPT ![f] = @ \cup {buffer[s][f]}]
    /\ UNCHANGED <<buffer, world, runtime, cur, next, stale, turn, history>>

(* prepare_session_overlay_files: the open files, and the others of the    *)
(* source root with the text they have now.                                *)
Prepared(s) ==
    [f \in Files |-> IF Present(buffer[s]) = {} THEN Nothing
                     ELSE IF buffer[s][f] # Nothing THEN buffer[s][f]
                     ELSE base[f]]

Prepare(s) ==
    /\ pc[s] = "prepare"
    /\ pc' = [pc EXCEPT ![s] = "sync"]
    /\ files' = [files EXCEPT ![s] = Prepared(s)]
    /\ UNCHANGED <<editor, world, runtime, cur, next, stale, attach, history>>

(* attach_pending_shared_cone, before a semantic request; it does not look *)
(* at last_open_set.                                                       *)
Attach(s) ==
    /\ pc[s] = "idle" /\ cur[s] # NoRuntime /\ pending[cur[s]]
    /\ pc' = [pc EXCEPT ![s] = "sync"]
    /\ attach' = [attach EXCEPT ![s] = TRUE]
    /\ files' = [files EXCEPT ![s] = Prepared(s)]
    /\ overtaken' = (overtaken \/ lastOpen[cur[s]] # Present(buffer[s]))
    /\ UNCHANGED <<editor, world, runtime, cur, next, stale, crossed>>

-----------------------------------------------------------------------------
(* sync_session_overlay sorts the files it is given.  One that the runtime *)
(* edits directly stays direct, whoever has joined meanwhile; another one  *)
(* that differs from the base becomes direct if nobody else has the        *)
(* workspace, and else modified; one that does not differ may be needed    *)
(* for a structural copy.                                                  *)
StaysDirect(r, f) == direct[r][f] # Nothing

NewDirect(r, given) ==
    [f \in Files |-> IF StaysDirect(r, f) \/ (given[f] # base[f] /\ Exclusive(r))
                     THEN given[f] ELSE Nothing]

NewModified(r, given) ==
    [f \in Files |-> IF given[f] = base[f] \/ StaysDirect(r, f) \/ Exclusive(r)
                     THEN Nothing ELSE given[f]]

Unmodified(r, given) ==
    [f \in Files |-> IF given[f] = base[f] /\ ~StaysDirect(r, f)
                     THEN given[f] ELSE Nothing]

(* The structural copies of an attached cone: of the files given, or, when *)
(* none of them is unmodified, those there are.                            *)
Structural(r, given) ==
    IF Unmodified(r, given) # Blank THEN Unmodified(r, given)
    ELSE [f \in Files |-> IF f \in modified[r] THEN Nothing ELSE copy[r][f]]

(* The first fast path: the same files with the same texts.                *)
SameOpenFiles(r, new) ==
    \A f \in Files : new[f] = IF f \in modified[r] THEN copy[r][f] ELSE Nothing

KeepOverlay(r) ==
    /\ pending' = [pending EXCEPT ![r] = modified[r] # {} /\ ~coned[r]]
    /\ UNCHANGED <<copy, modified, coned, input>>

(* The second: the same files with other texts, which go to their inputs.  *)
ChangeTexts(r, new) ==
    /\ copy' = [copy EXCEPT ![r] =
                  [f \in Files |-> IF new[f] # Nothing THEN new[f] ELSE @[f]]]
    /\ input' = [input EXCEPT ![r] =
                  [f \in Files |-> IF new[f] # Nothing THEN new[f] ELSE @[f]]]
    /\ pending' = [pending EXCEPT ![r] = ~coned[r]]
    /\ UNCHANGED <<modified, coned>>

(* A copy whose text has changed, or that is new, is sent to its input; a  *)
(* copy that was there with this text keeps the input it has.  (In the     *)
(* mutant one that was there with any text does.)                          *)
AppliedToNew(r, texts) ==
    [f \in Files |-> IF texts[f] # Nothing /\ copy[r][f] # Nothing
                     THEN input[r][f] ELSE texts[f]]

Applied(r, texts) ==
    [f \in Files |-> IF texts[f] # Nothing /\ texts[f] = copy[r][f]
                     THEN input[r][f] ELSE texts[f]]

(* Otherwise the overlay is built anew.  (The mutant leaves the mark of a  *)
(* cone on an overlay that has come to have no files.)                     *)
RebuildKeepsCone(r, new, structural, attached) ==
    /\ copy' = [copy EXCEPT ![r] =
         [f \in Files |-> IF new[f] # Nothing THEN new[f]
                          ELSE IF attached /\ new # Blank THEN structural[f]
                          ELSE Nothing]]
    /\ input' = [input EXCEPT ![r] = Applied(r, copy'[r])]
    /\ modified' = [modified EXCEPT ![r] = Present(new)]
    /\ coned' = [coned EXCEPT ![r] = attached]
    /\ pending' = [pending EXCEPT ![r] = ~attached /\ new # Blank]

(* It has the crate if it has a copy of its root.                          *)
Rebuild(r, new, structural, attached) ==
    /\ copy' = [copy EXCEPT ![r] =
         [f \in Files |-> IF new[f] # Nothing THEN new[f]
                          ELSE IF attached /\ new # Blank THEN structural[f]
                          ELSE Nothing]]
    /\ input' = [input EXCEPT ![r] = Applied(r, copy'[r])]
    /\ modified' = [modified EXCEPT ![r] = Present(new)]
    /\ coned' = [coned EXCEPT ![r] = attached /\ copy'[r][Root] # Nothing]
    /\ pending' = [pending EXCEPT ![r] = ~attached /\ new # Blank]

Sync(s) ==
    LET r     == cur[s]
        new   == NewModified(r, files[s])
        force == attach[s] /\ ~coned[r] /\ new # Blank
    IN  /\ pc[s] = "sync"
        /\ direct' = [direct EXCEPT ![r] = NewDirect(r, files[s])]
        /\ base' = AfterDirect(r, direct'[r])
        /\ \/ ~force /\ SameOpenFiles(r, new) /\ KeepOverlay(r)
           \/ /\ ~force /\ ~SameOpenFiles(r, new) /\ Present(new) = modified[r]
              /\ ChangeTexts(r, new)
           \/ /\ force \/ Present(new) # modified[r]
              /\ Rebuild(r, new, Structural(r, files[s]), attach[s] \/ coned[r])
        /\ pc' = [pc EXCEPT ![s] = "idle"]
        /\ files' = [files EXCEPT ![s] = Blank]
        /\ attach' = [attach EXCEPT ![s] = FALSE]
        /\ UNCHANGED <<editor, joined, lastOpen, cur, next, stale, history>>

-----------------------------------------------------------------------------
(* A fetch that reloads commits the workspace again, under fresh file ids, *)
(* with texts that have been on disk: the load has read them before it had *)
(* the lock, so that some may be gone from there.                          *)
Loaded == {texts \in [Files -> Text] : \A f \in Files : texts[f] \in saved[f]}

(* recone_session_overlays goes over every overlay with the new base:      *)
(* direct edits are forgotten, copies that no longer differ are dropped,   *)
(* structural ones refreshed, and what is left gets its crates.            *)
Surviving(r) == {f \in modified[r] : copy[r][f] # base'[f]}

Recone(r) ==
    [f \in Files |-> IF copy[r][f] = Nothing \/ Surviving(r) = {} THEN Nothing
                     ELSE IF f \in Surviving(r) THEN copy[r][f]
                     ELSE IF f \in modified[r] THEN Nothing
                     ELSE base'[f]]

(* (The mutant does not forget the direct edits.)                          *)
ReloadKeepsDirect(s) ==
    /\ cur[s] # NoRuntime /\ next[s] = NoRuntime
    /\ base' \in Loaded
    /\ copy' = [r \in Runtimes |-> Recone(r)]
    /\ input' = [r \in Runtimes |-> Applied(r, copy'[r])]
    /\ modified' = [r \in Runtimes |-> Surviving(r)]
    /\ coned' = [r \in Runtimes |-> copy'[r][Root] # Nothing]
    /\ stale' = [q \in Sessions |-> cur[q] # NoRuntime]
    /\ overtaken' = (overtaken \/ \E q \in Sessions : pc[q] = "sync")
    /\ UNCHANGED <<editor, joined, direct, runtime, cur, next, turn, crossed>>

Reload(s) ==
    /\ cur[s] # NoRuntime /\ next[s] = NoRuntime
    /\ base' \in Loaded
    /\ direct' = [r \in Runtimes |-> Blank]
    /\ copy' = [r \in Runtimes |-> Recone(r)]
    /\ input' = [r \in Runtimes |-> Applied(r, copy'[r])]
    /\ modified' = [r \in Runtimes |-> Surviving(r)]
    /\ coned' = [r \in Runtimes |-> copy'[r][Root] # Nothing]
    /\ stale' = [q \in Sessions |-> cur[q] # NoRuntime]
    /\ overtaken' = (overtaken \/ \E q \in Sessions : pc[q] = "sync")
    /\ UNCHANGED <<editor, joined, runtime, cur, next, turn, crossed>>

Next ==
    \/ \E s \in Sessions :
         \/ \E r \in Runtimes : Connect(s, r) \/ Fetch(s, r)
         \/ Adopt(s)
         \/ Disconnect(s)
         \/ Notice(s)
         \/ Attach(s)
         \/ Prepare(s)
         \/ Sync(s)
         \/ Reload(s)
         \/ \E f \in Files \ Closed[s] :
              Open(s, f) \/ Type(s, f) \/ Undo(s, f) \/ Close(s, f) \/ Save(s, f)
    \/ \E r \in Runtimes : Drop(r)

Spec == Init /\ [][Next]_vars

-----------------------------------------------------------------------------
(* Types; an overlay has copies, and a crate, only while there is an edit  *)
(* in it, and of a runtime that is gone nothing is left in the world.      *)
TypeOK ==
    /\ disk \in [Files -> Text]
    /\ saved \in [Files -> SUBSET Text]
    /\ base \in [Files -> Text]
    /\ joined \subseteq Runtimes
    /\ {direct, copy, input} \subseteq [Runtimes -> [Files -> MaybeText]]
    /\ modified \in [Runtimes -> SUBSET Files]
    /\ {coned, pending} \subseteq [Runtimes -> BOOLEAN]
    /\ lastOpen \in [Runtimes -> SUBSET Files]
    /\ {buffer, files} \subseteq [Sessions -> [Files -> MaybeText]]
    /\ {cur, next} \subseteq [Sessions -> joined \cup {NoRuntime}]
    /\ {stale, attach} \subseteq [Sessions -> BOOLEAN]
    /\ pc \in [Sessions -> {"idle", "prepare", "sync"}]
    /\ crossed \in BOOLEAN /\ overtaken \in BOOLEAN
    /\ \A r \in Runtimes :
         /\ modified[r] \subseteq Present(copy[r])
         /\ coned[r] => modified[r] # {}
         /\ copy[r] # Blank => modified[r] # {}
         /\ r \notin joined => direct[r] = Blank /\ copy[r] = Blank

View(s, f) == IF copy[cur[s]][f] # Nothing THEN input[cur[s]][f] ELSE base[f]
Settled(s) == cur[s] # NoRuntime /\ pc[s] = "idle" /\ ~stale[s]

(* A base input is edited directly by one runtime at most, and what that   *)
(* runtime remembers as its direct edit is what the base holds: neither    *)
(* another session nor a reload overwrites it behind its back.             *)
DirectIsBase ==
    \A r \in Runtimes, f \in Files :
        direct[r][f] # Nothing =>
            /\ base[f] = direct[r][f]
            /\ \A q \in Runtimes \ {r} : direct[q][f] = Nothing

(* The inputs of the overlay copies have the texts of the copies, though   *)
(* only those that are believed to have changed are ever sent.             *)
InputsMatch == \A r \in Runtimes : input[r] = copy[r]

(* A session whose edits have no crate yet knows that the cone is to be    *)
(* attached before the next semantic request: unless a runtime has joined  *)
(* while another one was editing directly, a reload has come between what  *)
(* a session prepared and its sync, a cone was attached for other files    *)
(* than those of last_open_set, or one of its open files has no edits.     *)
ConeIsPendingApart ==
    \A s \in Sessions :
      /\ ~crossed /\ ~overtaken
      /\ Settled(s) /\ modified[cur[s]] # {} /\ ~coned[cur[s]]
      /\ Present(buffer[s]) = modified[cur[s]]
      => pending[cur[s]]

(* README.md, Sharing: what a session sees of a file is its own text or    *)
(* one that has been on disk, and no other session's unsaved edit.         *)
EditsArePrivate ==
    \A s \in Sessions, f \in Files : Settled(s) => View(s, f) \in saved[f] \cup {s}

(* A session that has taken its turn sees its own buffers, unless some     *)
(* runtime has joined while another one was editing directly.              *)
OwnBuffers ==
    ~crossed =>
      \A s \in Sessions, f \in Files :
        Settled(s) /\ buffer[s][f] # Nothing => View(s, f) = buffer[s][f]

(* The same, in the middle of a turn too, unless a runtime has joined      *)
(* while another one was editing directly.                                 *)
EditsArePrivateApart ==
    ~crossed =>
      \A s \in Sessions, f \in Files :
        cur[s] # NoRuntime => View(s, f) \in saved[f] \cup {s}

-----------------------------------------------------------------------------
(* session.rs, the deferred cone: a session whose edits have no crate      *)
(* knows that one is to be attached before the next semantic request.      *)
ConeIsPending ==
    \A s \in Sessions :
      Settled(s) /\ modified[cur[s]] # {} /\ ~coned[cur[s]] => pending[cur[s]]
=============================================================================
