---------------------------- MODULE Overlay_proofs ----------------------------
(***************************************************************************)
(* Proofs about the unsaved edits of a shared world, for any number of     *)
(* sessions, runtimes and files.  IInv: the base inputs a runtime edits    *)
(* directly are its own, and the inputs of the overlay copies are what the *)
(* copies say.  Sharing, which is inductive relative to IInv: while nobody *)
(* joins a runtime that edits directly, a session sees its own buffers and *)
(* no unsaved edit of another one, and knows when its cone is pending.     *)
(***************************************************************************)
EXTENDS Overlay, TLAPS

Texts == [Files -> MaybeText]

Typed ==
    /\ disk \in [Files -> Text] /\ saved \in [Files -> SUBSET Text]
    /\ base \in [Files -> Text]
    /\ joined \subseteq Runtimes
    /\ direct \in [Runtimes -> Texts] /\ copy \in [Runtimes -> Texts]
    /\ input \in [Runtimes -> Texts]
    /\ modified \in [Runtimes -> SUBSET Files]
    /\ coned \in [Runtimes -> BOOLEAN] /\ pending \in [Runtimes -> BOOLEAN]
    /\ lastOpen \in [Runtimes -> SUBSET Files]
    /\ buffer \in [Sessions -> Texts] /\ files \in [Sessions -> Texts]
    /\ cur \in [Sessions -> joined \cup {NoRuntime}]
    /\ next \in [Sessions -> joined \cup {NoRuntime}]
    /\ stale \in [Sessions -> BOOLEAN] /\ attach \in [Sessions -> BOOLEAN]
    /\ pc \in [Sessions -> {"idle", "prepare", "sync"}]
    /\ crossed \in BOOLEAN /\ overtaken \in BOOLEAN

(* A session in its turn has a runtime.                                    *)
TurnHasRuntime == \A s \in Sessions : pc[s] # "idle" => cur[s] # NoRuntime

(* What an overlay consists of.                                            *)
Wellformed ==
    \A r \in Runtimes :
        /\ modified[r] \subseteq Present(copy[r])
        /\ coned[r] => modified[r] # {}
        /\ copy[r] # Blank => modified[r] # {}
        /\ r \notin joined => direct[r] = Blank /\ copy[r] = Blank

IInv == Typed /\ TurnHasRuntime /\ Wellformed /\ DirectIsBase /\ InputsMatch

-----------------------------------------------------------------------------
(* Blank is the assignment of no text.                                     *)
LEMMA BlankTexts ==
    /\ Blank \in Texts
    /\ \A t \in Texts : t # Blank <=> Present(t) # {}
  <1>1. Blank \in Texts
    BY DEF Blank, Texts, MaybeText
  <1>2. ASSUME NEW t \in Texts PROVE t # Blank <=> Present(t) # {}
    <2>1. CASE Present(t) = {}
      <3>1. \A f \in Files : t[f] = Blank[f]
        BY <2>1 DEF Present, Blank
      <3>2. t = Blank
        BY <1>1, <3>1 DEF Texts
      <3> QED
        BY <2>1, <3>2
    <2>2. CASE Present(t) # {}
      BY <2>2 DEF Present, Blank
    <2> QED
      BY <2>1, <2>2
  <1> QED
    BY <1>1, <1>2

(* Nothing is typed, and nobody is there.                                  *)
LEMMA InitInv == Init => IInv
  <1> SUFFICES ASSUME Init PROVE IInv
    OBVIOUS
  <1>1. Typed
    <2>1. Blank \in Texts
      BY BlankTexts
    <2> QED
      BY <2>1 DEF Init, Typed, Text
  <1>2. TurnHasRuntime
    BY DEF Init, TurnHasRuntime
  <1>3. Wellformed /\ DirectIsBase /\ InputsMatch
    BY DEF Init, Wellformed, DirectIsBase, InputsMatch, Blank
  <1> QED
    BY <1>1, <1>2, <1>3 DEF IInv

(* Steps of a session that leave the world alone.                          *)
LEMMA WorldFrame ==
    ASSUME IInv, UNCHANGED world
    PROVE  Wellformed' /\ DirectIsBase' /\ InputsMatch'
  BY DEF IInv, world, Wellformed, Present, DirectIsBase, InputsMatch

-----------------------------------------------------------------------------
(* A runtime that joins has no overlay yet.                                *)
LEMMA RegisterStep ==
    ASSUME IInv, NEW r \in Runtimes, Register(r)
    PROVE  Wellformed' /\ DirectIsBase' /\ InputsMatch'
  BY DEF IInv, Typed, Register, Wellformed, Present, DirectIsBase, InputsMatch

(* A session comes with a runtime that has no overlay yet.                 *)
LEMMA ConnectStep ==
    ASSUME IInv, NEW s \in Sessions, NEW r \in Runtimes, Connect(s, r)
    PROVE  IInv'
  <1>1. Typed'
    <2>1. pending' \in [Runtimes -> BOOLEAN] /\ stale' \in [Sessions -> BOOLEAN]
      BY DEF IInv, Typed, Connect, Register
    <2>2. crossed' \in BOOLEAN /\ overtaken' \in BOOLEAN
      BY DEF IInv, Typed, Connect, Register
    <2>3. lastOpen' \in [Runtimes -> SUBSET Files]
      BY DEF IInv, Typed, Connect, Register
    <2> QED
      BY <2>1, <2>2, <2>3 DEF IInv, Typed, Connect, Register, turn, editor
  <1>2. TurnHasRuntime'
    BY NothingAssumption DEF IInv, Typed, TurnHasRuntime, Connect, turn
  <1> QED
    BY <1>1, <1>2, RegisterStep DEF IInv, Connect

(* A second runtime of a session starts as empty as the first.             *)
LEMMA FetchStep ==
    ASSUME IInv, NEW s \in Sessions, NEW r \in Runtimes, Fetch(s, r)
    PROVE  IInv'
  <1>1. Typed'
    <2>1. pending' \in [Runtimes -> BOOLEAN]
      BY DEF IInv, Typed, Fetch, Register
    <2>2. crossed' \in BOOLEAN /\ overtaken' \in BOOLEAN
      BY DEF IInv, Typed, Fetch, Register
    <2>3. lastOpen' \in [Runtimes -> SUBSET Files]
      BY DEF IInv, Typed, Fetch, Register
    <2> QED
      BY <2>1, <2>2, <2>3 DEF IInv, Typed, Fetch, Register, turn, editor
  <1>2. TurnHasRuntime'
    BY DEF IInv, TurnHasRuntime, Fetch, turn
  <1> QED
    BY <1>1, <1>2, RegisterStep DEF IInv, Fetch

(* A session changes runtimes only when it is idle.                        *)
LEMMA AdoptStep ==
    ASSUME IInv, NEW s \in Sessions, Adopt(s)
    PROVE  IInv'
  <1>1. Typed'
    BY DEF IInv, Typed, Adopt, world, runtime, turn, editor, history
  <1>2. TurnHasRuntime'
    BY DEF IInv, Typed, TurnHasRuntime, Adopt, turn
  <1> QED
    BY <1>1, <1>2, WorldFrame DEF IInv, Adopt

(* A session that goes leaves its runtimes to be dropped.                  *)
LEMMA DisconnectStep ==
    ASSUME IInv, NEW s \in Sessions, Disconnect(s)
    PROVE  IInv'
  <1>1. Typed'
    BY BlankTexts DEF IInv, Typed, Disconnect, world, runtime, turn, history
  <1>2. TurnHasRuntime'
    BY DEF IInv, Typed, TurnHasRuntime, Disconnect, turn
  <1> QED
    BY <1>1, <1>2, WorldFrame DEF IInv, Disconnect

(* The files of the runtime that goes get their text back from the disk;   *)
(* no other runtime has one of them.                                       *)
LEMMA DropStep ==
    ASSUME IInv, NEW r \in Runtimes, Drop(r)
    PROVE  IInv'
  <1>1. Blank \in Texts /\ Present(Blank) = {}
    BY BlankTexts DEF Present, Blank
  <1>2. Typed'
    <2>1. base' \in [Files -> Text]
      BY NothingAssumption DEF IInv, Typed, Drop, AfterDirect, Blank
    <2>2. /\ cur' \in [Sessions -> joined' \cup {NoRuntime}]
          /\ next' \in [Sessions -> joined' \cup {NoRuntime}]
      BY DEF IInv, Typed, Drop, InUse
    <2>3. pending' \in [Runtimes -> BOOLEAN] /\ coned' \in [Runtimes -> BOOLEAN]
      BY DEF IInv, Typed, Drop
    <2> QED
      BY <1>1, <2>1, <2>2, <2>3 DEF IInv, Typed, Drop, turn, editor, history
  <1>3. TurnHasRuntime'
    BY DEF IInv, TurnHasRuntime, Drop, turn
  <1>4. Wellformed'
    BY <1>1 DEF IInv, Typed, Wellformed, Drop, Present
  <1>5. DirectIsBase'
    <2>1. ASSUME NEW q \in Runtimes, NEW f \in Files, direct'[q][f] # Nothing
          PROVE  q # r /\ direct'[q] = direct[q] /\ base'[f] = base[f]
      BY <2>1, <1>1 DEF IInv, Typed, DirectIsBase, Drop, AfterDirect, Blank
    <2>2. \A q \in Runtimes, f \in Files :
             direct[q][f] = Nothing => direct'[q][f] = Nothing
      BY DEF IInv, Typed, Drop, Blank
    <2> QED
      BY <2>1, <2>2 DEF IInv, DirectIsBase
  <1>6. InputsMatch'
    BY DEF IInv, Typed, InputsMatch, Drop
  <1> QED
    BY <1>2, <1>3, <1>4, <1>5, <1>6 DEF IInv

-----------------------------------------------------------------------------
(* process_shared_changes up to the sync, which is the end of an event.    *)
LEMMA ProcessKeeps ==
    ASSUME IInv, NEW s \in Sessions, pc[s] = "idle", cur[s] # NoRuntime,
           NEW opened \in Texts, Process(s, opened)
    PROVE  /\ stale' \in [Sessions -> BOOLEAN]
           /\ pc' \in [Sessions -> {"idle", "prepare", "sync"}]
           /\ files' \in [Sessions -> Texts]
           /\ lastOpen' \in [Runtimes -> SUBSET Files]
           /\ TurnHasRuntime'
           /\ UNCHANGED <<world, pending, cur, next, attach, history>>
  <1>1. stale' \in [Sessions -> BOOLEAN]
    BY DEF IInv, Typed, Process
  <1>2. lastOpen' \in [Runtimes -> SUBSET Files]
    <2>1. Present(opened) \subseteq Files
      BY DEF Present
    <2> QED
      BY <2>1 DEF IInv, Typed, Process
  <1>3. pc' \in [Sessions -> {"idle", "prepare", "sync"}] /\ files' \in [Sessions -> Texts]
    <2>1. pc' \in [Sessions -> {"idle", "prepare", "sync"}]
      BY DEF IInv, Typed, Process
    <2>2. files' \in [Sessions -> Texts]
      BY DEF IInv, Typed, Process
    <2> QED
      BY <2>1, <2>2
  <1>4. UNCHANGED <<world, pending, cur, next, attach, history>>
    BY DEF Process
  <1>5. TurnHasRuntime'
    <2>1. \A q \in Sessions \ {s} : pc'[q] = pc[q]
      BY DEF Process, IInv, Typed
    <2> QED
      BY <1>4, <2>1 DEF IInv, TurnHasRuntime
  <1> QED
    BY <1>1, <1>2, <1>3, <1>4, <1>5

(* A session that looks whether to sync changes nothing in the world.      *)
LEMMA NoticeStep ==
    ASSUME IInv, NEW s \in Sessions, Notice(s)
    PROVE  IInv'
  <1>1. Typed' /\ TurnHasRuntime' /\ UNCHANGED world
    BY ProcessKeeps DEF IInv, Typed, Notice, editor, world, history
  <1> QED
    BY <1>1, WorldFrame DEF IInv

(* Nor does one whose buffer changes.                                      *)
LEMMA EditStep ==
    ASSUME IInv, NEW s \in Sessions, NEW f \in Files, NEW text \in MaybeText,
           Edit(s, f, text)
    PROVE  IInv'
  <1>1. buffer' \in [Sessions -> Texts]
    BY DEF IInv, Typed, Edit, Texts
  <1>2. Typed' /\ TurnHasRuntime' /\ UNCHANGED world
    BY <1>1, ProcessKeeps DEF IInv, Typed, Edit, world, history
  <1> QED
    BY <1>2, WorldFrame DEF IInv

(* A new text on disk, which the world does not hear of.                   *)
LEMMA SaveStep ==
    ASSUME IInv, NEW s \in Sessions, NEW f \in Files, Save(s, f)
    PROVE  IInv'
  <1>1. disk' \in [Files -> Text] /\ saved' \in [Files -> SUBSET Text]
    <2>1. buffer[s][f] \in Text
      BY DEF IInv, Typed, Texts, MaybeText, Save
    <2> QED
      BY <2>1 DEF IInv, Typed, Save
  <1>2. Typed'
    BY <1>1 DEF IInv, Typed, Save, world, runtime, turn, history
  <1>3. TurnHasRuntime'
    BY DEF IInv, TurnHasRuntime, Save, turn
  <1> QED
    BY <1>2, <1>3, WorldFrame DEF IInv, Save

(* What is prepared is of buffers and of base inputs.                      *)
LEMMA PreparedTexts ==
    ASSUME IInv, NEW s \in Sessions
    PROVE  Prepared(s) \in Texts
  BY DEF IInv, Typed, Prepared, Texts, MaybeText

(* Nor does the reading of the cone's texts, which the sync is given.      *)
LEMMA PrepareStep ==
    ASSUME IInv, NEW s \in Sessions, Prepare(s)
    PROVE  IInv'
  <1>1. Typed'
    BY PreparedTexts DEF IInv, Typed, Prepare, editor, world, runtime, history
  <1>2. TurnHasRuntime'
    BY DEF IInv, Typed, TurnHasRuntime, Prepare
  <1> QED
    BY <1>1, <1>2, WorldFrame DEF IInv, Prepare

(* Nor does the decision to attach a cone.                                 *)
LEMMA AttachStep ==
    ASSUME IInv, NEW s \in Sessions, Attach(s)
    PROVE  IInv'
  <1>1. attach' \in [Sessions -> BOOLEAN] /\ overtaken' \in BOOLEAN
    BY DEF IInv, Typed, Attach
  <1>2. Typed'
    BY <1>1, PreparedTexts DEF IInv, Typed, Attach, editor, world, runtime
  <1>3. TurnHasRuntime'
    BY DEF IInv, Typed, TurnHasRuntime, Attach
  <1> QED
    BY <1>2, <1>3, WorldFrame DEF IInv, Attach

-----------------------------------------------------------------------------
(* The critical section of a sync.  The direct edits: what stays direct    *)
(* was the runtime's own, and what becomes direct is in a workspace that   *)
(* nobody else has joined, so that nobody else has direct edits.           *)
LEMMA SyncDirect ==
    ASSUME IInv, NEW r \in joined, NEW given \in Texts,
           direct' = [direct EXCEPT ![r] = NewDirect(r, given)],
           base' = AfterDirect(r, direct'[r])
    PROVE  /\ direct' \in [Runtimes -> Texts] /\ base' \in [Files -> Text]
           /\ DirectIsBase'
  <1>1. r \in Runtimes /\ direct'[r] = NewDirect(r, given)
    BY DEF IInv, Typed
  <1>2. NewDirect(r, given) \in Texts
    BY DEF NewDirect, Texts, MaybeText
  <1>3. direct' \in [Runtimes -> Texts]
    BY <1>1, <1>2 DEF IInv, Typed
  <1>4. base' \in [Files -> Text]
    BY <1>1, <1>2 DEF IInv, Typed, AfterDirect, Texts, MaybeText
  <1>5. ASSUME NEW q \in Runtimes, NEW f \in Files, q # r, direct[q][f] # Nothing
        PROVE  direct'[r][f] = Nothing /\ base'[f] = base[f]
    <2>1. direct[r][f] = Nothing
      BY <1>1, <1>5 DEF IInv, DirectIsBase
    <2>2. ~Exclusive(r)
      BY <1>5 DEF Exclusive, IInv, Wellformed, Blank
    <2>3. direct'[r][f] = Nothing
      BY <1>1, <2>1, <2>2 DEF NewDirect, StaysDirect
    <2> QED
      BY <1>1, <2>1, <2>3 DEF AfterDirect
  <1>6. ASSUME NEW f \in Files, direct'[r][f] # Nothing
        PROVE  base'[f] = direct'[r][f]
    BY <1>6 DEF AfterDirect
  <1>7. \A q \in Runtimes \ {r} : direct'[q] = direct[q]
    BY DEF IInv, Typed
  <1>8. DirectIsBase'
    <2> SUFFICES ASSUME NEW q \in Runtimes, NEW f \in Files, direct'[q][f] # Nothing
                 PROVE  /\ base'[f] = direct'[q][f]
                        /\ \A p \in Runtimes \ {q} : direct'[p][f] = Nothing
      BY DEF DirectIsBase
    <2>1. CASE q = r
      BY <1>1, <1>5, <1>6, <1>7, <2>1
    <2>2. CASE q # r
      BY <1>1, <1>5, <1>7, <2>2 DEF IInv, DirectIsBase
    <2> QED
      BY <2>1, <2>2
  <1> QED
    BY <1>3, <1>4, <1>8

(* The three ways to an overlay.                                           *)
LEMMA SyncOverlay ==
    ASSUME IInv, NEW r \in joined, NEW given \in Texts, NEW attached \in BOOLEAN,
           NEW new, new = NewModified(r, given),
           \/ SameOpenFiles(r, new) /\ KeepOverlay(r)
           \/ Present(new) = modified[r] /\ ChangeTexts(r, new)
           \/ Rebuild(r, new, Structural(r, given), attached)
    PROVE  /\ copy' \in [Runtimes -> Texts] /\ input' = copy'
           /\ modified' \in [Runtimes -> SUBSET Files]
           /\ coned' \in [Runtimes -> BOOLEAN] /\ pending' \in [Runtimes -> BOOLEAN]
           /\ \A q \in Runtimes \ {r} :
                 copy'[q] = copy[q] /\ modified'[q] = modified[q] /\ coned'[q] = coned[q]
           /\ modified'[r] \subseteq Present(copy'[r])
           /\ coned'[r] => modified'[r] # {}
           /\ copy'[r] # Blank => modified'[r] # {}
  <1>1. r \in Runtimes /\ new \in Texts /\ input = copy
    BY DEF IInv, Typed, InputsMatch, NewModified, Texts, MaybeText
  <1>2. CASE SameOpenFiles(r, new) /\ KeepOverlay(r)
    <2>1. pending' \in [Runtimes -> BOOLEAN]
      BY <1>1, <1>2 DEF KeepOverlay, IInv, Typed
    <2> QED
      BY <1>1, <1>2, <2>1 DEF KeepOverlay, IInv, Typed, Wellformed
  <1>3. CASE Present(new) = modified[r] /\ ChangeTexts(r, new)
    <2> DEFINE texts == [f \in Files |-> IF new[f] # Nothing THEN new[f] ELSE copy[r][f]]
    <2>1. texts \in Texts
      BY <1>1 DEF IInv, Typed, Texts
    <2>2. copy' = [copy EXCEPT ![r] = texts] /\ input' = copy'
      BY <1>1, <1>3 DEF ChangeTexts
    <2>3. pending' \in [Runtimes -> BOOLEAN] /\ coned' = coned /\ modified' = modified
      BY <1>1, <1>3 DEF ChangeTexts, IInv, Typed
    <2>4. copy' \in [Runtimes -> Texts] /\ copy'[r] = texts
      BY <1>1, <2>1, <2>2 DEF IInv, Typed
    <2>5. modified[r] \subseteq Present(copy'[r])
      BY <1>3, <2>4 DEF Present
    <2>6. copy'[r] # Blank => modified[r] # {}
      <3> SUFFICES ASSUME modified[r] = {} PROVE copy'[r] = Blank
        OBVIOUS
      <3>1. copy[r] = Blank
        BY <1>1 DEF IInv, Wellformed
      <3>2. \A f \in Files : new[f] = Nothing
        BY <1>3 DEF Present
      <3> QED
        BY <2>4, <3>1, <3>2 DEF Blank
    <2> HIDE DEF texts
    <2> QED
      BY <1>1, <2>2, <2>3, <2>4, <2>5, <2>6 DEF IInv, Typed, Wellformed
  <1>4. CASE Rebuild(r, new, Structural(r, given), attached)
    <2> DEFINE texts == [f \in Files |->
                            IF new[f] # Nothing THEN new[f]
                            ELSE IF attached /\ new # Blank THEN Structural(r, given)[f]
                            ELSE Nothing]
    <2>1. texts \in Texts
      <3>1. Structural(r, given) \in Texts
        BY <1>1 DEF Structural, Unmodified, IInv, Typed, Texts, MaybeText
      <3> QED
        BY <1>1, <3>1 DEF Texts, MaybeText
    <2>2. copy' = [copy EXCEPT ![r] = texts]
      BY <1>4 DEF Rebuild
    <2>3. copy' \in [Runtimes -> Texts] /\ copy'[r] = texts
      BY <1>1, <2>1, <2>2 DEF IInv, Typed
    <2>4. Applied(r, texts) = texts
      BY <1>1, <2>1 DEF Applied, Texts
    <2>5. input' = copy'
      BY <1>1, <1>4, <2>2, <2>3, <2>4 DEF Rebuild
    <2>6. modified' = [modified EXCEPT ![r] = Present(new)]
      BY <1>4 DEF Rebuild
    <2>7. modified' \in [Runtimes -> SUBSET Files] /\ modified'[r] = Present(new)
      BY <1>1, <2>6 DEF IInv, Typed, Present
    <2>8. coned' = [coned EXCEPT ![r] = attached /\ copy'[r][Root] # Nothing]
      BY <1>4 DEF Rebuild
    <2>9. coned' \in [Runtimes -> BOOLEAN] /\ pending' \in [Runtimes -> BOOLEAN]
      BY <1>4 DEF Rebuild, IInv, Typed
    <2>10. Present(new) \subseteq Present(texts)
      BY DEF Present
    <2>11. ASSUME Present(new) = {} PROVE texts = Blank
      <3>1. new = Blank
        BY <1>1, <2>11, BlankTexts
      <3> QED
        BY <3>1 DEF Blank
    <2>12. coned'[r] => Present(new) # {}
      <3> SUFFICES ASSUME Present(new) = {} PROVE ~coned'[r]
        OBVIOUS
      <3>1. copy'[r][Root] = Nothing
        BY <2>3, <2>11, RootAssumption DEF Blank
      <3> QED
        BY <1>1, <2>8, <3>1 DEF IInv, Typed
    <2> HIDE DEF texts
    <2> QED
      BY <1>1, <2>2, <2>3, <2>5, <2>6, <2>7, <2>8, <2>9, <2>10, <2>11, <2>12 DEF IInv, Typed
  <1> QED
    BY <1>2, <1>3, <1>4

(* The texts of a sync go to the base for the direct edits, and for the    *)
(* others to the copies and their inputs alike.                            *)
LEMMA SyncStep ==
    ASSUME IInv, NEW s \in Sessions, Sync(s)
    PROVE  IInv'
  <1> DEFINE r == cur[s]
             new == NewModified(r, files[s])
             attached == attach[s] \/ coned[r]
  <1>1. r \in joined /\ r \in Runtimes /\ files[s] \in Texts
    BY DEF IInv, Typed, TurnHasRuntime, Sync
  <1>2. attached \in BOOLEAN
    BY <1>1 DEF IInv, Typed
  <1>3. /\ direct' = [direct EXCEPT ![r] = NewDirect(r, files[s])]
        /\ base' = AfterDirect(r, direct'[r])
        /\ pc' = [pc EXCEPT ![s] = "idle"] /\ files' = [files EXCEPT ![s] = Blank]
        /\ attach' = [attach EXCEPT ![s] = FALSE]
        /\ UNCHANGED <<editor, joined, lastOpen, cur, next, stale, history>>
    BY DEF Sync
  <1>4. \/ SameOpenFiles(r, new) /\ KeepOverlay(r)
        \/ Present(new) = modified[r] /\ ChangeTexts(r, new)
        \/ Rebuild(r, new, Structural(r, files[s]), attached)
    BY DEF Sync
  <1>5. /\ direct' \in [Runtimes -> Texts] /\ base' \in [Files -> Text]
        /\ DirectIsBase'
    BY <1>1, <1>3, SyncDirect
  <1> HIDE DEF attached
  <1>6. /\ copy' \in [Runtimes -> Texts] /\ input' = copy'
        /\ modified' \in [Runtimes -> SUBSET Files]
        /\ coned' \in [Runtimes -> BOOLEAN] /\ pending' \in [Runtimes -> BOOLEAN]
        /\ \A q \in Runtimes \ {r} :
              copy'[q] = copy[q] /\ modified'[q] = modified[q] /\ coned'[q] = coned[q]
        /\ modified'[r] \subseteq Present(copy'[r])
        /\ coned'[r] => modified'[r] # {}
        /\ copy'[r] # Blank => modified'[r] # {}
    BY <1>1, <1>2, <1>4, SyncOverlay
  <1> HIDE DEF r, new
  <1>7. Typed'
    <2>1. attach' \in [Sessions -> BOOLEAN]
      BY <1>3 DEF IInv, Typed
    <2> QED
      BY <1>3, <1>5, <1>6, <2>1, BlankTexts DEF IInv, Typed, editor, history
  <1>8. TurnHasRuntime'
    BY <1>3 DEF IInv, Typed, TurnHasRuntime
  <1>9. Wellformed'
    BY <1>1, <1>3, <1>6 DEF IInv, Typed, Wellformed
  <1> QED
    BY <1>5, <1>6, <1>7, <1>8, <1>9 DEF IInv, InputsMatch

-----------------------------------------------------------------------------
(* A reload forgets the direct edits, and what survives of an overlay are  *)
(* its modified files.                                                     *)
LEMMA ReloadStep ==
    ASSUME IInv, NEW s \in Sessions, Reload(s)
    PROVE  IInv'
  <1>0. base' \in [Files -> Text]
    BY DEF Reload, Loaded
  <1>1. ASSUME NEW r \in Runtimes
        PROVE  /\ Recone(r) \in Texts
               /\ Surviving(r) \subseteq modified[r]
               /\ Surviving(r) \subseteq Present(Recone(r))
               /\ Recone(r) # Blank => Surviving(r) # {}
               /\ copy[r] = Blank => Recone(r) = Blank
               /\ Applied(r, Recone(r)) = Recone(r)
    <2>1. Recone(r) \in Texts
      BY <1>0, <1>1 DEF Recone, IInv, Typed, Texts, MaybeText
    <2>2. Surviving(r) \subseteq modified[r]
      BY DEF Surviving
    <2>3. Surviving(r) \subseteq Present(Recone(r))
      BY <1>1, <2>2 DEF Recone, Present, IInv, Typed, Wellformed
    <2>4. Surviving(r) = {} => Recone(r) = Blank
      BY DEF Recone, Blank
    <2>5. copy[r] = Blank => Recone(r) = Blank
      BY DEF Recone, Blank
    <2>6. Applied(r, Recone(r)) = Recone(r)
      BY <1>1, <2>1 DEF Applied, IInv, InputsMatch, Texts
    <2> QED
      BY <2>1, <2>2, <2>3, <2>4, <2>5, <2>6
  <1>2. /\ copy' \in [Runtimes -> Texts] /\ input' = copy'
        /\ modified' \in [Runtimes -> SUBSET Files]
    BY <1>1 DEF Reload, IInv, Typed
  <1>3. Typed'
    <2>1. /\ coned' \in [Runtimes -> BOOLEAN] /\ stale' \in [Sessions -> BOOLEAN]
          /\ overtaken' \in BOOLEAN
      BY DEF Reload, IInv, Typed
    <2>2. direct' \in [Runtimes -> Texts]
      BY BlankTexts DEF Reload
    <2> QED
      BY <1>0, <1>2, <2>1, <2>2 DEF Reload, IInv, Typed, editor, runtime, turn
  <1>4. TurnHasRuntime'
    BY DEF Reload, IInv, TurnHasRuntime, turn
  <1>5. Wellformed'
    <2>1. ASSUME NEW r \in Runtimes
          PROVE  /\ modified'[r] = Surviving(r) /\ copy'[r] = Recone(r)
                 /\ direct'[r] = Blank /\ joined' = joined
                 /\ coned'[r] => Recone(r)[Root] # Nothing
      BY <2>1 DEF Reload
    <2>2. \A r \in Runtimes : Recone(r)[Root] # Nothing => Recone(r) # Blank
      BY RootAssumption DEF Blank
    <2> QED
      BY <1>1, <2>1, <2>2 DEF IInv, Wellformed
  <1>6. DirectIsBase'
    BY DEF Reload, DirectIsBase, Blank
  <1> QED
    BY <1>2, <1>3, <1>4, <1>5, <1>6 DEF IInv, InputsMatch

-----------------------------------------------------------------------------
(* The invariant is about the variables only.                              *)
LEMMA Stutter == ASSUME IInv, UNCHANGED vars PROVE IInv'
  <1>1. Typed' /\ TurnHasRuntime'
    BY DEF IInv, Typed, TurnHasRuntime, vars, editor, world, runtime, turn, history
  <1> QED
    BY <1>1, WorldFrame DEF IInv, vars

(* The invariant is inductive.                                             *)
THEOREM Invariance == Spec => []IInv
  <1>1. ASSUME IInv, [Next]_vars PROVE IInv'
    <2>1. ASSUME NEW s \in Sessions,
                 \/ \E r \in Runtimes : Connect(s, r) \/ Fetch(s, r)
                 \/ Adopt(s) \/ Disconnect(s) \/ Notice(s) \/ Attach(s) \/ Prepare(s)
                 \/ Sync(s) \/ Reload(s)
          PROVE  IInv'
      BY <1>1, <2>1, ConnectStep, FetchStep, AdoptStep, DisconnectStep, NoticeStep,
         AttachStep, PrepareStep, SyncStep, ReloadStep
    <2>2. ASSUME NEW s \in Sessions, NEW f \in Files,
                 Open(s, f) \/ Type(s, f) \/ Undo(s, f) \/ Close(s, f)
          PROVE  IInv'
      <3>1. disk[f] \in MaybeText /\ s \in MaybeText /\ Nothing \in MaybeText
        BY <1>1 DEF IInv, Typed, MaybeText, Text
      <3> QED
        BY <1>1, <2>2, <3>1, EditStep DEF Open, Type, Undo, Close
    <2>3. ASSUME NEW s \in Sessions, NEW f \in Files, Save(s, f) PROVE IInv'
      BY <1>1, <2>3, SaveStep
    <2>4. ASSUME NEW r \in Runtimes, Drop(r) PROVE IInv'
      BY <1>1, <2>4, DropStep
    <2>5. CASE UNCHANGED vars
      BY <1>1, <2>5, Stutter
    <2> QED
      BY <1>1, <2>1, <2>2, <2>3, <2>4, <2>5 DEF Next
  <1> QED
    BY <1>1, InitInv, PTL DEF Spec

-----------------------------------------------------------------------------
(* What a sync does to the world, as the other facts need it: the texts of *)
(* the modified files are the new ones, a structural copy is one of an     *)
(* unmodified file, and the runtimes of the others are as they were.       *)
LEMMA SyncEffect ==
    ASSUME IInv, IInv', NEW s \in Sessions, Sync(s)
    PROVE  LET r == cur[s]
               given == files[s]
               new == NewModified(r, given)
           IN  /\ r \in joined /\ r \in Runtimes
               /\ direct' = [direct EXCEPT ![r] = NewDirect(r, given)]
               /\ base' = AfterDirect(r, NewDirect(r, given))
               /\ \A q \in Runtimes \ {r} :
                     /\ direct'[q] = direct[q] /\ copy'[q] = copy[q]
                     /\ modified'[q] = modified[q] /\ coned'[q] = coned[q]
                     /\ pending'[q] = pending[q]
               /\ modified'[r] = Present(new)
               /\ \A f \in Files : new[f] # Nothing => copy'[r][f] = new[f]
               /\ \A f \in Files : new[f] = Nothing /\ copy'[r][f] # Nothing =>
                     \/ /\ given[f] = base[f] /\ ~StaysDirect(r, f)
                        /\ copy'[r][f] = given[f]
                     \/ f \notin modified[r] /\ copy'[r][f] = copy[r][f]
               /\ Exclusive(r) => new = Blank /\ copy'[r] = Blank
               /\ pc' = [pc EXCEPT ![s] = "idle"]
               /\ files' = [files EXCEPT ![s] = Blank]
               /\ attach' = [attach EXCEPT ![s] = FALSE]
               /\ UNCHANGED <<editor, joined, lastOpen, cur, next, stale, history>>
  <1> DEFINE r == cur[s]
             given == files[s]
             new == NewModified(r, given)
  <1>1. r \in joined /\ r \in Runtimes /\ given \in Texts /\ new \in Texts
    BY DEF IInv, Typed, TurnHasRuntime, Sync, NewModified, Texts, MaybeText
  <1>2. /\ direct' = [direct EXCEPT ![r] = NewDirect(r, given)]
        /\ pc' = [pc EXCEPT ![s] = "idle"]
        /\ files' = [files EXCEPT ![s] = Blank]
        /\ attach' = [attach EXCEPT ![s] = FALSE]
        /\ UNCHANGED <<editor, joined, lastOpen, cur, next, stale, history>>
    BY DEF Sync
  <1>3. base' = AfterDirect(r, NewDirect(r, given))
    BY <1>1 DEF Sync, IInv, Typed
  <1>4. /\ \A q \in Runtimes \ {r} :
              /\ direct'[q] = direct[q] /\ copy'[q] = copy[q]
              /\ modified'[q] = modified[q] /\ coned'[q] = coned[q]
              /\ pending'[q] = pending[q]
        /\ modified'[r] = Present(new)
        /\ \A f \in Files : new[f] # Nothing => copy'[r][f] = new[f]
        /\ \A f \in Files : new[f] = Nothing /\ copy'[r][f] # Nothing =>
              \/ given[f] = base[f] /\ ~StaysDirect(r, f) /\ copy'[r][f] = given[f]
              \/ f \notin modified[r] /\ copy'[r][f] = copy[r][f]
    <2>1. \A q \in Runtimes \ {r} : direct'[q] = direct[q]
      BY <1>2 DEF IInv, Typed
    <2>2. CASE SameOpenFiles(r, new) /\ KeepOverlay(r)
      <3>1. modified[r] = Present(new)
        BY <1>1, <2>2 DEF SameOpenFiles, Present, IInv, Typed, Wellformed
      <3>2. \A f \in Files : new[f] # Nothing => copy[r][f] = new[f]
        BY <2>2 DEF SameOpenFiles
      <3>3. \A q \in Runtimes \ {r} : pending'[q] = pending[q]
        BY <2>2 DEF KeepOverlay, IInv, Typed
      <3> QED
        BY <2>1, <2>2, <3>1, <3>2, <3>3 DEF KeepOverlay, Present
    <2>3. CASE Present(new) = modified[r] /\ ChangeTexts(r, new)
      <3>1. \A f \in Files : copy'[r][f] = IF new[f] # Nothing THEN new[f] ELSE copy[r][f]
        BY <1>1, <2>3 DEF ChangeTexts, IInv, Typed
      <3>2. \A q \in Runtimes \ {r} : copy'[q] = copy[q] /\ pending'[q] = pending[q]
        BY <2>3 DEF ChangeTexts, IInv, Typed
      <3> QED
        BY <2>1, <2>3, <3>1, <3>2 DEF ChangeTexts, Present
    <2>4. CASE Rebuild(r, new, Structural(r, given), attach[s] \/ coned[r])
      <3>1. \A f \in Files :
               /\ new[f] # Nothing => copy'[r][f] = new[f]
               /\ new[f] = Nothing /\ copy'[r][f] # Nothing =>
                     copy'[r][f] = Structural(r, given)[f]
        BY <1>1, <2>4 DEF Rebuild, IInv, Typed
      <3>2. \A f \in Files : Structural(r, given)[f] # Nothing =>
               \/ /\ given[f] = base[f] /\ ~StaysDirect(r, f)
                  /\ Structural(r, given)[f] = given[f]
               \/ f \notin modified[r] /\ Structural(r, given)[f] = copy[r][f]
        BY DEF Structural, Unmodified
      <3>3. /\ modified'[r] = Present(new)
            /\ \A q \in Runtimes \ {r} :
                  /\ copy'[q] = copy[q] /\ modified'[q] = modified[q]
                  /\ coned'[q] = coned[q] /\ pending'[q] = pending[q]
        BY <1>1, <2>4 DEF Rebuild, IInv, Typed
      <3> QED
        BY <2>1, <3>1, <3>2, <3>3
    <2> QED
      BY <2>2, <2>3, <2>4 DEF Sync
  <1>5. Exclusive(r) => new = Blank /\ copy'[r] = Blank
    <2> SUFFICES ASSUME Exclusive(r) PROVE new = Blank /\ copy'[r] = Blank
      OBVIOUS
    <2>1. new = Blank
      BY DEF NewModified, Blank
    <2>2. Present(new) = {}
      BY <2>1 DEF Present, Blank
    <2> QED
      BY <1>1, <1>4, <2>1, <2>2 DEF IInv, Wellformed
  <1> QED
    BY <1>1, <1>2, <1>3, <1>4, <1>5

(* The cone of an overlay after a sync: it is pending, unless it has been  *)
(* attached, and an attached one lacks the crate only when the sync has    *)
(* left no copy of its root.                                               *)
LEMMA SyncCone ==
    ASSUME IInv, IInv', NEW s \in Sessions, Sync(s)
    PROVE  LET r == cur[s]
               given == files[s]
               new == NewModified(r, given)
           IN  /\ (coned[r] => copy[r][Root] # Nothing)
                     => (coned'[r] => copy'[r][Root] # Nothing)
               /\ modified'[r] # {} /\ ~coned'[r] /\ ~pending'[r] =>
                     /\ attach[s] \/ coned[r]
                     /\ new[Root] = Nothing /\ Structural(r, given)[Root] = Nothing
  <1> DEFINE r == cur[s]
             given == files[s]
             new == NewModified(r, given)
  <1>1. r \in joined /\ r \in Runtimes /\ given \in Texts /\ new \in Texts
    BY DEF IInv, Typed, TurnHasRuntime, Sync, NewModified, Texts, MaybeText
  <1>2. CASE SameOpenFiles(r, new) /\ KeepOverlay(r)
    <2>1. pending'[r] = (modified[r] # {} /\ ~coned[r])
      BY <1>1, <1>2 DEF KeepOverlay, IInv, Typed
    <2> QED
      BY <1>2, <2>1 DEF KeepOverlay
  <1>3. CASE Present(new) = modified[r] /\ ChangeTexts(r, new)
    <2>1. pending'[r] = ~coned[r] /\ coned' = coned
      BY <1>1, <1>3 DEF ChangeTexts, IInv, Typed
    <2>2. copy[r][Root] # Nothing => copy'[r][Root] # Nothing
      BY <1>1, <1>3, RootAssumption DEF ChangeTexts, IInv, Typed
    <2> QED
      BY <2>1, <2>2
  <1>4. CASE Rebuild(r, new, Structural(r, given), attach[s] \/ coned[r])
    <2>1. /\ coned'[r] = ((attach[s] \/ coned[r]) /\ copy'[r][Root] # Nothing)
          /\ pending'[r] = (~(attach[s] \/ coned[r]) /\ new # Blank)
          /\ modified'[r] = Present(new)
      BY <1>1, <1>4 DEF Rebuild, IInv, Typed
    <2>2. copy'[r][Root] = IF new[Root] # Nothing THEN new[Root]
                           ELSE IF (attach[s] \/ coned[r]) /\ new # Blank
                             THEN Structural(r, given)[Root]
                           ELSE Nothing
      BY <1>1, <1>4, RootAssumption DEF Rebuild, IInv, Typed
    <2>3. Present(new) # {} => new # Blank
      BY <1>1, BlankTexts
    <2> QED
      BY <2>1, <2>2, <2>3
  <1> QED
    BY <1>2, <1>3, <1>4 DEF Sync

-----------------------------------------------------------------------------
(* Two sessions do not share a runtime, nor has a session fetched the one  *)
(* it has.                                                                 *)
Distinct ==
    \A s, t \in Sessions :
        /\ cur[s] # NoRuntime /\ s # t => cur[s] # cur[t]
        /\ next[s] # NoRuntime => next[s] # cur[t]
        /\ next[s] # NoRuntime /\ s # t => next[s] # next[t]

(* A runtime that has been fetched and not adopted has no overlay.         *)
Fresh ==
    \A s \in Sessions :
        next[s] # NoRuntime => direct[next[s]] = Blank /\ copy[next[s]] = Blank

(* A sync is given the buffers as they are, and only a sync attaches.      *)
GivenIsBuffer ==
    \A s \in Sessions :
        /\ attach[s] => pc[s] = "sync"
        /\ pc[s] = "sync" =>
              \A f \in Files : buffer[s][f] # Nothing => files[s][f] = buffer[s][f]

(* An overlay that has the crate has a copy of its root.                   *)
ConedRoot == \A r \in Runtimes : coned[r] => copy[r][Root] # Nothing

(* What may be somewhere for a session: what has been on disk, or its own. *)
Own(s, f) == saved[f] \cup {s, Nothing}

EditorSaved ==
    \A f \in Files : disk[f] \in saved[f] /\ \A s \in Sessions : buffer[s][f] \in Own(s, f)

Parties == Distinct /\ Fresh /\ GivenIsBuffer /\ ConedRoot /\ EditorSaved

(* It holds of nobody.                                                     *)
LEMMA PartiesInit == Init => Parties
  <1> SUFFICES ASSUME Init PROVE Parties
    OBVIOUS
  <1>1. Distinct /\ Fresh /\ GivenIsBuffer
    BY DEF Init, Distinct, Fresh, GivenIsBuffer
  <1>2. ConedRoot /\ EditorSaved
    BY DEF Init, ConedRoot, EditorSaved, Own, Blank
  <1> QED
    BY <1>1, <1>2 DEF Parties

(* Only a registration gives a runtime out, and never one that is in use.  *)
LEMMA DistinctStep == ASSUME IInv, Distinct, [Next]_vars PROVE Distinct'
  <1>1. CASE UNCHANGED <<cur, next>>
    BY <1>1 DEF Distinct
  <1>2. ASSUME NEW s \in Sessions, NEW r \in Runtimes, Connect(s, r) \/ Fetch(s, r)
        PROVE  Distinct'
    <2>1. r \notin joined /\ r # NoRuntime
      BY <1>2, NothingAssumption DEF Connect, Fetch, Register
    <2>2. \A t \in Sessions : cur[t] # r /\ next[t] # r
      BY <2>1 DEF IInv, Typed
    <2>3. \/ cur' = [cur EXCEPT ![s] = r] /\ next' = next
          \/ next' = [next EXCEPT ![s] = r] /\ cur' = cur
      BY <1>2 DEF Connect, Fetch
    <2> QED
      BY <2>1, <2>2, <2>3 DEF Distinct, IInv, Typed
  <1>3. ASSUME NEW s \in Sessions, Adopt(s) PROVE Distinct'
    BY <1>3 DEF Adopt, Distinct, IInv, Typed
  <1>4. ASSUME NEW s \in Sessions, Disconnect(s) PROVE Distinct'
    BY <1>4 DEF Disconnect, Distinct, IInv, Typed
  <1>5. ASSUME NEW s \in Sessions,
               Notice(s) \/ Attach(s) \/ Prepare(s) \/ Sync(s) \/ Reload(s)
        PROVE  UNCHANGED <<cur, next>>
    BY <1>5 DEF Notice, Process, Attach, Prepare, Sync, Reload
  <1>6. ASSUME NEW s \in Sessions, NEW f \in Files,
               Open(s, f) \/ Type(s, f) \/ Undo(s, f) \/ Close(s, f) \/ Save(s, f)
        PROVE  UNCHANGED <<cur, next>>
    BY <1>6 DEF Open, Type, Undo, Close, Save, Edit, Process
  <1>7. ASSUME NEW r \in Runtimes, Drop(r) PROVE UNCHANGED <<cur, next>>
    BY <1>7 DEF Drop
  <1> QED
    BY <1>1, <1>2, <1>3, <1>4, <1>5, <1>6, <1>7 DEF Next, vars

(* Nobody syncs with a runtime that is not adopted.                        *)
LEMMA FreshStep == ASSUME IInv, IInv', Distinct, Fresh, [Next]_vars PROVE Fresh'
  <1>1. CASE UNCHANGED <<next, direct, copy>>
    BY <1>1 DEF Fresh
  <1>2. ASSUME NEW s \in Sessions, NEW r \in Runtimes, Connect(s, r) \/ Fetch(s, r)
        PROVE  Fresh'
    <2>1. UNCHANGED <<direct, copy>> /\ (next' = next \/ next' = [next EXCEPT ![s] = r])
      BY <1>2 DEF Connect, Fetch, Register
    <2>2. direct[r] = Blank /\ copy[r] = Blank
      BY <1>2 DEF Connect, Fetch, Register, IInv, Wellformed
    <2> QED
      BY <2>1, <2>2 DEF Fresh, IInv, Typed
  <1>3. ASSUME NEW s \in Sessions, Adopt(s) \/ Disconnect(s) PROVE Fresh'
    BY <1>3 DEF Adopt, Disconnect, world, Fresh, IInv, Typed
  <1>4. ASSUME NEW s \in Sessions, Sync(s) PROVE Fresh'
    <2> SUFFICES ASSUME NEW t \in Sessions, next'[t] # NoRuntime
                 PROVE  direct'[next'[t]] = Blank /\ copy'[next'[t]] = Blank
      BY DEF Fresh
    <2>1. next' = next /\ next[t] \in Runtimes /\ next[t] # cur[s]
      BY <1>4, SyncEffect DEF IInv, Typed, Distinct
    <2> QED
      BY <1>4, <2>1, SyncEffect DEF Fresh
  <1>5. ASSUME NEW s \in Sessions, Reload(s) PROVE Fresh'
    <2>1. \A r \in Runtimes : copy[r] = Blank => Recone(r) = Blank
      BY DEF Recone, Blank
    <2>2. \A t \in Sessions : next[t] # NoRuntime => next[t] \in Runtimes
      BY DEF IInv, Typed
    <2> QED
      BY <1>5, <2>1, <2>2 DEF Reload, Fresh
  <1>6. ASSUME NEW r \in Runtimes, Drop(r) PROVE Fresh'
    BY <1>6 DEF Drop, Fresh, IInv, Typed
  <1>7. ASSUME NEW s \in Sessions, Notice(s) \/ Attach(s) \/ Prepare(s)
        PROVE  UNCHANGED <<next, direct, copy>>
    BY <1>7 DEF Notice, Process, Attach, Prepare, world
  <1>8. ASSUME NEW s \in Sessions, NEW f \in Files,
               Open(s, f) \/ Type(s, f) \/ Undo(s, f) \/ Close(s, f) \/ Save(s, f)
        PROVE  UNCHANGED <<next, direct, copy>>
    BY <1>8 DEF Open, Type, Undo, Close, Save, Edit, Process, world
  <1> QED
    BY <1>1, <1>2, <1>3, <1>4, <1>5, <1>6, <1>7, <1>8 DEF Next, vars, world

(* A buffer changes in the idle state only, and the sync that follows is   *)
(* prepared from the buffers.                                              *)
LEMMA GivenStep == ASSUME IInv, IInv', GivenIsBuffer, [Next]_vars PROVE GivenIsBuffer'
  <1>1. CASE UNCHANGED <<buffer, pc, files, attach>>
    BY <1>1 DEF GivenIsBuffer
  <1>2. ASSUME NEW s \in Sessions, NEW r \in Runtimes, Connect(s, r) \/ Fetch(s, r)
        PROVE  UNCHANGED <<buffer, pc, files, attach>>
    BY <1>2 DEF Connect, Fetch, editor, turn
  <1>3. ASSUME NEW s \in Sessions, Adopt(s) \/ Reload(s)
        PROVE  UNCHANGED <<buffer, pc, files, attach>>
    BY <1>3 DEF Adopt, Reload, editor, turn
  <1>4. ASSUME NEW s \in Sessions, Disconnect(s) PROVE GivenIsBuffer'
    BY <1>4 DEF Disconnect, turn, GivenIsBuffer, IInv, Typed
  <1>5. ASSUME NEW s \in Sessions, NEW opened \in Texts,
               pc[s] = "idle", buffer' = [buffer EXCEPT ![s] = opened],
               Process(s, opened)
        PROVE  GivenIsBuffer'
    <2>1. attach' = attach /\ ~attach[s]
      BY <1>5 DEF Process, GivenIsBuffer
    <2>2. \A t \in Sessions \ {s} :
             pc'[t] = pc[t] /\ files'[t] = files[t] /\ buffer'[t] = buffer[t]
      BY <1>5 DEF Process, IInv, Typed
    <2>3. pc'[s] = "sync" => files'[s] = buffer'[s]
      BY <1>5 DEF Process, IInv, Typed
    <2> QED
      BY <2>1, <2>2, <2>3 DEF GivenIsBuffer
  <1>6. ASSUME NEW s \in Sessions, Notice(s) PROVE GivenIsBuffer'
    <2>1. /\ pc[s] = "idle" /\ buffer[s] \in Texts /\ Process(s, buffer[s])
          /\ buffer' = [buffer EXCEPT ![s] = buffer[s]]
      BY <1>6 DEF Notice, editor, IInv, Typed
    <2> QED
      BY <2>1, <1>5
  <1>7. ASSUME NEW s \in Sessions, NEW f \in Files, NEW text \in MaybeText, Edit(s, f, text)
        PROVE  GivenIsBuffer'
    <2>1. buffer' = [buffer EXCEPT ![s] = [buffer[s] EXCEPT ![f] = text]]
      BY <1>7 DEF Edit
    <2>2. [buffer[s] EXCEPT ![f] = text] \in Texts /\ buffer'[s] = [buffer[s] EXCEPT ![f] = text]
      BY <2>1 DEF IInv, Typed, Texts
    <2>3. pc[s] = "idle" /\ Process(s, [buffer[s] EXCEPT ![f] = text])
      BY <1>7, <2>2 DEF Edit
    <2> QED
      BY <2>1, <2>2, <2>3, <1>5
  <1>8. ASSUME NEW s \in Sessions, Prepare(s) \/ Attach(s) PROVE GivenIsBuffer'
    <2>1. /\ pc' = [pc EXCEPT ![s] = "sync"] /\ files' = [files EXCEPT ![s] = Prepared(s)]
          /\ buffer' = buffer /\ \A t \in Sessions \ {s} : attach'[t] = attach[t]
      BY <1>8 DEF Prepare, Attach, editor, IInv, Typed
    <2>2. \A f \in Files : buffer[s][f] # Nothing => Prepared(s)[f] = buffer[s][f]
      BY DEF Prepared, Present
    <2> QED
      BY <2>1, <2>2 DEF GivenIsBuffer, IInv, Typed
  <1>9. ASSUME NEW s \in Sessions, Sync(s) PROVE GivenIsBuffer'
    <2>1. /\ pc' = [pc EXCEPT ![s] = "idle"] /\ files' = [files EXCEPT ![s] = Blank]
          /\ attach' = [attach EXCEPT ![s] = FALSE] /\ buffer' = buffer
      BY <1>9 DEF Sync, editor
    <2> QED
      BY <2>1 DEF GivenIsBuffer, IInv, Typed
  <1>10. ASSUME NEW s \in Sessions, NEW f \in Files, Save(s, f)
         PROVE  UNCHANGED <<buffer, pc, files, attach>>
    BY <1>10 DEF Save, turn
  <1>11. ASSUME NEW r \in Runtimes, Drop(r) PROVE UNCHANGED <<buffer, pc, files, attach>>
    BY <1>11 DEF Drop, editor, turn
  <1>12. ASSUME NEW s \in Sessions, NEW f \in Files,
                Open(s, f) \/ Type(s, f) \/ Undo(s, f) \/ Close(s, f)
         PROVE  GivenIsBuffer'
    <2>1. disk[f] \in MaybeText /\ s \in MaybeText /\ Nothing \in MaybeText
      BY DEF IInv, Typed, MaybeText, Text
    <2> QED
      BY <1>12, <2>1, <1>7 DEF Open, Type, Undo, Close
  <1> QED
    BY <1>1, <1>2, <1>3, <1>4, <1>6, <1>8, <1>9, <1>10, <1>11, <1>12
    DEF Next, vars, editor, turn

(* A crate comes with a copy of its root, and goes with the overlay.       *)
LEMMA ConedRootStep == ASSUME IInv, IInv', ConedRoot, [Next]_vars PROVE ConedRoot'
  <1>1. CASE UNCHANGED <<coned, copy>>
    BY <1>1 DEF ConedRoot
  <1>2. ASSUME NEW s \in Sessions, Sync(s) PROVE ConedRoot'
    BY <1>2, SyncEffect, SyncCone DEF ConedRoot
  <1>3. ASSUME NEW s \in Sessions, Reload(s) PROVE ConedRoot'
    BY <1>3 DEF Reload, ConedRoot
  <1>4. ASSUME NEW r \in Runtimes, Drop(r) PROVE ConedRoot'
    BY <1>4 DEF Drop, ConedRoot, IInv, Typed
  <1>5. ASSUME NEW s \in Sessions,
               \/ \E r \in Runtimes : Connect(s, r) \/ Fetch(s, r)
               \/ Adopt(s) \/ Disconnect(s) \/ Notice(s) \/ Attach(s) \/ Prepare(s)
        PROVE  UNCHANGED <<coned, copy>>
    BY <1>5 DEF Connect, Fetch, Register, Adopt, Disconnect, Notice, Process, Attach,
       Prepare, world
  <1>6. ASSUME NEW s \in Sessions, NEW f \in Files,
               Open(s, f) \/ Type(s, f) \/ Undo(s, f) \/ Close(s, f) \/ Save(s, f)
        PROVE  UNCHANGED <<coned, copy>>
    BY <1>6 DEF Open, Type, Undo, Close, Save, Edit, Process, world
  <1> QED
    BY <1>1, <1>2, <1>3, <1>4, <1>5, <1>6 DEF Next, vars, world

(* What is on disk has been there, and a text comes from the disk or from  *)
(* its session.                                                            *)
LEMMA EditorSavedStep == ASSUME IInv, EditorSaved, [Next]_vars PROVE EditorSaved'
  <1>1. CASE UNCHANGED editor
    BY <1>1 DEF EditorSaved, Own, editor
  <1>2. ASSUME NEW s \in Sessions, Disconnect(s) PROVE EditorSaved'
    BY <1>2 DEF Disconnect, EditorSaved, Own, Blank, IInv, Typed
  <1>3. ASSUME NEW s \in Sessions, NEW f \in Files,
               Open(s, f) \/ Type(s, f) \/ Undo(s, f) \/ Close(s, f)
        PROVE  EditorSaved'
    <2>1. PICK text \in {disk[f], s, Nothing} :
             buffer' = [buffer EXCEPT ![s][f] = text] /\ UNCHANGED <<disk, saved>>
      BY <1>3 DEF Open, Type, Undo, Close, Edit
    <2> QED
      BY <2>1 DEF EditorSaved, Own, IInv, Typed, Texts
  <1>4. ASSUME NEW s \in Sessions, NEW f \in Files, Save(s, f) PROVE EditorSaved'
    <2>1. /\ disk' = [disk EXCEPT ![f] = buffer[s][f]] /\ buffer' = buffer
          /\ saved' = [saved EXCEPT ![f] = @ \cup {buffer[s][f]}]
      BY <1>4 DEF Save
    <2> QED
      BY <2>1 DEF EditorSaved, Own, IInv, Typed
  <1>5. ASSUME NEW s \in Sessions,
               \/ \E r \in Runtimes : Connect(s, r) \/ Fetch(s, r)
               \/ Adopt(s) \/ Notice(s) \/ Attach(s) \/ Prepare(s) \/ Sync(s) \/ Reload(s)
        PROVE  UNCHANGED editor
    BY <1>5 DEF Connect, Fetch, Adopt, Notice, Attach, Prepare, Sync, Reload, editor
  <1>6. ASSUME NEW r \in Runtimes, Drop(r) PROVE UNCHANGED editor
    BY <1>6 DEF Drop
  <1> QED
    BY <1>1, <1>2, <1>3, <1>4, <1>5, <1>6 DEF Next, vars

-----------------------------------------------------------------------------
(* While nobody joins a runtime that edits directly, such a runtime is by  *)
(* itself, and has no overlay.                                             *)
Alone == \A q \in Runtimes : direct[q] # Blank => joined = {q} /\ copy[q] = Blank

(* Then a structural copy has the text of the base,                        *)
StructuralIsBase ==
    \A r \in Runtimes, f \in Files :
        copy[r][f] # Nothing /\ f \notin modified[r] => copy[r][f] = base[f]

(* the base has texts that have been on disk, and direct edits,            *)
BaseSaved ==
    \A f \in Files : base[f] \in saved[f] \/ \E q \in Runtimes : direct[q][f] # Nothing

(* and what is given to a sync of a session, or is in its overlay, may be  *)
(* there.                                                                  *)
WorldSaved ==
    \A s \in Sessions, f \in Files :
        /\ files[s][f] \in Own(s, f)
        /\ cur[s] # NoRuntime =>
              direct[cur[s]][f] \in Own(s, f) /\ copy[cur[s]][f] \in Own(s, f)

Apart == ~crossed => Alone /\ StructuralIsBase /\ BaseSaved /\ WorldSaved

(* Nothing is in the base but what is on disk.                             *)
LEMMA ApartInit == Init => Apart
  <1> SUFFICES ASSUME Init PROVE Apart
    OBVIOUS
  <1>1. Alone /\ StructuralIsBase
    BY DEF Init, Alone, StructuralIsBase, Blank
  <1>2. BaseSaved /\ WorldSaved
    BY DEF Init, BaseSaved, WorldSaved, Own, Blank
  <1> QED
    BY <1>1, <1>2 DEF Apart

(* A runtime that is in use by somebody else than the one with the direct  *)
(* edits would be in its workspace.                                        *)
LEMMA AloneMine ==
    ASSUME IInv, Distinct, Alone, NEW s \in Sessions, cur[s] # NoRuntime
    PROVE  /\ cur[s] \in joined /\ cur[s] \in Runtimes
           /\ \A q \in Runtimes : q # cur[s] => direct[q] = Blank
           /\ next[s] # NoRuntime => direct[cur[s]] = Blank
           /\ \A q \in Runtimes, f \in Files : q # cur[s] => direct[q][f] = Nothing
  <1>1. cur[s] \in joined /\ cur[s] \in Runtimes
    BY DEF IInv, Typed
  <1>2. \A q \in Runtimes : q # cur[s] => direct[q] = Blank
    BY <1>1 DEF Alone
  <1>3. next[s] # NoRuntime => next[s] \in joined /\ next[s] # cur[s]
    BY DEF IInv, Typed, Distinct
  <1>4. next[s] # NoRuntime => direct[cur[s]] = Blank
    BY <1>1, <1>3 DEF Alone
  <1> QED
    BY <1>1, <1>2, <1>4 DEF Blank

(* A sync moves the base only when nobody else is there.                   *)
LEMMA SyncBase ==
    ASSUME IInv, IInv', Distinct, Alone, NEW s \in Sessions, Sync(s)
    PROVE  LET r == cur[s]
               given == files[s]
               new == NewModified(r, given)
           IN  /\ ~Exclusive(r) =>
                     /\ base' = base /\ direct = direct' /\ direct[r] = Blank
                     /\ \A f \in Files : new[f] = IF given[f] = base[f] THEN Nothing
                                                  ELSE given[f]
               /\ Exclusive(r) => joined = {r} /\ copy'[r] = Blank
               /\ direct'[r] # Blank => Exclusive(r)
  <1> DEFINE r == cur[s]
             given == files[s]
             new == NewModified(r, given)
  <1>1. r \in joined /\ r \in Runtimes
    BY SyncEffect
  <1>2. /\ direct' = [direct EXCEPT ![r] = NewDirect(r, given)]
        /\ base' = AfterDirect(r, NewDirect(r, given))
        /\ Exclusive(r) => copy'[r] = Blank
    BY SyncEffect
  <1>3. ASSUME ~Exclusive(r)
        PROVE  /\ base' = base /\ direct = direct' /\ direct[r] = Blank
               /\ \A f \in Files : new[f] = IF given[f] = base[f] THEN Nothing ELSE given[f]
    <2>1. direct[r] = Blank
      BY <1>1, <1>3 DEF Alone, Exclusive
    <2>2. NewDirect(r, given) = Blank
      BY <1>3, <2>1 DEF NewDirect, StaysDirect, Blank
    <2>3. direct' = direct
      BY <1>1, <1>2, <2>1, <2>2 DEF IInv, Typed
    <2>4. base' = base
      BY <1>2, <2>1, <2>2 DEF AfterDirect, Blank, IInv, Typed
    <2> QED
      BY <1>3, <2>1, <2>3, <2>4 DEF NewModified, StaysDirect, Blank
  <1>4. Exclusive(r) => joined = {r}
    BY <1>1 DEF Exclusive
  <1>5. direct'[r] # Blank => Exclusive(r)
    BY <1>3
  <1> QED
    BY <1>2, <1>3, <1>4, <1>5

(* A runtime is dropped with direct edits only when it was by itself.      *)
LEMMA DropBase ==
    ASSUME IInv, Alone, NEW r \in Runtimes, Drop(r)
    PROVE  /\ direct[r] = Blank => base' = base
           /\ direct[r] # Blank =>
                 /\ \A q \in Runtimes \ {r} : copy[q] = Blank /\ q \notin joined
                 /\ joined' = {}
  <1>1. direct[r] = Blank => base' = base
    BY DEF Drop, AfterDirect, Blank, IInv, Typed
  <1> QED
    BY <1>1 DEF Drop, Alone, IInv, Wellformed

(* Who joins while there are direct edits is not apart any more.           *)
LEMMA RegisterApart ==
    ASSUME IInv, NEW r \in Runtimes, Register(r), ~crossed'
    PROVE  ~crossed /\ \A q \in Runtimes : direct[q] = Blank
  BY DEF Register, DirectEdits, IInv, Wellformed

(* Only a sync makes direct edits, and only of a runtime by itself.        *)
LEMMA AloneStep ==
    ASSUME IInv, IInv', Distinct, Alone, ~crossed', [Next]_vars
    PROVE  Alone' /\ ~crossed
  <1>1. CASE UNCHANGED <<direct, joined, copy, crossed>>
    BY <1>1 DEF Alone
  <1>2. ASSUME NEW s \in Sessions, NEW r \in Runtimes, Connect(s, r) \/ Fetch(s, r)
        PROVE  Alone' /\ ~crossed
    <2>1. Register(r)
      BY <1>2 DEF Connect, Fetch
    <2> QED
      BY <2>1, RegisterApart DEF Register, Alone
  <1>3. ASSUME NEW s \in Sessions, Sync(s) PROVE Alone' /\ ~crossed
    <2>1. /\ joined' = joined /\ crossed' = crossed
          /\ cur[s] \in joined /\ cur[s] \in Runtimes
          /\ \A q \in Runtimes \ {cur[s]} : direct'[q] = direct[q]
      BY <1>3, SyncEffect DEF history
    <2>2. \A q \in Runtimes \ {cur[s]} : direct[q] = Blank
      BY <2>1 DEF Alone
    <2>3. direct'[cur[s]] # Blank => joined = {cur[s]} /\ copy'[cur[s]] = Blank
      BY <1>3, SyncBase
    <2> QED
      BY <2>1, <2>2, <2>3 DEF Alone
  <1>4. ASSUME NEW s \in Sessions, Reload(s) PROVE Alone' /\ ~crossed
    BY <1>4 DEF Reload, Alone
  <1>5. ASSUME NEW r \in Runtimes, Drop(r) PROVE Alone' /\ ~crossed
    <2>1. /\ direct' = [direct EXCEPT ![r] = Blank] /\ copy' = [copy EXCEPT ![r] = Blank]
          /\ joined' = joined \ {r} /\ crossed' = crossed /\ r \in joined
      BY <1>5 DEF Drop, history
    <2> QED
      BY <2>1 DEF Alone, IInv, Typed
  <1>6. ASSUME NEW s \in Sessions,
               Adopt(s) \/ Disconnect(s) \/ Notice(s) \/ Attach(s) \/ Prepare(s)
        PROVE  UNCHANGED <<direct, joined, copy, crossed>>
    BY <1>6 DEF Adopt, Disconnect, Notice, Process, Attach, Prepare, world, history
  <1>7. ASSUME NEW s \in Sessions, NEW f \in Files,
               Open(s, f) \/ Type(s, f) \/ Undo(s, f) \/ Close(s, f) \/ Save(s, f)
        PROVE  UNCHANGED <<direct, joined, copy, crossed>>
    BY <1>7 DEF Open, Type, Undo, Close, Save, Edit, Process, world, history
  <1> QED
    BY <1>1, <1>2, <1>3, <1>4, <1>5, <1>6, <1>7 DEF Next, vars, world, history

(* The base does not move under the structural copies of another runtime,  *)
(* and a sync takes its own from the base.                                 *)
LEMMA StructuralStep ==
    ASSUME IInv, IInv', Distinct, Alone, StructuralIsBase, [Next]_vars
    PROVE  StructuralIsBase'
  <1>1. CASE UNCHANGED <<base, copy, modified>>
    BY <1>1 DEF StructuralIsBase
  <1>2. ASSUME NEW s \in Sessions, Sync(s) PROVE StructuralIsBase'
    <2> DEFINE r == cur[s]
               given == files[s]
               new == NewModified(r, given)
    <2>1. /\ r \in Runtimes /\ r \in joined
          /\ \A q \in Runtimes \ {r} : copy'[q] = copy[q] /\ modified'[q] = modified[q]
          /\ modified'[r] = Present(new)
          /\ \A f \in Files : new[f] = Nothing /\ copy'[r][f] # Nothing =>
                \/ /\ given[f] = base[f] /\ ~StaysDirect(r, f)
                   /\ copy'[r][f] = given[f]
                \/ f \notin modified[r] /\ copy'[r][f] = copy[r][f]
      BY <1>2, SyncEffect
    <2>2. CASE ~Exclusive(r)
      <3>1. base' = base
        BY <1>2, <2>2, SyncBase
      <3> HIDE DEF new
      <3> QED
        BY <2>1, <3>1 DEF StructuralIsBase, Present
    <2>3. CASE Exclusive(r)
      <3>1. joined = {r} /\ copy'[r] = Blank
        BY <1>2, <2>3, SyncBase
      <3>2. \A q \in Runtimes \ {r} : copy[q] = Blank
        BY <3>1 DEF IInv, Wellformed
      <3> QED
        BY <2>1, <3>1, <3>2 DEF StructuralIsBase, Blank
    <2> QED
      BY <2>2, <2>3
  <1>3. ASSUME NEW s \in Sessions, Reload(s) PROVE StructuralIsBase'
    <2>1. \A r \in Runtimes, f \in Files :
             Recone(r)[f] # Nothing /\ f \notin Surviving(r) => Recone(r)[f] = base'[f]
      BY DEF Recone
    <2> QED
      BY <1>3, <2>1 DEF Reload, StructuralIsBase
  <1>4. ASSUME NEW r \in Runtimes, Drop(r) PROVE StructuralIsBase'
    <2>1. /\ copy'[r] = Blank
          /\ \A q \in Runtimes \ {r} : copy'[q] = copy[q] /\ modified'[q] = modified[q]
      BY <1>4 DEF Drop, IInv, Typed
    <2>2. CASE direct[r] = Blank
      BY <1>4, <2>1, <2>2, DropBase DEF StructuralIsBase, Blank
    <2>3. CASE direct[r] # Blank
      BY <1>4, <2>1, <2>3, DropBase DEF StructuralIsBase, Blank
    <2> QED
      BY <2>2, <2>3
  <1>5. ASSUME NEW s \in Sessions,
               \/ \E r \in Runtimes : Connect(s, r) \/ Fetch(s, r)
               \/ Adopt(s) \/ Disconnect(s) \/ Notice(s) \/ Attach(s) \/ Prepare(s)
        PROVE  UNCHANGED <<base, copy, modified>>
    BY <1>5 DEF Connect, Fetch, Register, Adopt, Disconnect, Notice, Process, Attach,
       Prepare, world
  <1>6. ASSUME NEW s \in Sessions, NEW f \in Files,
               Open(s, f) \/ Type(s, f) \/ Undo(s, f) \/ Close(s, f) \/ Save(s, f)
        PROVE  UNCHANGED <<base, copy, modified>>
    BY <1>6 DEF Open, Type, Undo, Close, Save, Edit, Process, world
  <1> QED
    BY <1>1, <1>2, <1>3, <1>4, <1>5, <1>6 DEF Next, vars, world

(* What has been on disk stays among it.                                   *)
LEMMA SavedGrows ==
    ASSUME IInv, [Next]_vars
    PROVE  \A f \in Files : saved[f] \subseteq saved'[f]
  <1>1. CASE saved' = saved
    BY <1>1
  <1>2. ASSUME NEW s \in Sessions, NEW f \in Files, Save(s, f)
        PROVE  \A g \in Files : saved[g] \subseteq saved'[g]
    BY <1>2 DEF Save, IInv, Typed
  <1>3. ASSUME NEW s \in Sessions,
               \/ \E r \in Runtimes : Connect(s, r) \/ Fetch(s, r)
               \/ Adopt(s) \/ Disconnect(s) \/ Notice(s) \/ Attach(s) \/ Prepare(s)
               \/ Sync(s) \/ Reload(s)
        PROVE  saved' = saved
    BY <1>3 DEF Connect, Fetch, Adopt, Disconnect, Notice, Attach, Prepare, Sync, Reload,
       editor
  <1>4. ASSUME NEW s \in Sessions, NEW f \in Files,
               Open(s, f) \/ Type(s, f) \/ Undo(s, f) \/ Close(s, f)
        PROVE  saved' = saved
    BY <1>4 DEF Open, Type, Undo, Close, Edit
  <1>5. ASSUME NEW r \in Runtimes, Drop(r) PROVE saved' = saved
    BY <1>5 DEF Drop, editor
  <1> QED
    BY <1>1, <1>2, <1>3, <1>4, <1>5 DEF Next, vars, editor

(* What direct edits leave behind in the base is what is on disk.          *)
LEMMA BaseSavedStep ==
    ASSUME IInv, IInv', Distinct, Alone, EditorSaved, BaseSaved, [Next]_vars
    PROVE  BaseSaved'
  <1>0. \A f \in Files : saved[f] \subseteq saved'[f]
    BY SavedGrows
  <1>1. CASE UNCHANGED <<base, direct>>
    BY <1>0, <1>1 DEF BaseSaved
  <1>2. ASSUME NEW s \in Sessions, Sync(s) PROVE BaseSaved'
    <2>1. /\ cur[s] \in Runtimes
          /\ base' = AfterDirect(cur[s], NewDirect(cur[s], files[s]))
          /\ direct' = [direct EXCEPT ![cur[s]] = NewDirect(cur[s], files[s])]
      BY <1>2, SyncEffect
    <2>2. CASE ~Exclusive(cur[s])
      BY <1>0, <1>2, <2>2, SyncBase DEF BaseSaved
    <2>3. CASE Exclusive(cur[s])
      <3>1. joined = {cur[s]}
        BY <1>2, <2>3, SyncBase
      <3>2. \A q \in Runtimes \ {cur[s]}, f \in Files : direct[q][f] = Nothing
        BY <3>1 DEF IInv, Wellformed, Blank
      <3>3. direct'[cur[s]] = NewDirect(cur[s], files[s])
        BY <2>1 DEF IInv, Typed
      <3>4. ASSUME NEW f \in Files, NewDirect(cur[s], files[s])[f] = Nothing
            PROVE  base'[f] = IF direct[cur[s]][f] # Nothing THEN disk[f] ELSE base[f]
        BY <2>1, <3>4 DEF AfterDirect
      <3> QED
        BY <1>0, <2>1, <3>2, <3>3, <3>4 DEF BaseSaved, EditorSaved
    <2> QED
      BY <2>2, <2>3
  <1>3. ASSUME NEW s \in Sessions, Reload(s) PROVE BaseSaved'
    BY <1>0, <1>3 DEF Reload, Loaded, Blank, BaseSaved
  <1>4. ASSUME NEW r \in Runtimes, Drop(r) PROVE BaseSaved'
    <2>1. /\ base' = AfterDirect(r, Blank)
          /\ \A q \in Runtimes \ {r} : direct'[q] = direct[q]
      BY <1>4 DEF Drop, IInv, Typed
    <2> QED
      BY <1>0, <2>1 DEF AfterDirect, Blank, BaseSaved, EditorSaved
  <1>5. ASSUME NEW s \in Sessions,
               \/ \E r \in Runtimes : Connect(s, r) \/ Fetch(s, r)
               \/ Adopt(s) \/ Disconnect(s) \/ Notice(s) \/ Attach(s) \/ Prepare(s)
        PROVE  UNCHANGED <<base, direct>>
    BY <1>5 DEF Connect, Fetch, Register, Adopt, Disconnect, Notice, Process, Attach,
       Prepare, world
  <1>6. ASSUME NEW s \in Sessions, NEW f \in Files,
               Open(s, f) \/ Type(s, f) \/ Undo(s, f) \/ Close(s, f) \/ Save(s, f)
        PROVE  UNCHANGED <<base, direct>>
    BY <1>6 DEF Open, Type, Undo, Close, Save, Edit, Process, world
  <1> QED
    BY <1>1, <1>2, <1>3, <1>4, <1>5, <1>6 DEF Next, vars, world

(* What is prepared for a session is in its buffers, or in the base, which *)
(* nobody else edits directly.                                             *)
LEMMA PreparedOwn ==
    ASSUME IInv, Distinct, Alone, EditorSaved, BaseSaved, WorldSaved,
           NEW s \in Sessions, cur[s] # NoRuntime, NEW f \in Files
    PROVE  Prepared(s)[f] \in Own(s, f)
  <1>1. base[f] \in Own(s, f)
    <2>1. CASE base[f] \in saved[f]
      BY <2>1 DEF Own
    <2>2. ASSUME NEW q \in Runtimes, direct[q][f] # Nothing PROVE base[f] \in Own(s, f)
      <3>1. q = cur[s]
        BY <2>2, AloneMine
      <3> QED
        BY <2>2, <3>1 DEF WorldSaved, IInv, DirectIsBase
    <2> QED
      BY <2>1, <2>2 DEF BaseSaved
  <1> QED
    BY <1>1 DEF Prepared, EditorSaved, Own

(* The sessions exchange no texts but by the disk.                         *)
LEMMA WorldSavedStep ==
    ASSUME IInv, IInv', Distinct, Fresh, EditorSaved, EditorSaved',
           Alone, BaseSaved, WorldSaved, [Next]_vars
    PROVE  WorldSaved'
  <1>0. \A t \in Sessions, f \in Files : \A x \in Own(t, f) : x \in Own(t, f)'
    BY SavedGrows DEF Own
  <1>1. CASE UNCHANGED <<files, cur, direct, copy>>
    BY <1>0, <1>1 DEF WorldSaved
  <1>2. ASSUME NEW s \in Sessions, NEW r \in Runtimes, Connect(s, r) PROVE WorldSaved'
    <2>1. /\ UNCHANGED <<files, direct, copy>> /\ cur' = [cur EXCEPT ![s] = r]
          /\ direct[r] = Blank /\ copy[r] = Blank
      BY <1>2 DEF Connect, Register, turn, IInv, Wellformed
    <2> QED
      BY <1>0, <2>1 DEF WorldSaved, Own, Blank, IInv, Typed
  <1>3. ASSUME NEW s \in Sessions, NEW r \in Runtimes, Fetch(s, r)
        PROVE  UNCHANGED <<files, cur, direct, copy>>
    BY <1>3 DEF Fetch, Register, turn
  <1>4. ASSUME NEW s \in Sessions, Adopt(s) PROVE WorldSaved'
    <2>1. /\ UNCHANGED <<files, direct, copy>> /\ cur' = [cur EXCEPT ![s] = next[s]]
          /\ direct[next[s]] = Blank /\ copy[next[s]] = Blank
      BY <1>4 DEF Adopt, world, turn, Fresh
    <2> QED
      BY <1>0, <2>1 DEF WorldSaved, Own, Blank, IInv, Typed
  <1>5. ASSUME NEW s \in Sessions, Disconnect(s) PROVE WorldSaved'
    <2>1. UNCHANGED <<files, direct, copy>> /\ cur' = [cur EXCEPT ![s] = NoRuntime]
      BY <1>5 DEF Disconnect, world, turn
    <2> QED
      BY <1>0, <2>1 DEF WorldSaved, IInv, Typed
  <1>6. ASSUME NEW s \in Sessions, NEW opened, Process(s, opened), opened = buffer'[s]
        PROVE  WorldSaved'
    <2>1. /\ UNCHANGED <<cur, direct, copy>>
          /\ files' = files \/ files' = [files EXCEPT ![s] = opened]
      BY <1>6 DEF Process, world
    <2>2. \A f \in Files : opened[f] \in Own(s, f)'
      BY <1>6 DEF EditorSaved
    <2> QED
      BY <1>0, <2>1, <2>2 DEF WorldSaved, IInv, Typed
  <1>7. ASSUME NEW s \in Sessions, Notice(s) PROVE WorldSaved'
    BY <1>6, <1>7 DEF Notice, editor
  <1>8. ASSUME NEW s \in Sessions, NEW f \in Files,
               Open(s, f) \/ Type(s, f) \/ Undo(s, f) \/ Close(s, f)
        PROVE  WorldSaved'
    BY <1>6, <1>8 DEF Open, Type, Undo, Close, Edit
  <1>9. ASSUME NEW s \in Sessions, Prepare(s) \/ Attach(s) PROVE WorldSaved'
    <2>1. /\ UNCHANGED <<cur, direct, copy>> /\ files' = [files EXCEPT ![s] = Prepared(s)]
          /\ cur[s] # NoRuntime
      BY <1>9 DEF Prepare, Attach, world, IInv, TurnHasRuntime
    <2>2. \A f \in Files : Prepared(s)[f] \in Own(s, f)
      BY <2>1, PreparedOwn
    <2> QED
      BY <1>0, <2>1, <2>2 DEF WorldSaved, IInv, Typed
  <1>10. ASSUME NEW s \in Sessions, Sync(s) PROVE WorldSaved'
    <2> DEFINE r == cur[s]
               given == files[s]
               new == NewModified(r, given)
    <2>1. /\ r \in Runtimes /\ r # NoRuntime /\ cur' = cur
          /\ direct' = [direct EXCEPT ![r] = NewDirect(r, given)]
          /\ \A q \in Runtimes \ {r} : direct'[q] = direct[q] /\ copy'[q] = copy[q]
          /\ \A f \in Files : new[f] # Nothing => copy'[r][f] = new[f]
          /\ \A f \in Files : new[f] = Nothing /\ copy'[r][f] # Nothing =>
                \/ /\ given[f] = base[f] /\ ~StaysDirect(r, f)
                   /\ copy'[r][f] = given[f]
                \/ f \notin modified[r] /\ copy'[r][f] = copy[r][f]
          /\ files' = [files EXCEPT ![s] = Blank]
      BY <1>10, SyncEffect, NothingAssumption
    <2>2. \A f \in Files : new[f] # Nothing => new[f] = given[f]
      BY DEF NewModified
    <2>3. \A f \in Files : direct'[r][f] \in {given[f], Nothing}
      BY <2>1 DEF NewDirect, IInv, Typed
    <2>4. \A f \in Files : copy'[r][f] \in {given[f], copy[r][f], Nothing}
      BY <2>1, <2>2
    <2>5. \A f \in Files :
             direct'[r][f] \in Own(s, f) /\ copy'[r][f] \in Own(s, f)
      BY <2>1, <2>3, <2>4 DEF WorldSaved, Own
    <2>6. \A t \in Sessions \ {s} : cur[t] # NoRuntime => cur[t] \in Runtimes \ {r}
      BY DEF Distinct, IInv, Typed
    <2>7. \A t \in Sessions, f \in Files : files'[t][f] \in Own(t, f)
      BY <2>1 DEF WorldSaved, Own, Blank, IInv, Typed
    <2> HIDE DEF new, given, r
    <2>8. ASSUME NEW t \in Sessions, NEW f \in Files, cur[t] # NoRuntime
          PROVE  direct'[cur[t]][f] \in Own(t, f) /\ copy'[cur[t]][f] \in Own(t, f)
      BY <2>1, <2>5, <2>6, <2>8 DEF WorldSaved, r
    <2> QED
      BY <1>0, <2>1, <2>7, <2>8 DEF WorldSaved
  <1>11. ASSUME NEW s \in Sessions, Reload(s) PROVE WorldSaved'
    <2>1. \A r \in Runtimes, f \in Files :
             Recone(r)[f] \in {copy[r][f], Nothing} \cup saved[f]
      BY <1>11 DEF Recone, Reload, Loaded
    <2>2. /\ direct' = [r \in Runtimes |-> Blank] /\ copy' = [r \in Runtimes |-> Recone(r)]
          /\ UNCHANGED <<files, cur>>
      BY <1>11 DEF Reload, turn
    <2>3. \A t \in Sessions : cur[t] # NoRuntime => cur[t] \in Runtimes
      BY DEF IInv, Typed
    <2>4. ASSUME NEW t \in Sessions, NEW f \in Files, cur[t] # NoRuntime
          PROVE  direct'[cur[t]][f] \in Own(t, f) /\ copy'[cur[t]][f] \in Own(t, f)
      <3>1. direct'[cur[t]][f] = Nothing /\ copy'[cur[t]][f] = Recone(cur[t])[f]
        BY <2>2, <2>3, <2>4 DEF Blank
      <3> QED
        BY <2>1, <2>3, <2>4, <3>1 DEF WorldSaved, EditorSaved, Own
    <2> QED
      BY <1>0, <2>2, <2>4 DEF WorldSaved
  <1>12. ASSUME NEW r \in Runtimes, Drop(r) PROVE WorldSaved'
    <2>1. /\ UNCHANGED <<files, cur>>
          /\ \A q \in Runtimes \ {r} : direct'[q] = direct[q] /\ copy'[q] = copy[q]
          /\ \A t \in Sessions : cur[t] # r
      BY <1>12 DEF Drop, turn, InUse, IInv, Typed
    <2>2. \A t \in Sessions : cur[t] # NoRuntime => cur[t] \in Runtimes \ {r}
      BY <2>1 DEF IInv, Typed
    <2> QED
      BY <1>0, <2>1, <2>2 DEF WorldSaved
  <1>13. ASSUME NEW s \in Sessions, NEW f \in Files, Save(s, f)
         PROVE  UNCHANGED <<files, cur, direct, copy>>
    BY <1>13 DEF Save, world, turn
  <1> QED
    BY <1>1, <1>2, <1>3, <1>4, <1>5, <1>7, <1>8, <1>9, <1>10, <1>11, <1>12, <1>13
    DEF Next, vars, world, turn

(* What a session sees may be there for it: the base of another session's  *)
(* direct edits is not in its sight.                                       *)
LEMMA ViewOwn ==
    ASSUME IInv, Distinct, Alone, BaseSaved, WorldSaved,
           NEW s \in Sessions, NEW f \in Files, cur[s] # NoRuntime
    PROVE  View(s, f) \in saved[f] \cup {s}
  <1>1. cur[s] \in Runtimes /\ input = copy
    BY DEF IInv, Typed, InputsMatch
  <1>2. CASE copy[cur[s]][f] # Nothing
    BY <1>1, <1>2 DEF View, WorldSaved, Own
  <1>3. CASE copy[cur[s]][f] = Nothing
    <2>1. ASSUME NEW q \in Runtimes, direct[q][f] # Nothing PROVE base[f] \in saved[f] \cup {s}
      <3>1. q = cur[s]
        BY <2>1, AloneMine
      <3> QED
        BY <2>1, <3>1 DEF WorldSaved, Own, IInv, DirectIsBase
    <2> QED
      BY <1>3, <2>1 DEF View, BaseSaved
  <1> QED
    BY <1>2, <1>3

-----------------------------------------------------------------------------
(* An event after which no sync is needed has found the session with no    *)
(* overlay and no direct edits, and the base as its buffers are.           *)
LEMMA NotNeeded ==
    ASSUME IInv, NEW s \in Sessions, cur[s] # NoRuntime,
           NEW opened \in Texts, ~OverlayNeeded(s, opened)
    PROVE  /\ copy[cur[s]] = Blank /\ modified[cur[s]] = {}
           /\ \A f \in Files : opened[f] # Nothing => base[f] = opened[f]
  <1>1. cur[s] \in Runtimes
    BY DEF IInv, Typed
  <1>2. copy[cur[s]] = Blank
    BY DEF OverlayNeeded
  <1>3. modified[cur[s]] = {}
    BY <1>1, <1>2 DEF IInv, Wellformed, Present, Blank
  <1> QED
    BY <1>2, <1>3 DEF OverlayNeeded, Present

(* process_shared_changes of a session, for the invariants of the others.  *)
LEMMA ProcessEffect ==
    ASSUME IInv, NEW s \in Sessions, pc[s] = "idle", cur[s] # NoRuntime,
           NEW opened \in Texts, Process(s, opened)
    PROVE  /\ UNCHANGED <<world, pending, cur, next, attach, history>>
           /\ \A t \in Sessions \ {s} :
                 pc'[t] = pc[t] /\ files'[t] = files[t] /\ stale'[t] = stale[t]
           /\ \A r \in Runtimes \ {cur[s]} : lastOpen'[r] = lastOpen[r]
           /\ \/ /\ ~OverlayNeeded(s, opened) /\ pc'[s] = "idle"
                 /\ lastOpen' = lastOpen
              \/ pc'[s] = "prepare" /\ lastOpen'[cur[s]] = Present(opened)
              \/ /\ pc'[s] = "sync" /\ files'[s] = opened
                 /\ lastOpen' = lastOpen /\ lastOpen[cur[s]] = Present(opened)
  <1>1. cur[s] \in Runtimes
    BY DEF IInv, Typed
  <1>2. /\ UNCHANGED <<world, pending, cur, next, attach, history>>
        /\ \A t \in Sessions \ {s} : stale'[t] = stale[t]
    BY DEF Process, IInv, Typed
  <1>3. CASE ~OverlayNeeded(s, opened) /\ UNCHANGED <<pc, files, lastOpen>>
    BY <1>2, <1>3
  <1>4. CASE /\ pc' = [pc EXCEPT ![s] = "prepare"]
             /\ lastOpen' = [lastOpen EXCEPT ![cur[s]] = Present(opened)]
             /\ UNCHANGED files
    BY <1>1, <1>2, <1>4 DEF IInv, Typed
  <1>5. CASE /\ lastOpen[cur[s]] = Present(opened)
             /\ pc' = [pc EXCEPT ![s] = "sync"]
             /\ files' = [files EXCEPT ![s] = opened]
             /\ UNCHANGED lastOpen
    BY <1>2, <1>5 DEF IInv, Typed
  <1> QED
    BY <1>3, <1>4, <1>5 DEF Process

(* An event of a session is one of its buffers and process_shared_changes. *)
LEMMA EventIsProcess ==
    ASSUME IInv, IInv', NEW s \in Sessions, NEW f \in Files,
           Notice(s) \/ Open(s, f) \/ Type(s, f) \/ Undo(s, f) \/ Close(s, f)
    PROVE  /\ pc[s] = "idle" /\ cur[s] # NoRuntime /\ buffer'[s] \in Texts
           /\ Process(s, buffer'[s])
           /\ \A t \in Sessions \ {s} : buffer'[t] = buffer[t]
  BY DEF Notice, Open, Type, Undo, Close, Edit, editor, IInv, Typed

(* While its runtime and the base are as they were, a session sees what it *)
(* saw.                                                                    *)
LEMMA OwnBuffersFrame ==
    ASSUME IInv, IInv', OwnBuffers, ~crossed, NEW t \in Sessions,
           cur'[t] = cur[t],
           cur[t] # NoRuntime => copy'[cur[t]] = copy[cur[t]] /\ base' = base,
           buffer'[t] = buffer[t], pc'[t] = pc[t], stale'[t] = stale[t]
    PROVE  \A f \in Files :
              Settled(t)' /\ buffer'[t][f] # Nothing => View(t, f)' = buffer'[t][f]
  <1> SUFFICES ASSUME NEW f \in Files, Settled(t)', buffer'[t][f] # Nothing
               PROVE  View(t, f)' = buffer'[t][f]
    OBVIOUS
  <1>1. Settled(t) /\ cur[t] \in Runtimes
    BY DEF Settled, IInv, Typed
  <1>2. View(t, f) = buffer[t][f]
    BY <1>1 DEF OwnBuffers
  <1>3. input[cur[t]] = copy[cur[t]] /\ input'[cur[t]] = copy'[cur[t]]
    BY <1>1 DEF IInv, InputsMatch
  <1> QED
    BY <1>1, <1>2, <1>3 DEF View, Settled

(* A session's own sync, or an event that finds it with no need of one,    *)
(* has it see its buffers; nobody else's step hides them.                  *)
LEMMA OwnBuffersStep ==
    ASSUME IInv, IInv', Distinct, GivenIsBuffer, Alone, StructuralIsBase,
           StructuralIsBase', OwnBuffers, ~crossed, [Next]_vars
    PROVE  OwnBuffers'
  <1> DEFINE Sees(t) == \A f \in Files :
                Settled(t)' /\ buffer'[t][f] # Nothing => View(t, f)' = buffer'[t][f]
  <1> SUFFICES ASSUME NEW t \in Sessions PROVE Sees(t)
    BY DEF OwnBuffers
  <1>1. CASE UNCHANGED <<cur, copy, base, buffer, pc, stale>>
    BY <1>1, OwnBuffersFrame
  <1>2. ASSUME NEW s \in Sessions, NEW r \in Runtimes, Connect(s, r) \/ Fetch(s, r)
        PROVE  Sees(t)
    <2>1. CASE t = s /\ Connect(s, r)
      BY <2>1 DEF Connect, Settled, IInv, Typed
    <2>2. CASE t # s \/ Fetch(s, r)
      <3>1. /\ cur'[t] = cur[t] /\ copy' = copy /\ base' = base
            /\ buffer'[t] = buffer[t] /\ pc'[t] = pc[t] /\ stale'[t] = stale[t]
        BY <1>2, <2>2 DEF Connect, Fetch, Register, editor, turn, IInv, Typed
      <3> QED
        BY <3>1, OwnBuffersFrame
    <2> QED
      BY <1>2, <2>1, <2>2
  <1>3. ASSUME NEW s \in Sessions, Adopt(s) \/ Disconnect(s) PROVE Sees(t)
    <2>1. CASE t = s
      BY <1>3, <2>1 DEF Adopt, Disconnect, Settled, IInv, Typed
    <2>2. CASE t # s
      <3>1. /\ cur'[t] = cur[t] /\ copy' = copy /\ base' = base
            /\ buffer'[t] = buffer[t] /\ pc'[t] = pc[t] /\ stale'[t] = stale[t]
        BY <1>3, <2>2 DEF Adopt, Disconnect, world, editor, turn, IInv, Typed
      <3> QED
        BY <3>1, OwnBuffersFrame
    <2> QED
      BY <2>1, <2>2
  <1>4. ASSUME NEW s \in Sessions, NEW f \in Files,
               Notice(s) \/ Open(s, f) \/ Type(s, f) \/ Undo(s, f) \/ Close(s, f)
        PROVE  Sees(t)
    <2>1. /\ pc[s] = "idle" /\ cur[s] # NoRuntime /\ buffer'[s] \in Texts
          /\ Process(s, buffer'[s])
          /\ \A q \in Sessions \ {s} : buffer'[q] = buffer[q]
      BY <1>4, EventIsProcess
    <2>2. /\ UNCHANGED <<world, cur>>
          /\ \A q \in Sessions \ {s} : pc'[q] = pc[q] /\ stale'[q] = stale[q]
          /\ pc'[s] = "idle" => ~OverlayNeeded(s, buffer'[s])
      BY <2>1, ProcessEffect
    <2>3. CASE t = s
      <3> SUFFICES ASSUME pc'[s] = "idle" PROVE Sees(t)
        BY <2>3 DEF Settled
      <3>1. /\ copy[cur[s]] = Blank
            /\ \A g \in Files : buffer'[s][g] # Nothing => base[g] = buffer'[s][g]
        BY <2>1, <2>2, NotNeeded
      <3> QED
        BY <2>2, <2>3, <3>1 DEF View, Blank, world
    <2>4. CASE t # s
      BY <2>1, <2>2, <2>4, OwnBuffersFrame DEF world
    <2> QED
      BY <2>3, <2>4
  <1>5. ASSUME NEW s \in Sessions, Prepare(s) \/ Attach(s) PROVE Sees(t)
    <2>1. CASE t = s
      BY <1>5, <2>1 DEF Prepare, Attach, Settled, IInv, Typed
    <2>2. CASE t # s
      <3>1. /\ cur'[t] = cur[t] /\ copy' = copy /\ base' = base
            /\ buffer'[t] = buffer[t] /\ pc'[t] = pc[t] /\ stale'[t] = stale[t]
        BY <1>5, <2>2 DEF Prepare, Attach, world, editor, IInv, Typed
      <3> QED
        BY <3>1, OwnBuffersFrame
    <2> QED
      BY <2>1, <2>2
  <1>6. ASSUME NEW s \in Sessions, Sync(s) PROVE Sees(t)
    <2> DEFINE r == cur[s]
               given == files[s]
               new == NewModified(r, given)
    <2>1. /\ r \in joined /\ r \in Runtimes /\ r # NoRuntime
          /\ UNCHANGED <<joined, cur, stale, buffer>>
          /\ \A q \in Runtimes \ {r} : copy'[q] = copy[q]
          /\ pc' = [pc EXCEPT ![s] = "idle"]
          /\ modified'[r] = Present(new)
          /\ base' = AfterDirect(r, NewDirect(r, given))
          /\ \A f \in Files : new[f] # Nothing => copy'[r][f] = new[f]
      BY <1>6, SyncEffect, NothingAssumption DEF editor
    <2>2. CASE t # s /\ cur[t] # NoRuntime
      <3>1. cur[t] \in Runtimes \ {r} /\ cur[t] \in joined
        BY <2>2 DEF Distinct, IInv, Typed
      <3>2. ~Exclusive(r)
        BY <3>1 DEF Exclusive
      <3>3. base' = base
        BY <1>6, <3>2, SyncBase
      <3> QED
        BY <2>1, <2>2, <3>1, <3>3, OwnBuffersFrame DEF IInv, Typed
    <2>3. CASE t # s /\ cur[t] = NoRuntime
      BY <2>1, <2>3 DEF Settled
    <2>4. CASE t = s
      <3> SUFFICES ASSUME NEW f \in Files, buffer'[s][f] # Nothing
                   PROVE  View(s, f)' = buffer'[s][f]
        BY <2>4
      <3>1. given[f] = buffer'[s][f] /\ given[f] # Nothing
        BY <1>6, <2>1 DEF GivenIsBuffer, Sync
      <3>2. View(s, f)' = IF copy'[r][f] # Nothing THEN copy'[r][f] ELSE base'[f]
        BY <2>1 DEF View, IInv, InputsMatch
      <3>3. CASE Exclusive(r)
        <4>1. copy'[r][f] = Nothing
          BY <1>6, <3>3, SyncBase DEF Blank
        <4>2. base'[f] = given[f]
          BY <2>1, <3>1, <3>3 DEF AfterDirect, NewDirect, StaysDirect
        <4> QED
          BY <3>1, <3>2, <4>1, <4>2
      <3>4. CASE ~Exclusive(r)
        <4>1. /\ base' = base
              /\ new[f] = IF given[f] = base[f] THEN Nothing ELSE given[f]
          BY <1>6, <3>4, SyncBase
        <4>2. CASE given[f] # base[f]
          BY <2>1, <3>1, <3>2, <4>1, <4>2
        <4>3. CASE given[f] = base[f]
          <5>1. f \notin modified'[r]
            BY <2>1, <4>1, <4>3 DEF Present
          <5>2. copy'[r][f] # Nothing => copy'[r][f] = base'[f]
            BY <2>1, <5>1 DEF StructuralIsBase
          <5> QED
            BY <3>1, <3>2, <4>1, <4>3, <5>2
        <4> QED
          BY <4>2, <4>3
      <3> QED
        BY <3>3, <3>4
    <2> QED
      BY <2>2, <2>3, <2>4
  <1>7. ASSUME NEW s \in Sessions, Reload(s) PROVE Sees(t)
    BY <1>7 DEF Reload, Settled
  <1>8. ASSUME NEW r \in Runtimes, Drop(r) PROVE Sees(t)
    <2>1. /\ UNCHANGED <<cur, buffer, pc, stale>>
          /\ \A q \in Runtimes \ {r} : copy'[q] = copy[q]
          /\ cur[t] # r
      BY <1>8 DEF Drop, editor, turn, InUse, IInv, Typed
    <2>2. CASE cur[t] = NoRuntime
      BY <2>1, <2>2 DEF Settled
    <2>3. CASE cur[t] # NoRuntime
      <3>1. cur[t] \in Runtimes \ {r} /\ cur[t] \in joined
        BY <2>1, <2>3 DEF IInv, Typed
      <3>2. base' = base
        BY <1>8, <3>1, DropBase
      <3> QED
        BY <2>1, <3>1, <3>2, OwnBuffersFrame
    <2> QED
      BY <2>2, <2>3
  <1>9. ASSUME NEW s \in Sessions, NEW f \in Files, Save(s, f)
        PROVE  UNCHANGED <<cur, copy, base, buffer, pc, stale>>
    BY <1>9 DEF Save, world, turn
  <1>10. UNCHANGED vars => UNCHANGED <<cur, copy, base, buffer, pc, stale>>
    BY DEF vars, editor, world, turn
  <1>11. \A s \in Sessions : Notice(s) => Sees(t)
    <2>1. Root \in Files
      BY RootAssumption
    <2> QED
      BY <1>4, <2>1
  <1> HIDE DEF Sees
  <1> QED
    BY <1>1, <1>2, <1>3, <1>4, <1>5, <1>6, <1>7, <1>8, <1>9, <1>10, <1>11 DEF Next

-----------------------------------------------------------------------------
(* Where a session is in its turn, as far as the cone of its overlay goes. *)
(* The overlay of an idle session edits only files of last_open_set, which *)
(* is the set of its open files in the turn.  What it gives to a sync      *)
(* comes from its buffers or from the base as it is; and either the root   *)
(* of the crate is among it, or it is the buffers, and no other file has   *)
(* been edited.                                                            *)
RootGiven(s) == Present(buffer[s]) # {} => files[s][Root] # Nothing

BuffersGiven(s) ==
    ~attach[s] /\ files[s] = buffer[s] /\ modified[cur[s]] \subseteq Present(buffer[s])

TurnKept(s) ==
    /\ pc[s] = "idle" => modified[cur[s]] \subseteq lastOpen[cur[s]]
    /\ pc[s] # "idle" => lastOpen[cur[s]] = Present(buffer[s])
    /\ pc[s] = "sync" =>
          /\ \A f \in Files : buffer[s][f] = Nothing => files[s][f] \in {Nothing, base[f]}
          /\ RootGiven(s) \/ BuffersGiven(s)

Kept == ~overtaken => \A s \in Sessions : cur[s] # NoRuntime => TurnKept(s)

(* Nobody has a runtime.                                                   *)
LEMMA KeptInit == Init => Kept
  BY DEF Init, Kept

(* The turn of a session is its own, while the base is as it was.          *)
LEMMA KeptFrame ==
    ASSUME NEW t \in Sessions, TurnKept(t),
           cur'[t] = cur[t], modified'[cur[t]] \subseteq modified[cur[t]],
           lastOpen'[cur[t]] = lastOpen[cur[t]], pc'[t] = pc[t],
           buffer'[t] = buffer[t], files'[t] = files[t], attach'[t] = attach[t],
           base' = base \/ pc[t] # "sync"
    PROVE  TurnKept(t)'
  BY DEF TurnKept, RootGiven, BuffersGiven, Present

(* Only a reload between a sync and what was prepared for it, or a cone    *)
(* that is attached for other open files than those of last_open_set,      *)
(* breaks it.                                                              *)
LEMMA KeptStep ==
    ASSUME IInv, IInv', Distinct, Fresh, GivenIsBuffer, Alone, Kept, [Next]_vars
    PROVE  Kept'
  <1> SUFFICES ASSUME ~overtaken', NEW t \in Sessions, cur'[t] # NoRuntime
               PROVE  TurnKept(t)'
    BY DEF Kept
  <1>1. CASE UNCHANGED <<cur, modified, lastOpen, pc, buffer, files, attach, base, overtaken>>
    BY <1>1, KeptFrame DEF Kept
  <1>2. ASSUME NEW s \in Sessions, NEW r \in Runtimes, Connect(s, r) \/ Fetch(s, r)
        PROVE  TurnKept(t)'
    <2>1. /\ UNCHANGED <<modified, pc, buffer, files, attach, base, overtaken>>
          /\ lastOpen' = [lastOpen EXCEPT ![r] = {}]
          /\ r \notin joined
      BY <1>2 DEF Connect, Fetch, Register, editor, turn
    <2>2. CASE t = s /\ Connect(s, r)
      <3>1. cur'[t] = r /\ pc'[t] = "idle"
        BY <2>1, <2>2 DEF Connect, IInv, Typed, TurnHasRuntime
      <3>2. modified[r] = {}
        BY <2>1 DEF IInv, Wellformed, Present, Blank
      <3> QED
        BY <2>1, <3>1, <3>2 DEF TurnKept
    <2>3. CASE t # s \/ Fetch(s, r)
      <3>1. cur'[t] = cur[t] /\ cur[t] # r /\ cur[t] \in Runtimes
        BY <1>2, <2>1, <2>3 DEF Connect, Fetch, IInv, Typed
      <3>2. lastOpen'[cur[t]] = lastOpen[cur[t]]
        BY <2>1, <3>1 DEF IInv, Typed
      <3> QED
        BY <2>1, <3>1, <3>2, KeptFrame DEF Kept
    <2> QED
      BY <1>2, <2>2, <2>3
  <1>3. ASSUME NEW s \in Sessions, Adopt(s) \/ Disconnect(s) PROVE TurnKept(t)'
    <2>1. /\ UNCHANGED <<modified, lastOpen, pc, files, attach, base, overtaken>>
          /\ \A q \in Sessions \ {s} : cur'[q] = cur[q] /\ buffer'[q] = buffer[q]
      BY <1>3 DEF Adopt, Disconnect, world, runtime, editor, turn, history, IInv, Typed
    <2>2. CASE t = s
      <3>1. Adopt(s) /\ cur'[s] = next[s] /\ next[s] # NoRuntime /\ pc'[s] = "idle"
        BY <1>3, <2>1, <2>2 DEF Adopt, Disconnect, IInv, Typed
      <3>2. next[s] \in Runtimes
        BY <3>1 DEF IInv, Typed
      <3>3. modified[next[s]] = {}
        BY <3>1, <3>2 DEF Fresh, IInv, Wellformed, Present, Blank
      <3> QED
        BY <2>1, <2>2, <3>1, <3>3 DEF TurnKept
    <2>3. CASE t # s
      BY <2>1, <2>3, KeptFrame DEF Kept
    <2> QED
      BY <2>2, <2>3
  <1>4. ASSUME NEW s \in Sessions, NEW f \in Files,
               Notice(s) \/ Open(s, f) \/ Type(s, f) \/ Undo(s, f) \/ Close(s, f)
        PROVE  TurnKept(t)'
    <2>1. /\ pc[s] = "idle" /\ cur[s] # NoRuntime /\ buffer'[s] \in Texts
          /\ Process(s, buffer'[s])
          /\ \A q \in Sessions \ {s} : buffer'[q] = buffer[q]
      BY <1>4, EventIsProcess
    <2>2. /\ UNCHANGED <<modified, base, cur, attach, overtaken>>
          /\ \A q \in Sessions \ {s} : pc'[q] = pc[q] /\ files'[q] = files[q]
          /\ \A r \in Runtimes \ {cur[s]} : lastOpen'[r] = lastOpen[r]
          /\ \/ pc'[s] = "idle" /\ lastOpen' = lastOpen
             \/ pc'[s] = "prepare" /\ lastOpen'[cur[s]] = Present(buffer'[s])
             \/ /\ pc'[s] = "sync" /\ files'[s] = buffer'[s]
                /\ lastOpen' = lastOpen /\ lastOpen[cur[s]] = Present(buffer'[s])
      BY <2>1, ProcessEffect DEF world, history
    <2>3. CASE t = s
      <3>1. modified[cur[s]] \subseteq lastOpen[cur[s]]
        BY <2>1, <2>2 DEF Kept, TurnKept
      <3>2. ~attach[s]
        BY <2>1 DEF GivenIsBuffer
      <3> QED
        BY <2>2, <2>3, <3>1, <3>2 DEF TurnKept, BuffersGiven
    <2>4. CASE t # s
      <3>1. cur[t] \in Runtimes \ {cur[s]}
        BY <2>1, <2>2, <2>4 DEF Distinct, IInv, Typed
      <3> QED
        BY <2>1, <2>2, <2>4, <3>1, KeptFrame DEF Kept
    <2> QED
      BY <2>3, <2>4
  <1>5. ASSUME NEW s \in Sessions, Prepare(s) \/ Attach(s) PROVE TurnKept(t)'
    <2>1. /\ UNCHANGED <<modified, lastOpen, buffer, cur, base>>
          /\ pc' = [pc EXCEPT ![s] = "sync"] /\ files' = [files EXCEPT ![s] = Prepared(s)]
          /\ \A q \in Sessions \ {s} : attach'[q] = attach[q]
          /\ ~overtaken
      BY <1>5 DEF Prepare, Attach, world, runtime, editor, history, IInv, Typed
    <2>2. CASE t = s
      <3>1. lastOpen[cur[s]] = Present(buffer[s])
        BY <1>5, <2>1, <2>2 DEF Prepare, Attach, Kept, TurnKept
      <3>2. \A f \in Files : buffer[s][f] = Nothing => Prepared(s)[f] \in {Nothing, base[f]}
        BY DEF Prepared
      <3>3. Present(buffer[s]) # {} => Prepared(s)[Root] # Nothing
        BY RootAssumption, NothingAssumption DEF Prepared, IInv, Typed, Text
      <3>4. pc'[s] = "sync" /\ files'[s] = Prepared(s)
        BY <2>1 DEF IInv, Typed
      <3> QED
        BY <2>1, <2>2, <3>1, <3>2, <3>3, <3>4 DEF TurnKept, RootGiven, Present
    <2>3. CASE t # s
      <3>1. pc'[t] = pc[t] /\ files'[t] = files[t]
        BY <2>1, <2>3 DEF IInv, Typed
      <3> QED
        BY <2>1, <2>3, <3>1, KeptFrame DEF Kept
    <2> QED
      BY <2>2, <2>3
  <1>6. ASSUME NEW s \in Sessions, Sync(s) PROVE TurnKept(t)'
    <2> DEFINE r == cur[s]
               given == files[s]
               new == NewModified(r, given)
    <2>1. /\ r \in joined /\ r \in Runtimes /\ r # NoRuntime /\ pc[s] = "sync"
          /\ UNCHANGED <<joined, cur, lastOpen, buffer, overtaken>>
          /\ \A q \in Runtimes \ {r} : modified'[q] = modified[q]
          /\ modified'[r] = Present(new)
          /\ pc' = [pc EXCEPT ![s] = "idle"] /\ files' = [files EXCEPT ![s] = Blank]
          /\ attach' = [attach EXCEPT ![s] = FALSE]
      BY <1>6, SyncEffect, NothingAssumption DEF Sync, editor, history
    <2>2. CASE t = s
      <3>1. /\ lastOpen[r] = Present(buffer[s])
            /\ \A f \in Files : buffer[s][f] = Nothing => given[f] \in {Nothing, base[f]}
        BY <2>1, <2>2 DEF Kept, TurnKept
      <3>2. \A f \in Files : new[f] # Nothing => given[f] \notin {Nothing, base[f]}
        BY DEF NewModified
      <3>3. Present(new) \subseteq lastOpen[r]
        BY <3>1, <3>2 DEF Present
      <3>4. pc'[s] = "idle"
        BY <2>1 DEF IInv, Typed
      <3> QED
        BY <2>1, <2>2, <3>3, <3>4 DEF TurnKept
    <2>3. CASE t # s
      <3>1. cur[t] \in Runtimes \ {r} /\ cur[t] \in joined
        BY <2>1, <2>3 DEF Distinct, IInv, Typed
      <3>2. ~Exclusive(r)
        BY <3>1 DEF Exclusive
      <3>3. base' = base
        BY <1>6, <3>2, SyncBase
      <3>4. pc'[t] = pc[t] /\ files'[t] = files[t] /\ attach'[t] = attach[t]
        BY <2>1, <2>3 DEF IInv, Typed
      <3>5. TurnKept(t)
        BY <2>1 DEF Kept
      <3> HIDE DEF new, given, r
      <3> QED
        BY <2>1, <3>1, <3>3, <3>4, <3>5, KeptFrame
    <2> QED
      BY <2>2, <2>3
  <1>7. ASSUME NEW s \in Sessions, Reload(s) PROVE TurnKept(t)'
    <2>1. /\ UNCHANGED <<cur, lastOpen, pc, buffer, files, attach>>
          /\ ~overtaken /\ pc[t] # "sync"
      BY <1>7 DEF Reload, runtime, turn, editor
    <2>2. cur[t] \in Runtimes
      BY <2>1 DEF IInv, Typed
    <2>3. modified'[cur[t]] \subseteq modified[cur[t]]
      BY <1>7, <2>2 DEF Reload, Surviving
    <2> QED
      BY <2>1, <2>3, KeptFrame DEF Kept
  <1>8. ASSUME NEW r \in Runtimes, Drop(r) PROVE TurnKept(t)'
    <2>1. /\ UNCHANGED <<cur, pc, buffer, files, attach, overtaken>>
          /\ \A q \in Runtimes \ {r} : modified'[q] = modified[q] /\ lastOpen'[q] = lastOpen[q]
          /\ cur[t] # r
      BY <1>8 DEF Drop, editor, turn, history, InUse, IInv, Typed
    <2>2. cur[t] \in Runtimes \ {r} /\ cur[t] \in joined
      BY <2>1 DEF IInv, Typed
    <2>3. base' = base
      BY <1>8, <2>2, DropBase
    <2> QED
      BY <2>1, <2>2, <2>3, KeptFrame DEF Kept
  <1>9. ASSUME NEW s \in Sessions, NEW f \in Files, Save(s, f)
        PROVE  UNCHANGED <<cur, modified, lastOpen, pc, buffer, files, attach, base, overtaken>>
    BY <1>9 DEF Save, world, runtime, turn, history
  <1>10. UNCHANGED vars =>
            UNCHANGED <<cur, modified, lastOpen, pc, buffer, files, attach, base, overtaken>>
    BY DEF vars, editor, world, runtime, turn, history
  <1>11. ASSUME NEW s \in Sessions, Notice(s) PROVE TurnKept(t)'
    <2>1. Root \in Files
      BY RootAssumption
    <2> QED
      BY <1>4, <1>11, <2>1
  <1> QED
    BY <1>1, <1>2, <1>3, <1>4, <1>5, <1>6, <1>7, <1>8, <1>9, <1>10, <1>11 DEF Next

(* While its runtime is as it was, a session knows what it knew.           *)
LEMMA ConeFrame ==
    ASSUME IInv, ConeIsPendingApart, ~crossed, ~overtaken, NEW t \in Sessions,
           cur'[t] = cur[t],
           cur[t] # NoRuntime =>
              /\ modified'[cur[t]] = modified[cur[t]] /\ coned'[cur[t]] = coned[cur[t]]
              /\ pending'[cur[t]] = pending[cur[t]],
           buffer'[t] = buffer[t], pc'[t] = pc[t], stale'[t] = stale[t],
           Settled(t)', modified'[cur'[t]] # {}, ~coned'[cur'[t]],
           Present(buffer'[t]) = modified'[cur'[t]]
    PROVE  pending'[cur'[t]]
  <1>1. cur[t] # NoRuntime /\ Settled(t)
    BY DEF Settled
  <1> QED
    BY <1>1 DEF ConeIsPendingApart

(* A cone that is attached without the crate has had the root given to it, *)
(* or had a copy of it before.                                             *)
LEMMA SyncAttaches ==
    ASSUME IInv, IInv', Distinct, ConedRoot, Alone, NEW s \in Sessions, Sync(s),
           TurnKept(s), modified'[cur[s]] # {}, ~coned'[cur[s]],
           Present(buffer[s]) = modified'[cur[s]]
    PROVE  pending'[cur[s]]
  <1> DEFINE r == cur[s]
             given == files[s]
             new == NewModified(r, given)
  <1> SUFFICES ASSUME ~pending'[r] PROVE FALSE
    OBVIOUS
  <1>1. /\ r \in Runtimes /\ modified'[r] = Present(new)
        /\ Exclusive(r) => new = Blank
    BY SyncEffect
  <1>2. ~Exclusive(r)
    BY <1>1 DEF Present, Blank
  <1>3. /\ attach[s] \/ coned[r]
        /\ new[Root] = Nothing /\ Structural(r, given)[Root] = Nothing
    BY SyncCone
  <1>4. /\ direct[r] = Blank
        /\ \A f \in Files : new[f] = IF given[f] = base[f] THEN Nothing ELSE given[f]
    BY <1>2, SyncBase
  <1>5. \A f \in Files : Unmodified(r, given)[f] = IF given[f] = base[f] THEN given[f]
                                                    ELSE Nothing
    BY <1>4 DEF Unmodified, StaysDirect, Blank
  <1>6. Root \in Files /\ given \in Texts
    BY RootAssumption DEF IInv, Typed
  <1>7. CASE given[Root] # Nothing
    <2>1. Unmodified(r, given)[Root] # Nothing
      BY <1>3, <1>4, <1>5, <1>6, <1>7
    <2>2. Unmodified(r, given) # Blank
      BY <1>6, <2>1 DEF Blank
    <2> QED
      BY <1>3, <2>1, <2>2 DEF Structural
  <1>8. CASE given[Root] = Nothing
    <2>1. pc[s] = "sync" /\ Present(buffer[s]) # {}
      BY DEF Sync
    <2>2. BuffersGiven(s)
      BY <1>8, <2>1 DEF TurnKept, RootGiven
    <2>3. ~attach[s] /\ given = buffer[s] /\ modified[r] \subseteq Present(buffer[s])
      BY <2>2 DEF BuffersGiven
    <2>4. coned[r] /\ copy[r][Root] # Nothing
      BY <1>1, <1>3, <2>3 DEF ConedRoot
    <2>5. Root \notin modified[r]
      BY <1>8, <2>3 DEF Present
    <2>6. \A f \in Files : given[f] # Nothing => new[f] # Nothing
      BY <1>1, <2>3 DEF Present
    <2>7. \A f \in Files : Unmodified(r, given)[f] = Nothing
      BY <1>4, <1>5, <2>6
    <2>8. Unmodified(r, given) = Blank
      <3>1. Unmodified(r, given) = [f \in Files |-> Unmodified(r, given)[f]]
        BY DEF Unmodified
      <3> QED
        BY <2>7, <3>1 DEF Blank
    <2>9. Structural(r, given)[Root] = copy[r][Root]
      BY <1>6, <2>5, <2>8 DEF Structural
    <2> QED
      BY <1>3, <2>4, <2>9
  <1> QED
    BY <1>7, <1>8

(* Nobody else's step makes a session forget that its cone is pending.     *)
LEMMA ConeStep ==
    ASSUME IInv, IInv', Distinct, ConedRoot, GivenIsBuffer, Alone, Kept,
           ConeIsPendingApart, ~crossed, [Next]_vars
    PROVE  ConeIsPendingApart'
  <1> SUFFICES ASSUME NEW t \in Sessions, ~overtaken', Settled(t)',
                      modified'[cur'[t]] # {}, ~coned'[cur'[t]],
                      Present(buffer'[t]) = modified'[cur'[t]]
               PROVE  pending'[cur'[t]]
    BY DEF ConeIsPendingApart, Present
  <1>1. CASE UNCHANGED <<cur, modified, coned, pending, buffer, pc, stale, overtaken>>
    BY <1>1, ConeFrame
  <1>2. ASSUME NEW s \in Sessions, NEW r \in Runtimes, Connect(s, r) \/ Fetch(s, r)
        PROVE  pending'[cur'[t]]
    <2>1. /\ UNCHANGED <<modified, coned, buffer, pc, overtaken>>
          /\ pending' = [pending EXCEPT ![r] = FALSE] /\ r \notin joined
      BY <1>2 DEF Connect, Fetch, Register, editor, turn
    <2>2. ~(t = s /\ Connect(s, r))
      BY DEF Connect, Settled, IInv, Typed
    <2>3. cur'[t] = cur[t] /\ stale'[t] = stale[t]
      BY <1>2, <2>2 DEF Connect, Fetch, IInv, Typed
    <2>4. cur[t] # r
      BY <2>1, NothingAssumption DEF IInv, Typed
    <2>5. cur[t] # NoRuntime => pending'[cur[t]] = pending[cur[t]]
      BY <2>1, <2>4 DEF IInv, Typed
    <2> QED
      BY <2>1, <2>3, <2>5, ConeFrame
  <1>3. ASSUME NEW s \in Sessions, Adopt(s) \/ Disconnect(s) PROVE pending'[cur'[t]]
    <2>1. /\ UNCHANGED <<modified, coned, pending, pc, overtaken>>
          /\ \A q \in Sessions \ {s} :
                cur'[q] = cur[q] /\ buffer'[q] = buffer[q] /\ stale'[q] = stale[q]
      BY <1>3 DEF Adopt, Disconnect, world, runtime, editor, turn, history, IInv, Typed
    <2>2. t # s
      BY <1>3 DEF Adopt, Disconnect, Settled, IInv, Typed
    <2> QED
      BY <2>1, <2>2, ConeFrame
  <1>4. ASSUME NEW s \in Sessions, NEW f \in Files,
               Notice(s) \/ Open(s, f) \/ Type(s, f) \/ Undo(s, f) \/ Close(s, f)
        PROVE  pending'[cur'[t]]
    <2>1. /\ pc[s] = "idle" /\ cur[s] # NoRuntime /\ buffer'[s] \in Texts
          /\ Process(s, buffer'[s])
          /\ \A q \in Sessions \ {s} : buffer'[q] = buffer[q]
      BY <1>4, EventIsProcess
    <2>2. /\ UNCHANGED <<modified, coned, pending, cur, overtaken>>
          /\ \A q \in Sessions \ {s} : pc'[q] = pc[q] /\ stale'[q] = stale[q]
          /\ pc'[s] = "idle" => ~OverlayNeeded(s, buffer'[s])
      BY <2>1, ProcessEffect DEF world, history
    <2>3. CASE t = s
      <3>1. modified[cur[s]] = {}
        BY <2>1, <2>2, <2>3, NotNeeded DEF Settled
      <3> QED
        BY <2>2, <2>3, <3>1
    <2>4. CASE t # s
      BY <2>1, <2>2, <2>4, ConeFrame
    <2> QED
      BY <2>3, <2>4
  <1>5. ASSUME NEW s \in Sessions, Prepare(s) \/ Attach(s) PROVE pending'[cur'[t]]
    <2>1. /\ UNCHANGED <<modified, coned, pending, buffer, cur, stale>> /\ ~overtaken
          /\ pc' = [pc EXCEPT ![s] = "sync"]
      BY <1>5 DEF Prepare, Attach, world, runtime, editor, history, IInv, Typed
    <2>2. t # s
      BY <2>1 DEF Settled, IInv, Typed
    <2>3. pc'[t] = pc[t]
      BY <2>1, <2>2 DEF IInv, Typed
    <2> QED
      BY <2>1, <2>3, ConeFrame
  <1>6. ASSUME NEW s \in Sessions, Sync(s) PROVE pending'[cur'[t]]
    <2>1. /\ cur[s] \in Runtimes /\ cur[s] # NoRuntime
          /\ UNCHANGED <<cur, stale, buffer, overtaken>>
          /\ \A q \in Runtimes \ {cur[s]} :
                modified'[q] = modified[q] /\ coned'[q] = coned[q] /\ pending'[q] = pending[q]
          /\ pc' = [pc EXCEPT ![s] = "idle"]
      BY <1>6, SyncEffect, NothingAssumption DEF editor, history
    <2>2. CASE t = s
      <3>1. TurnKept(s)
        BY <2>1 DEF Kept
      <3> QED
        BY <1>6, <2>1, <2>2, <3>1, SyncAttaches
    <2>3. CASE t # s
      <3>1. cur[t] # NoRuntime => cur[t] \in Runtimes \ {cur[s]}
        BY <2>3 DEF Distinct, IInv, Typed
      <3>2. pc'[t] = pc[t]
        BY <2>1, <2>3 DEF IInv, Typed
      <3> QED
        BY <2>1, <3>1, <3>2, ConeFrame
    <2> QED
      BY <2>2, <2>3
  <1>7. ASSUME NEW s \in Sessions, Reload(s) PROVE pending'[cur'[t]]
    BY <1>7 DEF Reload, Settled
  <1>8. ASSUME NEW r \in Runtimes, Drop(r) PROVE pending'[cur'[t]]
    <2>1. /\ UNCHANGED <<cur, pc, buffer, stale, overtaken>> /\ cur[t] # r
          /\ \A q \in Runtimes \ {r} :
                modified'[q] = modified[q] /\ coned'[q] = coned[q] /\ pending'[q] = pending[q]
      BY <1>8 DEF Drop, editor, turn, history, InUse, IInv, Typed
    <2>2. cur[t] # NoRuntime => cur[t] \in Runtimes \ {r}
      BY <2>1 DEF IInv, Typed
    <2> QED
      BY <2>1, <2>2, ConeFrame
  <1>9. ASSUME NEW s \in Sessions, NEW f \in Files, Save(s, f)
        PROVE  UNCHANGED <<cur, modified, coned, pending, buffer, pc, stale, overtaken>>
    BY <1>9 DEF Save, world, runtime, turn, history
  <1>10. UNCHANGED vars =>
            UNCHANGED <<cur, modified, coned, pending, buffer, pc, stale, overtaken>>
    BY DEF vars, editor, world, runtime, turn, history
  <1>11. ASSUME NEW s \in Sessions, Notice(s) PROVE pending'[cur'[t]]
    <2>1. Root \in Files
      BY RootAssumption
    <2> QED
      BY <1>4, <1>11, <2>1
  <1> QED
    BY <1>1, <1>2, <1>3, <1>4, <1>5, <1>6, <1>7, <1>8, <1>9, <1>10, <1>11 DEF Next

-----------------------------------------------------------------------------
(* All of it, for sessions that are apart.                                 *)
Sharing ==
    /\ Parties /\ Apart
    /\ ~crossed => OwnBuffers /\ Kept /\ ConeIsPendingApart

(* It is inductive relative to IInv.                                       *)
THEOREM SharingInvariance == Spec => []Sharing
  <1>1. Init => Sharing
    <2> SUFFICES ASSUME Init PROVE OwnBuffers /\ ConeIsPendingApart
      BY PartiesInit, ApartInit, KeptInit DEF Sharing
    <2> QED
      BY DEF Init, OwnBuffers, ConeIsPendingApart, Settled
  <1>2. ASSUME IInv, IInv', Sharing, [Next]_vars PROVE Sharing'
    <2>1. Parties'
      BY <1>2, DistinctStep, FreshStep, GivenStep, ConedRootStep, EditorSavedStep
      DEF Sharing, Parties
    <2>2. ASSUME ~crossed'
          PROVE  /\ Alone' /\ StructuralIsBase' /\ BaseSaved' /\ WorldSaved'
                 /\ OwnBuffers' /\ Kept' /\ ConeIsPendingApart'
      <3>1. crossed => crossed'
        <4>1. ASSUME NEW s \in Sessions,
                     \/ \E r \in Runtimes : Connect(s, r) \/ Fetch(s, r)
                     \/ Adopt(s) \/ Disconnect(s) \/ Notice(s) \/ Attach(s) \/ Prepare(s)
                     \/ Sync(s) \/ Reload(s)
              PROVE  crossed => crossed'
          BY <4>1 DEF Connect, Fetch, Register, Adopt, Disconnect, Notice, Process, Attach,
             Prepare, Sync, Reload, history
        <4>2. ASSUME NEW s \in Sessions, NEW f \in Files,
                     Open(s, f) \/ Type(s, f) \/ Undo(s, f) \/ Close(s, f) \/ Save(s, f)
              PROVE  crossed => crossed'
          BY <4>2 DEF Open, Type, Undo, Close, Save, Edit, Process, history
        <4>3. ASSUME NEW r \in Runtimes, Drop(r) PROVE crossed => crossed'
          BY <4>3 DEF Drop, history
        <4> QED
          BY <1>2, <4>1, <4>2, <4>3 DEF Next, vars, history
      <3>2. /\ Distinct /\ Fresh /\ GivenIsBuffer /\ ConedRoot /\ EditorSaved /\ EditorSaved'
            /\ Alone /\ StructuralIsBase /\ BaseSaved /\ WorldSaved
            /\ OwnBuffers /\ Kept /\ ConeIsPendingApart /\ ~crossed
        BY <1>2, <2>1, <2>2, <3>1 DEF Sharing, Parties, Apart
      <3>3. Alone' /\ StructuralIsBase'
        BY <1>2, <2>2, <3>2, AloneStep, StructuralStep
      <3>4. BaseSaved' /\ WorldSaved'
        BY <1>2, <3>2, BaseSavedStep, WorldSavedStep
      <3>5. OwnBuffers'
        BY <1>2, <3>2, <3>3, OwnBuffersStep
      <3>6. Kept' /\ ConeIsPendingApart'
        BY <1>2, <3>2, KeptStep, ConeStep
      <3> QED
        BY <3>3, <3>4, <3>5, <3>6
    <2> QED
      BY <2>1, <2>2 DEF Sharing, Apart
  <1> QED
    BY <1>1, <1>2, Invariance, PTL DEF Spec

-----------------------------------------------------------------------------
(* The variables have their types, and an overlay has copies and a crate   *)
(* only while there is an edit in it.                                      *)
THEOREM TypeCorrect == Spec => []TypeOK
  <1>1. ASSUME IInv PROVE TypeOK
    <2>1. /\ {direct, copy, input} \subseteq [Runtimes -> [Files -> MaybeText]]
          /\ {buffer, files} \subseteq [Sessions -> [Files -> MaybeText]]
          /\ {cur, next} \subseteq [Sessions -> joined \cup {NoRuntime}]
      BY <1>1 DEF IInv, Typed, Texts
    <2>2. /\ {coned, pending} \subseteq [Runtimes -> BOOLEAN]
          /\ {stale, attach} \subseteq [Sessions -> BOOLEAN]
      BY <1>1 DEF IInv, Typed
    <2> QED
      BY <1>1, <2>1, <2>2 DEF IInv, Typed, Wellformed, TypeOK
  <1> QED
    BY <1>1, Invariance, PTL

(* sync_session_overlay, unregister_session and a reload: an edit that is  *)
(* made in the base input itself stays its session's, and stays there.     *)
THEOREM DirectIsBaseCorrect == Spec => []DirectIsBase
  <1>1. IInv => DirectIsBase
    BY DEF IInv
  <1> QED
    BY <1>1, Invariance, PTL

(* Sending only the copies that are believed to have changed is enough.    *)
THEOREM InputsMatchCorrect == Spec => []InputsMatch
  <1>1. IInv => InputsMatch
    BY DEF IInv
  <1> QED
    BY <1>1, Invariance, PTL

(* shared_analyzer.rs, sync_session_overlay: a session that has taken its  *)
(* turn sees its own buffers, whatever the others, a reload and the drop   *)
(* of a runtime have done to the base meanwhile.                           *)
THEOREM OwnBuffersCorrect == Spec => []OwnBuffers
  <1>1. Sharing => OwnBuffers
    BY DEF Sharing, OwnBuffers
  <1> QED
    BY <1>1, SharingInvariance, PTL

(* README.md, Sharing: no session sees the unsaved edit of another one, in *)
(* the middle of its turn either.                                          *)
THEOREM EditsArePrivateCorrect == Spec => []EditsArePrivateApart
  <1>1. ASSUME IInv, Sharing PROVE EditsArePrivateApart
    BY <1>1, ViewOwn DEF EditsArePrivateApart, Sharing, Parties, Apart
  <1> QED
    BY <1>1, Invariance, SharingInvariance, PTL

(* session.rs, attach_pending_shared_cone: a session whose edits have no   *)
(* crate knows that the cone is to be attached.                            *)
THEOREM ConeIsPendingCorrect == Spec => []ConeIsPendingApart
  <1>1. Sharing => ConeIsPendingApart
    BY DEF Sharing, ConeIsPendingApart
  <1> QED
    BY <1>1, SharingInvariance, PTL

=============================================================================
