------------------------- MODULE WorkspaceLoad_proofs -------------------------
(***************************************************************************)
(* That sessions share loads as they should, for any number of callers and *)
(* of workspaces: one leader for each entry of the registry, none for a    *)
(* load that is over, and no commit of what was read from disk before what *)
(* is in the world.                                                        *)
(***************************************************************************)
EXTENDS WorkspaceLoad, FiniteSetTheorems, TLAPS

Typed ==
    /\ loads \in [Projects -> Loads \cup {NoLoad}]
    /\ result \in [Loads -> Results]
    /\ content \in [Projects -> 0..MaxDisk]
    /\ poisoned \in BOOLEAN /\ broken \in BOOLEAN
    /\ disk \in 1..MaxDisk
    /\ pc \in [Callers -> Locations]
    /\ project \in [Callers -> Projects]
    /\ reload \in [Callers -> BOOLEAN]
    /\ load \in [Callers -> Loads \cup {NoLoad}]
    /\ prepared \in [Callers -> 0..MaxDisk]
    /\ outcome \in [Callers -> Results]

(* What a caller holds at each place.                                      *)
Holding ==
    \A c \in Callers :
        /\ load[c] # NoLoad <=> pc[c] \in Leading \cup {"wait", "parked"}
        /\ prepared[c] # 0 <=> pc[c] = "commit"
        /\ outcome[c] # "Unset" <=> pc[c] \in {"retire", "finish"}

(* The memory of a load that nobody refers to is free.                     *)
CellsFreed == \A l \in Loads : result[l] # "Unset" => \E c \in Callers : load[c] = l

(* Each leader has a load of its own, which is not finished ...            *)
LoadHasOneLeader ==
    /\ \A c, d \in Callers :
          pc[c] \in Leading /\ pc[d] \in Leading /\ load[c] = load[d] => c = d
    /\ \A c \in Callers : pc[c] \in Leading => result[load[c]] = "Unset"

(* ... and an armed one has the entry of its project, which is there       *)
(* exactly as long while the registry can be locked.                       *)
EntryOfArmed ==
    /\ \A c \in Callers : pc[c] \in Armed => loads[project[c]] = load[c]
    /\ ~broken => \A p \in Projects : loads[p] # NoLoad =>
          \E c \in Callers : pc[c] \in Armed /\ project[c] = p /\ load[c] = loads[p]

(* Somebody will finish what is waited for.                                *)
WaitsForLeader ==
    \A c \in Callers :
        pc[c] \in {"wait", "parked"} /\ result[load[c]] = "Unset" =>
            \E d \in Callers : pc[d] \in Leading /\ load[d] = load[c]

(* What is about to be committed is no older than what is there.           *)
Fresh ==
    /\ \A p \in Projects : content[p] <= disk
    /\ \A c \in Callers : prepared[c] <= disk
    /\ \A c \in Callers : pc[c] = "commit" => content[project[c]] <= prepared[c]

IInv ==
    /\ Typed /\ Holding /\ CellsFreed
    /\ LoadHasOneLeader /\ EntryOfArmed /\ WaitsForLeader
    /\ Fresh

-----------------------------------------------------------------------------
(* Nobody has called.                                                      *)
LEMMA InitInv == Init => IInv
  <1> SUFFICES ASSUME Init PROVE IInv
    OBVIOUS
  <1>1. Typed
    <2>1. poisoned \in BOOLEAN /\ broken \in BOOLEAN /\ reload \in [Callers -> BOOLEAN]
      BY DiskAssumption DEF Init, Results, Locations
    <2>2. result \in [Loads -> Results] /\ outcome \in [Callers -> Results]
      BY DiskAssumption DEF Init, Results, Locations
    <2>3. /\ load \in [Callers -> Loads \cup {NoLoad}]
          /\ loads \in [Projects -> Loads \cup {NoLoad}]
      BY DiskAssumption DEF Init, Results, Locations
    <2>4. pc \in [Callers -> Locations]
      BY DiskAssumption DEF Init, Results, Locations
    <2>5. /\ content \in [Projects -> 0..MaxDisk] /\ disk \in 1..MaxDisk
          /\ prepared \in [Callers -> 0..MaxDisk] /\ project \in [Callers -> Projects]
      BY DiskAssumption DEF Init, Results, Locations
    <2> QED
      BY <2>1, <2>2, <2>3, <2>4, <2>5 DEF Typed
  <1>2. Holding /\ CellsFreed
    BY DEF Init, Holding, CellsFreed, Leading
  <1>3. LoadHasOneLeader /\ EntryOfArmed /\ WaitsForLeader
    BY DEF Init, LoadHasOneLeader, EntryOfArmed, WaitsForLeader, Leading, Armed
  <1>4. Fresh
    BY DEF Init, Fresh
  <1> QED
    BY <1>1, <1>2, <1>3, <1>4 DEF IInv

(* There is a cell for a new load: those that are referred to are those of *)
(* the other callers, the entries' among them, and a cell is there for     *)
(* each of the callers.                                                    *)
LEMMA CellForLead ==
    ASSUME IInv, ~broken, NEW c \in Callers, load[c] = NoLoad
    PROVE  \E l \in Loads : l \notin Referenced
  <1> DEFINE others == Callers \ {c}
             held == {load[d] : d \in others}
             of == [d \in others |-> load[d]]
  <1>1. IsFiniteSet(others) /\ Cardinality(others) = Cardinality(Callers) - 1
    BY LoadsAssumption, FS_RemoveElement
  <1>2. of \in Surjection(others, held)
    BY DEF Surjection
  <1>3. IsFiniteSet(held) /\ Cardinality(held) <= Cardinality(others)
    BY <1>1, <1>2, FS_Surjection
  <1>4. Cardinality(held) \in Nat /\ Cardinality(Callers) \in Nat /\ Cardinality(Loads) \in Nat
    BY <1>3, LoadsAssumption, FS_CardinalityType
  <1>5. Cardinality(held) < Cardinality(Loads)
    BY <1>1, <1>3, <1>4, LoadsAssumption
  <1>6. PICK l \in Loads : l \notin held
    <2>1. ~(Loads \subseteq held)
      <3> SUFFICES ASSUME Loads \subseteq held PROVE FALSE
        OBVIOUS
      <3>1. Cardinality(Loads) <= Cardinality(held)
        BY <1>3, FS_Subset
      <3> QED
        BY <1>4, <1>5, <3>1
    <2> QED
      BY <2>1
  <1>7. l \notin Referenced
    BY <1>6, LoadsAssumption DEF Referenced, IInv, EntryOfArmed
  <1> QED
    BY <1>7

-----------------------------------------------------------------------------
(* A call begins and holds nothing.                                        *)
LEMMA CallStep ==
    ASSUME IInv, NEW c \in Callers, NEW p \in Projects, NEW r \in BOOLEAN, Call(c, p, r)
    PROVE  IInv'
  <1>1. Typed'
    BY LoadsAssumption, DiskAssumption
    DEF Call, IInv, Typed, Caller, Results, Locations, Holding, Leading, Armed
  <1>2. Holding' /\ CellsFreed'
    BY LoadsAssumption
    DEF Call, IInv, Typed, Caller, Holding, Leading, Armed, CellsFreed, Referenced,
        Locations
  <1>3. LoadHasOneLeader'
    BY LoadsAssumption
    DEF Call, IInv, Typed, Caller, Holding, Leading, Armed, LoadHasOneLeader,
        CellsFreed, Referenced
  <1>4. EntryOfArmed'
    BY LoadsAssumption
    DEF Call, IInv, Typed, Caller, Holding, Leading, Armed, EntryOfArmed,
        LoadHasOneLeader
  <1>5. WaitsForLeader'
    BY LoadsAssumption
    DEF Call, IInv, Typed, Caller, Holding, Leading, Armed, EntryOfArmed,
        LoadHasOneLeader, WaitsForLeader
  <1>6. Fresh'
    BY LoadsAssumption, DiskAssumption
    DEF Call, IInv, Typed, Caller, Holding, Leading, Armed, Fresh, EntryOfArmed,
        LoadHasOneLeader
  <1> QED
    BY <1>1, <1>2, <1>3, <1>4, <1>5, <1>6 DEF IInv

(* The call goes on, or returns without having held a load.                *)
LEMMA FindLoadedStep ==
    ASSUME IInv, NEW c \in Callers, FindLoaded(c)
    PROVE  IInv'
  <1>1. Typed'
    <2>1. poisoned' \in BOOLEAN /\ broken' \in BOOLEAN /\ reload' \in [Callers -> BOOLEAN]
      BY DEF FindLoaded, Return, IInv, Typed, Caller, Results, Locations
    <2>2. result' \in [Loads -> Results] /\ outcome' \in [Callers -> Results]
      BY DEF FindLoaded, Return, IInv, Typed, Caller, Results, Locations
    <2>3. /\ load' \in [Callers -> Loads \cup {NoLoad}]
          /\ loads' \in [Projects -> Loads \cup {NoLoad}]
      BY DEF FindLoaded, Return, IInv, Typed, Caller, Results, Locations
    <2>4. pc' \in [Callers -> Locations]
      BY DEF FindLoaded, Return, IInv, Typed, Caller, Results, Locations
    <2>5. /\ content' \in [Projects -> 0..MaxDisk] /\ disk' \in 1..MaxDisk
          /\ prepared' \in [Callers -> 0..MaxDisk] /\ project' \in [Callers -> Projects]
      BY DEF FindLoaded, Return, IInv, Typed, Caller, Results, Locations
    <2> QED
      BY <2>1, <2>2, <2>3, <2>4, <2>5 DEF Typed
  <1>2. Holding' /\ CellsFreed'
    BY LoadsAssumption
    DEF FindLoaded, Return, IInv, Typed, Caller, Holding, Leading, Armed, CellsFreed,
        Referenced, Locations
  <1>3. LoadHasOneLeader'
    BY LoadsAssumption
    DEF FindLoaded, Return, IInv, Typed, Caller, Holding, Leading, Armed,
        LoadHasOneLeader, CellsFreed, Referenced
  <1>4. EntryOfArmed'
    BY LoadsAssumption
    DEF FindLoaded, Return, IInv, Typed, Caller, Holding, Leading, Armed,
        EntryOfArmed, LoadHasOneLeader
  <1>5. WaitsForLeader'
    BY LoadsAssumption
    DEF FindLoaded, Return, IInv, Typed, Caller, Holding, Leading, Armed,
        EntryOfArmed, LoadHasOneLeader, WaitsForLeader
  <1>6. Fresh'
    BY LoadsAssumption, DiskAssumption
    DEF FindLoaded, Return, IInv, Typed, Caller, Holding, Leading, Armed, Fresh,
        EntryOfArmed, LoadHasOneLeader
  <1> QED
    BY <1>1, <1>2, <1>3, <1>4, <1>5, <1>6 DEF IInv

(* As for a call that finds the workspace loaded.                          *)
LEMMA BeginFailsStep ==
    ASSUME IInv, NEW c \in Callers, BeginFails(c)
    PROVE  IInv'
  <1>1. Typed'
    <2>1. poisoned' \in BOOLEAN /\ broken' \in BOOLEAN /\ reload' \in [Callers -> BOOLEAN]
      BY DEF BeginFails, Return, IInv, Typed, Caller, Results, Locations
    <2>2. result' \in [Loads -> Results] /\ outcome' \in [Callers -> Results]
      BY DEF BeginFails, Return, IInv, Typed, Caller, Results, Locations
    <2>3. /\ load' \in [Callers -> Loads \cup {NoLoad}]
          /\ loads' \in [Projects -> Loads \cup {NoLoad}]
      BY DEF BeginFails, Return, IInv, Typed, Caller, Results, Locations
    <2>4. pc' \in [Callers -> Locations]
      BY DEF BeginFails, Return, IInv, Typed, Caller, Results, Locations
    <2>5. /\ content' \in [Projects -> 0..MaxDisk] /\ disk' \in 1..MaxDisk
          /\ prepared' \in [Callers -> 0..MaxDisk] /\ project' \in [Callers -> Projects]
      BY DEF BeginFails, Return, IInv, Typed, Caller, Results, Locations
    <2> QED
      BY <2>1, <2>2, <2>3, <2>4, <2>5 DEF Typed
  <1>2. Holding' /\ CellsFreed'
    BY LoadsAssumption
    DEF BeginFails, Return, IInv, Typed, Caller, Holding, Leading, Armed, CellsFreed,
        Referenced, Locations
  <1>3. LoadHasOneLeader'
    BY LoadsAssumption
    DEF BeginFails, Return, IInv, Typed, Caller, Holding, Leading, Armed,
        LoadHasOneLeader, CellsFreed, Referenced
  <1>4. EntryOfArmed'
    BY LoadsAssumption
    DEF BeginFails, Return, IInv, Typed, Caller, Holding, Leading, Armed,
        EntryOfArmed, LoadHasOneLeader
  <1>5. WaitsForLeader'
    BY LoadsAssumption
    DEF BeginFails, Return, IInv, Typed, Caller, Holding, Leading, Armed,
        EntryOfArmed, LoadHasOneLeader, WaitsForLeader
  <1>6. Fresh'
    BY LoadsAssumption, DiskAssumption
    DEF BeginFails, Return, IInv, Typed, Caller, Holding, Leading, Armed, Fresh,
        EntryOfArmed, LoadHasOneLeader
  <1> QED
    BY <1>1, <1>2, <1>3, <1>4, <1>5, <1>6 DEF IInv

(* The load of an entry has a leader, whom the caller waits for.           *)
LEMMA JoinStep ==
    ASSUME IInv, NEW c \in Callers, Join(c)
    PROVE  IInv'
  <1>1. Typed'
    BY LoadsAssumption, DiskAssumption
    DEF Join, Joinable, IInv, Typed, Caller, Results, Locations, Holding, Leading,
        Armed
  <1>2. Holding' /\ CellsFreed'
    BY LoadsAssumption
    DEF Join, Joinable, IInv, Typed, Caller, Holding, Leading, Armed, CellsFreed,
        Referenced, Locations
  <1>3. LoadHasOneLeader'
    BY LoadsAssumption
    DEF Join, Joinable, IInv, Typed, Caller, Holding, Leading, Armed,
        LoadHasOneLeader, CellsFreed, Referenced
  <1>4. EntryOfArmed'
    BY LoadsAssumption
    DEF Join, Joinable, IInv, Typed, Caller, Holding, Leading, Armed, EntryOfArmed,
        LoadHasOneLeader
  <1>5. WaitsForLeader'
    BY LoadsAssumption
    DEF Join, Joinable, IInv, Typed, Caller, Holding, Leading, Armed, EntryOfArmed,
        LoadHasOneLeader, WaitsForLeader
  <1>6. Fresh'
    BY LoadsAssumption, DiskAssumption
    DEF Join, Joinable, IInv, Typed, Caller, Holding, Leading, Armed, Fresh,
        EntryOfArmed, LoadHasOneLeader
  <1> QED
    BY <1>1, <1>2, <1>3, <1>4, <1>5, <1>6 DEF IInv

(* The new load is nobody else's, and its project had no leader.           *)
LEMMA LeadStep ==
    ASSUME IInv, NEW c \in Callers, Lead(c)
    PROVE  IInv'
  <1>1. Typed'
    BY LoadsAssumption, CellForLead, DiskAssumption
    DEF Lead, Joinable, IInv, Typed, Caller, Results, Locations, Holding, Leading,
        Armed
  <1>2. Holding' /\ CellsFreed'
    BY LoadsAssumption, CellForLead
    DEF Lead, Joinable, IInv, Typed, Caller, Holding, Leading, Armed, CellsFreed,
        Referenced, Locations
  <1>3. LoadHasOneLeader'
    BY LoadsAssumption, CellForLead
    DEF Lead, Joinable, IInv, Typed, Caller, Holding, Leading, Armed,
        LoadHasOneLeader, CellsFreed, Referenced
  <1>4. EntryOfArmed'
    BY LoadsAssumption, CellForLead
    DEF Lead, Joinable, IInv, Typed, Caller, Holding, Leading, Armed, EntryOfArmed,
        LoadHasOneLeader
  <1>5. WaitsForLeader'
    BY LoadsAssumption, CellForLead
    DEF Lead, Joinable, IInv, Typed, Caller, Holding, Leading, Armed, EntryOfArmed,
        LoadHasOneLeader, WaitsForLeader
  <1>6. Fresh'
    BY LoadsAssumption, DiskAssumption
    DEF Lead, Joinable, IInv, Typed, Caller, Holding, Leading, Armed, Fresh,
        EntryOfArmed, LoadHasOneLeader
  <1> QED
    BY <1>1, <1>2, <1>3, <1>4, <1>5, <1>6 DEF IInv

(* What is read from disk is no older than what is in the world.           *)
LEMMA PrepareStep ==
    ASSUME IInv, NEW c \in Callers, Prepare(c)
    PROVE  IInv'
  <1>1. Typed'
    <2>1. poisoned' \in BOOLEAN /\ broken' \in BOOLEAN /\ reload' \in [Callers -> BOOLEAN]
      BY DEF Prepare, IInv, Typed, Caller, Results, Locations, Leading
    <2>2. result' \in [Loads -> Results] /\ outcome' \in [Callers -> Results]
      BY DEF Prepare, IInv, Typed, Caller, Results, Locations, Leading
    <2>3. /\ load' \in [Callers -> Loads \cup {NoLoad}]
          /\ loads' \in [Projects -> Loads \cup {NoLoad}]
      BY DEF Prepare, IInv, Typed, Caller, Results, Locations, Leading
    <2>4. pc' \in [Callers -> Locations]
      BY DEF Prepare, IInv, Typed, Caller, Results, Locations, Leading
    <2>5. /\ content' \in [Projects -> 0..MaxDisk] /\ disk' \in 1..MaxDisk
          /\ prepared' \in [Callers -> 0..MaxDisk] /\ project' \in [Callers -> Projects]
      BY DiskAssumption DEF Prepare, IInv, Typed, Caller, Results, Locations, Leading
    <2> QED
      BY <2>1, <2>2, <2>3, <2>4, <2>5 DEF Typed
  <1>2. Holding' /\ CellsFreed'
    BY LoadsAssumption
    DEF Prepare, IInv, Typed, Caller, Holding, Leading, Armed, CellsFreed, Referenced,
        Locations
  <1>3. LoadHasOneLeader'
    BY LoadsAssumption
    DEF Prepare, IInv, Typed, Caller, Holding, Leading, Armed, LoadHasOneLeader,
        CellsFreed, Referenced
  <1>4. EntryOfArmed'
    BY LoadsAssumption
    DEF Prepare, IInv, Typed, Caller, Holding, Leading, Armed, EntryOfArmed,
        LoadHasOneLeader
  <1>5. WaitsForLeader'
    BY LoadsAssumption
    DEF Prepare, IInv, Typed, Caller, Holding, Leading, Armed, EntryOfArmed,
        LoadHasOneLeader, WaitsForLeader
  <1>6. Fresh'
    BY LoadsAssumption, DiskAssumption
    DEF Prepare, IInv, Typed, Caller, Holding, Leading, Armed, Fresh, EntryOfArmed,
        LoadHasOneLeader
  <1> QED
    BY <1>1, <1>2, <1>3, <1>4, <1>5, <1>6 DEF IInv

(* No other leader is armed for the project, so that nobody else is about  *)
(* to commit to it.                                                        *)
LEMMA CommitStep ==
    ASSUME IInv, NEW c \in Callers, Commit(c)
    PROVE  IInv'
  <1>1. Typed'
    <2>1. poisoned' \in BOOLEAN /\ broken' \in BOOLEAN /\ reload' \in [Callers -> BOOLEAN]
      BY DEF Commit, IInv, Typed, Caller, Results, Locations, Leading
    <2>2. result' \in [Loads -> Results] /\ outcome' \in [Callers -> Results]
      BY DEF Commit, IInv, Typed, Caller, Results, Locations, Leading
    <2>3. /\ load' \in [Callers -> Loads \cup {NoLoad}]
          /\ loads' \in [Projects -> Loads \cup {NoLoad}]
      BY DEF Commit, IInv, Typed, Caller, Results, Locations, Leading
    <2>4. pc' \in [Callers -> Locations]
      BY DEF Commit, IInv, Typed, Caller, Results, Locations, Leading
    <2>5. /\ content' \in [Projects -> 0..MaxDisk] /\ disk' \in 1..MaxDisk
          /\ prepared' \in [Callers -> 0..MaxDisk] /\ project' \in [Callers -> Projects]
      BY DiskAssumption DEF Commit, IInv, Typed, Caller, Results, Locations, Leading
    <2> QED
      BY <2>1, <2>2, <2>3, <2>4, <2>5 DEF Typed
  <1>2. Holding' /\ CellsFreed'
    BY LoadsAssumption
    DEF Commit, AlreadyCommitted, IInv, Typed, Caller, Holding, Leading, Armed,
        CellsFreed, Referenced, Locations
  <1>3. LoadHasOneLeader'
    BY LoadsAssumption
    DEF Commit, AlreadyCommitted, IInv, Typed, Caller, Holding, Leading, Armed,
        LoadHasOneLeader, CellsFreed, Referenced
  <1>4. EntryOfArmed'
    BY LoadsAssumption
    DEF Commit, AlreadyCommitted, IInv, Typed, Caller, Holding, Leading, Armed,
        EntryOfArmed, LoadHasOneLeader
  <1>5. WaitsForLeader'
    BY LoadsAssumption
    DEF Commit, AlreadyCommitted, IInv, Typed, Caller, Holding, Leading, Armed,
        EntryOfArmed, LoadHasOneLeader, WaitsForLeader
  <1>6. Fresh'
    BY LoadsAssumption, DiskAssumption
    DEF Commit, AlreadyCommitted, IInv, Typed, Caller, Holding, Leading, Armed, Fresh,
        EntryOfArmed, LoadHasOneLeader
  <1> QED
    BY <1>1, <1>2, <1>3, <1>4, <1>5, <1>6 DEF IInv

(* The leader is armed no more, and its entry has gone.                    *)
LEMMA RetireStep ==
    ASSUME IInv, NEW c \in Callers, Retire(c)
    PROVE  IInv'
  <1>1. Typed'
    BY LoadsAssumption, DiskAssumption
    DEF Retire, Remove, IInv, Typed, Caller, Results, Locations, Holding, Leading, Armed
  <1>2. Holding' /\ CellsFreed'
    BY LoadsAssumption
    DEF Retire, Remove, IInv, Typed, Caller, Holding, Leading, Armed, CellsFreed, Referenced,
        Locations
  <1>3. LoadHasOneLeader'
    BY LoadsAssumption
    DEF Retire, Remove, IInv, Typed, Caller, Holding, Leading, Armed, LoadHasOneLeader,
        CellsFreed, Referenced
  <1>4. EntryOfArmed'
    BY LoadsAssumption
    DEF Retire, Remove, IInv, Typed, Caller, Holding, Leading, Armed, EntryOfArmed,
        LoadHasOneLeader
  <1>5. WaitsForLeader'
    BY LoadsAssumption
    DEF Retire, Remove, IInv, Typed, Caller, Holding, Leading, Armed, EntryOfArmed,
        LoadHasOneLeader, WaitsForLeader
  <1>6. Fresh'
    BY LoadsAssumption, DiskAssumption
    DEF Retire, Remove, IInv, Typed, Caller, Holding, Leading, Armed, Fresh, EntryOfArmed,
        LoadHasOneLeader
  <1> QED
    BY <1>1, <1>2, <1>3, <1>4, <1>5, <1>6 DEF IInv

(* The load has its result, and nobody leads it.                           *)
LEMMA FinishStep ==
    ASSUME IInv, NEW c \in Callers, Finish(c)
    PROVE  IInv'
  <1>1. Typed'
    BY LoadsAssumption, DiskAssumption
    DEF Finish, NotifyWaiters, IInv, Typed, Caller, Results, Locations, Holding,
        Leading, Armed
  <1>2. Holding' /\ CellsFreed'
    BY LoadsAssumption
    DEF Finish, NotifyWaiters, IInv, Typed, Caller, Holding, Leading, Armed,
        CellsFreed, Referenced, Locations
  <1>3. LoadHasOneLeader'
    BY LoadsAssumption
    DEF Finish, NotifyWaiters, IInv, Typed, Caller, Holding, Leading, Armed,
        LoadHasOneLeader, CellsFreed, Referenced
  <1>4. EntryOfArmed'
    BY LoadsAssumption
    DEF Finish, NotifyWaiters, IInv, Typed, Caller, Holding, Leading, Armed,
        EntryOfArmed, LoadHasOneLeader
  <1>5. WaitsForLeader'
    BY LoadsAssumption
    DEF Finish, NotifyWaiters, IInv, Typed, Caller, Holding, Leading, Armed,
        EntryOfArmed, LoadHasOneLeader, WaitsForLeader
  <1>6. Fresh'
    BY LoadsAssumption, DiskAssumption
    DEF Finish, NotifyWaiters, IInv, Typed, Caller, Holding, Leading, Armed, Fresh,
        EntryOfArmed, LoadHasOneLeader
  <1> QED
    BY <1>1, <1>2, <1>3, <1>4, <1>5, <1>6 DEF IInv

(* As for Retire.                                                          *)
LEMMA UnwindStep ==
    ASSUME IInv, NEW c \in Callers, Unwind(c)
    PROVE  IInv'
  <1>1. Typed'
    BY LoadsAssumption, DiskAssumption
    DEF Unwind, Remove, IInv, Typed, Caller, Results, Locations, Holding, Leading, Armed
  <1>2. Holding' /\ CellsFreed'
    BY LoadsAssumption
    DEF Unwind, Remove, IInv, Typed, Caller, Holding, Leading, Armed, CellsFreed, Referenced,
        Locations
  <1>3. LoadHasOneLeader'
    BY LoadsAssumption
    DEF Unwind, Remove, IInv, Typed, Caller, Holding, Leading, Armed, LoadHasOneLeader,
        CellsFreed, Referenced
  <1>4. EntryOfArmed'
    BY LoadsAssumption
    DEF Unwind, Remove, IInv, Typed, Caller, Holding, Leading, Armed, EntryOfArmed,
        LoadHasOneLeader
  <1>5. WaitsForLeader'
    BY LoadsAssumption
    DEF Unwind, Remove, IInv, Typed, Caller, Holding, Leading, Armed, EntryOfArmed,
        LoadHasOneLeader, WaitsForLeader
  <1>6. Fresh'
    BY LoadsAssumption, DiskAssumption
    DEF Unwind, Remove, IInv, Typed, Caller, Holding, Leading, Armed, Fresh, EntryOfArmed,
        LoadHasOneLeader
  <1> QED
    BY <1>1, <1>2, <1>3, <1>4, <1>5, <1>6 DEF IInv

(* The load has a result, or nobody refers to it.                          *)
LEMMA FailStep ==
    ASSUME IInv, NEW c \in Callers, Fail(c)
    PROVE  IInv'
  <1>1. Typed'
    BY LoadsAssumption, DiskAssumption
    DEF Fail, NotifyWaiters, Return, IInv, Typed, Caller, Results, Locations, Holding,
        Leading, Armed
  <1>2. Holding' /\ CellsFreed'
    BY LoadsAssumption
    DEF Fail, NotifyWaiters, Return, IInv, Typed, Caller, Holding, Leading, Armed,
        CellsFreed, Referenced, Locations
  <1>3. LoadHasOneLeader'
    BY LoadsAssumption
    DEF Fail, NotifyWaiters, Return, IInv, Typed, Caller, Holding, Leading, Armed,
        LoadHasOneLeader, CellsFreed, Referenced
  <1>4. EntryOfArmed'
    BY LoadsAssumption
    DEF Fail, NotifyWaiters, Return, IInv, Typed, Caller, Holding, Leading, Armed,
        EntryOfArmed, LoadHasOneLeader
  <1>5. WaitsForLeader'
    BY LoadsAssumption
    DEF Fail, NotifyWaiters, Return, IInv, Typed, Caller, Holding, Leading, Armed,
        EntryOfArmed, LoadHasOneLeader, WaitsForLeader
  <1>6. Fresh'
    BY LoadsAssumption, DiskAssumption
    DEF Fail, NotifyWaiters, Return, IInv, Typed, Caller, Holding, Leading, Armed,
        Fresh, EntryOfArmed, LoadHasOneLeader
  <1> QED
    BY <1>1, <1>2, <1>3, <1>4, <1>5, <1>6 DEF IInv

(* A caller that returns leaves the load to the others.                    *)
LEMMA WaitStep ==
    ASSUME IInv, NEW c \in Callers, Wait(c)
    PROVE  IInv'
  <1>1. Typed'
    <2>1. poisoned' \in BOOLEAN /\ broken' \in BOOLEAN /\ reload' \in [Callers -> BOOLEAN]
      BY DEF Wait, Return, IInv, Typed, Caller, Results, Locations, Leading
    <2>2. result' \in [Loads -> Results] /\ outcome' \in [Callers -> Results]
      BY DEF Wait, Return, IInv, Typed, Caller, Results, Locations, Leading
    <2>3. /\ load' \in [Callers -> Loads \cup {NoLoad}]
          /\ loads' \in [Projects -> Loads \cup {NoLoad}]
      BY DEF Wait, Return, IInv, Typed, Caller, Results, Locations, Leading
    <2>4. pc' \in [Callers -> Locations]
      BY DEF Wait, Return, IInv, Typed, Caller, Results, Locations, Leading
    <2>5. /\ content' \in [Projects -> 0..MaxDisk] /\ disk' \in 1..MaxDisk
          /\ prepared' \in [Callers -> 0..MaxDisk] /\ project' \in [Callers -> Projects]
      BY DEF Wait, Return, IInv, Typed, Caller, Results, Locations, Leading
    <2> QED
      BY <2>1, <2>2, <2>3, <2>4, <2>5 DEF Typed
  <1>2. Holding' /\ CellsFreed'
    BY LoadsAssumption
    DEF Wait, Return, IInv, Typed, Caller, Holding, Leading, Armed, CellsFreed,
        Referenced, Locations
  <1>3. LoadHasOneLeader'
    BY LoadsAssumption
    DEF Wait, Return, IInv, Typed, Caller, Holding, Leading, Armed, LoadHasOneLeader,
        CellsFreed, Referenced
  <1>4. EntryOfArmed'
    BY LoadsAssumption
    DEF Wait, Return, IInv, Typed, Caller, Holding, Leading, Armed, EntryOfArmed,
        LoadHasOneLeader
  <1>5. WaitsForLeader'
    BY LoadsAssumption
    DEF Wait, Return, IInv, Typed, Caller, Holding, Leading, Armed, EntryOfArmed,
        LoadHasOneLeader, WaitsForLeader
  <1>6. Fresh'
    BY LoadsAssumption, DiskAssumption
    DEF Wait, Return, IInv, Typed, Caller, Holding, Leading, Armed, Fresh,
        EntryOfArmed, LoadHasOneLeader
  <1> QED
    BY <1>1, <1>2, <1>3, <1>4, <1>5, <1>6 DEF IInv

(* The disk gets newer.                                                    *)
LEMMA EditDiskStep ==
    ASSUME IInv, EditDisk
    PROVE  IInv'
  <1>1. Typed'
    BY LoadsAssumption, DiskAssumption
    DEF EditDisk, IInv, Typed, Caller, Results, Locations, Holding, Leading, Armed
  <1>2. Holding' /\ CellsFreed'
    BY LoadsAssumption
    DEF EditDisk, IInv, Typed, Caller, Holding, Leading, Armed, CellsFreed,
        Referenced, Locations
  <1>3. LoadHasOneLeader'
    BY LoadsAssumption
    DEF EditDisk, IInv, Typed, Caller, Holding, Leading, Armed, LoadHasOneLeader,
        CellsFreed, Referenced
  <1>4. EntryOfArmed'
    BY LoadsAssumption
    DEF EditDisk, IInv, Typed, Caller, Holding, Leading, Armed, EntryOfArmed,
        LoadHasOneLeader
  <1>5. WaitsForLeader'
    BY LoadsAssumption
    DEF EditDisk, IInv, Typed, Caller, Holding, Leading, Armed, EntryOfArmed,
        LoadHasOneLeader, WaitsForLeader
  <1>6. Fresh'
    BY LoadsAssumption, DiskAssumption
    DEF EditDisk, IInv, Typed, Caller, Holding, Leading, Armed, Fresh, EntryOfArmed,
        LoadHasOneLeader
  <1> QED
    BY <1>1, <1>2, <1>3, <1>4, <1>5, <1>6 DEF IInv

(* The entries that are there stay, and cannot be reached.                 *)
LEMMA BreakRegistryStep ==
    ASSUME IInv, BreakRegistry
    PROVE  IInv'
  <1>1. Typed'
    BY LoadsAssumption, DiskAssumption
    DEF BreakRegistry, IInv, Typed, Caller, Results, Locations, Holding, Leading, Armed
  <1>2. Holding' /\ CellsFreed'
    BY LoadsAssumption
    DEF BreakRegistry, IInv, Typed, Caller, Holding, Leading, Armed, CellsFreed,
        Referenced, Locations
  <1>3. LoadHasOneLeader'
    BY LoadsAssumption
    DEF BreakRegistry, IInv, Typed, Caller, Holding, Leading, Armed, LoadHasOneLeader,
        CellsFreed, Referenced
  <1>4. EntryOfArmed'
    BY LoadsAssumption
    DEF BreakRegistry, IInv, Typed, Caller, Holding, Leading, Armed, EntryOfArmed,
        LoadHasOneLeader
  <1>5. WaitsForLeader'
    BY LoadsAssumption
    DEF BreakRegistry, IInv, Typed, Caller, Holding, Leading, Armed, EntryOfArmed,
        LoadHasOneLeader, WaitsForLeader
  <1>6. Fresh'
    BY LoadsAssumption, DiskAssumption
    DEF BreakRegistry, IInv, Typed, Caller, Holding, Leading, Armed, Fresh, EntryOfArmed,
        LoadHasOneLeader
  <1> QED
    BY <1>1, <1>2, <1>3, <1>4, <1>5, <1>6 DEF IInv

-----------------------------------------------------------------------------
(* The invariant is about the variables only.                              *)
LEMMA Stutter == ASSUME IInv, UNCHANGED vars PROVE IInv'
  BY DEF IInv, Typed, Holding, CellsFreed, LoadHasOneLeader, EntryOfArmed, WaitsForLeader,
         Fresh, vars

(* The invariant is inductive.                                             *)
THEOREM Invariance == Spec => []IInv
  <1>1. ASSUME IInv, [Next]_vars PROVE IInv'
    <2>1. ASSUME NEW c \in Callers, Step(c) PROVE IInv'
      BY <1>1, <2>1, FindLoadedStep, BeginFailsStep, JoinStep, LeadStep, PrepareStep, CommitStep,
         RetireStep, FinishStep, UnwindStep, FailStep, WaitStep
      DEF Step
    <2>2. ASSUME NEW c \in Callers, NEW p \in Projects, NEW r \in BOOLEAN, Call(c, p, r)
          PROVE  IInv'
      BY <1>1, <2>2, CallStep
    <2>3. CASE EditDisk
      BY <1>1, <2>3, EditDiskStep
    <2>4. CASE BreakRegistry
      BY <1>1, <2>4, BreakRegistryStep
    <2>5. CASE UNCHANGED vars
      BY <1>1, <2>5, Stutter
    <2> QED
      BY <1>1, <2>1, <2>2, <2>3, <2>4, <2>5 DEF Next, CallFails
  <1> QED
    BY <1>1, InitInv, PTL DEF Spec, Safety

-----------------------------------------------------------------------------
(* The variables keep their types, and each caller holds what its place    *)
(* asks for.                                                               *)
THEOREM TypeCorrect == Spec => []TypeOK
  <1>1. IInv => TypeOK
    BY DEF IInv, Typed, Holding, TypeOK
  <1> QED
    BY <1>1, Invariance, PTL

(* begin_workspace_load, publish and the destructor of the guard: one      *)
(* leader per entry, no waiter without one, and no entry either while the  *)
(* registry can be locked, whatever way the leaders end.                   *)
THEOREM EntryHasOneLeaderCorrect == Spec => []EntryHasOneLeader
  <1>1. ASSUME IInv PROVE EntryHasOneLeader
    <2>1. \A c, d \in Callers :
             pc[c] \in Armed /\ pc[d] \in Armed /\ project[c] = project[d] => c = d
      BY <1>1 DEF IInv, LoadHasOneLeader, EntryOfArmed, Leading, Armed
    <2>2. ASSUME ~broken, NEW p \in Projects, loads[p] # NoLoad
          PROVE  /\ \E c \in Callers :
                       pc[c] \in Armed /\ project[c] = p /\ load[c] = loads[p]
                 /\ result[loads[p]] = "Unset"
      BY <1>1, <2>2 DEF IInv, EntryOfArmed, LoadHasOneLeader, Leading, Armed
    <2> QED
      BY <1>1, <2>1, <2>2 DEF IInv, EntryOfArmed, WaitsForLeader, EntryHasOneLeader
  <1> QED
    BY <1>1, Invariance, PTL

(* commit_workspace never takes a workspace back to an older state of the  *)
(* disk: who commits has read the disk since the last commit.              *)
THEOREM ContentMonotoneCorrect == Spec => ContentMonotone
  <1>1. ASSUME IInv, [Next]_vars, NEW p \in Projects PROVE content'[p] >= content[p]
    <2>1. ASSUME NEW c \in Callers, Commit(c) PROVE content'[p] >= content[p]
      BY <1>1, <2>1 DEF Commit, IInv, Typed, Fresh
    <2>2. ASSUME content' = content PROVE content'[p] >= content[p]
      BY <1>1, <2>2 DEF IInv, Typed
    <2> QED
      BY <1>1, <2>1, <2>2
      DEF Next, Step, FindLoaded, BeginFails, Join, Lead, Prepare, Retire, Finish, Unwind,
          Fail, Wait, Call, CallFails, EditDisk, BreakRegistry, vars
  <1>2. IInv /\ [Next]_vars => [\A p \in Projects : content'[p] >= content[p]]_vars
    BY <1>1
  <1> QED
    BY <1>2, Invariance, PTL DEF Spec, Safety, ContentMonotone

(* already_committed: only a caller that asked for a reload replaces a     *)
(* workspace.                                                              *)
THEOREM OnlyReloadReplacesCorrect == Spec => OnlyReloadReplaces
  <1>1. ASSUME IInv, [Next]_vars, NEW p \in Projects, content[p] # 0, content'[p] # content[p]
        PROVE  \E c \in Callers : pc[c] = "commit" /\ project[c] = p /\ reload[c]
    <2>1. PICK c \in Callers : Commit(c)
      BY <1>1
      DEF Next, Step, FindLoaded, BeginFails, Join, Lead, Prepare, Retire, Finish, Unwind,
          Fail, Wait, Call, CallFails, EditDisk, BreakRegistry, vars
    <2> QED
      BY <1>1, <2>1 DEF Commit, AlreadyCommitted, IInv, Typed
  <1>2. IInv /\ [Next]_vars =>
          [\A p \in Projects : content[p] # 0 /\ content'[p] # content[p] =>
             \E c \in Callers : pc[c] = "commit" /\ project[c] = p /\ reload[c]]_vars
    BY <1>1
  <1> QED
    BY <1>2, Invariance, PTL DEF Spec, Safety, OnlyReloadReplaces
=============================================================================
