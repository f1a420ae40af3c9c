-------------------------- MODULE WorldAccess_proofs --------------------------
(***************************************************************************)
(* The safety of the access lock for every set of tasks and sessions.      *)
(***************************************************************************)
EXTENDS WorldAccess, FiniteSetTheorems, TLAPS

(* What a task holds or waits for is never mistaken for another permit.    *)
LEMMA PermitsDiffer ==
    ASSUME NEW s \in Sessions, NEW r \in Sessions,
           NEW o \in Owners, NEW w \in Owners
    PROVE  /\ ReadPermit(s) # WritePermit(o)
           /\ ReadPermit(s) # NoPermit
           /\ WritePermit(o) # NoPermit
           /\ ReadPermit(s) = ReadPermit(r) <=> s = r
           /\ WritePermit(o) = WritePermit(w) <=> o = w
           /\ ReadPermit(s) \in Permits
           /\ WritePermit(o) \in Permits
  BY DEF ReadPermit, WritePermit, NoPermit, Permits

(* A permit is of one of two kinds.                                        *)
LEMMA PermitCases ==
    ASSUME NEW p \in Permits
    PROVE  \/ \E s \in Sessions : p = ReadPermit(s)
           \/ \E o \in Owners : p = WritePermit(o)
  BY DEF Permits

(* What blocks a reader ...                                                *)
LEMMA BlockedRead ==
    ASSUME NEW s \in Sessions
    PROVE  Blocked(ReadPermit(s)) <=> ReadIsBlocked(s)
  BY DEF Blocked, ReadPermit

(* ... and a writer.                                                       *)
LEMMA BlockedWrite ==
    ASSUME NEW o \in Owners
    PROVE  Blocked(WritePermit(o)) <=> WriteIsBlocked(o)
  BY DEF Blocked, WritePermit

-----------------------------------------------------------------------------
(* The types at the start.                                                 *)
LEMMA InitTypeOK == Init => TypeOK
  BY DEF Init, TypeOK, Phases, Permits, NoPermit, Owners

(* The common tail of read(), write() and of a woken task.                 *)
LEMMA WaitOrEnterType ==
    ASSUME TypeOK, NEW t \in Tasks, NEW p \in Permits, WaitOrEnter(t, p)
    PROVE  /\ readers' \in [Sessions -> Nat]
           /\ phase' \in [Tasks -> Phases]
           /\ phase'[t] # "idle"
           /\ \A u \in Tasks \ {t} : phase'[u] = phase[u]
  BY DEF TypeOK, WaitOrEnter, Phases

(* After a drop its task is idle and the parked ones are woken.            *)
LEMMA NotifyAllType ==
    ASSUME TypeOK, NEW t \in Tasks, NotifyAll(t)
    PROVE  /\ phase' \in [Tasks -> Phases]
           /\ phase'[t] = "idle"
           /\ \A u \in Tasks \ {t} :
                phase'[u] = IF phase[u] = "parked" THEN "woken" ELSE phase[u]
  BY DEF TypeOK, NotifyAll, Phases

-----------------------------------------------------------------------------
(* The permits behind a count, and how one task joining or leaving moves   *)
(* their number.                                                           *)
ReadSet(s)  == {t \in Tasks : Reads(t, s)}
WriteSet(o) == {t \in Tasks : request[t] = WritePermit(o)}

(* A task enters a set of tasks that is counted, ...                       *)
LEMMA TaskJoins ==
    ASSUME NEW S \in SUBSET Tasks, NEW t \in Tasks, t \notin S
    PROVE  Cardinality(S \cup {t}) = Cardinality(S) + 1
  BY TasksAssumption, FS_Subset, FS_AddElement

(* ... and one leaves it.                                                  *)
LEMMA TaskLeaves ==
    ASSUME NEW S \in SUBSET Tasks, NEW t \in S
    PROVE  /\ Cardinality(S \ {t}) = Cardinality(S) - 1
           /\ Cardinality(S \ {t}) \in Nat
  BY TasksAssumption, FS_Subset, FS_RemoveElement, FS_CardinalityType

(* At the start nobody is counted.                                         *)
LEMMA InitCounts == Init => CountsExact
  <1> SUFFICES ASSUME Init PROVE CountsExact
    OBVIOUS
  <1>1. \A s \in Sessions : ReadSet(s) = {}
    BY DEF Init, ReadSet, Reads
  <1>2. \A o \in Owners : WriteSet(o) = {}
    BY DEF Init, WriteSet, WritePermit, NoPermit
  <1> QED
    BY <1>1, <1>2, FS_EmptySet DEF CountsExact, ReadSet, WriteSet, Init

(* Whoever leaves the loop of read() is counted exactly once, and whoever  *)
(* parks is not counted.                                                   *)
LEMMA WaitOrEnterReaders ==
    ASSUME TypeOK, CountsExact, NEW t \in Tasks, NEW p \in Permits,
           phase[t] # "granted", request'[t] = p,
           \A u \in Tasks \ {t} : request'[u] = request[u],
           WaitOrEnter(t, p),
           NEW s \in Sessions
    PROVE  readers'[s] = Cardinality(ReadSet(s)')
  <1>1. \A u \in Tasks \ {t} : u \in ReadSet(s)' <=> u \in ReadSet(s)
    BY WaitOrEnterType DEF ReadSet, Reads
  <1>2. t \notin ReadSet(s)
    BY DEF ReadSet, Reads
  <1>3. readers[s] = Cardinality(ReadSet(s))
    BY DEF CountsExact, ReadSet
  <1>4. CASE ~Blocked(p) /\ p = ReadPermit(s)
    <2>1. phase'[t] = "granted" /\ readers'[s] = readers[s] + 1
      BY <1>4 DEF WaitOrEnter, TypeOK
    <2>2. ReadSet(s)' = ReadSet(s) \cup {t}
      BY <1>1, <1>4, <2>1 DEF ReadSet, Reads
    <2> QED
      BY <1>2, <1>3, <2>1, <2>2, TaskJoins DEF ReadSet
  <1>5. CASE Blocked(p) \/ p # ReadPermit(s)
    <2>1. readers'[s] = readers[s] /\ t \notin ReadSet(s)'
      BY <1>5 DEF WaitOrEnter, TypeOK, ReadSet, Reads
    <2>2. ReadSet(s)' = ReadSet(s)
      BY <1>1, <1>2, <2>1 DEF ReadSet
    <2> QED
      BY <1>3, <2>1, <2>2
  <1> QED
    BY <1>4, <1>5

-----------------------------------------------------------------------------
(* A reader that asks is counted only if it is let in.                     *)
LEMMA ReadStep ==
    ASSUME TypeOK, CountsExact, NEW t \in Tasks, NEW s \in Sessions, Read(t, s)
    PROVE  TypeOK' /\ CountsExact'
  <1>1. /\ phase[t] = "idle"
        /\ request' = [request EXCEPT ![t] = ReadPermit(s)]
        /\ WaitOrEnter(t, ReadPermit(s))
        /\ pendingWriters' = pendingWriters
    BY DEF Read
  <1>2. ReadPermit(s) \in Permits /\ ReadPermit(s) # NoPermit
    BY PermitsDiffer DEF Owners
  <1>3. TypeOK'
    BY <1>1, <1>2, WaitOrEnterType DEF TypeOK
  <1>4. ASSUME NEW r \in Sessions
        PROVE  readers'[r] = Cardinality(ReadSet(r)')
    BY <1>1, <1>2, WaitOrEnterReaders DEF TypeOK
  <1>5. ASSUME NEW o \in Owners
        PROVE  WriteSet(o)' = WriteSet(o)
    BY <1>1, PermitsDiffer DEF TypeOK, WriteSet
  <1> QED
    BY <1>1, <1>3, <1>4, <1>5 DEF CountsExact, ReadSet, WriteSet

(* A writer is counted from its asking on.                                 *)
LEMMA WriteStep ==
    ASSUME TypeOK, CountsExact, NEW t \in Tasks, NEW o \in Owners, Write(t, o)
    PROVE  TypeOK' /\ CountsExact'
  <1>1. /\ phase[t] = "idle"
        /\ request' = [request EXCEPT ![t] = WritePermit(o)]
        /\ WaitOrEnter(t, WritePermit(o))
        /\ pendingWriters' = [pendingWriters EXCEPT ![o] = @ + 1]
    BY DEF Write
  <1>2. WritePermit(o) \in Permits /\ WritePermit(o) # NoPermit
    BY DEF Permits, WritePermit, NoPermit
  <1>3. TypeOK'
    BY <1>1, <1>2, WaitOrEnterType DEF TypeOK
  <1>4. ASSUME NEW r \in Sessions
        PROVE  readers'[r] = Cardinality(ReadSet(r)')
    BY <1>1, <1>2, WaitOrEnterReaders DEF TypeOK
  <1>5. t \notin WriteSet(o) /\ WriteSet(o)' = WriteSet(o) \cup {t}
    BY <1>1, <1>2 DEF TypeOK, WriteSet
  <1>6. ASSUME NEW w \in Owners
        PROVE  pendingWriters'[w] = Cardinality(WriteSet(w)')
    <2>1. CASE w = o
      <3>1. pendingWriters[o] = Cardinality(WriteSet(o)) /\ WriteSet(o) \in SUBSET Tasks
        BY DEF CountsExact, WriteSet
      <3>2. pendingWriters'[o] = pendingWriters[o] + 1
        BY <1>1 DEF TypeOK
      <3> QED
        BY <1>5, <2>1, <3>1, <3>2, TaskJoins
    <2>2. CASE w # o
      <3>1. WriteSet(w)' = WriteSet(w)
        BY <1>1, <2>2 DEF TypeOK, WriteSet, WritePermit, NoPermit
      <3> QED
        BY <1>1, <2>2, <3>1 DEF TypeOK, CountsExact, WriteSet
    <2> QED
      BY <2>1, <2>2
  <1> QED
    BY <1>3, <1>4, <1>6 DEF CountsExact, ReadSet, WriteSet

(* A woken task is let in, or parks again.                                 *)
LEMMA RecheckStep ==
    ASSUME TypeOK, CountsExact, NEW t \in Tasks, Recheck(t)
    PROVE  TypeOK' /\ CountsExact'
  <1>1. /\ phase[t] = "woken"
        /\ WaitOrEnter(t, request[t])
        /\ pendingWriters' = pendingWriters
        /\ request' = request
    BY DEF Recheck
  <1>2. request[t] \in Permits
    BY <1>1 DEF TypeOK
  <1>3. TypeOK'
    BY <1>1, <1>2, WaitOrEnterType DEF TypeOK
  <1>4. ASSUME NEW r \in Sessions
        PROVE  readers'[r] = Cardinality(ReadSet(r)')
    BY <1>1, <1>2, WaitOrEnterReaders
  <1> QED
    BY <1>1, <1>3, <1>4 DEF CountsExact, ReadSet, WriteSet

(* A wakeup nobody sent counts nobody.                                     *)
LEMMA SpuriousWakeStep ==
    ASSUME TypeOK, CountsExact, NEW t \in Tasks, SpuriousWake(t)
    PROVE  TypeOK' /\ CountsExact'
  <1>1. TypeOK'
    BY DEF SpuriousWake, TypeOK, Phases
  <1>2. \A s \in Sessions : ReadSet(s)' = ReadSet(s)
    BY DEF SpuriousWake, TypeOK, ReadSet, Reads
  <1> QED
    BY <1>1, <1>2 DEF SpuriousWake, CountsExact, ReadSet

(* A reader that leaves was one of those counted, ...                      *)
LEMMA DropReadStep ==
    ASSUME TypeOK, CountsExact, NEW t \in Tasks, DropRead(t)
    PROVE  TypeOK' /\ CountsExact'
  <1>1. PICK s \in Sessions :
           /\ Reads(t, s)
           /\ readers' = [readers EXCEPT ![s] = @ - 1]
           /\ request' = [request EXCEPT ![t] = NoPermit]
           /\ NotifyAll(t)
           /\ pendingWriters' = pendingWriters
    BY DEF DropRead
  <1>2. t \in ReadSet(s) /\ ReadSet(s)' = ReadSet(s) \ {t}
    BY <1>1, NotifyAllType DEF TypeOK, ReadSet, Reads
  <1>3. readers'[s] = Cardinality(ReadSet(s)') /\ readers'[s] \in Nat
    <2>1. readers[s] = Cardinality(ReadSet(s)) /\ ReadSet(s) \in SUBSET Tasks
      BY DEF CountsExact, ReadSet
    <2>2. readers'[s] = readers[s] - 1
      BY <1>1 DEF TypeOK
    <2> QED
      BY <1>2, <2>1, <2>2, TaskLeaves
  <1>4. ASSUME NEW r \in Sessions, r # s
        PROVE  readers'[r] = readers[r] /\ ReadSet(r)' = ReadSet(r)
    BY <1>1, <1>4, NotifyAllType
    DEF TypeOK, ReadSet, Reads, ReadPermit, NoPermit
  <1>5. TypeOK'
    BY <1>1, <1>3, NotifyAllType DEF TypeOK
  <1>6. ASSUME NEW o \in Owners
        PROVE  WriteSet(o)' = WriteSet(o)
    BY <1>1, PermitsDiffer DEF TypeOK, WriteSet, Reads
  <1> QED
    BY <1>1, <1>3, <1>4, <1>5, <1>6 DEF CountsExact, ReadSet, WriteSet

(* ... and so was a writer.                                                *)
LEMMA DropWriteStep ==
    ASSUME TypeOK, CountsExact, NEW t \in Tasks, DropWrite(t)
    PROVE  TypeOK' /\ CountsExact'
  <1>1. PICK o \in Owners :
           /\ Writes(t, o)
           /\ pendingWriters' = [pendingWriters EXCEPT ![o] = @ - 1]
           /\ request' = [request EXCEPT ![t] = NoPermit]
           /\ NotifyAll(t)
           /\ readers' = readers
    BY DEF DropWrite
  <1>2. t \in WriteSet(o) /\ WriteSet(o)' = WriteSet(o) \ {t}
    BY <1>1 DEF TypeOK, WriteSet, Writes, WritePermit, NoPermit
  <1>3. pendingWriters'[o] = Cardinality(WriteSet(o)') /\ pendingWriters'[o] \in Nat
    <2>1. pendingWriters[o] = Cardinality(WriteSet(o)) /\ WriteSet(o) \in SUBSET Tasks
      BY DEF CountsExact, WriteSet
    <2>2. pendingWriters'[o] = pendingWriters[o] - 1
      BY <1>1 DEF TypeOK
    <2> QED
      BY <1>2, <2>1, <2>2, TaskLeaves
  <1>4. ASSUME NEW w \in Owners, w # o
        PROVE  pendingWriters'[w] = pendingWriters[w] /\ WriteSet(w)' = WriteSet(w)
    BY <1>1, <1>4 DEF TypeOK, WriteSet, Writes, WritePermit, NoPermit
  <1>5. TypeOK'
    BY <1>1, <1>3, NotifyAllType DEF TypeOK
  <1>6. ASSUME NEW s \in Sessions
        PROVE  ReadSet(s)' = ReadSet(s)
    BY <1>1, NotifyAllType, PermitsDiffer DEF TypeOK, ReadSet, Reads, Writes
  <1> QED
    BY <1>1, <1>3, <1>4, <1>5, <1>6 DEF CountsExact, ReadSet, WriteSet

(* The counts kept in the two maps are, at every moment, the permits that  *)
(* tasks hold and the writes that tasks have asked for.                    *)
THEOREM CountsCorrect == Spec => [](TypeOK /\ CountsExact)
  <1>1. Init => TypeOK /\ CountsExact
    BY InitTypeOK, InitCounts
  <1>2. TypeOK /\ CountsExact /\ [Next]_vars => (TypeOK /\ CountsExact)'
    <2> SUFFICES ASSUME TypeOK, CountsExact, [Next]_vars
                 PROVE  TypeOK' /\ CountsExact'
      OBVIOUS
    <2>1. CASE UNCHANGED vars
      BY <2>1 DEF vars, TypeOK, CountsExact, Reads
    <2>2. CASE Next
      BY <2>2, ReadStep, WriteStep, RecheckStep, SpuriousWakeStep,
         DropReadStep, DropWriteStep DEF Next
    <2> QED
      BY <2>1, <2>2
  <1> QED
    BY <1>1, <1>2, PTL DEF Spec, Safety

(* Every variable has its type: the counts are naturals, and a task is at  *)
(* one of its places.                                                      *)
THEOREM TypeCorrect == Spec => []TypeOK
  BY CountsCorrect, PTL

-----------------------------------------------------------------------------
(* A granted permit is behind a positive count: what the guards read of    *)
(* the maps is true of the tasks.                                          *)
LEMMA ReaderCounted ==
    ASSUME TypeOK, CountsExact, NEW t \in Tasks, NEW s \in Sessions, Reads(t, s)
    PROVE  readers[s] > 0
  <1>1. ReadSet(s) \in SUBSET Tasks /\ ReadSet(s) # {}
    BY DEF ReadSet
  <1>2. Cardinality(ReadSet(s)) # 0
    BY <1>1, TasksAssumption, FS_Subset, FS_EmptySet
  <1> QED
    BY <1>2 DEF TypeOK, CountsExact, ReadSet

(* A writer that has its permit makes the count of its session positive.   *)
LEMMA WriterCounted ==
    ASSUME TypeOK, CountsExact, NEW t \in Tasks, NEW o \in Owners, Writes(t, o)
    PROVE  pendingWriters[o] > 0
  <1>1. WriteSet(o) \in SUBSET Tasks /\ WriteSet(o) # {}
    BY DEF WriteSet, Writes
  <1>2. Cardinality(WriteSet(o)) # 0
    BY <1>1, TasksAssumption, FS_Subset, FS_EmptySet
  <1> QED
    BY <1>2 DEF TypeOK, CountsExact, WriteSet

(* The permit a task may enter with is compatible with all that are held.  *)
LEMMA EnterCompatible ==
    ASSUME TypeOK, CountsExact, NEW p \in Permits, ~Blocked(p)
    PROVE  /\ \A s \in Sessions, u \in Tasks, o \in Owners :
                p = ReadPermit(s) /\ Writes(u, o) => o = s
           /\ \A o \in Owners, u \in Tasks, s \in Sessions :
                p = WritePermit(o) /\ Reads(u, s) => o = s
  <1>1. ASSUME NEW s \in Sessions, NEW u \in Tasks, NEW o \in Owners,
               p = ReadPermit(s), Writes(u, o)
        PROVE  o = s
    BY <1>1, WriterCounted, BlockedRead DEF ReadIsBlocked
  <1>2. ASSUME NEW o \in Owners, NEW u \in Tasks, NEW s \in Sessions,
               p = WritePermit(o), Reads(u, s)
        PROVE  o = s
    BY <1>2, ReaderCounted, BlockedWrite DEF WriteIsBlocked
  <1> QED
    BY <1>1, <1>2

(* A task enters only beside those its permit may coexist with.            *)
LEMMA WaitOrEnterExclusion ==
    ASSUME TypeOK, CountsExact, Exclusion,
           NEW t \in Tasks, NEW p \in Permits, phase[t] # "granted",
           request'[t] = p, \A u \in Tasks \ {t} : request'[u] = request[u],
           WaitOrEnter(t, p)
    PROVE  Exclusion'
  <1> SUFFICES ASSUME NEW u \in Tasks, NEW v \in Tasks, NEW o \in Owners,
                      NEW s \in Sessions, Writes(u, o)', Reads(v, s)'
               PROVE  o = s
    BY DEF Exclusion
  <1>1. \A w \in Tasks \ {t} : phase'[w] = phase[w] /\ request'[w] = request[w]
    BY WaitOrEnterType
  <1>2. phase'[t] = "granted" => ~Blocked(p)
    BY DEF WaitOrEnter, TypeOK
  <1>3. CASE u # t /\ v # t
    BY <1>1, <1>3 DEF Exclusion, Writes, Reads
  <1>4. CASE u = t /\ v # t
    <2>1. p = WritePermit(o) /\ ~Blocked(p)
      BY <1>2, <1>4 DEF Writes
    <2>2. Reads(v, s)
      BY <1>1, <1>4 DEF Reads
    <2> QED
      BY <2>1, <2>2, EnterCompatible
  <1>5. CASE u # t /\ v = t
    <2>1. p = ReadPermit(s) /\ ~Blocked(p)
      BY <1>2, <1>5 DEF Reads
    <2>2. Writes(u, o)
      BY <1>1, <1>5 DEF Writes
    <2> QED
      BY <2>1, <2>2, EnterCompatible
  <1>6. CASE u = t /\ v = t
    BY <1>6, PermitsDiffer DEF Writes, Reads
  <1> QED
    BY <1>3, <1>4, <1>5, <1>6

(* A wakeup of everybody grants nothing.                                   *)
LEMMA NotifyAllExclusion ==
    ASSUME TypeOK, Exclusion, NEW t \in Tasks, NotifyAll(t),
           \A u \in Tasks \ {t} : request'[u] = request[u]
    PROVE  Exclusion'
  <1>1. \A u \in Tasks : phase'[u] = "granted" =>
                phase[u] = "granted" /\ request'[u] = request[u]
    BY NotifyAllType DEF TypeOK, Phases
  <1> QED
    BY <1>1 DEF Exclusion, Writes, Reads

(* The heart of the lock: a session's queries never overlap a write of     *)
(* another session, for any number of sessions and threads.                *)
THEOREM ExclusionCorrect == Spec => []Exclusion
  <1>1. Init => Exclusion
    BY DEF Init, Exclusion, Writes
  <1>2. TypeOK /\ CountsExact /\ Exclusion /\ [Next]_vars => Exclusion'
    <2> SUFFICES ASSUME TypeOK, CountsExact, Exclusion, [Next]_vars
                 PROVE  Exclusion'
      OBVIOUS
    <2>1. ASSUME NEW t \in Tasks, NEW s \in Sessions, Read(t, s)
          PROVE  Exclusion'
      <3>1. ReadPermit(s) \in Permits
        BY PermitsDiffer DEF Owners
      <3> QED
        BY <2>1, <3>1, WaitOrEnterExclusion DEF Read, TypeOK
    <2>2. ASSUME NEW t \in Tasks, NEW o \in Owners, Write(t, o)
          PROVE  Exclusion'
      <3>1. WritePermit(o) \in Permits
        BY DEF Permits
      <3> QED
        BY <2>2, <3>1, WaitOrEnterExclusion DEF Write, TypeOK
    <2>3. ASSUME NEW t \in Tasks, Recheck(t)
          PROVE  Exclusion'
      <3>1. request[t] \in Permits /\ request' = request
        BY <2>3 DEF Recheck, TypeOK
      <3> QED
        BY <2>3, <3>1, WaitOrEnterExclusion DEF Recheck
    <2>4. ASSUME NEW t \in Tasks, SpuriousWake(t)
          PROVE  Exclusion'
      BY <2>4 DEF SpuriousWake, TypeOK, Exclusion, Writes, Reads
    <2>5. ASSUME NEW t \in Tasks, DropRead(t)
          PROVE  Exclusion'
      BY <2>5, NotifyAllExclusion DEF DropRead, TypeOK
    <2>6. ASSUME NEW t \in Tasks, DropWrite(t)
          PROVE  Exclusion'
      BY <2>6, NotifyAllExclusion DEF DropWrite, TypeOK
    <2>7. CASE UNCHANGED vars
      BY <2>7 DEF vars, Exclusion, Writes, Reads
    <2> QED
      BY <2>1, <2>2, <2>3, <2>4, <2>5, <2>6, <2>7 DEF Next
  <1> QED
    BY <1>1, <1>2, CountsCorrect, PTL DEF Spec, Safety

-----------------------------------------------------------------------------
(* Between two notifications the counts only grow, so what was blocked     *)
(* stays blocked.                                                          *)
LEMMA BlockedStays ==
    ASSUME TypeOK, NEW p \in Permits, Blocked(p),
           readers' \in [Sessions -> Nat], pendingWriters' \in [Owners -> Nat],
           \A s \in Sessions : readers'[s] >= readers[s],
           \A o \in Owners : pendingWriters'[o] >= pendingWriters[o]
    PROVE  Blocked(p)'
  <1>1. CASE \E s \in Sessions : p = ReadPermit(s)
    <2>1. PICK s \in Sessions : p = ReadPermit(s)
      BY <1>1
    <2>2. PICK o \in Owners \ {s} : pendingWriters[o] > 0
      BY <2>1, BlockedRead DEF ReadIsBlocked
    <2>3. pendingWriters'[o] > 0
      BY <2>2 DEF TypeOK
    <2> QED
      BY <2>1, <2>3 DEF Blocked, ReadIsBlocked, ReadPermit
  <1>2. CASE \E o \in Owners : p = WritePermit(o)
    <2>1. PICK o \in Owners : p = WritePermit(o)
      BY <1>2
    <2>2. PICK s \in Sessions \ {o} : readers[s] > 0
      BY <2>1, BlockedWrite DEF WriteIsBlocked
    <2>3. readers'[s] > 0
      BY <2>2 DEF TypeOK
    <2> QED
      BY <2>1, <2>3 DEF Blocked, WriteIsBlocked, WritePermit
  <1> QED
    BY <1>1, <1>2, PermitCases

(* A task parks only if it is blocked.                                     *)
LEMMA WaitOrEnterNoLostWakeup ==
    ASSUME TypeOK, NoLostWakeup, TypeOK', NEW t \in Tasks, NEW p \in Permits,
           request'[t] = p, \A u \in Tasks \ {t} : request'[u] = request[u],
           WaitOrEnter(t, p),
           \A o \in Owners : pendingWriters'[o] >= pendingWriters[o]
    PROVE  NoLostWakeup'
  <1> SUFFICES ASSUME NEW u \in Tasks, phase'[u] = "parked"
               PROVE  Blocked(request[u])'
    BY DEF NoLostWakeup
  <1>1. \A s \in Sessions : readers'[s] >= readers[s]
    BY DEF WaitOrEnter, TypeOK
  <1>2. request'[u] \in Permits /\ Blocked(request'[u])
    <2>1. CASE u = t
      BY <2>1 DEF WaitOrEnter, TypeOK
    <2>2. CASE u # t
      BY <2>2, WaitOrEnterType DEF NoLostWakeup, TypeOK
    <2> QED
      BY <2>1, <2>2
  <1>3. ASSUME NEW q \in Permits, Blocked(q)
        PROVE  Blocked(q)'
    BY <1>1, <1>3, BlockedStays DEF TypeOK
  <1>4. PICK q \in Permits : q = request'[u] /\ Blocked(q)'
    BY <1>2, <1>3
  <1> QED
    BY <1>4 DEF Blocked

(* No thread is left on the condition variable once its condition holds.   *)
THEOREM NoLostWakeupCorrect == Spec => []NoLostWakeup
  <1>1. Init => NoLostWakeup
    BY DEF Init, NoLostWakeup
  <1>2. TypeOK /\ NoLostWakeup /\ TypeOK' /\ [Next]_vars => NoLostWakeup'
    <2> SUFFICES ASSUME TypeOK, NoLostWakeup, TypeOK', [Next]_vars
                 PROVE  NoLostWakeup'
      OBVIOUS
    <2>1. ASSUME NEW t \in Tasks, NEW s \in Sessions, Read(t, s)
          PROVE  NoLostWakeup'
      <3>1. ReadPermit(s) \in Permits
        BY PermitsDiffer DEF Owners
      <3>2. \A o \in Owners : pendingWriters'[o] >= pendingWriters[o]
        BY <2>1 DEF Read, TypeOK
      <3> QED
        BY <2>1, <3>1, <3>2, WaitOrEnterNoLostWakeup DEF Read, TypeOK
    <2>2. ASSUME NEW t \in Tasks, NEW o \in Owners, Write(t, o)
          PROVE  NoLostWakeup'
      <3>1. WritePermit(o) \in Permits
        BY DEF Permits
      <3>2. \A w \in Owners : pendingWriters'[w] >= pendingWriters[w]
        BY <2>2 DEF Write, TypeOK
      <3> QED
        BY <2>2, <3>1, <3>2, WaitOrEnterNoLostWakeup DEF Write, TypeOK
    <2>3. ASSUME NEW t \in Tasks, Recheck(t)
          PROVE  NoLostWakeup'
      <3>1. request[t] \in Permits /\ request' = request
        BY <2>3 DEF Recheck, TypeOK
      <3>2. \A w \in Owners : pendingWriters'[w] >= pendingWriters[w]
        BY <2>3 DEF Recheck, TypeOK
      <3> QED
        BY <2>3, <3>1, <3>2, WaitOrEnterNoLostWakeup DEF Recheck
    <2>4. ASSUME NEW t \in Tasks, SpuriousWake(t)
          PROVE  NoLostWakeup'
      BY <2>4 DEF SpuriousWake, TypeOK, NoLostWakeup, Blocked, ReadIsBlocked,
                  WriteIsBlocked
    <2>5. ASSUME NEW t \in Tasks, NotifyAll(t)
          PROVE  NoLostWakeup'
      <3>1. \A u \in Tasks : phase'[u] # "parked"
        BY <2>5, NotifyAllType
      <3> QED
        BY <3>1 DEF NoLostWakeup
    <2>6. ASSUME NEW t \in Tasks, DropRead(t) \/ DropWrite(t)
          PROVE  NoLostWakeup'
      BY <2>5, <2>6 DEF DropRead, DropWrite
    <2>7. CASE UNCHANGED vars
      BY <2>7 DEF vars, NoLostWakeup, Blocked, ReadIsBlocked, WriteIsBlocked
    <2> QED
      BY <2>1, <2>2, <2>3, <2>4, <2>6, <2>7 DEF Next
  <1> QED
    BY <1>1, <1>2, TypeCorrect, PTL DEF Spec, Safety

-----------------------------------------------------------------------------
(* The refinement: entering is an abstract acquisition, dropping a release,*)
(* and every other step is invisible.                                      *)
LEMMA EnterIsAcquire ==
    ASSUME TypeOK, CountsExact, NEW t \in Tasks, NEW p \in Permits,
           phase[t] # "granted", request' \in [Tasks -> Permits \cup {NoPermit}],
           request'[t] = p, \A u \in Tasks \ {t} : request'[u] = request[u],
           WaitOrEnter(t, p)
    PROVE  [Abstract!Next]_Held
  <1>1. \A u \in Tasks \ {t} : Held'[u] = Held[u]
    BY WaitOrEnterType DEF Held
  <1>2. Held[t] = NoPermit /\ p # NoPermit
    BY DEF Held, Permits, ReadPermit, WritePermit, NoPermit
  <1>3. CASE Blocked(p)
    <2>1. Held'[t] = NoPermit
      BY <1>3 DEF WaitOrEnter, Held, TypeOK
    <2>2. Held' = Held
      BY <1>1, <1>2, <2>1 DEF Held
    <2> QED
      BY <2>2
  <1>4. CASE ~Blocked(p)
    <2>1. Held'[t] = p
      BY <1>4 DEF WaitOrEnter, Held, TypeOK
    <2>2. Held' = [Held EXCEPT ![t] = p]
      BY <1>1, <2>1 DEF Held
    <2>3. ASSUME NEW u \in Tasks, Held[u] # NoPermit
          PROVE  p.kind = Held[u].kind \/ p.who = Held[u].who
      <3>1. phase[u] = "granted" /\ Held[u] = request[u] /\ request[u] \in Permits
        BY <2>3 DEF Held, TypeOK
      <3>2. CASE \E s \in Sessions, o \in Owners :
                    p = ReadPermit(s) /\ Held[u] = WritePermit(o)
        <4>1. PICK s \in Sessions, o \in Owners :
                  p = ReadPermit(s) /\ Held[u] = WritePermit(o)
          BY <3>2
        <4>2. Writes(u, o)
          BY <3>1, <4>1 DEF Writes
        <4>3. o = s
          BY <1>4, <4>1, <4>2, EnterCompatible
        <4> QED
          BY <4>1, <4>3 DEF ReadPermit, WritePermit
      <3>3. CASE \E s \in Sessions, o \in Owners :
                    p = WritePermit(o) /\ Held[u] = ReadPermit(s)
        <4>1. PICK s \in Sessions, o \in Owners :
                  p = WritePermit(o) /\ Held[u] = ReadPermit(s)
          BY <3>3
        <4>2. Reads(u, s)
          BY <3>1, <4>1 DEF Reads
        <4>3. o = s
          BY <1>4, <4>1, <4>2, EnterCompatible
        <4> QED
          BY <4>1, <4>3 DEF ReadPermit, WritePermit
      <3>4. CASE p.kind = Held[u].kind
        BY <3>4
      <3> QED
        BY <3>1, <3>2, <3>3, <3>4, PermitCases DEF ReadPermit, WritePermit
    <2>4. Abstract!Permits = Permits /\ Abstract!NoPermit = NoPermit
      BY DEF Abstract!Permits, Permits, Abstract!NoPermit, NoPermit, Owners,
             Abstract!ReadPermit, ReadPermit, Abstract!WritePermit, WritePermit
    <2>5. Abstract!Acquire(t, p)
      BY <1>2, <2>2, <2>3, <2>4 DEF Abstract!Acquire, Abstract!Compatible
    <2> QED
      BY <2>4, <2>5 DEF Abstract!Next
  <1> QED
    BY <1>3, <1>4

(* A drop is the release of the abstract lock.                             *)
LEMMA DropIsRelease ==
    ASSUME TypeOK, NEW t \in Tasks, phase[t] = "granted", NotifyAll(t),
           request' = [request EXCEPT ![t] = NoPermit]
    PROVE  [Abstract!Next]_Held
  <1>1. Held[t] # NoPermit /\ Held'[t] = NoPermit
    BY NotifyAllType DEF Held, TypeOK
  <1>2. \A u \in Tasks \ {t} : Held'[u] = Held[u]
    BY NotifyAllType DEF Held, TypeOK
  <1>3. Held' = [Held EXCEPT ![t] = NoPermit]
    BY <1>1, <1>2 DEF Held
  <1>4. Abstract!Release(t)
    BY <1>1, <1>3 DEF Abstract!Release, Abstract!NoPermit, NoPermit
  <1> QED
    BY <1>4 DEF Abstract!Next

(* The lock implements the abstract one it promises.                       *)
THEOREM Implements == Spec => ImplementsSessionLock
  <1>1. Init => Abstract!Init
    BY DEF Init, Abstract!Init, Held, NoPermit, Abstract!NoPermit
  <1>2. TypeOK /\ CountsExact /\ [Next]_vars => [Abstract!Next]_Held
    <2> SUFFICES ASSUME TypeOK, CountsExact, [Next]_vars
                 PROVE  [Abstract!Next]_Held
      OBVIOUS
    <2>1. ASSUME NEW t \in Tasks, NEW s \in Sessions, Read(t, s)
          PROVE  [Abstract!Next]_Held
      <3>1. ReadPermit(s) \in Permits
        BY PermitsDiffer DEF Owners
      <3> QED
        BY <2>1, <3>1, EnterIsAcquire DEF Read, TypeOK
    <2>2. ASSUME NEW t \in Tasks, NEW o \in Owners, Write(t, o)
          PROVE  [Abstract!Next]_Held
      <3>1. WritePermit(o) \in Permits
        BY DEF Permits
      <3> QED
        BY <2>2, <3>1, EnterIsAcquire DEF Write, TypeOK
    <2>3. ASSUME NEW t \in Tasks, Recheck(t)
          PROVE  [Abstract!Next]_Held
      <3>1. request[t] \in Permits /\ request' = request
        BY <2>3 DEF Recheck, TypeOK
      <3> QED
        BY <2>3, <3>1, EnterIsAcquire DEF Recheck, TypeOK
    <2>4. ASSUME NEW t \in Tasks, SpuriousWake(t)
          PROVE  Held' = Held
      BY <2>4 DEF SpuriousWake, TypeOK, Held
    <2>5. ASSUME NEW t \in Tasks, DropRead(t) \/ DropWrite(t)
          PROVE  [Abstract!Next]_Held
      BY <2>5, DropIsRelease DEF DropRead, DropWrite, Reads, Writes
    <2>6. CASE UNCHANGED vars
      BY <2>6 DEF vars, Held
    <2> QED
      BY <2>1, <2>2, <2>3, <2>4, <2>5, <2>6 DEF Next
  <1> QED
    BY <1>1, <1>2, CountsCorrect, PTL
    DEF Spec, Safety, ImplementsSessionLock, Abstract!Spec
==============================================================================
