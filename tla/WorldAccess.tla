----------------------------- MODULE WorldAccess -----------------------------
(***************************************************************************)
(* SharedWorldAccess (shared_analyzer.rs): the lock every session takes    *)
(* around a shared world, and the garbage collector around all of them.    *)
(* A read permit belongs to a session, a write permit to a session or to   *)
(* nobody.  The lock is two maps of counts behind one mutex, with one      *)
(* condition variable; every action is one critical section of that mutex, *)
(* up to the point where the thread waits on the condition variable.       *)
(***************************************************************************)
EXTENDS Integers, FiniteSets

CONSTANTS Tasks,      \* threads that ask for permits
          Sessions,   \* session ids
          NoSession   \* the owner None of a write permit

ASSUME TasksAssumption == IsFiniteSet(Tasks)
ASSUME SessionsAssumption == NoSession \notin Sessions

Owners == Sessions \cup {NoSession}

VARIABLES readers,         \* read permits held, by session
          pendingWriters,  \* writers that wait or hold a permit, by owner
          phase,           \* where each task is in read(), write() or drop()
          request          \* the permit a task waits for or holds

vars == <<readers, pendingWriters, phase, request>>

ReadPermit(s)  == [kind |-> "read", who |-> s]
WritePermit(o) == [kind |-> "write", who |-> o]
NoPermit       == [kind |-> "none", who |-> NoSession]
Permits        == {ReadPermit(s) : s \in Sessions}
                    \cup {WritePermit(o) : o \in Owners}

(* A task is outside the lock, waits on the condition variable, has been   *)
(* notified and must take the mutex and test again, or holds its permit.   *)
Phases == {"idle", "parked", "woken", "granted"}

Reads(t, s)  == phase[t] = "granted" /\ request[t] = ReadPermit(s)
Writes(t, o) == phase[t] = "granted" /\ request[t] = WritePermit(o)

-----------------------------------------------------------------------------
(* The mutants of the definitions below: each is a slip the code could     *)
(* have, and is checked to break the property it is paired with.           *)

\* A reader defers to writers that hold a permit, not to those that wait.
ReadIsBlockedByHolder(s) ==
    \E t \in Tasks, o \in Owners \ {s} : Writes(t, o)

\* A writer waits for its own session's readers only.
WriteIsBlockedByOwn(o) == o \in Sessions /\ readers[o] > 0

\* notify_one in place of notify_all.
NotifyOne(t) ==
    IF \E u \in Tasks : phase[u] = "parked"
    THEN LET u == CHOOSE u \in Tasks : phase[u] = "parked"
         IN  phase' = [phase EXCEPT ![t] = "idle", ![u] = "woken"]
    ELSE phase' = [phase EXCEPT ![t] = "idle"]

\* The permit is dropped twice.
DropReadKeepsPermit(t) ==
    \E s \in Sessions :
        /\ Reads(t, s)
        /\ readers' = [readers EXCEPT ![s] = @ - 1]
        /\ UNCHANGED <<pendingWriters, phase, request>>

-----------------------------------------------------------------------------
ReadIsBlocked(s) == \E o \in Owners \ {s} : pendingWriters[o] > 0

WriteIsBlocked(o) == \E s \in Sessions \ {o} : readers[s] > 0

Blocked(p) == \/ p.kind = "read" /\ ReadIsBlocked(p.who)
              \/ p.kind = "write" /\ WriteIsBlocked(p.who)

Init ==
    /\ readers = [s \in Sessions |-> 0]
    /\ pendingWriters = [o \in Owners |-> 0]
    /\ phase = [t \in Tasks |-> "idle"]
    /\ request = [t \in Tasks |-> NoPermit]

(* The loop of read() and write() under the mutex: wait while blocked,     *)
(* else leave with the permit.                                             *)
WaitOrEnter(t, p) ==
    \/ /\ Blocked(p)
       /\ phase' = [phase EXCEPT ![t] = "parked"]
       /\ UNCHANGED readers
    \/ /\ ~Blocked(p)
       /\ phase' = [phase EXCEPT ![t] = "granted"]
       /\ readers' = [s \in Sessions |->
                        readers[s] + IF p = ReadPermit(s) THEN 1 ELSE 0]

Read(t, s) ==
    /\ phase[t] = "idle"
    /\ request' = [request EXCEPT ![t] = ReadPermit(s)]
    /\ WaitOrEnter(t, ReadPermit(s))
    /\ UNCHANGED pendingWriters

(* The writer is counted before it waits: that is what holds back the      *)
(* readers of every other session.                                         *)
Write(t, o) ==
    /\ phase[t] = "idle"
    /\ request' = [request EXCEPT ![t] = WritePermit(o)]
    /\ pendingWriters' = [pendingWriters EXCEPT ![o] = @ + 1]
    /\ WaitOrEnter(t, WritePermit(o))

(* A notified thread owns the mutex again and tests its condition.         *)
Recheck(t) ==
    /\ phase[t] = "woken"
    /\ WaitOrEnter(t, request[t])
    /\ UNCHANGED <<pendingWriters, request>>

(* Condvar::wait may return without a notification.                        *)
SpuriousWake(t) ==
    /\ phase[t] = "parked"
    /\ phase' = [phase EXCEPT ![t] = "woken"]
    /\ UNCHANGED <<readers, pendingWriters, request>>

(* The dropping task leaves; every parked task is notified.                *)
NotifyAll(t) ==
    phase' = [u \in Tasks |-> IF u = t THEN "idle"
                              ELSE IF phase[u] = "parked" THEN "woken"
                              ELSE phase[u]]

DropRead(t) ==
    \E s \in Sessions :
        /\ Reads(t, s)
        /\ readers' = [readers EXCEPT ![s] = @ - 1]
        /\ request' = [request EXCEPT ![t] = NoPermit]
        /\ NotifyAll(t)
        /\ UNCHANGED pendingWriters

DropWrite(t) ==
    \E o \in Owners :
        /\ Writes(t, o)
        /\ pendingWriters' = [pendingWriters EXCEPT ![o] = @ - 1]
        /\ request' = [request EXCEPT ![t] = NoPermit]
        /\ NotifyAll(t)
        /\ UNCHANGED readers

Next ==
    \E t \in Tasks :
        \/ \E s \in Sessions : Read(t, s)
        \/ \E o \in Owners : Write(t, o)
        \/ Recheck(t)
        \/ SpuriousWake(t)
        \/ DropRead(t)
        \/ DropWrite(t)

(* A notified thread is scheduled, and whoever holds a permit gives it     *)
(* back: a query ends, a sync ends, and unwinding drops the guard too.     *)
(* Nothing is assumed of how the mutex chooses among the threads awake.    *)
Fairness ==
    \A t \in Tasks : WF_vars(Recheck(t)) /\ WF_vars(DropRead(t) \/ DropWrite(t))

Safety == Init /\ [][Next]_vars

Spec == Safety /\ Fairness

-----------------------------------------------------------------------------
(* Types; a task has asked for a permit exactly while it is inside read(), *)
(* write(), or the life of the permit.                                     *)
TypeOK ==
    /\ readers \in [Sessions -> Nat]
    /\ pendingWriters \in [Owners -> Nat]
    /\ phase \in [Tasks -> Phases]
    /\ request \in [Tasks -> Permits \cup {NoPermit}]
    /\ \A t \in Tasks : request[t] = NoPermit <=> phase[t] = "idle"

(* The maps of counts are the permits that exist: neither the early return *)
(* of a drop nor a thread that parks twice ever leaves a count behind.     *)
CountsExact ==
    /\ \A s \in Sessions : readers[s] = Cardinality({t \in Tasks : Reads(t, s)})
    /\ \A o \in Owners :
         pendingWriters[o] = Cardinality({t \in Tasks : request[t] = WritePermit(o)})

(* While a write permit is held, the only snapshots of the world that are  *)
(* alive belong to the session that writes: the other sessions' queries    *)
(* never see a sync half done, and a write by nobody (a workspace commit,  *)
(* a collection) runs alone.  (read_is_blocked, write_is_blocked)          *)
Exclusion ==
    \A t, u \in Tasks, o \in Owners, s \in Sessions :
        Writes(t, o) /\ Reads(u, s) => o = s

(* Nobody sleeps on a condition that has come true: a task parked on the   *)
(* condition variable is blocked.  (notify_all in both drops)              *)
NoLostWakeup ==
    \A t \in Tasks : phase[t] = "parked" => Blocked(request[t])

(* Every write asked for is granted, however many readers come and go,     *)
(* because a waiting writer already holds back the readers of the other    *)
(* sessions.                                                               *)
WriterGranted ==
    \A t \in Tasks, o \in Owners :
        request[t] = WritePermit(o) ~> Writes(t, o)

-----------------------------------------------------------------------------
Held == [t \in Tasks |-> IF phase[t] = "granted" THEN request[t] ELSE NoPermit]

Abstract == INSTANCE SessionLock WITH held <- Held

(* The counts, the queue and the wakeups implement the abstract lock.      *)
ImplementsSessionLock == Abstract!Spec

==============================================================================
