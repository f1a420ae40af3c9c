----------------------------- MODULE SessionLock -----------------------------
(***************************************************************************)
(* What the access lock of a shared world promises, with no mutex, queue   *)
(* or condition variable: a task holds at most one permit, and two permits *)
(* are held together only if they are of the same kind or belong to the    *)
(* same session.  Readers share; writers share too (the mutex of the world *)
(* orders them); a writer never meets the reader of another session.       *)
(***************************************************************************)

CONSTANTS Tasks,      \* threads that ask for permits
          Sessions,   \* sessions of the daemon attached to one world
          NoSession   \* owner of a write that belongs to no session

VARIABLE held         \* the permit each task holds

ReadPermit(s)  == [kind |-> "read", who |-> s]
WritePermit(o) == [kind |-> "write", who |-> o]
NoPermit       == [kind |-> "none", who |-> NoSession]

Permits == {ReadPermit(s) : s \in Sessions}
             \cup {WritePermit(o) : o \in Sessions \cup {NoSession}}

Compatible(p, q) == p.kind = q.kind \/ p.who = q.who

Init == held = [t \in Tasks |-> NoPermit]

Acquire(t, p) ==
    /\ held[t] = NoPermit
    /\ \A u \in Tasks : held[u] # NoPermit => Compatible(p, held[u])
    /\ held' = [held EXCEPT ![t] = p]

Release(t) ==
    /\ held[t] # NoPermit
    /\ held' = [held EXCEPT ![t] = NoPermit]

Next == \E t \in Tasks : Release(t) \/ \E p \in Permits : Acquire(t, p)

Spec == Init /\ [][Next]_held

==============================================================================
