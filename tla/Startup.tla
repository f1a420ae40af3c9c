------------------------------- MODULE Startup -------------------------------
(***************************************************************************)
(* How a client gets a daemon: ensure_daemon and connect_lsp_session, the  *)
(* daemon's start (run_foreground), the startup lock, the socket or pipe   *)
(* the daemon is reached by, and stop requests.  Every process is a        *)
(* sequence of system calls; an action is one of them, with what the       *)
(* process decides on its result.  Processes die at any point.             *)
(***************************************************************************)
EXTENDS Integers, FiniteSets

CONSTANTS Clients,  \* processes that want an LSP session
          Daemons,  \* daemon processes that may be started
          None

ASSUME ProcsAssumption == /\ Clients \cap Daemons = {}
                          /\ None \notin Clients \cup Daemons

Procs == Clients \cup Daemons

VARIABLES platform,  \* which of the two implementations of analyzed-ipc it is
          phase,     \* where each process is
          lock,      \* the owner of the startup lock
          path,      \* the daemon whose listener has the socket path or pipe name
          conn,      \* the daemon each process has an open request with
          pending,   \* windows: who has taken the instance a daemon listens on
          child,     \* the daemon a client has spawned
          excuses    \* history: what has happened that two daemons may come of

vars == <<platform, phase, lock, path, conn, pending, child, excuses>>

(* A client asks in ensure_daemon before, under and after the lock, and    *)
(* once more for the session.  A daemon that is run by hand takes the lock *)
(* and asks too; one that is spawned starts in "binding".                  *)
ClientPhases == {"idle", "first", "lock", "second", "spawn", "poll", "reap", "lsp",
                 "session", "failed", "killed"}
DaemonPhases == {"unborn", "lock", "second", "binding", "unlinked", "bound",
                 "exited", "failed"}

Dead(d)    == phase[d] \in {"exited", "failed"}
Reachable  == path # None /\ phase[path] = "bound"
Asking(p)  == phase[p] \in {"first", "second", "poll", "lsp"} /\ conn[p] = None
Starting(d) == phase[d] \in {"binding", "unlinked"}

(* The spawner goes while its child has yet to bind: nobody holds the lock *)
(* for the child any longer.                                               *)
Lapse(c) == IF child[c] # None /\ Starting(child[c]) THEN {"lapse"} ELSE {}

-----------------------------------------------------------------------------
(* Mutants. *)

\* ensure_daemon does not ask again when it has the lock.
AcquireLockOnly(p) ==
    /\ phase[p] = "lock"
    /\ lock = None
    /\ lock' = p
    /\ phase' = [phase EXCEPT ![p] = IF p \in Clients THEN "spawn" ELSE "binding"]
    /\ UNCHANGED <<platform, path, conn, pending, child, excuses>>

\* The lock is given up as soon as the child is started.
SpawnAndRelease(c) ==
    /\ phase[c] = "spawn"
    /\ \E d \in Daemons :
        /\ phase[d] = "unborn"
        /\ phase' = [phase EXCEPT ![c] = "poll", ![d] = "binding"]
        /\ child' = [child EXCEPT ![c] = d]
    /\ lock' = None
    /\ UNCHANGED <<platform, path, conn, pending, excuses>>

\* The child is remembered by its parent's id.
SpawnForgets(c) ==
    /\ phase[c] = "spawn"
    /\ \E d \in Daemons :
        /\ phase[d] = "unborn"
        /\ phase' = [phase EXCEPT ![c] = "poll", ![d] = "binding"]
    /\ child' = [child EXCEPT ![c] = c]
    /\ UNCHANGED <<platform, lock, path, conn, pending, excuses>>

\* The loop that waits for the child has no limit.
NoTimeout(c) == FALSE /\ UNCHANGED vars

-----------------------------------------------------------------------------
Release(p) == lock' = IF lock = p THEN None ELSE lock

Init ==
    /\ platform \in {"unix", "windows"}
    /\ phase = [p \in Procs |-> IF p \in Clients THEN "idle" ELSE "unborn"]
    /\ lock = None
    /\ path = None
    /\ conn = [p \in Procs |-> None]
    /\ pending = [d \in Daemons |-> None]
    /\ child = [c \in Clients |-> None]
    /\ excuses = {}

(* Entry of connect_lsp_session, and of `analyzed daemon --foreground`.    *)
Call(c) ==
    /\ phase[c] = "idle"
    /\ phase' = [phase EXCEPT ![c] = "first"]
    /\ UNCHANGED <<platform, lock, path, conn, pending, child, excuses>>

RunByHand(d) ==
    /\ phase[d] = "unborn"
    /\ phase' = [phase EXCEPT ![d] = "lock"]
    /\ UNCHANGED <<platform, lock, path, conn, pending, child, excuses>>

(* StartupLock::acquire: flock on the runtime directory, or a named mutex; *)
(* both are free again when their owner dies.                              *)
AcquireLock(p) ==
    /\ phase[p] = "lock"
    /\ lock = None
    /\ lock' = p
    /\ phase' = [phase EXCEPT ![p] = "second"]
    /\ UNCHANGED <<platform, path, conn, pending, child, excuses>>

-----------------------------------------------------------------------------
(* A request: connect, write a line, read a line.                          *)

(* What the process does with an answer, and without one.                  *)
Answered(p) ==
    /\ phase' = [phase EXCEPT ![p] =
                    CASE p \in Daemons -> "failed"
                      [] p \in Clients /\ @ = "lsp" -> "session"
                      [] OTHER -> "lsp"]
    /\ Release(p)

Refused(p) ==
    /\ phase' = [phase EXCEPT ![p] =
                    CASE p \in Daemons -> "binding"
                      [] @ = "first" -> "lock"
                      [] p \in Clients /\ @ = "second" -> "spawn"
                      [] @ = "poll" -> "reap"
                      [] OTHER -> "failed"]
    /\ UNCHANGED lock

(* On unix the listener's backlog takes the connection.  A pipe has one    *)
(* instance to connect to, until the daemon has put up the next.           *)
Connect(p) ==
    /\ Asking(p)
    /\ Reachable
    /\ pending[path] = None
    /\ conn' = [conn EXCEPT ![p] = path]
    /\ pending' = IF platform = "windows" THEN [pending EXCEPT ![path] = p] ELSE pending
    /\ UNCHANGED <<platform, phase, lock, path, child, excuses>>

(* No socket or pipe of that name, or a socket nobody listens on.          *)
ConnectFails(p) ==
    /\ Asking(p)
    /\ ~Reachable
    /\ Refused(p)
    /\ UNCHANGED <<platform, path, conn, pending, child, excuses>>

(* connect_pipe gives up on a busy pipe after a second.                    *)
BusyForTooLong(p) ==
    /\ Asking(p)
    /\ Reachable
    /\ pending[path] # None
    /\ Refused(p)
    /\ excuses' = excuses \cup {"refusal"}
    /\ UNCHANGED <<platform, path, conn, pending, child>>

(* IpcListener::accept: a fresh instance takes the place of the one that   *)
(* is connected, or that was and whose client has gone.                    *)
Accept(d) ==
    /\ phase[d] = "bound"
    /\ pending[d] # None
    /\ pending' = [pending EXCEPT ![d] = None]
    /\ UNCHANGED <<platform, phase, lock, path, conn, child, excuses>>

Accepted(p) == conn[p] # None /\ phase[conn[p]] = "bound" /\ pending[conn[p]] # p

(* handle_client answers, and keeps the stream of a session.               *)
Answer(p) ==
    /\ phase[p] # "session"
    /\ Accepted(p)
    /\ Answered(p)
    /\ conn' = IF phase[p] = "lsp" THEN conn ELSE [conn EXCEPT ![p] = None]
    /\ UNCHANGED <<platform, path, pending, child, excuses>>

(* Another protocol version is refused with an error; a handler that       *)
(* panics on a poisoned registry drops the stream.                         *)
Refuse(p) ==
    /\ phase[p] # "session"
    /\ Accepted(p)
    /\ Refused(p)
    /\ conn' = [conn EXCEPT ![p] = None]
    /\ excuses' = excuses \cup {"refusal"}
    /\ UNCHANGED <<platform, path, pending, child>>

(* The daemon has died before it answered.                                 *)
EndOfStream(p) ==
    /\ phase[p] # "session"
    /\ conn[p] # None
    /\ Dead(conn[p])
    /\ Refused(p)
    /\ conn' = [conn EXCEPT ![p] = None]
    /\ UNCHANGED <<platform, path, pending, child, excuses>>

-----------------------------------------------------------------------------
(* The rest of ensure_daemon, with the lock held.                          *)

Spawn(c) ==
    /\ phase[c] = "spawn"
    /\ \E d \in Daemons :
        /\ phase[d] = "unborn"
        /\ phase' = [phase EXCEPT ![c] = "poll", ![d] = "binding"]
        /\ child' = [child EXCEPT ![c] = d]
    /\ UNCHANGED <<platform, lock, path, conn, pending, excuses>>

SpawnFails(c) ==
    /\ phase[c] = "spawn"
    /\ phase' = [phase EXCEPT ![c] = "failed"]
    /\ Release(c)
    /\ UNCHANGED <<platform, path, conn, pending, child, excuses>>

(* try_wait: a child that has exited with success is not an error yet.     *)
Reap(c) ==
    /\ phase[c] = "reap"
    /\ IF phase[child[c]] = "failed"
       THEN phase' = [phase EXCEPT ![c] = "failed"] /\ Release(c)
       ELSE phase' = [phase EXCEPT ![c] = "poll"] /\ UNCHANGED lock
    /\ UNCHANGED <<platform, path, conn, pending, child, excuses>>

(* The error of try_wait leaves ensure_daemon, whatever the child does.    *)
ReapFails(c) ==
    /\ phase[c] = "reap"
    /\ phase' = [phase EXCEPT ![c] = "failed"]
    /\ Release(c)
    /\ excuses' = excuses \cup Lapse(c)
    /\ UNCHANGED <<platform, path, conn, pending, child>>

(* Five seconds are over; the child goes on by itself.                     *)
StartupTimeout(c) ==
    /\ phase[c] = "poll"
    /\ conn[c] = None
    /\ phase' = [phase EXCEPT ![c] = "failed"]
    /\ Release(c)
    /\ excuses' = excuses \cup Lapse(c)
    /\ UNCHANGED <<platform, path, conn, pending, child>>

-----------------------------------------------------------------------------
(* bind_listener. *)

(* remove_stale_socket does not ask whether anybody listens.               *)
RemoveStale(d) ==
    /\ platform = "unix"
    /\ phase[d] = "binding"
    /\ path' = None
    /\ phase' = [phase EXCEPT ![d] = "unlinked"]
    /\ UNCHANGED <<platform, lock, conn, pending, child, excuses>>

Binding(d) == phase[d] = IF platform = "unix" THEN "unlinked" ELSE "binding"

Bind(d) ==
    /\ Binding(d)
    /\ path = None
    /\ path' = d
    /\ phase' = [phase EXCEPT ![d] = "bound"]
    /\ Release(d)
    /\ UNCHANGED <<platform, conn, pending, child, excuses>>

(* The address is in use, or FILE_FLAG_FIRST_PIPE_INSTANCE is not met.     *)
BindFails(d) ==
    /\ Binding(d)
    /\ path # None
    /\ phase' = [phase EXCEPT ![d] = "failed"]
    /\ Release(d)
    /\ UNCHANGED <<platform, path, conn, pending, child, excuses>>

-----------------------------------------------------------------------------
(* The end of a process.                                                   *)

(* A pipe goes with its daemon, a socket file stays.                       *)
LeavePath(d) == path' = IF platform = "windows" /\ path = d THEN None ELSE path

(* What a dead process has connected is still to be accepted.              *)
Hangup(p) == conn' = [conn EXCEPT ![p] = None]

(* A stop request: the handler answers and exits the process.              *)
Stop(d) ==
    /\ phase[d] = "bound"
    /\ path = d
    /\ phase' = [phase EXCEPT ![d] = "exited"]
    /\ LeavePath(d)
    /\ UNCHANGED <<platform, lock, conn, pending, child, excuses>>

(* Killed, or an error of bind or of accept.                               *)
DaemonFails(d) ==
    /\ phase[d] \notin {"unborn", "exited", "failed"}
    /\ phase' = [phase EXCEPT ![d] = "failed"]
    /\ LeavePath(d)
    /\ Release(d)
    /\ Hangup(d)
    /\ UNCHANGED <<platform, pending, child, excuses>>

ClientDies(c) ==
    /\ phase[c] \notin {"idle", "session", "failed", "killed"}
    /\ phase' = [phase EXCEPT ![c] = "killed"]
    /\ Release(c)
    /\ Hangup(c)
    /\ excuses' = excuses \cup (IF phase[c] \in {"poll", "reap"} THEN Lapse(c) ELSE {})
    /\ UNCHANGED <<platform, path, pending, child>>

-----------------------------------------------------------------------------
Ask(p)     == Connect(p) \/ ConnectFails(p) \/ BusyForTooLong(p)
Receive(p) == Answer(p) \/ Refuse(p) \/ EndOfStream(p)

Next ==
    \/ \E p \in Procs : AcquireLock(p) \/ Ask(p) \/ Receive(p)
    \/ \E c \in Clients :
          \/ Call(c) \/ Spawn(c) \/ SpawnFails(c) \/ Reap(c) \/ ReapFails(c)
          \/ StartupTimeout(c) \/ ClientDies(c)
    \/ \E d \in Daemons :
          \/ RunByHand(d) \/ RemoveStale(d) \/ Bind(d) \/ BindFails(d)
          \/ Accept(d) \/ Stop(d) \/ DaemonFails(d)

(* Processes run, a daemon accepts and answers, and the loop that polls    *)
(* comes back to its clock, where the five seconds are over some time.     *)
Fairness ==
    /\ \A p \in Procs :
        WF_vars(AcquireLock(p)) /\ WF_vars(Ask(p)) /\ WF_vars(Receive(p))
    /\ \A c \in Clients :
        /\ WF_vars(Spawn(c) \/ SpawnFails(c))
        /\ WF_vars(Reap(c))
        /\ SF_vars(StartupTimeout(c))
    /\ \A d \in Daemons :
        /\ WF_vars(RemoveStale(d))
        /\ WF_vars(Bind(d) \/ BindFails(d))
        /\ WF_vars(Accept(d))

Spec == Init /\ [][Next]_vars /\ Fairness

-----------------------------------------------------------------------------
(* The variables have their types.                                         *)
TypeOK ==
    /\ platform \in {"unix", "windows"}
    /\ phase \in [Procs -> ClientPhases \cup DaemonPhases]
    /\ lock \in Procs \cup {None}
    /\ path \in Daemons \cup {None}
    /\ conn \in [Procs -> Daemons \cup {None}]
    /\ pending \in [Daemons -> Procs \cup {None}]
    /\ child \in [Clients -> Daemons \cup {None}]
    /\ excuses \in SUBSET {"lapse", "refusal"}

(* A daemon that listens is the one the path leads to, so that there is    *)
(* one: bind_listener removes the socket of nobody who lives.  The lock    *)
(* and the second connect_hello see to that; on unix unless a spawner has  *)
(* gone before its child was bound, or a live daemon has refused a hello.  *)
NoOrphan ==
    \A d \in Daemons :
        phase[d] = "bound" =>
            path = d \/ (platform = "unix" /\ excuses # {})

(* ensure_daemon gives up on its child's exit only when there is no other  *)
(* daemon to talk to: nobody else can have come up while it had the lock.  *)
BailMeansNone ==
    [][\A c \in Clients :
        Reap(c) /\ phase'[c] = "failed" => ~Reachable \/ excuses # {}]_vars

(* Every connect_lsp_session comes to an end, the ones that wait for the   *)
(* startup lock included, whoever dies and whatever the daemons do.        *)
EnsureReturns ==
    \A c \in Clients :
        phase[c] = "first" ~> phase[c] \in {"session", "failed", "killed"}
=============================================================================
