---------------------------- MODULE Startup_proofs ----------------------------
(***************************************************************************)
(* That the startup lock does its work, for any number of clients and of   *)
(* daemons, on both platforms.  Until something has happened that two      *)
(* daemons may come of, only one process at a time is between "nobody      *)
(* answers" and "my daemon listens", and it has the lock: itself, or       *)
(* through the client that has spawned it.                                 *)
(***************************************************************************)
EXTENDS Startup, TLAPS

NobodyBound == \A d \in Daemons : phase[d] # "bound"

(* Each kind of process keeps to its own phases.                           *)
OwnPhases ==
    /\ \A c \in Clients : phase[c] \in ClientPhases
    /\ \A d \in Daemons : phase[d] \in DaemonPhases

(* Who asks under the lock, or waits for a child, has the lock.            *)
LockHeld ==
    \A p \in Procs : phase[p] \in {"second", "spawn", "poll", "reap"} => lock = p

(* Only who is asking, or has a session, has a connection.                 *)
ConnAsked ==
    \A p \in Procs :
        phase[p] \notin {"first", "second", "poll", "lsp", "session"} => conn[p] = None

(* The name of a pipe leads to whoever listens.                            *)
PipeIsOwned ==
    platform = "windows" => \A d \in Daemons : phase[d] = "bound" => path = d

(* A daemon on its way to bind has the lock, or its spawner has.           *)
StartCovered ==
    \A d \in Daemons : Starting(d) =>
        \/ lock = d
        \/ \E c \in Clients : phase[c] \in {"poll", "reap"} /\ child[c] = d

BoundAtPath == \A d \in Daemons : phase[d] = "bound" => path = d

(* Nobody listens when somebody is about to start a daemon, or is one.     *)
StartAlone ==
    /\ \A c \in Clients : phase[c] = "spawn" => NobodyBound
    /\ \A d \in Daemons : Starting(d) => NobodyBound

(* Under the lock nobody listens but the daemon that is being asked ...    *)
AskedAlone ==
    \A p \in Procs : phase[p] = "second" /\ conn[p] # None =>
        \A d \in Daemons : phase[d] = "bound" => d = conn[p]

(* ... and nobody but the child that is being waited for.                  *)
ChildAlone ==
    \A c \in Clients : phase[c] \in {"poll", "reap"} =>
        /\ child[c] \in Daemons
        /\ \A d \in Daemons : phase[d] = "bound" => d = child[c]

(* What holds at all times ...                                             *)
Always == TypeOK /\ OwnPhases /\ LockHeld /\ ConnAsked /\ PipeIsOwned

(* ... and what holds until there is an excuse for two daemons.            *)
Calm == StartCovered /\ BoundAtPath /\ StartAlone /\ AskedAlone /\ ChildAlone

IInv == Always /\ (excuses = {} => Calm)

-----------------------------------------------------------------------------
(* Nobody has come yet: no process, no lock, no path, no excuse.           *)
LEMMA InitInv == Init => IInv
  BY ProcsAssumption
  DEF Init, IInv, Always, TypeOK, OwnPhases, LockHeld, ConnAsked, PipeIsOwned, Procs,
      ClientPhases, DaemonPhases, Calm, Starting, StartCovered, BoundAtPath, StartAlone,
      AskedAlone, ChildAlone

(* There is one lock, and its owner waits for one child.                   *)
LEMMA OneStarts ==
    ASSUME Always, Calm, NEW d \in Daemons, NEW e \in Daemons, Starting(d), Starting(e)
    PROVE  d = e
  BY ProcsAssumption DEF Always, Calm, StartCovered, LockHeld, Procs

-----------------------------------------------------------------------------
(* The processes that ask.                                                 *)

(* The lock is free, so that nobody is starting or about to: what holds of *)
(* the new owner is that it has no connection yet.                         *)
LEMMA AcquireLockStep ==
    ASSUME IInv, NEW p \in Procs, AcquireLock(p)
    PROVE  IInv'
  <1>1. Always'
    BY ProcsAssumption
    DEF IInv, Always, TypeOK, OwnPhases, LockHeld, ConnAsked, PipeIsOwned, Procs,
        ClientPhases, DaemonPhases, AcquireLock
  <1>2. ASSUME excuses' = {} PROVE Calm'
    <2>1. Calm
      BY <1>2 DEF IInv, AcquireLock
    <2>2. StartCovered'
      BY <2>1, ProcsAssumption DEF Calm, Starting, StartCovered, AcquireLock
    <2>3. BoundAtPath'
      BY <2>1 DEF Calm, BoundAtPath, AcquireLock
    <2>4. StartAlone'
      BY <2>1 DEF Calm, NobodyBound, Starting, StartAlone, AcquireLock
    <2>5. AskedAlone'
      BY ProcsAssumption
      DEF IInv, Always, LockHeld, ConnAsked, Procs, AskedAlone, AcquireLock
    <2>6. ChildAlone'
      BY ProcsAssumption DEF IInv, Always, LockHeld, Procs, ChildAlone, AcquireLock
    <2> QED
      BY <2>2, <2>3, <2>4, <2>5, <2>6 DEF Calm
  <1> QED
    BY <1>1, <1>2 DEF IInv

(* Whom one reaches is the daemon at the path, the only one there is.      *)
LEMMA ConnectStep ==
    ASSUME IInv, NEW p \in Procs, Connect(p)
    PROVE  IInv'
  <1>1. Always'
    BY DEF IInv, Always, TypeOK, OwnPhases, LockHeld, ConnAsked, PipeIsOwned, Connect,
           Asking, Reachable
  <1>2. ASSUME excuses' = {} PROVE Calm'
    <2>1. Calm
      BY <1>2 DEF IInv, Connect
    <2>2. StartCovered'
      BY <2>1 DEF Calm, Starting, StartCovered, Connect
    <2>3. BoundAtPath'
      BY <2>1 DEF Calm, BoundAtPath, Connect
    <2>4. StartAlone'
      BY <2>1 DEF Calm, NobodyBound, Starting, StartAlone, Connect
    <2>5. AskedAlone'
      BY <2>1 DEF Calm, BoundAtPath, AskedAlone, Connect
    <2>6. ChildAlone'
      BY <2>1 DEF Calm, ChildAlone, Connect
    <2> QED
      BY <2>2, <2>3, <2>4, <2>5, <2>6 DEF Calm
  <1> QED
    BY <1>1, <1>2 DEF IInv

(* Nobody is reached, so nobody listens: a client may spawn and a daemon   *)
(* may go on to bind.                                                      *)
LEMMA ConnectFailsStep ==
    ASSUME IInv, NEW p \in Procs, ConnectFails(p)
    PROVE  IInv'
  <1>1. Always'
    BY ProcsAssumption
    DEF IInv, Always, TypeOK, OwnPhases, LockHeld, ConnAsked, PipeIsOwned, ClientPhases,
        DaemonPhases, ConnectFails, Asking, Refused
  <1>2. ASSUME excuses' = {} PROVE Calm'
    <2>1. Calm
      BY <1>2 DEF IInv, ConnectFails
    <2>2. StartCovered'
      BY <1>2
      DEF IInv, Always, OwnPhases, LockHeld, DaemonPhases, Calm, Starting, StartCovered,
          ConnectFails, Asking, Refused
    <2>3. BoundAtPath'
      BY <2>1 DEF Calm, BoundAtPath, ConnectFails, Refused
    <2>4. StartAlone'
      BY <2>1, ProcsAssumption
      DEF Calm, NobodyBound, BoundAtPath, StartAlone, ConnectFails, Reachable, Refused
    <2>5. AskedAlone'
      BY <2>1 DEF Calm, AskedAlone, ConnectFails, Refused
    <2>6. ChildAlone'
      BY <2>1 DEF Calm, ChildAlone, ConnectFails, Refused
    <2> QED
      BY <2>2, <2>3, <2>4, <2>5, <2>6 DEF Calm
  <1> QED
    BY <1>1, <1>2 DEF IInv

(* A busy pipe is taken for no daemon: an excuse.                          *)
LEMMA BusyForTooLongStep ==
    ASSUME IInv, NEW p \in Procs, BusyForTooLong(p)
    PROVE  IInv'
  <1>1. Always'
    BY ProcsAssumption
    DEF IInv, Always, TypeOK, OwnPhases, LockHeld, ConnAsked, PipeIsOwned, ClientPhases,
        DaemonPhases, BusyForTooLong, Asking, Refused
  <1>2. excuses' # {}
    BY DEF BusyForTooLong
  <1> QED
    BY <1>1, <1>2 DEF IInv

(* An answer comes from a daemon that listens, and then nobody is starting: *)
(* whoever gives the lock up leaves no child on its way.                   *)
LEMMA AnswerStep ==
    ASSUME IInv, NEW p \in Procs, Answer(p)
    PROVE  IInv'
  <1>1. Always'
    BY DEF IInv, Always, TypeOK, OwnPhases, LockHeld, ConnAsked, PipeIsOwned,
           ClientPhases, DaemonPhases, Answer, Answered, Release
  <1>2. ASSUME excuses' = {} PROVE Calm'
    <2>1. Calm
      BY <1>2 DEF IInv, Answer
    <2>2. StartCovered'
      BY <1>2
      DEF IInv, Always, TypeOK, Calm, NobodyBound, Starting, StartCovered, StartAlone,
          Answer, Accepted, Answered
    <2>3. BoundAtPath'
      BY <2>1 DEF Calm, BoundAtPath, Answer, Answered
    <2>4. StartAlone'
      BY <2>1 DEF Calm, NobodyBound, Starting, StartAlone, Answer, Answered
    <2>5. AskedAlone'
      BY <2>1 DEF Calm, AskedAlone, Answer, Answered
    <2>6. ChildAlone'
      BY <2>1 DEF Calm, ChildAlone, Answer, Answered
    <2> QED
      BY <2>2, <2>3, <2>4, <2>5, <2>6 DEF Calm
  <1> QED
    BY <1>1, <1>2 DEF IInv

(* A refusal is taken for no daemon: an excuse.                            *)
LEMMA RefuseStep ==
    ASSUME IInv, NEW p \in Procs, Refuse(p)
    PROVE  IInv'
  <1>1. Always'
    BY ProcsAssumption
    DEF IInv, Always, TypeOK, OwnPhases, LockHeld, ConnAsked, PipeIsOwned, ClientPhases,
        DaemonPhases, Refuse, Refused
  <1>2. excuses' # {}
    BY DEF Refuse
  <1> QED
    BY <1>1, <1>2 DEF IInv

(* The daemon that was asked was the only one, and it is dead.             *)
LEMMA EndOfStreamStep ==
    ASSUME IInv, NEW p \in Procs, EndOfStream(p)
    PROVE  IInv'
  <1>1. Always'
    BY ProcsAssumption
    DEF IInv, Always, TypeOK, OwnPhases, LockHeld, ConnAsked, PipeIsOwned, ClientPhases,
        DaemonPhases, EndOfStream, Refused
  <1>2. ASSUME excuses' = {} PROVE Calm'
    <2>1. Calm
      BY <1>2 DEF IInv, EndOfStream
    <2>2. StartCovered'
      BY <1>2
      DEF IInv, Always, OwnPhases, LockHeld, ConnAsked, DaemonPhases, Calm, Starting,
          StartCovered, EndOfStream, Refused
    <2>3. BoundAtPath'
      BY <2>1 DEF Calm, BoundAtPath, EndOfStream, Refused
    <2>4. StartAlone'
      BY <1>2
      DEF IInv, Always, OwnPhases, ConnAsked, DaemonPhases, Calm, NobodyBound, Starting,
          StartAlone, AskedAlone, EndOfStream, Dead, Refused
    <2>5. AskedAlone'
      BY <2>1 DEF Calm, AskedAlone, EndOfStream, Refused
    <2>6. ChildAlone'
      BY <2>1 DEF Calm, ChildAlone, EndOfStream, Refused
    <2> QED
      BY <2>2, <2>3, <2>4, <2>5, <2>6 DEF Calm
  <1> QED
    BY <1>1, <1>2 DEF IInv

-----------------------------------------------------------------------------
(* The clients.                                                            *)

(* Nothing but a phase that no part of the invariant is about.             *)
LEMMA CallStep ==
    ASSUME IInv, NEW c \in Clients, Call(c)
    PROVE  IInv'
  <1>1. Always'
    BY ProcsAssumption
    DEF IInv, Always, TypeOK, OwnPhases, LockHeld, ConnAsked, PipeIsOwned, Procs,
        ClientPhases, Call
  <1>2. ASSUME excuses' = {} PROVE Calm'
    BY <1>2
    DEF IInv, Calm, NobodyBound, Starting, StartCovered, BoundAtPath, StartAlone,
        AskedAlone, ChildAlone, Call
  <1> QED
    BY <1>1, <1>2 DEF IInv

(* The child starts under its spawner's lock, with nobody listening.       *)
LEMMA SpawnStep ==
    ASSUME IInv, NEW c \in Clients, Spawn(c)
    PROVE  IInv'
  <1>1. Always'
    BY DEF IInv, Always, TypeOK, OwnPhases, LockHeld, ConnAsked, PipeIsOwned, Procs,
           ClientPhases, DaemonPhases, Spawn
  <1>2. ASSUME excuses' = {} PROVE Calm'
    <2>1. Calm
      BY <1>2 DEF IInv, Spawn
    <2>2. StartCovered'
      BY <1>2 DEF IInv, Always, TypeOK, Procs, Calm, Starting, StartCovered, Spawn
    <2>3. BoundAtPath'
      BY <1>2 DEF IInv, Always, TypeOK, Procs, Calm, BoundAtPath, Spawn
    <2>4. StartAlone'
      BY <1>2 DEF IInv, Always, TypeOK, Procs, Calm, NobodyBound, StartAlone, Spawn
    <2>5. AskedAlone'
      BY DEF IInv, Always, TypeOK, LockHeld, Procs, AskedAlone, Spawn
    <2>6. ChildAlone'
      BY <1>2
      DEF IInv, Always, TypeOK, Procs, Calm, NobodyBound, StartAlone, ChildAlone, Spawn
    <2> QED
      BY <2>2, <2>3, <2>4, <2>5, <2>6 DEF Calm
  <1> QED
    BY <1>1, <1>2 DEF IInv

(* The lock goes, and there is no child.                                   *)
LEMMA SpawnFailsStep ==
    ASSUME IInv, NEW c \in Clients, SpawnFails(c)
    PROVE  IInv'
  <1>1. Always'
    BY ProcsAssumption
    DEF IInv, Always, TypeOK, OwnPhases, LockHeld, ConnAsked, PipeIsOwned, Procs,
        ClientPhases, SpawnFails, Release
  <1>2. ASSUME excuses' = {} PROVE Calm'
    BY <1>2
    DEF IInv, Always, TypeOK, LockHeld, Procs, Calm, Starting, StartCovered,
        BoundAtPath, StartAlone, AskedAlone, ChildAlone, SpawnFails
  <1> QED
    BY <1>1, <1>2 DEF IInv

(* The lock goes only when the child is dead.                              *)
LEMMA ReapStep ==
    ASSUME IInv, NEW c \in Clients, Reap(c)
    PROVE  IInv'
  <1>1. Always'
    BY ProcsAssumption
    DEF IInv, Always, TypeOK, OwnPhases, LockHeld, ConnAsked, PipeIsOwned, Procs,
        ClientPhases, Reap, Release
  <1>2. ASSUME excuses' = {} PROVE Calm'
    BY <1>2
    DEF IInv, Always, TypeOK, LockHeld, Procs, Calm, NobodyBound, Starting,
        StartCovered, BoundAtPath, StartAlone, AskedAlone, ChildAlone, Reap
  <1> QED
    BY <1>1, <1>2 DEF IInv

(* A child that is still on its way when the lock goes is an excuse.       *)
LEMMA StartupTimeoutStep ==
    ASSUME IInv, NEW c \in Clients, StartupTimeout(c)
    PROVE  IInv'
  <1>1. Always'
    BY ProcsAssumption
    DEF IInv, Always, TypeOK, OwnPhases, LockHeld, ConnAsked, PipeIsOwned, Procs,
        ClientPhases, StartupTimeout, Release, Lapse
  <1>2. ASSUME excuses' = {} PROVE Calm'
    <2>1. Calm
      BY <1>2 DEF IInv, StartupTimeout
    <2>2. StartCovered'
      BY <1>2, ProcsAssumption
      DEF IInv, Always, LockHeld, Procs, Calm, Starting, StartCovered, StartupTimeout,
          Lapse
    <2>3. BoundAtPath'
      BY <2>1 DEF Calm, BoundAtPath, StartupTimeout
    <2>4. StartAlone'
      BY <2>1 DEF Calm, NobodyBound, Starting, StartAlone, StartupTimeout
    <2>5. AskedAlone'
      BY DEF IInv, Always, LockHeld, Procs, AskedAlone, StartupTimeout
    <2>6. ChildAlone'
      BY DEF IInv, Always, TypeOK, LockHeld, Procs, ChildAlone, StartupTimeout
    <2> QED
      BY <2>2, <2>3, <2>4, <2>5, <2>6 DEF Calm
  <1> QED
    BY <1>1, <1>2 DEF IInv

(* The same of one whose wait fails.                                       *)
LEMMA ReapFailsStep ==
    ASSUME IInv, NEW c \in Clients, ReapFails(c)
    PROVE  IInv'
  <1>1. Always'
    BY ProcsAssumption
    DEF IInv, Always, TypeOK, OwnPhases, LockHeld, ConnAsked, PipeIsOwned, Procs,
        ClientPhases, ReapFails, Release, Lapse
  <1>2. ASSUME excuses' = {} PROVE Calm'
    <2>1. Calm
      BY <1>2 DEF IInv, ReapFails
    <2>2. StartCovered'
      BY <1>2, ProcsAssumption
      DEF IInv, Always, LockHeld, Procs, Calm, Starting, StartCovered, ReapFails,
          Lapse
    <2>3. BoundAtPath'
      BY <2>1 DEF Calm, BoundAtPath, ReapFails
    <2>4. StartAlone'
      BY <2>1 DEF Calm, NobodyBound, Starting, StartAlone, ReapFails
    <2>5. AskedAlone'
      BY DEF IInv, Always, LockHeld, Procs, AskedAlone, ReapFails
    <2>6. ChildAlone'
      BY DEF IInv, Always, TypeOK, LockHeld, Procs, ChildAlone, ReapFails
    <2> QED
      BY <2>2, <2>3, <2>4, <2>5, <2>6 DEF Calm
  <1> QED
    BY <1>1, <1>2 DEF IInv

(* The same of a spawner that dies.                                        *)
LEMMA ClientDiesStep ==
    ASSUME IInv, NEW c \in Clients, ClientDies(c)
    PROVE  IInv'
  <1>1. Always'
    BY ProcsAssumption
    DEF IInv, Always, TypeOK, OwnPhases, LockHeld, ConnAsked, PipeIsOwned, Procs,
        ClientPhases, ClientDies, Release, Hangup, Lapse
  <1>2. ASSUME excuses' = {} PROVE Calm'
    <2>1. Calm
      BY <1>2 DEF IInv, ClientDies
    <2>2. StartCovered'
      BY <1>2, <2>1, ProcsAssumption
      DEF Calm, Starting, StartCovered, ClientDies, Release, Lapse
    <2>3. BoundAtPath'
      BY <2>1 DEF Calm, BoundAtPath, ClientDies
    <2>4. StartAlone'
      BY <2>1 DEF Calm, NobodyBound, Starting, StartAlone, ClientDies
    <2>5. AskedAlone'
      BY <2>1 DEF Calm, AskedAlone, ClientDies, Hangup
    <2>6. ChildAlone'
      BY <2>1 DEF Calm, ChildAlone, ClientDies
    <2> QED
      BY <2>2, <2>3, <2>4, <2>5, <2>6 DEF Calm
  <1> QED
    BY <1>1, <1>2 DEF IInv

-----------------------------------------------------------------------------
(* The daemons.                                                            *)

(* A daemon by hand queues for the lock like a client.                     *)
LEMMA RunByHandStep ==
    ASSUME IInv, NEW d \in Daemons, RunByHand(d)
    PROVE  IInv'
  <1>1. Always'
    BY ProcsAssumption
    DEF IInv, Always, TypeOK, OwnPhases, LockHeld, ConnAsked, PipeIsOwned, Procs,
        DaemonPhases, RunByHand
  <1>2. ASSUME excuses' = {} PROVE Calm'
    BY <1>2
    DEF IInv, Calm, NobodyBound, Starting, StartCovered, BoundAtPath, StartAlone,
        AskedAlone, ChildAlone, RunByHand
  <1> QED
    BY <1>1, <1>2 DEF IInv

(* What is unlinked is nobody's: a daemon that starts is alone.            *)
LEMMA RemoveStaleStep ==
    ASSUME IInv, NEW d \in Daemons, RemoveStale(d)
    PROVE  IInv'
  <1>1. Always'
    BY ProcsAssumption
    DEF IInv, Always, TypeOK, OwnPhases, LockHeld, ConnAsked, PipeIsOwned, Procs,
        DaemonPhases, RemoveStale
  <1>2. ASSUME excuses' = {} PROVE Calm'
    BY <1>2
    DEF IInv, Calm, NobodyBound, Starting, StartCovered, BoundAtPath, StartAlone,
        AskedAlone, ChildAlone, RemoveStale
  <1> QED
    BY <1>1, <1>2 DEF IInv

(* Nobody else listens, and by OneStarts nobody else is starting.          *)
LEMMA BindStep ==
    ASSUME IInv, NEW d \in Daemons, Bind(d)
    PROVE  IInv'
  <1>1. Always'
    BY ProcsAssumption
    DEF IInv, Always, TypeOK, OwnPhases, LockHeld, ConnAsked, PipeIsOwned, Procs,
        DaemonPhases, Bind, Binding, Release
  <1>2. ASSUME excuses' = {} PROVE Calm'
    <2>1. Calm
      BY <1>2 DEF IInv, Bind
    <2>2. StartCovered'
      BY <1>2, OneStarts
      DEF IInv, Always, TypeOK, Procs, Starting, StartCovered, Bind, Binding
    <2>3. BoundAtPath'
      BY <2>1, ProcsAssumption DEF Calm, BoundAtPath, Bind
    <2>4. StartAlone'
      BY <1>2
      DEF IInv, Always, TypeOK, LockHeld, Procs, Calm, Starting, StartCovered,
          StartAlone, Bind, Binding
    <2>5. AskedAlone'
      BY <1>2
      DEF IInv, Always, LockHeld, Procs, Calm, Starting, StartCovered, AskedAlone, Bind,
          Binding
    <2>6. ChildAlone'
      BY <1>2
      DEF IInv, Always, LockHeld, Procs, Calm, Starting, StartCovered, ChildAlone, Bind,
          Binding
    <2> QED
      BY <2>2, <2>3, <2>4, <2>5, <2>6 DEF Calm
  <1> QED
    BY <1>1, <1>2 DEF IInv

(* The daemon is dead, and with it its lock gone.                          *)
LEMMA BindFailsStep ==
    ASSUME IInv, NEW d \in Daemons, BindFails(d)
    PROVE  IInv'
  <1>1. Always'
    BY ProcsAssumption
    DEF IInv, Always, TypeOK, OwnPhases, LockHeld, ConnAsked, PipeIsOwned, Procs,
        DaemonPhases, BindFails, Binding, Release
  <1>2. ASSUME excuses' = {} PROVE Calm'
    BY <1>2
    DEF IInv, Always, TypeOK, LockHeld, Procs, Calm, Starting, StartCovered,
        BoundAtPath, StartAlone, AskedAlone, ChildAlone, BindFails, Binding
  <1> QED
    BY <1>1, <1>2 DEF IInv

(* Only the instances of pipes are concerned.                              *)
LEMMA AcceptStep ==
    ASSUME IInv, NEW d \in Daemons, Accept(d)
    PROVE  IInv'
  <1>1. Always'
    BY DEF IInv, Always, TypeOK, OwnPhases, LockHeld, ConnAsked, PipeIsOwned, Accept
  <1>2. ASSUME excuses' = {} PROVE Calm'
    BY <1>2
    DEF IInv, Calm, NobodyBound, Starting, StartCovered, BoundAtPath, StartAlone,
        AskedAlone, ChildAlone, Accept
  <1> QED
    BY <1>1, <1>2 DEF IInv

(* One listener less, whose socket stays and whose pipe goes.              *)
LEMMA StopStep ==
    ASSUME IInv, NEW d \in Daemons, Stop(d)
    PROVE  IInv'
  <1>1. Always'
    BY ProcsAssumption
    DEF IInv, Always, TypeOK, OwnPhases, LockHeld, ConnAsked, PipeIsOwned, Procs,
        DaemonPhases, Stop, LeavePath
  <1>2. ASSUME excuses' = {} PROVE Calm'
    BY <1>2
    DEF IInv, Always, TypeOK, Procs, Calm, NobodyBound, Starting, StartCovered,
        BoundAtPath, StartAlone, AskedAlone, ChildAlone, Stop
  <1> QED
    BY <1>1, <1>2 DEF IInv

(* The same at any point of a daemon's life.                               *)
LEMMA DaemonFailsStep ==
    ASSUME IInv, NEW d \in Daemons, DaemonFails(d)
    PROVE  IInv'
  <1>1. Always'
    BY ProcsAssumption
    DEF IInv, Always, TypeOK, OwnPhases, LockHeld, ConnAsked, PipeIsOwned, Procs,
        DaemonPhases, DaemonFails, LeavePath, Release, Hangup
  <1>2. ASSUME excuses' = {} PROVE Calm'
    BY <1>2, ProcsAssumption
    DEF IInv, Always, TypeOK, Procs, Calm, NobodyBound, Starting, StartCovered,
        BoundAtPath, StartAlone, AskedAlone, ChildAlone, DaemonFails, LeavePath,
        Release, Hangup
  <1> QED
    BY <1>1, <1>2 DEF IInv

-----------------------------------------------------------------------------
(* No part of the invariant is about more than the variables.              *)
LEMMA Stutter == ASSUME IInv, UNCHANGED vars PROVE IInv'
  BY DEF IInv, Always, TypeOK, OwnPhases, LockHeld, ConnAsked, PipeIsOwned, Calm,
         NobodyBound, Starting, StartCovered, BoundAtPath, StartAlone, AskedAlone,
         ChildAlone, vars

(* ensure_daemon, run_foreground and bind_listener keep the order of a     *)
(* start: what holds of the lock, of the path and of who listens, as long  *)
(* as there is no excuse, is kept by every step of every process, its      *)
(* death included.                                                         *)
THEOREM Invariance == Spec => []IInv
  <1>1. ASSUME IInv, [Next]_vars PROVE IInv'
    <2>1. ASSUME NEW p \in Procs, AcquireLock(p) \/ Ask(p) \/ Receive(p) PROVE IInv'
      BY <1>1, <2>1, AcquireLockStep, ConnectStep, ConnectFailsStep, BusyForTooLongStep,
         AnswerStep, RefuseStep, EndOfStreamStep
      DEF Ask, Receive
    <2>2. ASSUME NEW c \in Clients,
                 \/ Call(c) \/ Spawn(c) \/ SpawnFails(c) \/ Reap(c) \/ ReapFails(c)
                 \/ StartupTimeout(c) \/ ClientDies(c)
          PROVE  IInv'
      BY <1>1, <2>2, CallStep, SpawnStep, SpawnFailsStep, ReapStep, ReapFailsStep,
         StartupTimeoutStep, ClientDiesStep
    <2>3. ASSUME NEW d \in Daemons,
                 \/ RunByHand(d) \/ RemoveStale(d) \/ Bind(d) \/ BindFails(d)
                 \/ Accept(d) \/ Stop(d) \/ DaemonFails(d)
          PROVE  IInv'
      BY <1>1, <2>3, RunByHandStep, RemoveStaleStep, BindStep, BindFailsStep,
         AcceptStep, StopStep, DaemonFailsStep
    <2>4. CASE UNCHANGED vars
      BY <1>1, <2>4, Stutter
    <2> QED
      BY <1>1, <2>1, <2>2, <2>3, <2>4 DEF Next
  <1> QED
    BY <1>1, InitInv, PTL DEF Spec

-----------------------------------------------------------------------------
(* The variables keep their types.                                         *)
THEOREM TypeCorrect == Spec => []TypeOK
  <1>1. IInv => TypeOK
    BY DEF IInv, Always
  <1> QED
    BY <1>1, Invariance, PTL

(* bind_listener never removes the socket of a daemon that lives, however  *)
(* many start, unless a spawner has gone before its child was bound or a   *)
(* live daemon has refused a hello; a pipe is never taken over at all.     *)
THEOREM NoOrphanCorrect == Spec => []NoOrphan
  <1>1. IInv => NoOrphan
    <2> SUFFICES ASSUME IInv, NEW d \in Daemons, phase[d] = "bound", path # d
                 PROVE  platform = "unix" /\ excuses # {}
      BY DEF NoOrphan
    <2>1. platform = "unix"
      BY DEF IInv, Always, TypeOK, PipeIsOwned
    <2>2. excuses # {}
      BY DEF IInv, Calm, BoundAtPath
    <2> QED
      BY <2>1, <2>2
  <1> QED
    BY <1>1, Invariance, PTL

(* A client that gives up because its child has failed has nobody else to  *)
(* talk to: the child was the only one that could have come to listen.     *)
THEOREM BailCorrect == Spec => BailMeansNone
  <1>1. ASSUME IInv, NEW c \in Clients, Reap(c), phase'[c] = "failed", excuses = {}
        PROVE  ~Reachable
    <2>1. phase[child[c]] = "failed"
      BY <1>1 DEF Reap, IInv, Always, TypeOK, Procs
    <2>2. NobodyBound
      BY <1>1, <2>1 DEF Reap, IInv, Calm, ChildAlone, NobodyBound
    <2> QED
      BY <1>1, <2>2 DEF Reachable, NobodyBound, IInv, Always, TypeOK
  <1>2. IInv /\ [Next]_vars =>
          [\A c \in Clients :
             Reap(c) /\ phase'[c] = "failed" => ~Reachable \/ excuses # {}]_vars
    BY <1>1
  <1> QED
    BY <1>2, Invariance, PTL DEF Spec, BailMeansNone
=============================================================================
