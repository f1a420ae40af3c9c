------------------------------ MODULE LspStream ------------------------------
(***************************************************************************)
(* One LSP session from end to end: the proxy (run_stdio) with the thread  *)
(* that copies stdin to the daemon and the loop that copies the answers    *)
(* back; the connection; the daemon's handler of it (handle_client,        *)
(* handle_lsp_session) with the reader and the writer thread of the stream *)
(* and the session's loop (run_shared_state) between them.  The client is  *)
(* free to send, to fall silent and to close its end.                      *)
(*                                                                         *)
(* Bytes are fragments.  The `exit` notification as rust-analyzer's        *)
(* clients write it is two, "ex" and "it", since a read may cut it.  The   *)
(* others are whole messages: "init", "req", an exit that JSON allows to   *)
(* be "spaced" in another way, and a request that has an exit "quoted" in  *)
(* its parameters.  Replies are numbered from 1.                           *)
(***************************************************************************)
EXTENDS Integers, Sequences, SequencesExt

CONSTANT MaxFragments  \* bound: fragments after which the client sends no more

ASSUME MaxFragmentsAssumption == MaxFragments \in Nat \ {0}

VARIABLES sent,       \* history: fragments the client has written
          stdin,      \* fragments on their way to the proxy
          stdinOpen,  \* the client has its end of stdin open
          stdinFailed, \* history: a read of stdin has failed
          pump,       \* the thread that copies stdin
          chunk,      \* what that thread has read and not written
          exitSeen,   \* the flag exit_seen
          cut,        \* history: a read has ended within `exit`
          code,       \* exit code of the proxy
          up, down,   \* the connection, one queue per direction
          handler,    \* the daemon's thread for this connection
          reader,     \* the thread that reads messages from the stream
          writer,     \* the thread that writes messages to it
          inbox,      \* the channel from the reader to the session
          outbox,     \* the channel from the session to the writer
          handled,    \* history: what the session has handled
          ended,      \* history: why the session's loop has ended
          out,        \* history: replies written to stdout
          sessions    \* client_sessions

proxyVars == <<pump, chunk, exitSeen, cut, code>>
clientVars == <<sent, stdin, stdinOpen, stdinFailed>>
daemonVars == <<handler, reader, writer, inbox, outbox, handled, ended, sessions>>
vars == <<clientVars, proxyVars, up, down, daemonVars, out>>

Exit == <<"ex", "it">>
Accepted == 0  \* the line that accepts the session
Exits == {Exit, <<"spaced">>}
Messages == {<<"init">>, <<"req">>, <<"quoted">>} \cup Exits
Fragments == {"init", "req", "quoted", "spaced", "ex", "it"}

ProxyOpen == code = "none"

(* The daemon's end is a descriptor of the handler, then one of each of    *)
(* the two threads: the peer sees the end when both have dropped theirs.   *)
DaemonOpen == handler \in {"start", "init"} \/ reader = "reading" \/ writer = "writing"

(* The first whole message of the connection, or none.                     *)
Whole(q) == IF q # <<>> /\ q[1] = "ex" THEN Len(q) > 1 ELSE q # <<>>
First(q) == IF q[1] = "ex" THEN Exit ELSE <<q[1]>>
Rest(q)  == IF q[1] = "ex" THEN SubSeq(q, 3, Len(q)) ELSE Tail(q)

-----------------------------------------------------------------------------
(* Mutants. *)

\* The read is compared with the notification as a whole.
HasExitAlone(c) == c = Exit

\* The thread that copies stdin does not wait for the session to be accepted.
PumpReadsAtOnce ==
    /\ ProxyOpen
    /\ pump \in {"off", "read"}
    /\ stdin # <<>>
    /\ up' = up \o stdin
    /\ stdin' = <<>>
    /\ UNCHANGED <<sent, stdinOpen, stdinFailed, proxyVars, down, daemonVars, out>>

\* The loop ends when the reader's side of the channel is gone, but stays
\* for a client that says nothing more.
SessionIgnoresDisconnect == FALSE /\ UNCHANGED vars

\* A handle that is not overlapped: no write while a read is waiting.
WriterWaitsForReader ==
    /\ writer = "writing"
    /\ outbox # <<>>
    /\ ~(reader = "reading" /\ ~Whole(up))
    /\ IF ProxyOpen
       THEN /\ down' = Append(down, Head(outbox))
            /\ outbox' = Tail(outbox)
            /\ UNCHANGED writer
       ELSE writer' = "done" /\ UNCHANGED <<down, outbox>>
    /\ UNCHANGED <<clientVars, proxyVars, up, handler, reader, inbox, handled, ended,
                   out, sessions>>

\* The loop that copies answers does not notice the end of the stream.
CopyIgnoresEnd == FALSE /\ UNCHANGED vars

\* The reader takes the handler with it, which does not wait for the writer.
JoinReaderOnly ==
    /\ handler = "joining"
    /\ reader = "done"
    /\ handler' = "done"
    /\ sessions' = sessions - 2
    /\ UNCHANGED <<clientVars, proxyVars, up, down, reader, writer, inbox, outbox,
                   handled, ended, out>>

-----------------------------------------------------------------------------
(* The bytes "method":"exit" are looked for in what one read has returned, *)
(* whatever message they are of.                                           *)
HasExit(c) ==
    \/ \E i \in 1..Len(c) - 1 : c[i] = "ex" /\ c[i + 1] = "it"
    \/ \E i \in 1..Len(c) : c[i] = "quoted"

(* It is the session that reads JSON: what it takes for an exit.           *)
SaysExit(c) == \E i \in 1..Len(c) : c[i] \in {"it", "spaced"}

(* connect_lsp_session has connected and written its request.              *)
Init ==
    /\ sent = <<>> /\ stdin = <<>> /\ stdinOpen = TRUE /\ stdinFailed = FALSE
    /\ pump = "off" /\ chunk = <<>> /\ exitSeen = FALSE /\ cut = FALSE /\ code = "none"
    /\ up = <<"lsp">> /\ down = <<>>
    /\ handler = "start" /\ reader = "off" /\ writer = "off"
    /\ inbox = <<>> /\ outbox = <<>> /\ handled = <<>> /\ ended = "no"
    /\ out = <<>> /\ sessions = 1

(* The client: an editor, which may stop sending without closing stdin.    *)
ClientSends(m) ==
    /\ stdinOpen
    /\ ~SaysExit(sent)
    /\ Len(sent) < MaxFragments
    /\ sent' = sent \o m
    /\ stdin' = stdin \o m
    /\ UNCHANGED <<stdinOpen, stdinFailed, proxyVars, up, down, daemonVars, out>>

ClientCloses ==
    /\ stdinOpen
    /\ stdinOpen' = FALSE
    /\ UNCHANGED <<sent, stdin, stdinFailed, proxyVars, up, down, daemonVars, out>>

-----------------------------------------------------------------------------
(* The proxy. *)

(* read_json_line reads as much as there is, keeps the first line and      *)
(* drops its buffer.                                                       *)
ProxyAccepted ==
    /\ ProxyOpen
    /\ pump = "off"
    /\ down # <<>>
    /\ pump' = "read"
    /\ down' = <<>>
    /\ UNCHANGED <<clientVars, chunk, exitSeen, cut, code, up, daemonVars, out>>

ProxyRefused ==
    /\ ProxyOpen
    /\ pump = "off"
    /\ down = <<>>
    /\ ~DaemonOpen
    /\ code' = "one"
    /\ UNCHANGED <<clientVars, pump, chunk, exitSeen, cut, up, down, daemonVars, out>>

(* One read of stdin returns some of what is there, and sets exit_seen     *)
(* before anything of it is written.                                       *)
PumpReads ==
    /\ ProxyOpen
    /\ pump = "read"
    /\ \E n \in 1..Len(stdin) :
        /\ chunk' = SubSeq(stdin, 1, n)
        /\ stdin' = SubSeq(stdin, n + 1, Len(stdin))
        /\ cut' = (cut \/ stdin[n] = "ex")
        /\ exitSeen' = (exitSeen \/ HasExit(chunk'))
    /\ pump' = "write"
    /\ UNCHANGED <<sent, stdinOpen, stdinFailed, code, up, down, daemonVars, out>>

(* The client has closed stdin: the process exits at once.                 *)
PumpEnds ==
    /\ ProxyOpen
    /\ pump = "read"
    /\ stdin = <<>>
    /\ ~stdinOpen
    /\ code' = "zero"
    /\ UNCHANGED <<clientVars, pump, chunk, exitSeen, cut, up, down, daemonVars, out>>

(* An error counts as that, whatever the client has done.                  *)
PumpFails ==
    /\ ProxyOpen
    /\ pump = "read"
    /\ stdinFailed' = TRUE
    /\ code' = "zero"
    /\ UNCHANGED <<sent, stdin, stdinOpen, pump, chunk, exitSeen, cut, up, down,
                   daemonVars, out>>

(* With the daemon's end closed the thread returns, and stdin is not read  *)
(* any more.                                                               *)
PumpWrites ==
    /\ ProxyOpen
    /\ pump = "write"
    /\ IF DaemonOpen
       THEN up' = up \o chunk /\ chunk' = <<>> /\ pump' = "read"
       ELSE pump' = "gone" /\ UNCHANGED <<up, chunk>>
    /\ UNCHANGED <<clientVars, exitSeen, cut, code, down, daemonVars, out>>

Copy ==
    /\ ProxyOpen
    /\ pump # "off"
    /\ down # <<>>
    /\ out' = out \o down
    /\ down' = <<>>
    /\ UNCHANGED <<clientVars, proxyVars, up, daemonVars>>

(* The end of the stream, or an error, once all of it has been copied.     *)
CopyEnds ==
    /\ ProxyOpen
    /\ pump # "off"
    /\ down = <<>>
    /\ ~DaemonOpen
    /\ code' = IF exitSeen THEN "zero" ELSE "one"
    /\ UNCHANGED <<clientVars, pump, chunk, exitSeen, cut, up, down, daemonVars, out>>

(* Nobody reads stdout: main returns the error.                            *)
CopyFails ==
    /\ ProxyOpen
    /\ pump # "off"
    /\ down # <<>>
    /\ ~stdinOpen
    /\ code' = "one"
    /\ UNCHANGED <<clientVars, pump, chunk, exitSeen, cut, up, down, daemonVars, out>>

-----------------------------------------------------------------------------
(* The daemon's handler, up to the session. *)

(* The thread ends with an error, which drops the stream.                  *)
HandlerEnds == handler' = "done" /\ sessions' = sessions - 1

(* read_json_line, and the answer; writing it to a proxy that has gone is  *)
(* an error.                                                               *)
HandlerAccepts ==
    /\ handler = "start"
    /\ up' = <<>>
    /\ IF ProxyOpen
       THEN /\ handler' = "init"
            /\ down' = <<Accepted>>
            /\ UNCHANGED sessions
       ELSE HandlerEnds /\ UNCHANGED down
    /\ UNCHANGED <<clientVars, proxyVars, reader, writer, inbox, outbox, handled, ended,
                   out>>

(* lsp_stream_connection reads one message by itself, which has to be the  *)
(* initialize request, and starts the two threads.                         *)
HandlerInitializes ==
    /\ handler = "init"
    /\ Whole(up)
    /\ up' = Rest(up)
    /\ IF First(up) = <<"init">>
       THEN /\ handler' = "running"
            /\ reader' = "reading"
            /\ writer' = "writing"
            /\ inbox' = <<First(up)>>
            /\ UNCHANGED sessions
       ELSE HandlerEnds /\ UNCHANGED <<reader, writer, inbox>>
    /\ UNCHANGED <<clientVars, proxyVars, down, outbox, handled, ended, out>>

HandlerLosesClient ==
    /\ handler = "init"
    /\ ~Whole(up)
    /\ ~ProxyOpen
    /\ HandlerEnds
    /\ UNCHANGED <<clientVars, proxyVars, up, down, reader, writer, inbox, outbox,
                   handled, ended, out>>

(* The thread ends on the end of the stream, and on a message that nobody  *)
(* is there to receive; not on `exit`.                                     *)
ReaderReads ==
    /\ reader = "reading"
    /\ Whole(up)
    /\ up' = Rest(up)
    /\ IF handler = "running"
       THEN inbox' = Append(inbox, First(up)) /\ UNCHANGED reader
       ELSE reader' = "done" /\ UNCHANGED inbox
    /\ UNCHANGED <<clientVars, proxyVars, down, handler, writer, outbox, handled, ended,
                   out, sessions>>

ReaderEnds ==
    /\ reader = "reading"
    /\ ~Whole(up)
    /\ ~ProxyOpen
    /\ reader' = "done"
    /\ UNCHANGED <<clientVars, proxyVars, up, down, handler, writer, inbox, outbox,
                   handled, ended, out, sessions>>

WriterWrites ==
    /\ writer = "writing"
    /\ outbox # <<>>
    /\ IF ProxyOpen
       THEN /\ down' = Append(down, Head(outbox))
            /\ outbox' = Tail(outbox)
            /\ UNCHANGED writer
       ELSE writer' = "done" /\ UNCHANGED <<down, outbox>>
    /\ UNCHANGED <<clientVars, proxyVars, up, handler, reader, inbox, handled, ended,
                   out, sessions>>

(* All replies are written before the channel is seen to be closed.        *)
WriterEnds ==
    /\ writer = "writing"
    /\ outbox = <<>>
    /\ handler \in {"joining", "panicked"}
    /\ writer' = "done"
    /\ UNCHANGED <<clientVars, proxyVars, up, down, handler, reader, inbox, outbox,
                   handled, ended, out, sessions>>

-----------------------------------------------------------------------------
(* The session's loop. *)

SessionEnds(why) ==
    /\ handler' = "joining"
    /\ ended' = why
    /\ inbox' = <<>>

(* A reply goes to the writer; where that has gone, sending panics.        *)
SessionHandles ==
    /\ handler = "running"
    /\ inbox # <<>>
    /\ Head(inbox) \notin Exits
    /\ handled' = handled \o Head(inbox)
    /\ IF writer = "writing"
       THEN /\ outbox' = Append(outbox, Len(handled) + 1)
            /\ inbox' = Tail(inbox)
            /\ UNCHANGED <<handler, ended>>
       ELSE /\ handler' = "panicked"
            /\ ended' = "panic"
            /\ inbox' = <<>>
            /\ UNCHANGED outbox
    /\ UNCHANGED <<clientVars, proxyVars, up, down, reader, writer, out, sessions>>

SessionExits ==
    /\ handler = "running"
    /\ inbox # <<>>
    /\ Head(inbox) \in Exits
    /\ SessionEnds("exit")
    /\ UNCHANGED <<clientVars, proxyVars, up, down, reader, writer, outbox, handled, out,
                   sessions>>

(* "client exited without proper shutdown sequence" *)
SessionLosesClient ==
    /\ handler = "running"
    /\ inbox = <<>>
    /\ reader = "done"
    /\ SessionEnds("disconnect")
    /\ UNCHANGED <<clientVars, proxyVars, up, down, reader, writer, outbox, handled, out,
                   sessions>>

(* An error of the configuration, of the provider or of a world.           *)
SessionFails ==
    /\ handler = "running"
    /\ SessionEnds("error")
    /\ UNCHANGED <<clientVars, proxyVars, up, down, reader, writer, outbox, handled, out,
                   sessions>>

(* A panic unwinds past fetch_sub and leaves the two threads behind.       *)
SessionPanics ==
    /\ handler = "running"
    /\ handler' = "panicked"
    /\ ended' = "panic"
    /\ inbox' = <<>>
    /\ UNCHANGED <<clientVars, proxyVars, up, down, reader, writer, outbox, handled, out,
                   sessions>>

(* LspStreamThreads::join *)
Join ==
    /\ handler = "joining"
    /\ reader = "done"
    /\ writer = "done"
    /\ HandlerEnds
    /\ UNCHANGED <<clientVars, proxyVars, up, down, reader, writer, inbox, outbox,
                   handled, ended, out>>

(* A stop request for the daemon, or its death; the kernel may drop what   *)
(* the peer has not read.                                                  *)
DaemonDies ==
    /\ handler # "killed"
    /\ handler' = "killed"
    /\ reader' = "done" /\ writer' = "done"
    /\ inbox' = <<>> /\ outbox' = <<>>
    /\ down' \in {down, <<>>}
    /\ sessions' = 0
    /\ UNCHANGED <<clientVars, proxyVars, up, handled, ended, out>>

-----------------------------------------------------------------------------
Client  == (\E m \in Messages : ClientSends(m)) \/ ClientCloses
Pump    == PumpReads \/ PumpEnds \/ PumpWrites
Main    == ProxyAccepted \/ ProxyRefused \/ Copy \/ CopyEnds
Handler == HandlerAccepts \/ HandlerInitializes \/ HandlerLosesClient \/ Join
Reader  == ReaderReads \/ ReaderEnds
Writer  == WriterWrites \/ WriterEnds
Session == SessionHandles \/ SessionExits \/ SessionLosesClient

Next == Client \/ Pump \/ Main \/ Handler \/ Reader \/ Writer \/ Session
          \/ PumpFails \/ CopyFails \/ SessionFails \/ SessionPanics \/ DaemonDies

(* The threads run.  Nothing is assumed of the client.                     *)
Fairness ==
    /\ WF_vars(Pump) /\ WF_vars(Main)
    /\ WF_vars(Handler) /\ WF_vars(Reader) /\ WF_vars(Writer) /\ WF_vars(Session)

Spec == Init /\ [][Next]_vars /\ Fairness

-----------------------------------------------------------------------------
(* The variables have their types; no connection is counted out twice.     *)
TypeOK ==
    /\ stdinOpen \in BOOLEAN /\ stdinFailed \in BOOLEAN
    /\ exitSeen \in BOOLEAN /\ cut \in BOOLEAN
    /\ pump \in {"off", "read", "write", "gone"}
    /\ code \in {"none", "zero", "one"}
    /\ handler \in {"start", "init", "running", "joining", "done", "panicked", "killed"}
    /\ reader \in {"off", "reading", "done"}
    /\ writer \in {"off", "writing", "done"}
    /\ ended \in {"no", "exit", "disconnect", "error", "panic"}
    /\ sessions \in {0, 1}
    /\ {sent, stdin, chunk, handled} \subseteq Seq(Fragments)
    /\ up \in Seq(Fragments) \cup {<<"lsp">>}
    /\ inbox \in Seq(Seq(Fragments))
    /\ {down, outbox, out} \subseteq Seq(Nat)

(* What there is in each direction past the first line.                    *)
Bytes   == IF handler = "start" THEN Tail(up) ELSE up
Replies == IF pump = "off" /\ down # <<>> THEN Tail(down) ELSE down

(* Past the first line of each direction nothing is lost, doubled or       *)
(* reordered between the client and the session, whatever a read returns:  *)
(* the buffers read_json_line drops are empty but for that line.           *)
NothingLost ==
    /\ handler \in {"start", "init", "running"} =>
        handled \o FlattenSeq(inbox) \o Bytes \o chunk \o stdin = sent
    /\ handler # "killed" /\ ProxyOpen =>
        out \o Replies \o outbox = [i \in 1..Len(handled) |-> i]

(* The exit code of the proxy tells the client's end from the daemon's, as *)
(* far as it looks for it: 0 only when the bytes of an `exit` have been    *)
(* sent, or stdin has been closed or has failed, and not 1 when the        *)
(* session has ended by `exit`, unless a read has cut these bytes in two,  *)
(* the client spells them in another way or it has not waited.             *)
ExitCode ==
    /\ code = "zero" =>
          \/ ~stdinOpen \/ stdinFailed
          \/ Contains(sent, "it") \/ Contains(sent, "quoted")
    /\ code = "one" /\ ended = "exit" =>
          cut \/ ~stdinOpen \/ Contains(sent, "spaced")

(* The proxy ends when the client closes stdin, when the daemon is gone,   *)
(* and when the client goes on sending to a session that is over.          *)
ProxyEnds ==
    \/ ~stdinOpen
    \/ handler = "killed"
    \/ handler \in {"done", "joining", "panicked"} /\ stdin # <<>>
    ~> code # "none"

(* When the proxy has gone the daemon lets go of the connection, and the   *)
(* session is counted out unless it has panicked.                          *)
CountedOut ==
    code # "none" ~> ~DaemonOpen /\ (sessions = 0 \/ handler = "panicked")

(* What the session has answered gets to the client's side while that is   *)
(* silent: the reader's wait does not hold up the writer.                  *)
RepliesArrive ==
    \A n \in 1..MaxFragments :
        Len(handled) = n /\ ended # "panic"
            ~> Len(out) >= n \/ code # "none" \/ handler = "killed" \/ ended = "panic"
=============================================================================
