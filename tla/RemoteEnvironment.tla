--------------------------- MODULE RemoteEnvironment ---------------------------
(***************************************************************************)
(* The environment of a task on another machine: requests over the stdio   *)
(* of a daemon, with one ordered stream of frames in each direction.  The  *)
(* client keeps the requests it waits for (RpcPeer.pending) and routes the *)
(* output of commands to their callers (RemoteEnvironment); the daemon     *)
(* runs file operations and children (daemon.ts); its process may end at   *)
(* any time (subprocessTransport).                                         *)
(*                                                                         *)
(* A request stands for its id and, for a command, its streamId.  exec has *)
(* no caller in the program and behaves like runCommand here.              *)
(***************************************************************************)
EXTENDS Naturals, Sequences

CONSTANTS Ops,          \* file operations that are called
          Commands,     \* commands that are called, each with an abort signal
          Bye,          \* the request of dispose
          MaxChunks     \* bound on the output of a command

ASSUME RequestsAssumption == /\ Ops \cap Commands = {} /\ Bye \notin Ops \cup Commands
                             /\ MaxChunks \in Nat

VARIABLES call,         \* "sent" while the request is in pending
          closed,       \* RpcPeer.closed
          open,         \* the close of the transport has not been noticed
          outgoing,     \* frames to the daemon it has not read
          incoming,     \* frames from the daemon the client has not read
          daemon,       \* the process of the daemon
          job,          \* what the daemon does for a request
          children,     \* commands of the daemon's children map
          listening,    \* commands whose abort listener will send a frame
          fired,        \* commands whose abort signal has fired
          heard,        \* history variable: those that had a listener then
          written,      \* chunks a command has written
          seen          \* chunks its caller was given

client == <<call, closed, open, listening>>
frames == <<outgoing, incoming>>
server == <<daemon, job, children, written>>
signals == <<fired, heard>>
envVars == <<client, frames, server, signals, seen>>

Calls == Ops \cup Commands
Requests == Calls \cup {Bye}
Frame == [kind : {"request", "abort", "output", "response"}, of : Requests]

EnvTypeOK == /\ call \in [Requests -> {"idle", "sent", "answered", "rejected"}]
             /\ closed \in BOOLEAN /\ open \in BOOLEAN
             /\ outgoing \in Seq(Frame) /\ incoming \in Seq(Frame)
             /\ daemon \in {"running", "killed", "gone"}
             /\ job \in [Requests -> {"none", "working", "killed", "done"}]
             /\ children \subseteq Commands
             /\ listening \subseteq Commands /\ heard \subseteq fired /\ fired \subseteq Commands
             /\ written \in [Commands -> 0..MaxChunks] /\ seen \in [Commands -> 0..MaxChunks]

EnvInit == /\ call = [r \in Requests |-> "idle"] /\ closed = FALSE /\ open = TRUE
           /\ outgoing = << >> /\ incoming = << >>
           /\ daemon = "running" /\ job = [r \in Requests |-> "none"] /\ children = {}
           /\ listening = {} /\ fired = {} /\ heard = {}
           /\ written = [c \in Commands |-> 0] /\ seen = [c \in Commands |-> 0]

-----------------------------------------------------------------------------
\* transport.send: what is written to a process that has ended goes nowhere.
Send(kind, r) ==
  outgoing' = IF daemon = "gone" THEN outgoing
              ELSE Append(outgoing, [kind |-> kind, of |-> r])

Reply(kind, r) == incoming' = Append(incoming, [kind |-> kind, of |-> r])

\* rejectPending, with the finally of the calls it rejects.
RejectPending ==
  /\ call' = [r \in Requests |-> IF call[r] = "sent" THEN "rejected" ELSE call[r]]
  /\ listening' = {}

\* RpcPeer.request; a command's listener is attached first, and hears nothing of
\* a signal that has fired before.
Request(r) ==
  /\ call[r] = "idle"
  /\ IF closed
     THEN /\ call' = [call EXCEPT ![r] = "rejected"]
          /\ UNCHANGED <<outgoing, listening>>
     ELSE /\ call' = [call EXCEPT ![r] = "sent"]
          /\ Send("request", r)
          /\ listening' = listening \cup (({r} \cap Commands) \ fired)
  /\ UNCHANGED <<closed, open, incoming, server, signals, seen>>

\* The caller's abort signal.
Fire(c) ==
  /\ c \notin fired
  /\ fired' = fired \cup {c}
  /\ IF c \in listening
     THEN Send("abort", c) /\ heard' = heard \cup {c}
     ELSE UNCHANGED <<outgoing, heard>>
  /\ listening' = listening \ {c}
  /\ UNCHANGED <<call, closed, open, incoming, server, seen>>

\* Mutant: the pending requests are left to themselves.
TransportClosesQuietly ==
  /\ daemon = "gone" /\ open
  /\ open' = FALSE
  /\ UNCHANGED <<call, closed, frames, listening, server, signals, seen>>

\* The exit of the child process is noticed.
TransportCloses ==
  /\ daemon = "gone" /\ open
  /\ open' = FALSE
  /\ RejectPending
  /\ UNCHANGED <<closed, frames, server, signals, seen>>

\* onMessage: output goes to the sink of its command, a response to its request,
\* and neither to one that is not pending any more.
ClientReceives ==
  /\ incoming # << >>
  /\ incoming' = Tail(incoming)
  /\ LET m == Head(incoming)
     IN  IF call[m.of] # "sent" THEN UNCHANGED <<call, listening, seen>>
         ELSE IF m.kind = "output"
         THEN /\ seen' = [seen EXCEPT ![m.of] = @ + 1]
              /\ UNCHANGED <<call, listening>>
         ELSE /\ call' = [call EXCEPT ![m.of] = "answered"]
              /\ listening' = listening \ {m.of}
              /\ UNCHANGED seen
  /\ UNCHANGED <<closed, open, outgoing, server, signals>>

\* dispose, once its own request is settled: peer.dispose closes the transport,
\* which kills the daemon's process.
Disposed ==
  /\ call[Bye] \in {"answered", "rejected"} /\ ~closed
  /\ closed' = TRUE /\ open' = FALSE
  /\ RejectPending
  /\ daemon' = IF daemon = "running" THEN "killed" ELSE daemon
  /\ UNCHANGED <<frames, job, children, written, signals, seen>>

-----------------------------------------------------------------------------
\* Mutant: an abort reaches nobody.
DaemonStartsOnly(m) ==
  /\ job' = IF m.kind = "request" THEN [job EXCEPT ![m.of] = "working"] ELSE job
  /\ children' = IF m.kind = "request" THEN children \cup ({m.of} \cap Commands) ELSE children

\* A handler starts, a child is spawned, or the child of an abort is killed.
DaemonStarts(m) ==
  /\ job' = CASE m.kind = "request"  -> [job EXCEPT ![m.of] = "working"]
              [] m.of \in children   -> [job EXCEPT ![m.of] = "killed"]
              [] OTHER               -> job
  /\ children' = IF m.kind = "request" THEN children \cup ({m.of} \cap Commands) ELSE children

\* The dispose handler kills all children and answers.
DaemonDisposes ==
  /\ job' = [r \in Requests |-> IF r = Bye THEN "done"
                                ELSE IF r \in children THEN "killed" ELSE job[r]]
  /\ children' = {}
  /\ Reply("response", Bye)

DaemonReceives ==
  /\ daemon # "gone" /\ outgoing # << >>
  /\ outgoing' = Tail(outgoing)
  /\ IF Head(outgoing).of = Bye THEN DaemonDisposes
     ELSE DaemonStarts(Head(outgoing)) /\ UNCHANGED incoming
  /\ UNCHANGED <<client, daemon, written, signals, seen>>

\* A file operation is carried out, or fails.
OpEnds(c) ==
  /\ daemon # "gone" /\ job[c] = "working"
  /\ job' = [job EXCEPT ![c] = "done"]
  /\ Reply("response", c)
  /\ UNCHANGED <<client, outgoing, daemon, children, written, signals, seen>>

\* Mutant: the response is sent when the process exits, not when its output ends.
ChildWritesLate(c) ==
  /\ daemon # "gone" /\ job[c] # "none" /\ written[c] < MaxChunks
  /\ written' = [written EXCEPT ![c] = @ + 1]
  /\ Reply("output", c)
  /\ UNCHANGED <<client, outgoing, daemon, job, children, signals, seen>>

ChildWrites(c) ==
  /\ daemon # "gone" /\ job[c] \in {"working", "killed"} /\ written[c] < MaxChunks
  /\ written' = [written EXCEPT ![c] = @ + 1]
  /\ Reply("output", c)
  /\ UNCHANGED <<client, outgoing, daemon, job, children, signals, seen>>

\* "close": the child has ended and so has its output.
ChildCloses(c) ==
  /\ daemon # "gone" /\ job[c] \in {"working", "killed"}
  /\ job' = [job EXCEPT ![c] = "done"]
  /\ children' = children \ {c}
  /\ Reply("response", c)
  /\ UNCHANGED <<client, outgoing, daemon, written, signals, seen>>

\* The process ends: killed, crashed, or its connection is lost.  What it wrote
\* before can still be read; what it has not read is gone.
DaemonExits ==
  /\ daemon # "gone"
  /\ daemon' = "gone"
  /\ outgoing' = << >>
  /\ UNCHANGED <<client, incoming, job, children, written, signals, seen>>

-----------------------------------------------------------------------------
\* A child that is killed may write until it closes.
Doing == [r \in Requests |-> IF job[r] \in {"working", "killed"} THEN "running" ELSE job[r]]

Promise == INSTANCE RemoteCalls WITH fate <- call, work <- Doing

=============================================================================
