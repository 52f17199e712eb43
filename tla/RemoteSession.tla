----------------------------- MODULE RemoteSession -----------------------------
(***************************************************************************)
(* A task's session on an ssh host (SshRemoteSession): the workspace is    *)
(* seeded on the host, the operations of the task run there through a      *)
(* RemoteEnvironment, and dispose pulls the work back without overwriting  *)
(* what the user changed meanwhile.  The user may edit the local files at  *)
(* any time.                                                               *)
(*                                                                         *)
(* The content of a file is its origin: 0 as seeded, a number for an edit  *)
(* of the user, the operation for a write of the task, None for no file.   *)
(***************************************************************************)
EXTENDS RemoteEnvironment

CONSTANTS Files,
          FileOf,       \* the file an operation writes
          None,
          MaxEdits      \* bound on the user's edits

ASSUME FilesAssumption == /\ FileOf \in [Ops -> Files] /\ MaxEdits \in Nat
                          /\ None \notin Ops \cup (0..MaxEdits)

VARIABLES stage,        \* where init is
          ending,       \* where dispose is
          waiting,      \* calls that await ready
          local, remote, side,  \* content of the workspace, its copy and the side directory
          seed,         \* seedManifest
          changed,      \* what dispose has found changed
          edits,        \* edits of the user so far
          mine,         \* history variable: the last edit of a file after the push, or 0
          unwatched,    \* history variable: files whose last edit fell between push and manifest
                        \* or after the detection, or that the detection could not read
          superseded,   \* history variable: writes another write or the user has replaced
          failed        \* history variable: a step of dispose has failed

files == <<local, remote, side>>
session == <<stage, ending, waiting, seed, changed>>
history == <<edits, mine, unwatched, superseded, failed>>
remoteVars == <<envVars, files, session, history>>

Contents == 0..MaxEdits \cup Ops \cup {None}

RemoteTypeOK ==
  /\ EnvTypeOK
  /\ stage \in {"boot", "push", "manifest", "open", "broken"}
  /\ ending \in {"no", "ready", "env", "detect", "pull", "side", "cleanup", "over"}
  /\ waiting \subseteq Calls /\ changed \subseteq Files
  /\ \A f \in {local, remote, side, seed} : f \in [Files -> Contents]
  /\ edits \in 0..MaxEdits /\ mine \in [Files -> 0..MaxEdits]
  /\ unwatched \subseteq Files
  /\ superseded \subseteq Ops /\ failed \in BOOLEAN

Nothing == [f \in Files |-> None]

RemoteInit == /\ EnvInit
              /\ stage = "boot" /\ ending = "no" /\ waiting = {}
              /\ local = [f \in Files |-> 0] /\ remote = Nothing /\ side = Nothing
              /\ seed = Nothing /\ changed = {}
              /\ edits = 0 /\ mine = [f \in Files |-> 0] /\ unwatched = {}
              /\ superseded = {} /\ failed = FALSE

-----------------------------------------------------------------------------
\* init: the daemon is copied, the workspace pushed, the manifest taken of the
\* local files as they are then, and the environment made.
Bootstrap == /\ stage = "boot"
             /\ stage' \in {"push", "broken"}
             /\ UNCHANGED <<envVars, files, ending, waiting, seed, changed, history>>

Push == /\ stage = "push"
        /\ \E pushed \in SUBSET Files :
              /\ remote' = [f \in Files |-> IF f \in pushed THEN local[f] ELSE remote[f]]
              /\ stage' \in {"broken"} \cup (IF pushed = Files THEN {"manifest"} ELSE {})
        /\ UNCHANGED <<envVars, local, side, ending, waiting, seed, changed, history>>

\* A file that cannot be read is left out, and has changed whatever it holds later; a
\* manifest that fails is empty.
Manifest == /\ stage = "manifest"
            /\ \E readable \in SUBSET Files :
                  seed' = [f \in Files |-> IF f \in readable THEN local[f] ELSE None]
            /\ stage' = "open"
            /\ UNCHANGED <<envVars, files, ending, waiting, changed, history>>

\* An operation of the task awaits use(), and is passed on or rejected then.
AwaitUse(c) == /\ call[c] = "idle" /\ c \notin waiting
               /\ waiting' = waiting \cup {c}
               /\ UNCHANGED <<envVars, files, stage, ending, seed, changed, history>>

PassOn(c) == /\ c \in waiting /\ stage = "open"
             /\ Request(c)
             /\ waiting' = waiting \ {c}
             /\ UNCHANGED <<files, stage, ending, seed, changed, history>>

TurnAway(c) == /\ c \in waiting /\ stage = "broken"
               /\ call' = [call EXCEPT ![c] = "rejected"]
               /\ waiting' = waiting \ {c}
               /\ UNCHANGED <<closed, open, listening, frames, server, signals, seen>>
               /\ UNCHANGED <<files, stage, ending, seed, changed, history>>

\* The daemon writes the file, unless the workspace has been removed.
Write(c) ==
  LET f == FileOf[c]
  IN  /\ OpEnds(c)
      /\ remote' = IF remote[f] = None THEN remote ELSE [remote EXCEPT ![f] = c]
      /\ superseded' = superseded \cup (Ops \cap {remote[f]})
      /\ UNCHANGED <<local, side, session, edits, mine, unwatched, failed>>

\* The user saves a file.
Edit(f) ==
  /\ edits < MaxEdits
  /\ edits' = edits + 1
  /\ local' = [local EXCEPT ![f] = edits']
  /\ superseded' = superseded \cup (Ops \cap {local[f]})
  /\ mine' = [mine EXCEPT ![f] = IF stage \in {"manifest", "open"} THEN edits' ELSE 0]
  /\ unwatched' = IF stage = "open" /\ ending \in {"no", "ready", "env", "detect"}
                  THEN unwatched \ {f} ELSE unwatched \cup {f}
  /\ UNCHANGED <<envVars, remote, side, session, failed>>

-----------------------------------------------------------------------------
\* dispose: what init leaves is awaited, then the environment's own dispose.
Dispose == /\ ending = "no"
           /\ ending' = "ready"
           /\ UNCHANGED <<envVars, files, stage, waiting, seed, changed, history>>

DisposeEnv ==
  /\ ending = "ready"
  /\ \/ stage = "open" /\ Request(Bye) /\ ending' = "env"
     \/ stage = "broken" /\ ending' = "detect" /\ UNCHANGED envVars
  /\ UNCHANGED <<files, stage, waiting, seed, changed, history>>

EnvDisposed == /\ ending = "env"
               /\ Disposed
               /\ ending' = "detect"
               /\ UNCHANGED <<files, stage, waiting, seed, changed, history>>

\* Mutant: nothing counts as changed.
DetectNothing == /\ ending = "detect"
                 /\ changed' = {}
                 /\ ending' = "pull"
                 /\ UNCHANGED <<envVars, files, stage, waiting, seed, history>>

\* conflictAwarePull: locallyChanged.  A file that cannot be read counts as unchanged.
Compare == /\ ending = "detect"
           /\ \E readable \in SUBSET Files :
                 /\ changed' = {f \in readable : local[f] # seed[f]}
                 /\ unwatched' = unwatched \cup {f \in Files \ readable : local[f] # seed[f]}
           /\ ending' = "pull"
           /\ UNCHANGED <<envVars, files, stage, waiting, seed, edits, mine, superseded, failed>>

\* A comparison that fails skips the pull, and dispose goes on to the cleanup.
CompareFails == /\ ending = "detect"
                /\ ending' = "cleanup" /\ failed' = TRUE
                /\ UNCHANGED <<envVars, files, stage, waiting, seed, changed, edits, mine,
                               unwatched, superseded>>

Detect == Compare \/ CompareFails

\* rsync copies what the host has of the files, or fails on the way.  A failure
\* ends the pull and dispose goes on to the cleanup.
Copied(from, to, which) ==
  [f \in Files |-> IF f \in which /\ from[f] # None THEN from[f] ELSE to[f]]

Pull ==
  /\ ending = "pull"
  /\ \E done \in SUBSET (Files \ changed), ok \in BOOLEAN :
        /\ ok => done = Files \ changed /\ remote # Nothing
        /\ local' = Copied(remote, local, done)
        /\ failed' = ~ok
        /\ ending' = IF ok /\ changed # {} THEN "side" ELSE "cleanup"
  /\ UNCHANGED <<envVars, remote, side, stage, waiting, seed, changed, edits, mine, unwatched, superseded>>

\* Mutant: the copies of changed files are not fetched.
PullAsideNothing ==
  /\ ending = "side"
  /\ ending' = "cleanup"
  /\ UNCHANGED <<envVars, files, stage, waiting, seed, changed, history>>

PullAside ==
  /\ ending = "side"
  /\ \E done \in SUBSET changed :
        /\ side' = Copied(remote, side, done)
        /\ failed' = (done # changed \/ \E f \in changed : remote[f] = None)
  /\ ending' = "cleanup"
  /\ UNCHANGED <<envVars, local, remote, stage, waiting, seed, changed, edits, mine, unwatched, superseded>>

Cleanup == /\ ending = "cleanup"
           /\ remote' \in {remote, Nothing}
           /\ ending' = "over"
           /\ UNCHANGED <<envVars, local, side, stage, waiting, seed, changed, history>>

-----------------------------------------------------------------------------
\* The steps of the environment on their own.
EnvStep(A) == A /\ UNCHANGED <<files, session, history>>

Finishes == \/ EnvStep(ClientReceives) \/ EnvStep(DaemonReceives) \/ EnvStep(TransportCloses)
            \/ \E c \in Ops : Write(c)
            \/ Bootstrap \/ Push \/ Manifest
            \/ \E c \in Calls : PassOn(c) \/ TurnAway(c)
            \/ DisposeEnv \/ EnvDisposed \/ Detect \/ Pull \/ PullAside \/ Cleanup

RemoteNext == \/ Finishes
              \/ \E c \in Calls : AwaitUse(c)
              \/ \E c \in Commands : \/ EnvStep(Fire(c)) \/ EnvStep(ChildWrites(c))
                                     \/ EnvStep(ChildCloses(c))
              \/ stage = "open" /\ EnvStep(DaemonExits)
              \/ Dispose
              \/ \E f \in Files : Edit(f)

RemoteSpec == RemoteInit /\ [][RemoteNext]_remoteVars

\* Frames are delivered, file operations and rsync return, the exit of a process is
\* noticed, a killed child closes and a killed daemon exits.  A command that nobody
\* kills may run forever, the user and the task may do nothing.
FairRemote ==
  /\ RemoteSpec
  /\ WF_remoteVars(Finishes)
  /\ \A c \in Commands : WF_remoteVars(job[c] = "killed" /\ EnvStep(ChildCloses(c)))
  /\ WF_remoteVars(daemon = "killed" /\ EnvStep(DaemonExits))

\* Another task of the process with the same directory: its session has the same
\* id, and seeds the same workspace.
AnotherTask == /\ stage = "open" /\ ending = "no"
               /\ remote' = local
               /\ UNCHANGED <<envVars, local, side, session, history>>

SharedSpec == RemoteInit /\ [][RemoteNext \/ AnotherTask]_remoteVars

-----------------------------------------------------------------------------
\* A caller that is answered has been given all output of its command, chunks
\* being notifications of their own that no response may overtake.
OutputIsWhole == \A c \in Commands : call[c] = "answered" => seen[c] = written[c]

\* Its callers find the environment as RemoteCalls promises: whatever frames cross,
\* signals fire and processes end, nothing is done twice or unasked, no answer comes
\* early or after all, and no output is lost.
ImplementsCalls == Promise!Spec

\* Every request that was sent before the transport closed comes to an end, be it
\* the one of dispose; a command, when its caller aborts it.  The daemon may crash.
CallsEnd ==
  \A r \in Requests :
    (call[r] = "sent" /\ open /\ (r \in Commands => r \in heard)) ~> call[r] # "sent"

\* conflictAwarePull: what the user changed while the session was open is still
\* there after it, whatever the task wrote to the same files, unless the detection could
\* not read the file.
SessionEditsSurvive ==
  \A f \in Files : mine[f] # 0 /\ f \notin unwatched => local[f] = mine[f]

\* When dispose has gone well, each write the task was told of is in the workspace
\* or in the side directory, if nothing replaced it.
WorkComesBack ==
  ending = "over" /\ ~failed =>
    \A c \in Ops : call[c] = "answered" /\ c \notin superseded =>
      c \in {local[FileOf[c]], side[FileOf[c]]}

\* SshRemoteSession.ts:114, "without ever silently overwriting a locally-changed
\* file": no edit after the push is lost.
EditsSurvive == \A f \in Files : mine[f] # 0 => local[f] = mine[f]

\* RpcPeer.ts:19, "so callers never hang on an unresolvable promise".
NoCallHangs == \A r \in Ops \cup {Bye} : call[r] = "sent" ~> call[r] # "sent"

\* The ssh design, "Remote workspace: ~/.isaac/workspaces/<ulid>/ (ephemeral, per
\* session), removed on dispose": until then a session keeps its writes.
WorkspaceIsOwn ==
  stage = "open" /\ ending = "no" =>
    \A c \in Ops : call[c] = "answered" /\ c \notin superseded => remote[FileOf[c]] = c

=============================================================================
