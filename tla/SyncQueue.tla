------------------------------- MODULE SyncQueue -------------------------------
(***************************************************************************)
(* The copies of conversations kept in a blob store: every save of a       *)
(* conversation puts it in a queue, a worker uploads a batch of the queue  *)
(* every interval, the queue is written to sync-queue.json 100 ms after it *)
(* changes and read from it when the process starts.                       *)
(*                                                                         *)
(* Sources: src/shared/services/worker (queue.ts, worker.ts, sync.ts,      *)
(* backfill.ts), saveApiConversationHistory in src/core/storage/disk.ts,   *)
(* and IsaacStorage.store, which the worker calls.  The blob store is      *)
(* configured; without it nothing here runs.  Items are in one status:     *)
(* store() logs the error of a failed upload and resolves, so the worker   *)
(* never marks an item failed, and it removes what it marks synced.        *)
(* Contents are the number of the save that made them, 0 an empty history. *)
(***************************************************************************)
EXTENDS Naturals, FiniteSets

CONSTANTS Ids,         \* conversations
          MaxSaves,    \* bound on saves
          MaxStarts,   \* bound on process starts
          MaxSize,     \* maxQueueSize
          BatchSize,   \* batchSize
          Backfill     \* those older than the process, if backfillEnabled

ASSUME QueueAssumption == /\ MaxSaves \in Nat /\ MaxStarts \in Nat
                          /\ MaxSize \in Nat \ {0} /\ BatchSize \in Nat \ {0}
                          /\ Backfill \subseteq Ids

VARIABLES saves,    \* how many saves there were
          latest,   \* the last version saved of each conversation
          file,     \* its local file
          writing,  \* conversations whose local file is being written
          host,     \* the process and its worker
          starts,   \* how often it has started
          open,     \* the SyncQueue instance exists
          items,    \* its items
          dirty,    \* isDirty
          timer,    \* writeTimeout is armed
          disk,     \* sync-queue.json
          batch,    \* what processQueue still has to upload
          remote,   \* the blob store
          todo,     \* conversations backfillTasks has still to look at
          read,     \* what it has read and not enqueued
          closed,   \* the instance that dispose closed while a backfill held it, if any
          late,     \* its writeTimeout is armed
          clock,    \* Date.now(), by number of enqueues
          excused,  \* history variable: conversations whose last version was let go
          stale,    \* history variable: items that a backfill enqueued with an older version,
                    \* or that a process left in the file instead of what replaced them
          stalled   \* history variable: the last write of the queue failed

local == <<saves, latest, file, writing>>
queue == <<open, items, dirty, timer, stalled>>
filling == <<todo, read, closed, late>>
history == <<excused, stale>>
vars == <<local, host, starts, queue, disk, batch, remote, filling, clock, history>>

Versions == 0..MaxSaves
Entries == [id : Ids, data : Versions, at : Nat]

TypeOK == /\ saves \in Versions
          /\ latest \in [Ids -> Versions]
          /\ file \in [Ids -> Versions]
          /\ writing \subseteq Ids
          /\ host \in {"down", "running", "stopping", "stopped"}
          /\ starts \in Nat
          /\ open \in BOOLEAN
          /\ items \subseteq Entries
          /\ dirty \in BOOLEAN
          /\ timer \in BOOLEAN
          /\ disk \subseteq Entries
          /\ batch \subseteq Entries
          /\ remote \in [Ids -> Versions]
          /\ todo \subseteq Ids
          /\ read \subseteq [id : Ids, data : Versions]
          /\ closed \subseteq SUBSET Entries
          /\ late \in BOOLEAN
          /\ clock \in Nat
          /\ excused \subseteq Ids
          /\ stale \subseteq Nat
          /\ stalled \in BOOLEAN

Init == /\ saves = 0
        /\ latest = [c \in Ids |-> 0]
        /\ file = [c \in Ids |-> 0]
        /\ writing = {}
        /\ host = "down" /\ starts = 0
        /\ open = FALSE /\ items = {}
        /\ dirty = FALSE /\ timer = FALSE /\ stalled = FALSE
        /\ disk = {} /\ batch = {}
        /\ remote = [c \in Ids |-> 0]
        /\ todo = {} /\ read = {}
        /\ closed = {} /\ late = FALSE
        /\ clock = 0 /\ excused = {} /\ stale = {}

-----------------------------------------------------------------------------
\* The queue.

Of(Q, c) == {e \in Q : e.id = c}
Without(Q, c) == {e \in Q : e.id # c}
IdsOf(Q) == {e.id : e \in Q}

\* The first n items of Q, sorted from the newest to the oldest.
Newest(Q, n) == {e \in Q : Cardinality({f \in Q : f.at > e.at}) < n}

\* enforceMaxSize evicts the oldest items; the others stay.
Kept(Q) == Newest(Q, MaxSize)

\* getInstance loads the file when there is no instance.
Contents == IF open THEN items ELSE disk

ScheduleWrite == dirty' = TRUE /\ timer' = TRUE /\ stalled' = FALSE

\* Mutant: an item that is queued already stays as it is.
KeepQueued(c, v) == /\ items' = IF c \in IdsOf(Contents) THEN Contents
                                  ELSE Contents \union {[id |-> c, data |-> v, at |-> clock]}
                    /\ open' = TRUE
                    /\ clock' = clock + 1
                    /\ ScheduleWrite

\* A new item takes the place of the old one.
Upsert(Q, c, v) == Without(Q, c) \union {[id |-> c, data |-> v, at |-> clock]}

\* enqueue on the instance that is open, or opened now.
Enqueue(c, v) == /\ items' = Upsert(Contents, c, v)
                 /\ open' = TRUE
                 /\ clock' = clock + 1
                 /\ ScheduleWrite

\* Conversations whose items the file does not show as they are.
Unsaved == {c \in Ids : open /\ Of(items, c) # Of(disk, c)}

\* What the file still holds of them.
Left == {e.at : e \in {e \in disk : e.id \in Unsaved}}

\* flush: a failed write is logged, and nothing tries again before the next change.
Flush(ok) == /\ disk' = IF dirty /\ ok THEN items ELSE disk
             /\ dirty' = (dirty /\ ~ok)
             /\ stalled' = (dirty /\ ~ok)
             /\ timer' = FALSE

TimerFires(ok) == /\ timer
                  /\ Flush(ok)
                  /\ UNCHANGED <<local, host, starts, open, items, batch, remote, filling,
                                 clock, history>>

\* The timer of a closed instance fires: the file gets what that instance holds.
LateFlush(ok) == /\ late /\ late' = FALSE
                 /\ closed' = {}
                 /\ \E Q \in closed : disk' = IF ok THEN Q ELSE disk
                 /\ UNCHANGED <<local, host, starts, queue, batch, remote, todo, read, clock,
                                history>>

-----------------------------------------------------------------------------
\* saveApiConversationHistory: the queue gets the new contents first, then the local
\* file; the task's lock keeps its saves apart.  The worker may have the item in its
\* batch: the upload of the old contents will remove the new item.
Save(c) == /\ host # "down"
           /\ c \notin writing /\ saves < MaxSaves
           /\ saves' = saves + 1
           /\ latest' = [latest EXCEPT ![c] = saves + 1]
           /\ writing' = writing \union {c}
           /\ Enqueue(c, saves + 1)
           /\ excused' = IF c \in IdsOf(batch) THEN excused \union {c} ELSE excused \ {c}
           /\ UNCHANGED <<file, host, starts, disk, batch, remote, filling, stale>>

SaveEnds(c, ok) == /\ c \in writing
                   /\ writing' = writing \ {c}
                   /\ file' = IF ok THEN [file EXCEPT ![c] = latest[c]] ELSE file
                   /\ UNCHANGED <<saves, latest, host, starts, queue, disk, batch, remote,
                                  filling, clock, history>>

\* backfillTask takes the instance, opening it after a dispose, and reads the local file.
BackfillRead(c) == /\ c \in todo /\ read = {}
                   /\ todo' = todo \ {c}
                   /\ read' = {[id |-> c, data |-> file[c]]}
                   /\ open' = TRUE /\ items' = Contents
                   /\ UNCHANGED <<local, host, starts, dirty, timer, stalled, disk, batch,
                                  remote, closed, late, clock, history>>

\* enqueue on an instance that has been closed arms that instance's own timer.
EnqueueClosed(c, v) == /\ \E Q \in closed : closed' = {Upsert(Q, c, v)}
                       /\ late' = TRUE
                       /\ clock' = clock + 1
                       /\ UNCHANGED queue

\* Then it enqueues what it has read: perhaps an older version than the one a save has
\* enqueued, or an empty history.
BackfillEnqueue ==
  \E r \in read :
    /\ read' = {}
    /\ IF closed # {} /\ ~late
         THEN EnqueueClosed(r.id, r.data)
         ELSE Enqueue(r.id, r.data) /\ UNCHANGED <<closed, late>>
    /\ excused' = IF r.data # latest[r.id] \/ r.id \in IdsOf(batch)
                    THEN excused \union {r.id} ELSE excused
    /\ stale' = IF r.data # latest[r.id] THEN stale \union {clock} ELSE stale
    /\ UNCHANGED <<local, host, starts, disk, batch, remote, todo>>

-----------------------------------------------------------------------------
\* The worker.

\* Mutant: one item less than the limit.
StartBatchShort(Q) == /\ items' = Kept(Q)
                      /\ batch' = Newest(Kept(Q), BatchSize - 1)
                      /\ excused' = excused \union IdsOf(Q \ Kept(Q))
                      /\ IF Kept(Q) # Q THEN ScheduleWrite ELSE UNCHANGED <<dirty, timer, stalled>>

\* processQueue up to its first upload, on the items Q.
StartBatch(Q) == /\ items' = Kept(Q)
                 /\ batch' = Newest(Kept(Q), BatchSize)
                 /\ excused' = excused \union IdsOf(Q \ Kept(Q))
                 /\ IF Kept(Q) # Q THEN ScheduleWrite ELSE UNCHANGED <<dirty, timer, stalled>>

\* Mutant: isProcessing is not tested.
TickAgain == /\ host = "running"
             /\ items' = Kept(items)
             /\ batch' = batch \union Newest(Kept(items), BatchSize)
             /\ excused' = excused \union IdsOf(items \ Kept(items))
             /\ IF Kept(items) # items THEN ScheduleWrite ELSE UNCHANGED <<dirty, timer, stalled>>
             /\ UNCHANGED <<local, host, starts, open, disk, remote, filling, clock, stale>>

\* The interval; a batch under way makes the call return.
Tick == /\ host = "running" /\ batch = {}
        /\ StartBatch(items)
        /\ UNCHANGED <<local, host, starts, open, disk, remote, filling, clock, stale>>

\* Mutant: the upload stays first of the batch.
UploadAgain(b, stored) ==
  /\ remote' = IF stored THEN [remote EXCEPT ![b.id] = b.data] ELSE remote
  /\ items' = Without(items, b.id)
  /\ UNCHANGED batch
  /\ excused' = IF stored THEN excused ELSE excused \union {b.id}
  /\ ScheduleWrite

\* store() has resolved, whether the contents are in the blob store or not: markSynced
\* removes the item that is in the queue now.
Uploaded(b, stored) ==
  /\ remote' = IF stored THEN [remote EXCEPT ![b.id] = b.data] ELSE remote
  /\ items' = Without(items, b.id)
  /\ batch' = batch \ {b}
  /\ excused' = IF stored THEN excused ELSE excused \union {b.id}
  /\ ScheduleWrite

\* The batch goes from the newest item to the oldest.
UploadReturns(stored) ==
  /\ \E b \in batch : /\ \A e \in batch : e.at <= b.at
                      /\ Uploaded(b, stored)
  /\ UNCHANGED <<local, host, starts, open, disk, filling, clock, stale>>

-----------------------------------------------------------------------------
\* The process starts: the queue is loaded, start() makes a first call of processQueue
\* and backfillTasks lists the tasks of the history.
Activate == /\ host = "down" /\ starts < MaxStarts
            /\ host' = "running" /\ starts' = starts + 1
            /\ open' = TRUE
            /\ StartBatch(disk)
            /\ todo' = Backfill
            /\ UNCHANGED <<local, disk, remote, read, closed, late, clock, stale>>

\* tearDown calls dispose, which stops the interval and waits for the batch.
BeginDispose == /\ host = "running"
                /\ host' = "stopping"
                /\ UNCHANGED <<local, starts, queue, disk, batch, remote, filling, clock, history>>

\* Then the queue is closed.  What the file does not hold is lost with the instance, but
\* a backfill that is reading still has it.
EndDispose(ok) == /\ host = "stopping" /\ batch = {}
                  /\ host' = "stopped"
                  /\ disk' = IF dirty /\ ok THEN items ELSE disk
                  /\ open' = FALSE /\ items' = {}
                  /\ dirty' = FALSE /\ timer' = FALSE /\ stalled' = FALSE
                  /\ closed' = IF read # {} THEN {items} ELSE {}
                  /\ excused' = IF dirty /\ ~ok THEN excused \union Unsaved ELSE excused
                  /\ stale' = IF dirty /\ ~ok THEN stale \union Left ELSE stale
                  /\ UNCHANGED <<local, starts, batch, remote, todo, read, late, clock>>

\* The process dies, or ends: nothing waits for dispose.  An upload under way may have
\* reached the blob store.
Exit == /\ host # "down"
        /\ host' = "down"
        /\ \/ UNCHANGED remote
           \/ \E b \in batch : /\ \A e \in batch : e.at <= b.at
                               /\ remote' = [remote EXCEPT ![b.id] = b.data]
        /\ excused' = excused \union Unsaved
        /\ stale' = stale \union Left
        /\ open' = FALSE /\ items' = {} /\ batch' = {}
        /\ dirty' = FALSE /\ timer' = FALSE /\ stalled' = FALSE
        /\ writing' = {} /\ todo' = {} /\ read' = {}
        /\ closed' = {} /\ late' = FALSE
        /\ UNCHANGED <<saves, latest, file, starts, disk, clock>>

-----------------------------------------------------------------------------
Backfilling == (\E c \in Ids : BackfillRead(c)) \/ BackfillEnqueue

TimerRuns == \E ok \in BOOLEAN : TimerFires(ok) \/ LateFlush(ok)
DisposeRuns == \E ok \in BOOLEAN : EndDispose(ok)
UploadEnds == \E stored \in BOOLEAN : UploadReturns(stored)

Next == \/ \E c \in Ids : Save(c) \/ \E ok \in BOOLEAN : SaveEnds(c, ok)
        \/ Tick \/ UploadEnds \/ TimerRuns \/ Backfilling
        \/ Activate \/ BeginDispose \/ DisposeRuns \/ Exit

Spec == Init /\ [][Next]_vars

\* Timers fire, and requests and file operations return.  Saves, starts and exits are
\* the user's.
FairSpec == /\ Spec
            /\ WF_vars(Tick) /\ WF_vars(UploadEnds) /\ WF_vars(TimerRuns)
            /\ WF_vars(Backfilling) /\ WF_vars(DisposeRuns)

-----------------------------------------------------------------------------
\* The comment on the class, "Guaranteed delivery", as far as the code goes: the last
\* version of a conversation is in the blob store or in the queue (in its file, while
\* no process has it open), unless it was evicted, its upload failed, it was enqueued
\* while the batch held the conversation, a backfill put an older version over it, or
\* the queue was lost before it was written.  These are all the ways to lose a version.
Accounted ==
  \A c \in Ids \ excused : \/ latest[c] = 0
                           \/ remote[c] = latest[c]
                           \/ \E e \in Contents : e.id = c /\ e.data = latest[c]

\* The file holds the queue but for changes noted as unsaved, and those wait for a timer
\* unless a write failed: no order of changes, writes and uploads forgets a change.  Once
\* the queue has been disposed of the closed instance may write the file too.
UnsavedIsScheduled == open => /\ disk # items /\ host # "stopped" => dirty
                              /\ dirty => timer \/ stalled

\* An upload takes a copy in the blob store back to an older version in two cases only:
\* the item was in the queue's file when a process ended, or failed to write the file at
\* dispose, and what had replaced the item was not (the write was due, failed, or a closed
\* instance had written over it); or a backfill enqueued the item with an older version
\* than the last one.  Both happen: CopiesNeverGoBack.  A save while the older contents are
\* uploaded, a failed upload, an eviction, and a batch under way at the next interval, at
\* dispose or at the exit never take a copy back: worker.ts, processQueue.
RemoteMovesForward ==
  [][\A c \in Ids : remote'[c] < remote[c] =>
        \E b \in batch : b.id = c /\ b.data = remote'[c] /\ b.at \in stale]_vars

\* What a backup is for, that no copy ever goes back to an older version: violated, by an
\* exit within the 100 ms before the queue is written and by a backfill (MCSyncQueueBack).
CopiesNeverGoBack == [][\A c \in Ids : remote'[c] >= remote[c]]_vars

\* While the worker runs the queue empties, whatever fails; with it stopping, dispose ends.
Drains == items # {} /\ host = "running" ~> items = {} \/ host # "running"

DisposeEnds == host = "stopping" ~> host # "stopping"

=============================================================================
