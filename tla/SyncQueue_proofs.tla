--------------------------- MODULE SyncQueue_proofs ---------------------------
(***************************************************************************)
(* Proofs about SyncQueue for any conversations, limits and numbers of     *)
(* saves and starts, with every failed upload, failed write, eviction and  *)
(* exit of the model.                                                      *)
(*                                                                         *)
(* Accounted is not inductive: an item that is not the last version would  *)
(* be uploaded over it.  So whatever the queue and the batch hold of a     *)
(* conversation that is not excused is its last version (QueueIsLatest,    *)
(* BatchIsLatest); nothing anywhere is newer than that (NothingIsNewer);   *)
(* and an instance without unsaved changes agrees with its file            *)
(* (CleanIsSaved), so that closing it or losing it takes nothing back;     *)
(* and a closed instance that a backfill still holds has, until another    *)
(* one is opened, at least what the file has (ClosedIsSaved).              *)
(***************************************************************************)
EXTENDS SyncQueue, TLAPS

QueueIsLatest == \A e \in Contents : e.id \notin excused => e.data = latest[e.id]

BatchIsLatest == \A b \in batch : b.id \notin excused => b.data = latest[b.id]

NothingIsNewer == /\ \A c \in Ids : /\ latest[c] <= saves /\ file[c] <= latest[c]
                                    /\ remote[c] <= latest[c]
                  /\ \A e \in items \union disk \union batch : e.data <= latest[e.id]
                  /\ \A r \in read : r.data <= latest[r.id]
                  /\ \A Q \in closed : \A e \in Q : e.data <= latest[e.id]

CleanIsSaved == /\ open /\ ~dirty /\ host # "stopped" => disk = items
                /\ ~open => items = {} /\ ~dirty
                /\ host \in {"running", "stopping"} => open
                /\ batch # {} => host \in {"running", "stopping"}
                /\ host = "down" => ~open /\ todo = {} /\ read = {}
                /\ closed # {} => host = "stopped"

ClosedIsSaved == ~open => \A Q \in closed :
                   /\ \A f \in Q : f.id \notin excused => f.data = latest[f.id]
                   /\ \A e \in disk : e.id \notin excused => \E f \in Q : f.id = e.id

IInv == /\ TypeOK
        /\ QueueIsLatest
        /\ BatchIsLatest
        /\ NothingIsNewer
        /\ CleanIsSaved
        /\ ClosedIsSaved
        /\ Accounted
        /\ UnsavedIsScheduled

-----------------------------------------------------------------------------
\* Evictions only take items away.
LEMMA NewestIsPart == ASSUME NEW Q, NEW n PROVE Newest(Q, n) \subseteq Q
BY DEF Newest

LEMMA InitIInv == Init => IInv
<1> SUFFICES ASSUME Init PROVE IInv
  OBVIOUS
<1>1. TypeOK
  <2>1. 0 \in Versions
    BY QueueAssumption DEF Versions
  <2>2. /\ saves \in Versions /\ latest \in [Ids -> Versions] /\ file \in [Ids -> Versions]
        /\ remote \in [Ids -> Versions] /\ starts \in Nat /\ clock \in Nat
    BY <2>1 DEF Init
  <2>3. /\ host \in {"down", "running", "stopping", "stopped"}
        /\ open \in BOOLEAN /\ dirty \in BOOLEAN /\ timer \in BOOLEAN /\ stalled \in BOOLEAN
        /\ late \in BOOLEAN
    BY DEF Init
  <2> QED BY <2>2, <2>3 DEF Init, TypeOK
<1>2. QueueIsLatest /\ BatchIsLatest /\ NothingIsNewer /\ CleanIsSaved /\ ClosedIsSaved /\ UnsavedIsScheduled
  BY DEF Init, QueueIsLatest, BatchIsLatest, NothingIsNewer, CleanIsSaved, ClosedIsSaved, UnsavedIsScheduled,
         Contents
<1>3. Accounted
  BY DEF Init, Accounted
<1> QED BY <1>1, <1>2, <1>3 DEF IInv

\* A new item in the place of the old one, in the open instance or in a closed one.
LEMMA UpsertFields ==
  ASSUME TypeOK, NEW Q \in SUBSET Entries, NEW c \in Ids, NEW v \in Versions
  PROVE  /\ Upsert(Q, c, v) \subseteq Entries
         /\ \A e \in Upsert(Q, c, v) : (e \in Q /\ e.id # c) \/ (e.id = c /\ e.data = v /\ e.at = clock)
         /\ \A e \in Q : e.id # c => e \in Upsert(Q, c, v)
         /\ \E e \in Upsert(Q, c, v) : e.id = c /\ e.data = v
         /\ \A e, f \in Upsert(Q, c, v) : e.id = c /\ f.id = c => e = f
<1> DEFINE new == [id |-> c, data |-> v, at |-> clock]
<1>1. Upsert(Q, c, v) = Without(Q, c) \union {new}
  BY DEF Upsert
<1>2. new \in Entries /\ new.id = c /\ new.data = v /\ new.at = clock
  BY DEF TypeOK, Entries
<1> HIDE DEF new
<1> QED BY <1>1, <1>2 DEF Without

LEMMA EnqueueFields ==
  ASSUME TypeOK, NEW c \in Ids, NEW v \in Versions, Enqueue(c, v)
  PROVE  /\ items' \subseteq Entries /\ clock' \in Nat
         /\ open' = TRUE /\ dirty' = TRUE /\ timer' = TRUE /\ stalled' = FALSE
         /\ \A e \in items' : (e \in Contents /\ e.id # c) \/ (e.id = c /\ e.data = v)
         /\ \A e \in Contents : e.id # c => e \in items'
         /\ \E e \in items' : e.id = c /\ e.data = v
<1>1. Contents \in SUBSET Entries /\ clock' \in Nat
  BY DEF TypeOK, Contents, Enqueue
<1>2. items' = Upsert(Contents, c, v)
  BY DEF Enqueue
<1>3. open' = TRUE /\ dirty' = TRUE /\ timer' = TRUE /\ stalled' = FALSE
  BY DEF Enqueue, ScheduleWrite
<1> QED BY <1>1, <1>2, <1>3, UpsertFields

LEMMA SaveKeepsIInv == ASSUME IInv, NEW c \in Ids, Save(c) PROVE IInv'
<1>1. saves + 1 \in Versions /\ saves' = saves + 1 /\ latest' = [latest EXCEPT ![c] = saves + 1]
  BY QueueAssumption DEF IInv, TypeOK, Save, Versions
<1> DEFINE v == saves + 1
<1>2. /\ items' \subseteq Entries /\ clock' \in Nat
      /\ open' = TRUE /\ dirty' = TRUE /\ timer' = TRUE /\ stalled' = FALSE
      /\ \A e \in items' : (e \in Contents /\ e.id # c) \/ (e.id = c /\ e.data = v)
      /\ \A e \in Contents : e.id # c => e \in items'
      /\ \E e \in items' : e.id = c /\ e.data = v
  BY <1>1, EnqueueFields DEF IInv, Save
<1> HIDE DEF v
<1>3. TypeOK'
  <2>1. saves' \in Versions /\ latest' \in [Ids -> Versions] /\ writing' \subseteq Ids /\ excused' \subseteq Ids
    BY <1>1 DEF IInv, TypeOK, Save
  <2>2. UNCHANGED <<file, host, starts, disk, batch, remote, todo, read, closed, late, stale>>
    BY DEF Save, filling
  <2> QED BY <2>1, <2>2, <1>2 DEF IInv, TypeOK
<1>4. /\ latest'[c] = v /\ \A d \in Ids \ {c} : latest'[d] = latest[d]
      /\ \A d \in Ids : latest[d] <= latest'[d]
  BY <1>1 DEF v, IInv, TypeOK, NothingIsNewer, Versions
<1>5. Contents' = items'
  BY <1>2 DEF Contents
<1>6. Contents \subseteq Entries /\ batch \subseteq Entries
  BY DEF IInv, TypeOK, Contents
<1>7. /\ excused' \ {c} = excused \ {c} /\ (c \in IdsOf(batch) => c \in excused')
      /\ UNCHANGED <<file, host, disk, batch, remote, read, closed>>
  BY DEF Save, filling
<1>8. QueueIsLatest'
  BY <1>2, <1>4, <1>5, <1>6, <1>7 DEF IInv, QueueIsLatest, Entries
<1>9. BatchIsLatest'
  BY <1>4, <1>6, <1>7 DEF IInv, BatchIsLatest, Entries, IdsOf
<1>10. NothingIsNewer'
  <2>1. \A d \in Ids : latest'[d] <= saves' /\ file'[d] <= latest'[d] /\ remote'[d] <= latest'[d]
    BY <1>1, <1>4, <1>7 DEF v, IInv, TypeOK, NothingIsNewer, Versions
  <2>2. \A e \in disk' \union batch' : e.data <= latest'[e.id]
    BY <1>4, <1>7, <1>3 DEF IInv, TypeOK, NothingIsNewer, Entries, Versions
  <2>3. \A r \in read' : r.data <= latest'[r.id]
    BY <1>4, <1>7, <1>3 DEF IInv, TypeOK, NothingIsNewer, Versions
  <2>4. \A e \in Contents : e.data <= latest'[e.id]
    BY <1>4, <1>6, <1>3 DEF IInv, TypeOK, NothingIsNewer, Entries, Versions, Contents
  <2>5. \A e \in items' : e.data <= latest'[e.id]
    BY <1>2, <1>4, <2>4, <1>3 DEF TypeOK, Versions
  <2>6. \A Q \in closed' : \A e \in Q : e.data <= latest'[e.id]
    BY <1>4, <1>7, <1>3 DEF IInv, TypeOK, NothingIsNewer, Entries, Versions
  <2> QED BY <2>1, <2>2, <2>3, <2>5, <2>6 DEF NothingIsNewer
<1>11. CleanIsSaved'
  BY <1>2, <1>7 DEF IInv, CleanIsSaved, Save
<1>12. Accounted'
  BY <1>2, <1>4, <1>5, <1>7 DEF IInv, Accounted
<1>13. UnsavedIsScheduled' /\ ClosedIsSaved'
  BY <1>2 DEF UnsavedIsScheduled, ClosedIsSaved
<1> QED BY <1>3, <1>8, <1>9, <1>10, <1>11, <1>12, <1>13 DEF IInv

LEMMA SaveEndsKeepsIInv == ASSUME IInv, NEW c \in Ids, NEW ok \in BOOLEAN, SaveEnds(c, ok) PROVE IInv'
BY DEF IInv, TypeOK, QueueIsLatest, BatchIsLatest, NothingIsNewer, CleanIsSaved, ClosedIsSaved, Accounted,
       UnsavedIsScheduled, Contents, SaveEnds, queue, filling, history, Versions

\* An instance opened for the backfill has what the file has.
LEMMA BackfillReadKeepsIInv == ASSUME IInv, NEW c \in Ids, BackfillRead(c) PROVE IInv'
<1>1. /\ UNCHANGED <<saves, latest, file, writing, host, starts, dirty, timer, stalled, disk, batch, remote,
                     closed, late, clock, excused, stale>>
      /\ c \in todo /\ todo' = todo \ {c} /\ read' = {[id |-> c, data |-> file[c]]}
      /\ open' = TRUE /\ items' = Contents
  BY DEF BackfillRead, local, history
<1>2. Contents' = Contents /\ Contents \subseteq Entries /\ host # "down"
  BY <1>1 DEF Contents, IInv, TypeOK, CleanIsSaved
<1>3. TypeOK'
  BY <1>1, <1>2 DEF IInv, TypeOK
<1>4. QueueIsLatest' /\ BatchIsLatest' /\ Accounted'
  BY <1>1, <1>2 DEF IInv, QueueIsLatest, BatchIsLatest, Accounted
<1>5. NothingIsNewer'
  BY <1>1, <1>2 DEF IInv, TypeOK, NothingIsNewer, Contents
<1>6. CleanIsSaved' /\ ClosedIsSaved' /\ UnsavedIsScheduled'
  BY <1>1, <1>2 DEF IInv, CleanIsSaved, ClosedIsSaved, UnsavedIsScheduled, Contents
<1> QED BY <1>3, <1>4, <1>5, <1>6 DEF IInv

\* What both enqueues of the backfill have in common: an older version is excused.
LEMMA BackfillFields ==
  ASSUME IInv, NEW r \in read,
         excused' = IF r.data # latest[r.id] \/ r.id \in IdsOf(batch) THEN excused \union {r.id} ELSE excused,
         stale' = IF r.data # latest[r.id] THEN stale \union {clock} ELSE stale
  PROVE  /\ r.id \in Ids /\ r.data \in Versions /\ r.data <= latest[r.id]
         /\ excused \subseteq excused' /\ excused' \subseteq Ids
         /\ r.id \notin excused' => r.data = latest[r.id]
         /\ stale \subseteq stale' /\ stale' \subseteq Nat
         /\ clock \notin stale' => r.data = latest[r.id]
BY DEF IInv, TypeOK, NothingIsNewer

\* An older version put over a newer one is excused.
LEMMA BackfillOpenKeepsIInv ==
  ASSUME IInv, NEW r \in read, Enqueue(r.id, r.data), UNCHANGED <<closed, late>>, read' = {},
         excused' = IF r.data # latest[r.id] \/ r.id \in IdsOf(batch) THEN excused \union {r.id} ELSE excused,
         stale' = IF r.data # latest[r.id] THEN stale \union {clock} ELSE stale,
         UNCHANGED <<local, host, starts, disk, batch, remote, todo>>
  PROVE  IInv'
<1> DEFINE c == r.id
           v == r.data
<1>2. c \in Ids /\ v \in Versions /\ v <= latest[c]
  BY BackfillFields
<1>3. /\ items' \subseteq Entries /\ clock' \in Nat
      /\ open' = TRUE /\ dirty' = TRUE /\ timer' = TRUE /\ stalled' = FALSE
      /\ \A e \in items' : (e \in Contents /\ e.id # c) \/ (e.id = c /\ e.data = v)
      /\ \A e \in Contents : e.id # c => e \in items'
      /\ \E e \in items' : e.id = c /\ e.data = v
  BY <1>2, EnqueueFields DEF IInv
<1>4. /\ excused \subseteq excused' /\ excused' \subseteq Ids /\ stale' \subseteq Nat
      /\ c \notin excused' => v = latest[c]
      /\ UNCHANGED <<saves, latest, file, writing, host, starts, disk, batch, remote, todo, closed, late>>
  BY BackfillFields DEF local
<1> HIDE DEF c, v
<1>5. TypeOK'
  BY <1>3, <1>4 DEF IInv, TypeOK
<1>6. Contents' = items' /\ Contents \subseteq Entries
  BY <1>3 DEF Contents, IInv, TypeOK
<1>7. QueueIsLatest'
  BY <1>3, <1>4, <1>6 DEF IInv, QueueIsLatest
<1>8. BatchIsLatest'
  BY <1>4 DEF IInv, BatchIsLatest
<1>9. NothingIsNewer'
  <2>1. \A e \in Contents : e.data <= latest[e.id]
    BY DEF IInv, NothingIsNewer, Contents
  <2>2. \A e \in items' : e.data <= latest[e.id]
    BY <1>2, <1>3, <2>1
  <2> QED BY <1>4, <2>2 DEF IInv, NothingIsNewer
<1>10. host # "down"
  BY DEF IInv, CleanIsSaved
<1>11. CleanIsSaved'
  BY <1>3, <1>4, <1>10 DEF IInv, CleanIsSaved
<1>12. Accounted'
  BY <1>3, <1>4, <1>6 DEF IInv, Accounted
<1>13. UnsavedIsScheduled' /\ ClosedIsSaved'
  BY <1>3 DEF UnsavedIsScheduled, ClosedIsSaved
<1> QED BY <1>5, <1>7, <1>8, <1>9, <1>11, <1>12, <1>13 DEF IInv

LEMMA BackfillClosedKeepsIInv ==
  ASSUME IInv, NEW r \in read, EnqueueClosed(r.id, r.data), read' = {},
         excused' = IF r.data # latest[r.id] \/ r.id \in IdsOf(batch) THEN excused \union {r.id} ELSE excused,
         stale' = IF r.data # latest[r.id] THEN stale \union {clock} ELSE stale,
         UNCHANGED <<local, host, starts, disk, batch, remote, todo>>
  PROVE  IInv'
<1>1. PICK Q \in closed : closed' = {Upsert(Q, r.id, r.data)}
  BY DEF EnqueueClosed
<1> DEFINE c == r.id
           v == r.data
           P == Upsert(Q, c, v)
<1>2. c \in Ids /\ v \in Versions /\ v <= latest[c] /\ Q \in SUBSET Entries
  BY BackfillFields DEF IInv, TypeOK
<1>3. /\ closed' = {P} /\ P \subseteq Entries
      /\ \A e \in P : (e \in Q /\ e.id # c) \/ (e.id = c /\ e.data = v)
      /\ \A e \in Q : e.id # c => e \in P
      /\ \E e \in P : e.id = c /\ e.data = v
  BY <1>1, <1>2, UpsertFields DEF IInv
<1>4. /\ excused \subseteq excused' /\ excused' \subseteq Ids /\ stale' \subseteq Nat
      /\ c \notin excused' => v = latest[c]
      /\ UNCHANGED <<saves, latest, file, writing, host, starts, disk, batch, remote, todo>>
      /\ UNCHANGED <<open, items, dirty, timer, stalled>> /\ late' = TRUE /\ clock' \in Nat
  BY BackfillFields DEF local, queue, EnqueueClosed, IInv, TypeOK
<1> HIDE DEF c, v, P
<1>5. TypeOK'
  BY <1>3, <1>4 DEF IInv, TypeOK
<1>6. Contents' = Contents
  BY <1>4 DEF Contents
<1>7. QueueIsLatest' /\ BatchIsLatest' /\ Accounted'
  BY <1>4, <1>6 DEF IInv, QueueIsLatest, BatchIsLatest, Accounted
<1>8. NothingIsNewer'
  <2>1. \A e \in P : e.data <= latest[e.id]
    BY <1>2, <1>3 DEF IInv, NothingIsNewer
  <2> QED BY <1>3, <1>4, <2>1 DEF IInv, NothingIsNewer
<1>9. CleanIsSaved' /\ UnsavedIsScheduled'
  BY <1>4 DEF IInv, CleanIsSaved, UnsavedIsScheduled
<1>10. ClosedIsSaved'
  BY <1>3, <1>4 DEF IInv, ClosedIsSaved
<1> QED BY <1>5, <1>7, <1>8, <1>9, <1>10 DEF IInv

LEMMA BackfillEnqueueKeepsIInv == ASSUME IInv, BackfillEnqueue PROVE IInv'
BY BackfillOpenKeepsIInv, BackfillClosedKeepsIInv DEF BackfillEnqueue

-----------------------------------------------------------------------------
\* processQueue, from the interval or from start(): what it does not keep is excused.
LEMMA StartBatchKeepsIInv ==
  ASSUME IInv, StartBatch(Contents), batch = {}, open' = TRUE, host \in {"down", "running"},
         host' = "running", starts' \in Nat, todo' \subseteq Ids,
         UNCHANGED <<local, disk, remote, read, closed, late, clock, stale>>
  PROVE  IInv'
<1>1. items' \subseteq Contents /\ batch' \subseteq items' /\ Contents \subseteq Entries
  BY NewestIsPart DEF StartBatch, Kept, IInv, TypeOK, Contents
<1>2. /\ excused \subseteq excused' /\ excused' \subseteq Ids
      /\ \A e \in Contents : e.id \in excused' \/ e \in items'
  BY <1>1 DEF StartBatch, IdsOf, IInv, TypeOK, Entries
<1>3. /\ items' # Contents => dirty' = TRUE /\ timer' = TRUE /\ stalled' = FALSE
      /\ items' = Contents => UNCHANGED <<dirty, timer, stalled>>
  BY DEF StartBatch, ScheduleWrite
<1>4. dirty' \in BOOLEAN /\ timer' \in BOOLEAN /\ stalled' \in BOOLEAN
  BY <1>3 DEF IInv, TypeOK
<1>5. UNCHANGED <<saves, latest, file, writing, disk, remote, read, closed, late, clock, stale>>
  BY DEF local
<1>6. TypeOK'
  BY <1>1, <1>2, <1>4, <1>5 DEF IInv, TypeOK
<1>7. Contents' = items'
  BY DEF Contents
<1>8. QueueIsLatest' /\ BatchIsLatest'
  BY <1>1, <1>2, <1>5, <1>7 DEF IInv, QueueIsLatest, BatchIsLatest
<1>9. NothingIsNewer'
  BY <1>1, <1>5 DEF IInv, NothingIsNewer, Contents
<1>10. items' = Contents => (~dirty' => disk' = items') /\ (dirty' => timer' \/ stalled')
  BY <1>3, <1>5 DEF IInv, CleanIsSaved, UnsavedIsScheduled, Contents
<1>11. CleanIsSaved'
  BY <1>3, <1>5, <1>10 DEF CleanIsSaved, IInv
<1>12. Accounted'
  BY <1>1, <1>2, <1>5, <1>7 DEF IInv, Accounted, Entries
<1>13. UnsavedIsScheduled' /\ ClosedIsSaved'
  BY <1>3, <1>10 DEF UnsavedIsScheduled, ClosedIsSaved
<1> QED BY <1>6, <1>8, <1>9, <1>11, <1>12, <1>13 DEF IInv

LEMMA TickKeepsIInv == ASSUME IInv, Tick PROVE IInv'
<1>1. Contents = items /\ open' = TRUE
  BY DEF Tick, IInv, TypeOK, CleanIsSaved, Contents
<1> QED BY <1>1, StartBatchKeepsIInv DEF Tick, filling, IInv, TypeOK

LEMMA ActivateKeepsIInv == ASSUME IInv, Activate PROVE IInv'
<1>1. Contents = disk /\ batch = {}
  BY DEF Activate, IInv, CleanIsSaved, Contents
<1>2. starts' \in Nat /\ todo' \subseteq Ids
  BY QueueAssumption DEF Activate, IInv, TypeOK
<1> QED BY <1>1, <1>2, StartBatchKeepsIInv DEF Activate

\* What is not excused in the batch is the last version, and the item it removes too.
LEMMA UploadKeepsIInv == ASSUME IInv, NEW stored \in BOOLEAN, UploadReturns(stored) PROVE IInv'
<1>1. PICK b \in batch : Uploaded(b, stored)
  BY DEF UploadReturns
<1>2. UNCHANGED <<saves, latest, file, writing, host, starts, open, disk, todo, read, closed, late, clock, stale>>
  BY DEF UploadReturns, local, filling
<1>3. b \in Entries /\ b.id \in Ids /\ b.data \in Versions /\ b.data <= latest[b.id]
  BY DEF IInv, TypeOK, Entries, NothingIsNewer
<1>4. open = TRUE
  BY <1>1 DEF IInv, TypeOK, CleanIsSaved
<1>5. /\ dirty' = TRUE /\ timer' = TRUE /\ stalled' = FALSE
      /\ items' = {e \in items : e.id # b.id} /\ batch' \subseteq batch
      /\ excused \subseteq excused' /\ excused' \subseteq Ids
      /\ ~stored => b.id \in excused'
  BY <1>1, <1>3 DEF Uploaded, Without, ScheduleWrite, IInv, TypeOK
<1>6. /\ remote' \in [Ids -> Versions]
      /\ \A c \in Ids : remote'[c] = IF c = b.id /\ stored THEN b.data ELSE remote[c]
  BY <1>1, <1>3 DEF Uploaded, IInv, TypeOK
<1>7. TypeOK'
  BY <1>2, <1>5, <1>6 DEF IInv, TypeOK
<1>8. Contents = items /\ Contents' = items'
  BY <1>2, <1>4 DEF Contents
<1>9. QueueIsLatest' /\ BatchIsLatest'
  BY <1>2, <1>5, <1>8 DEF IInv, QueueIsLatest, BatchIsLatest
<1>10. NothingIsNewer'
  BY <1>2, <1>3, <1>5, <1>6 DEF IInv, NothingIsNewer
<1>11. CleanIsSaved'
  BY <1>1, <1>2, <1>4, <1>5 DEF IInv, CleanIsSaved
<1>12. Accounted'
  BY <1>2, <1>3, <1>5, <1>6, <1>8 DEF IInv, Accounted, BatchIsLatest
<1>13. UnsavedIsScheduled' /\ ClosedIsSaved'
  BY <1>2, <1>4, <1>5 DEF UnsavedIsScheduled, ClosedIsSaved
<1> QED BY <1>7, <1>9, <1>10, <1>11, <1>12, <1>13 DEF IInv

-----------------------------------------------------------------------------
LEMMA TimerKeepsIInv == ASSUME IInv, NEW ok \in BOOLEAN, TimerFires(ok) PROVE IInv'
<1>1. /\ UNCHANGED <<saves, latest, file, writing, host, starts, open, items, batch, remote, todo, read,
                     closed, late, clock, excused, stale>>
      /\ disk' = (IF dirty /\ ok THEN items ELSE disk) /\ timer' = FALSE
      /\ dirty' = (dirty /\ ~ok) /\ stalled' = (dirty /\ ~ok)
  BY DEF TimerFires, Flush, local, filling, history
<1>2. TypeOK'
  BY <1>1 DEF IInv, TypeOK
<1>3. Contents' = Contents
  BY <1>1 DEF IInv, CleanIsSaved, Contents
<1>4. QueueIsLatest' /\ BatchIsLatest' /\ Accounted'
  BY <1>1, <1>3 DEF IInv, QueueIsLatest, BatchIsLatest, Accounted
<1>5. NothingIsNewer'
  BY <1>1 DEF IInv, NothingIsNewer
<1>6. CleanIsSaved' /\ ClosedIsSaved' /\ UnsavedIsScheduled'
  BY <1>1 DEF IInv, CleanIsSaved, ClosedIsSaved, UnsavedIsScheduled
<1> QED BY <1>2, <1>4, <1>5, <1>6 DEF IInv

\* While no other instance is open, the closed one takes nothing from the file that counts.
LEMMA LateFlushKeepsIInv == ASSUME IInv, NEW ok \in BOOLEAN, LateFlush(ok) PROVE IInv'
<1>1. /\ UNCHANGED <<saves, latest, file, writing, host, starts, open, items, dirty, timer, stalled, batch, remote,
                     todo, read, clock, excused, stale>>
      /\ closed' = {} /\ late' = FALSE
  BY DEF LateFlush, local, queue, history
<1>2. PICK Q \in closed : disk' = IF ok THEN Q ELSE disk
  BY DEF LateFlush
<1>3. disk' \subseteq Entries /\ host = "stopped" /\ batch = {}
  BY <1>2 DEF IInv, TypeOK, CleanIsSaved
<1>4. TypeOK'
  BY <1>1, <1>3 DEF IInv, TypeOK
<1>5. BatchIsLatest' /\ CleanIsSaved' /\ ClosedIsSaved' /\ UnsavedIsScheduled'
  BY <1>1, <1>3 DEF IInv, BatchIsLatest, CleanIsSaved, ClosedIsSaved, UnsavedIsScheduled
<1>6. NothingIsNewer'
  BY <1>1, <1>2 DEF IInv, NothingIsNewer
<1>7. QueueIsLatest' /\ Accounted'
  <2>1. CASE open
    BY <1>1, <2>1 DEF IInv, QueueIsLatest, Accounted, Contents
  <2>2. CASE ~open
    <3>1. Contents = disk /\ Contents' = disk'
      BY <1>1, <2>2 DEF Contents
    <3> QED BY <1>1, <1>2, <2>2, <3>1 DEF IInv, QueueIsLatest, Accounted, ClosedIsSaved
  <2> QED BY <2>1, <2>2 DEF IInv, TypeOK
<1> QED BY <1>4, <1>5, <1>6, <1>7 DEF IInv

LEMMA BeginDisposeKeepsIInv == ASSUME IInv, BeginDispose PROVE IInv'
BY DEF IInv, TypeOK, QueueIsLatest, BatchIsLatest, NothingIsNewer, CleanIsSaved, ClosedIsSaved, Accounted,
       UnsavedIsScheduled, Contents, BeginDispose, queue, local, filling, history

\* A conversation whose item is not in the file as it is in the queue is excused when the
\* queue is lost; any other item is in both.
LEMMA LostQueue ==
  ASSUME IInv, open' = FALSE, disk' = disk, UNCHANGED latest, excused \subseteq excused', open => Unsaved \subseteq excused'
  PROVE  /\ QueueIsLatest'
         /\ \A c \in Ids \ excused' : \A e \in Contents : e.id = c => e \in Contents'
<1>1. Contents' = disk
  BY DEF Contents
<1>2. disk \subseteq Entries /\ items \subseteq Entries
  BY DEF IInv, TypeOK
<1>3. ASSUME NEW c \in Ids \ excused', open PROVE Of(items, c) = Of(disk, c)
  BY <1>3 DEF Unsaved
<1>4. \A c \in Ids \ excused', e \in Entries : e.id = c => (e \in Contents <=> e \in disk)
  BY <1>3 DEF Of, Contents
<1> QED BY <1>1, <1>2, <1>4 DEF IInv, QueueIsLatest, Entries, Contents

LEMMA LeftFields ==
  ASSUME TypeOK
  PROVE  Left \subseteq Nat /\ \A e \in disk : e.id \in Unsaved => e.at \in Left
<1>1. \A e \in disk : e.at \in Nat
  BY DEF TypeOK, Entries
<1> QED BY <1>1 DEF Left

LEMMA EndDisposeKeepsIInv == ASSUME IInv, NEW ok \in BOOLEAN, EndDispose(ok) PROVE IInv'
<1>1. /\ UNCHANGED <<saves, latest, file, writing, starts, batch, remote, todo, read, late, clock>>
      /\ closed' = (IF read # {} THEN {items} ELSE {})
      /\ host = "stopping" /\ host' = "stopped" /\ batch = {}
      /\ disk' = (IF dirty /\ ok THEN items ELSE disk)
      /\ open' = FALSE /\ items' = {} /\ dirty' = FALSE /\ timer' = FALSE /\ stalled' = FALSE
      /\ excused' = IF dirty /\ ~ok THEN excused \union Unsaved ELSE excused
  BY DEF EndDispose, local
<1>2. excused \subseteq excused' /\ excused' \subseteq Ids /\ stale' \subseteq Nat
  BY <1>1, LeftFields DEF EndDispose, IInv, TypeOK, Unsaved
<1>3. TypeOK'
  BY <1>1, <1>2 DEF IInv, TypeOK
<1>4. open
  BY <1>1 DEF IInv, CleanIsSaved
<1>5. /\ QueueIsLatest'
      /\ \A c \in Ids \ excused' : \A e \in Contents : e.id = c => e \in Contents'
  <2>1. CASE dirty /\ ~ok
    BY <1>1, <1>2, <2>1, LostQueue
  <2>2. CASE ~(dirty /\ ~ok)
    <3>1. disk' = items
      BY <1>1, <1>4, <2>2 DEF IInv, CleanIsSaved
    <3> QED BY <1>1, <1>2, <1>4, <3>1 DEF IInv, QueueIsLatest, Contents
  <2> QED BY <2>1, <2>2
<1>6. BatchIsLatest' /\ CleanIsSaved' /\ UnsavedIsScheduled'
  BY <1>1 DEF BatchIsLatest, CleanIsSaved, UnsavedIsScheduled
<1>7. NothingIsNewer'
  BY <1>1 DEF IInv, NothingIsNewer
<1>8. Accounted'
  BY <1>1, <1>2, <1>5 DEF IInv, Accounted
<1>9. ClosedIsSaved'
  <2> SUFFICES ASSUME NEW Q \in closed'
               PROVE  /\ \A f \in Q : f.id \notin excused' => f.data = latest'[f.id]
                      /\ \A e \in disk' : e.id \notin excused' => \E f \in Q : f.id = e.id
    BY DEF ClosedIsSaved
  <2>1. Q = items /\ Contents = items
    BY <1>1, <1>4 DEF Contents
  <2>2. ASSUME NEW e \in disk', e.id \notin excused' PROVE e \in items
    <3>1. CASE dirty /\ ok
      BY <1>1, <2>2, <3>1
    <3>2. CASE dirty /\ ~ok
      <4>1. disk' = disk /\ e.id \in Ids /\ e.id \notin Unsaved
        BY <1>1, <2>2, <3>2 DEF IInv, TypeOK, Entries
      <4>2. Of(items, e.id) = Of(disk, e.id)
        BY <1>4, <4>1 DEF Unsaved
      <4>3. e \in disk
        BY <2>2, <4>1
      <4>4. e \in Of(disk, e.id)
        BY <4>3 DEF Of
      <4> QED BY <4>2, <4>4 DEF Of
    <3>3. CASE ~dirty
      BY <1>1, <1>4, <2>2, <3>3 DEF IInv, CleanIsSaved
    <3> QED BY <3>1, <3>2, <3>3 DEF IInv, TypeOK
  <2> QED BY <1>1, <1>2, <2>1, <2>2 DEF IInv, QueueIsLatest
<1> QED BY <1>3, <1>5, <1>6, <1>7, <1>8, <1>9 DEF IInv

LEMMA ExitKeepsIInv == ASSUME IInv, Exit PROVE IInv'
<1>1. /\ UNCHANGED <<saves, latest, file, starts, disk, clock>>
      /\ host' = "down" /\ writing' = {} /\ todo' = {} /\ read' = {} /\ batch' = {}
      /\ open' = FALSE /\ items' = {} /\ dirty' = FALSE /\ timer' = FALSE /\ stalled' = FALSE
      /\ excused' = excused \union Unsaved /\ closed' = {} /\ late' = FALSE
  BY DEF Exit
<1>2. /\ remote' \in [Ids -> Versions]
      /\ \A c \in Ids : \/ remote'[c] = remote[c]
                        \/ \E b \in batch : b.id = c /\ remote'[c] = b.data
  BY DEF Exit, IInv, TypeOK, Entries
<1>3. excused \subseteq excused' /\ excused' \subseteq Ids /\ stale' \subseteq Nat
  BY <1>1, LeftFields DEF Exit, IInv, TypeOK, Unsaved
<1>4. TypeOK'
  BY <1>1, <1>2, <1>3 DEF IInv, TypeOK
<1>5. /\ QueueIsLatest'
      /\ \A c \in Ids \ excused' : \A e \in Contents : e.id = c => e \in Contents'
  BY <1>1, <1>3, LostQueue
<1>6. BatchIsLatest' /\ CleanIsSaved' /\ ClosedIsSaved' /\ UnsavedIsScheduled'
  BY <1>1 DEF BatchIsLatest, CleanIsSaved, ClosedIsSaved, UnsavedIsScheduled
<1>7. NothingIsNewer'
  BY <1>1, <1>2 DEF IInv, NothingIsNewer
<1>8. Accounted'
  BY <1>1, <1>2, <1>3, <1>5 DEF IInv, Accounted, BatchIsLatest
<1> QED BY <1>4, <1>5, <1>6, <1>7, <1>8 DEF IInv

-----------------------------------------------------------------------------
LEMMA StepKeepsIInv == IInv /\ [Next]_vars => IInv'
<1> SUFFICES ASSUME IInv, [Next]_vars PROVE IInv'
  OBVIOUS
<1>1. ASSUME NEW c \in Ids, Save(c) PROVE IInv'
  BY <1>1, SaveKeepsIInv
<1>2. ASSUME NEW c \in Ids, NEW ok \in BOOLEAN, SaveEnds(c, ok) PROVE IInv'
  BY <1>2, SaveEndsKeepsIInv
<1>3. CASE Tick
  BY <1>3, TickKeepsIInv
<1>4. CASE UploadEnds
  BY <1>4, UploadKeepsIInv DEF UploadEnds
<1>5. CASE TimerRuns
  BY <1>5, TimerKeepsIInv, LateFlushKeepsIInv DEF TimerRuns
<1>6. CASE Backfilling
  BY <1>6, BackfillReadKeepsIInv, BackfillEnqueueKeepsIInv DEF Backfilling
<1>7. CASE Activate
  BY <1>7, ActivateKeepsIInv
<1>8. CASE BeginDispose
  BY <1>8, BeginDisposeKeepsIInv
<1>9. CASE DisposeRuns
  BY <1>9, EndDisposeKeepsIInv DEF DisposeRuns
<1>10. CASE Exit
  BY <1>10, ExitKeepsIInv
<1>11. CASE UNCHANGED vars
  BY <1>11 DEF IInv, TypeOK, QueueIsLatest, BatchIsLatest, NothingIsNewer, CleanIsSaved, ClosedIsSaved,
       Accounted, UnsavedIsScheduled, Contents, vars, local, queue, filling, history
<1> QED BY <1>1, <1>2, <1>3, <1>4, <1>5, <1>6, <1>7, <1>8, <1>9, <1>10, <1>11 DEF Next

LEMMA IInvHolds == Spec => []IInv
BY InitIInv, StepKeepsIInv, PTL DEF Spec

\* The state of queue, worker and backfill stays well typed: queue.ts, worker.ts.
THEOREM TypeCorrect == Spec => []TypeOK
<1>1. IInv => TypeOK
  BY DEF IInv
<1> QED BY <1>1, IInvHolds, PTL

\* The last version of every conversation is in the blob store or queued, for any limits
\* and any number of failures, unless it was let go in one of the named ways (queue.ts).
THEOREM VersionsAreAccountedFor == Spec => []Accounted
<1>1. IInv => Accounted
  BY DEF IInv
<1> QED BY <1>1, IInvHolds, PTL

\* A change of the queue waits for its write or for the next change (queue.ts).
THEOREM UnsavedStaysScheduled == Spec => []UnsavedIsScheduled
<1>1. IInv => UnsavedIsScheduled
  BY DEF IInv
<1> QED BY <1>1, IInvHolds, PTL

\* Only a step that uploads changes the blob store, with an item of the batch.
LEMMA RemoteChanges ==
  ASSUME IInv, [Next]_vars, NEW c \in Ids
  PROVE  remote'[c] = remote[c] \/ \E b \in batch : b.id = c /\ remote'[c] = b.data
<1>1. CASE UploadEnds
  <2>1. PICK stored \in BOOLEAN : \E b \in batch : Uploaded(b, stored)
    BY <1>1 DEF UploadEnds, UploadReturns
  <2>2. PICK b \in batch : Uploaded(b, stored)
    BY <2>1
  <2> QED BY <2>2 DEF Uploaded, IInv, TypeOK
<1>2. CASE Exit
  BY <1>2 DEF Exit, IInv, TypeOK
<1>3. CASE ~UploadEnds /\ ~Exit
  BY <1>3 DEF Next, Save, SaveEnds, Tick, TimerRuns, TimerFires, LateFlush, Backfilling, BackfillRead, BackfillEnqueue,
       Activate, BeginDispose, DisposeRuns, EndDispose, vars
<1> QED BY <1>1, <1>2, <1>3

-----------------------------------------------------------------------------
(***************************************************************************)
(* Copies that go back.  An item is stale, or not older than the copy in   *)
(* the blob store and than the batch's item of the same conversation; and  *)
(* no place has two items of a conversation, so that the items a process   *)
(* leaves behind are told apart from those it had in memory.               *)
(***************************************************************************)
Single(Q) == \A e, f \in Q : e.id = f.id => e = f

OneEach == /\ Single(items) /\ Single(disk) /\ Single(batch)
           /\ \A Q \in closed : Single(Q)

Fresh(e) == e.at \in stale \/ remote[e.id] <= e.data

AllFresh == /\ \A e \in Contents \union batch : Fresh(e)
            /\ \A Q \in closed : \A e \in Q : Fresh(e)
            /\ \A b \in batch, e \in Contents : e.id = b.id => e.at \in stale \/ b.data <= e.data

CInv == OneEach /\ AllFresh

LEMMA InitCInv == Init => CInv
BY DEF Init, CInv, OneEach, AllFresh, Single, Contents

\* A new item is the last version of its conversation, or stale.
LEMMA EnqueueKeepsCInv ==
  ASSUME IInv, CInv, NEW c \in Ids, NEW v \in Versions, Enqueue(c, v), stale \subseteq stale',
         clock \in stale' \/ v = latest'[c], latest'[c] \in Nat, latest[c] <= latest'[c],
         UNCHANGED <<disk, batch, remote, closed>>
  PROVE  CInv'
<1>1. Contents \in SUBSET Entries /\ open' = TRUE /\ items' = Upsert(Contents, c, v)
  BY DEF IInv, TypeOK, Contents, Enqueue
<1>2. /\ \A e \in items' : (e \in Contents /\ e.id # c) \/ (e.id = c /\ e.data = v /\ e.at = clock)
      /\ \A e, f \in items' : e.id = c /\ f.id = c => e = f
  BY <1>1, UpsertFields DEF IInv
<1>3. Contents' = items'
  BY <1>1 DEF Contents
<1>4. Single(Contents)
  BY DEF CInv, OneEach, Contents
<1>5. OneEach'
  BY <1>2, <1>4 DEF CInv, OneEach, Single
<1>6. /\ latest[c] \in Nat /\ remote[c] \in Nat /\ remote[c] <= latest[c]
      /\ \A b \in batch : b.id = c => b.data \in Nat /\ b.data <= latest[c]
  BY QueueAssumption DEF IInv, TypeOK, NothingIsNewer, Versions, Entries
<1>7. clock \in stale' \/ (remote[c] <= v /\ \A b \in batch : b.id = c => b.data <= v)
  BY <1>6
<1>8. \A e \in items' \union batch' : Fresh(e)'
  BY <1>2, <1>7 DEF CInv, AllFresh, Fresh
<1>9. \A Q \in closed' : \A e \in Q : Fresh(e)'
  BY DEF CInv, AllFresh, Fresh
<1>10. \A b \in batch', e \in items' : e.id = b.id => e.at \in stale' \/ b.data <= e.data
  BY <1>2, <1>7 DEF CInv, AllFresh
<1> QED BY <1>3, <1>5, <1>8, <1>9, <1>10 DEF CInv, AllFresh

LEMMA SaveKeepsCInv == ASSUME IInv, CInv, NEW c \in Ids, Save(c) PROVE CInv'
<1>1. saves + 1 \in Versions /\ latest' = [latest EXCEPT ![c] = saves + 1]
  BY QueueAssumption DEF IInv, TypeOK, Save, Versions
<1>2. latest'[c] = saves + 1 /\ latest'[c] \in Nat /\ latest[c] <= latest'[c]
  BY <1>1, QueueAssumption DEF IInv, TypeOK, NothingIsNewer, Versions
<1>3. Enqueue(c, saves + 1) /\ UNCHANGED <<disk, batch, remote, closed, stale>>
  BY DEF Save, filling
<1> QED BY <1>1, <1>2, <1>3, EnqueueKeepsCInv

LEMMA BackfillEnqueueKeepsCInv == ASSUME IInv, CInv, BackfillEnqueue PROVE CInv'
<1>1. PICK r \in read :
        /\ IF closed # {} /\ ~late
             THEN EnqueueClosed(r.id, r.data)
             ELSE Enqueue(r.id, r.data) /\ UNCHANGED <<closed, late>>
        /\ excused' = IF r.data # latest[r.id] \/ r.id \in IdsOf(batch) THEN excused \union {r.id} ELSE excused
        /\ stale' = IF r.data # latest[r.id] THEN stale \union {clock} ELSE stale
        /\ UNCHANGED <<local, host, starts, disk, batch, remote, todo>>
  BY DEF BackfillEnqueue
<1>2. /\ r.id \in Ids /\ r.data \in Versions
      /\ stale \subseteq stale' /\ (clock \in stale' \/ r.data = latest[r.id])
      /\ UNCHANGED <<latest, disk, batch, remote>>
  BY <1>1, BackfillFields DEF local
<1>3. latest[r.id] \in Nat /\ remote[r.id] <= latest[r.id]
  BY <1>2, QueueAssumption DEF IInv, TypeOK, NothingIsNewer, Versions
<1>4. CASE ~(closed # {} /\ ~late)
  <2>1. Enqueue(r.id, r.data) /\ UNCHANGED <<closed, late>>
    BY <1>1, <1>4
  <2>2. latest'[r.id] = latest[r.id] /\ latest[r.id] <= latest'[r.id]
    BY <1>2, <1>3
  <2> QED BY <1>2, <1>3, <2>1, <2>2, EnqueueKeepsCInv
<1>5. CASE closed # {} /\ ~late
  <2>1. EnqueueClosed(r.id, r.data)
    BY <1>1, <1>5
  <2>2. PICK Q \in closed : closed' = {Upsert(Q, r.id, r.data)}
    BY <2>1 DEF EnqueueClosed
  <2> DEFINE P == Upsert(Q, r.id, r.data)
  <2>3. Q \in SUBSET Entries
    BY DEF IInv, TypeOK
  <2>4. /\ \A e \in P : (e \in Q /\ e.id # r.id) \/ (e.id = r.id /\ e.data = r.data /\ e.at = clock)
        /\ \A e, f \in P : e.id = r.id /\ f.id = r.id => e = f
    BY <1>2, <2>3, UpsertFields DEF IInv
  <2>5. closed' = {P} /\ UNCHANGED <<open, items>>
    BY <2>1, <2>2 DEF EnqueueClosed, queue
  <2> HIDE DEF P
  <2>6. Single(P)
    BY <2>4 DEF CInv, OneEach, Single
  <2>7. OneEach'
    BY <1>2, <2>5, <2>6 DEF CInv, OneEach, Single
  <2>8. Contents' = Contents
    BY <1>2, <2>5 DEF Contents
  <2>9. \A e \in P : Fresh(e)'
    BY <1>2, <1>3, <2>4 DEF CInv, AllFresh, Fresh
  <2> QED BY <1>2, <2>5, <2>7, <2>8, <2>9 DEF CInv, AllFresh, Fresh
<1> QED BY <1>4, <1>5

LEMMA BackfillReadKeepsCInv == ASSUME IInv, CInv, NEW c \in Ids, BackfillRead(c) PROVE CInv'
<1>1. items' = Contents /\ open' = TRUE /\ UNCHANGED <<disk, batch, remote, closed, stale>>
  BY DEF BackfillRead, history
<1>2. Contents' = Contents
  BY <1>1 DEF Contents
<1>3. OneEach'
  BY <1>1 DEF CInv, OneEach, Single, Contents
<1> QED BY <1>1, <1>2, <1>3 DEF CInv, AllFresh, Fresh

\* The batch is taken from the queue, and both from what the queue had.
LEMMA StartBatchKeepsCInv ==
  ASSUME IInv, CInv, StartBatch(Contents), batch = {}, open' = TRUE, UNCHANGED <<disk, remote, closed, stale>>
  PROVE  CInv'
<1>1. items' \subseteq Contents /\ batch' \subseteq items' /\ Contents \subseteq Entries
  BY NewestIsPart DEF StartBatch, Kept, IInv, TypeOK, Contents
<1>2. Single(Contents) /\ Contents' = items'
  BY DEF CInv, OneEach, Contents
<1>3. OneEach'
  BY <1>1, <1>2 DEF CInv, OneEach, Single
<1>4. \A b \in batch', e \in items' : e.id = b.id => b.data <= e.data
  <2> SUFFICES ASSUME NEW b \in batch', NEW e \in items', e.id = b.id PROVE b.data <= e.data
    OBVIOUS
  <2>1. b \in Contents /\ e \in Contents
    BY <1>1
  <2>2. b = e
    BY <1>2, <2>1 DEF Single
  <2>3. e.data \in Nat
    BY <1>1, <2>1, QueueAssumption DEF Entries, Versions
  <2> QED BY <2>2, <2>3
<1> QED BY <1>1, <1>2, <1>3, <1>4 DEF CInv, AllFresh, Fresh

\* The uploaded item is the only one of its conversation in the batch, and the queue's
\* item of that conversation is removed.
LEMMA UploadKeepsCInv == ASSUME IInv, CInv, NEW stored \in BOOLEAN, UploadReturns(stored) PROVE CInv'
<1>1. PICK b \in batch : Uploaded(b, stored)
  BY DEF UploadReturns
<1>2. UNCHANGED <<open, disk, closed, stale>>
  BY DEF UploadReturns, filling
<1>3. open = TRUE /\ closed = {}
  BY <1>1 DEF IInv, TypeOK, CleanIsSaved
<1>4. items' = {e \in items : e.id # b.id} /\ batch' = batch \ {b} /\ items \subseteq Entries /\ batch \subseteq Entries
  BY <1>1 DEF Uploaded, Without, IInv, TypeOK
<1>5. \A c \in Ids : c # b.id => remote'[c] = remote[c]
  BY <1>1 DEF Uploaded, IInv, TypeOK
<1>6. Contents = items /\ Contents' = items'
  BY <1>2, <1>3 DEF Contents
<1>7. \A e \in batch' : e.id # b.id
  BY <1>4 DEF CInv, OneEach, Single
<1>8. \A e \in items' \union batch' : Fresh(e)'
  <2> SUFFICES ASSUME NEW e \in items' \union batch' PROVE Fresh(e)'
    OBVIOUS
  <2>1. e \in items \union batch /\ e.id \in Ids /\ e.id # b.id
    BY <1>4, <1>7 DEF Entries
  <2>2. remote'[e.id] = remote[e.id]
    BY <1>5, <2>1
  <2> QED BY <1>2, <1>6, <2>1, <2>2 DEF CInv, AllFresh, Fresh
<1>9. OneEach'
  BY <1>2, <1>4 DEF CInv, OneEach, Single
<1> QED BY <1>2, <1>3, <1>4, <1>6, <1>8, <1>9 DEF CInv, AllFresh

LEMMA TimerKeepsCInv == ASSUME IInv, CInv, NEW ok \in BOOLEAN, TimerFires(ok) PROVE CInv'
<1>1. /\ UNCHANGED <<open, items, batch, remote, closed, stale>>
      /\ disk' = IF dirty /\ ok THEN items ELSE disk
  BY DEF TimerFires, Flush, filling, history
<1>2. Contents' = Contents
  BY <1>1 DEF IInv, CleanIsSaved, Contents
<1>3. OneEach'
  BY <1>1 DEF CInv, OneEach, Single
<1> QED BY <1>1, <1>2, <1>3 DEF CInv, AllFresh, Fresh

LEMMA LateFlushKeepsCInv == ASSUME IInv, CInv, NEW ok \in BOOLEAN, LateFlush(ok) PROVE CInv'
<1>1. UNCHANGED <<open, items, batch, remote, stale>> /\ closed' = {}
  BY DEF LateFlush, queue, history
<1>2. PICK Q \in closed : disk' = IF ok THEN Q ELSE disk
  BY DEF LateFlush
<1>3. OneEach'
  BY <1>1, <1>2 DEF CInv, OneEach, Single
<1>4. Contents' = Contents \/ Contents' = Q
  BY <1>1, <1>2 DEF Contents
<1>5. batch = {}
  BY <1>2 DEF IInv, CleanIsSaved
<1> QED BY <1>1, <1>3, <1>4, <1>5 DEF CInv, AllFresh, Fresh

\* What a process leaves in the file is in its queue, too, or stale from now on.
LEMMA LeftBehind ==
  ASSUME IInv, CInv, open, stale \union Left \subseteq stale'
  PROVE  \A e \in disk : e \in items \/ e.at \in stale'
<1> SUFFICES ASSUME NEW e \in disk, e.at \notin stale' PROVE e \in items
  OBVIOUS
<1>1. e.id \in Ids /\ e.id \notin Unsaved
  BY LeftFields DEF IInv, TypeOK, Entries
<1>2. Of(items, e.id) = Of(disk, e.id)
  BY <1>1 DEF Unsaved
<1>3. e \in Of(disk, e.id)
  BY DEF Of
<1> QED BY <1>2, <1>3 DEF Of

LEMMA EndDisposeKeepsCInv == ASSUME IInv, CInv, NEW ok \in BOOLEAN, EndDispose(ok) PROVE CInv'
<1>1. /\ UNCHANGED <<batch, remote>> /\ host = "stopping" /\ batch = {}
      /\ disk' = (IF dirty /\ ok THEN items ELSE disk)
      /\ open' = FALSE /\ items' = {}
      /\ closed' = (IF read # {} THEN {items} ELSE {})
      /\ stale' = IF dirty /\ ~ok THEN stale \union Left ELSE stale
  BY DEF EndDispose
<1>2. open /\ Contents = items /\ Contents' = disk'
  BY <1>1 DEF IInv, CleanIsSaved, Contents
<1>3. OneEach'
  BY <1>1 DEF CInv, OneEach, Single
<1>4. \A e \in disk' : e \in items \/ e.at \in stale'
  <2>1. CASE dirty /\ ~ok
    BY <1>1, <1>2, <2>1, LeftBehind
  <2>2. CASE ~(dirty /\ ~ok)
    BY <1>1, <1>2, <2>2 DEF IInv, CleanIsSaved
  <2> QED BY <2>1, <2>2
<1>5. stale \subseteq stale'
  BY <1>1
<1>6. \A e \in items : Fresh(e)'
  BY <1>1, <1>2, <1>5 DEF CInv, AllFresh, Fresh
<1>7. \A e \in disk' : Fresh(e)'
  BY <1>4, <1>6 DEF Fresh
<1> QED BY <1>1, <1>2, <1>3, <1>6, <1>7 DEF CInv, AllFresh

\* The upload under way may have reached the blob store: the queue's item is not older.
LEMMA ExitKeepsCInv == ASSUME IInv, CInv, Exit PROVE CInv'
<1>1. /\ UNCHANGED disk /\ open' = FALSE /\ items' = {} /\ batch' = {} /\ closed' = {}
      /\ stale' = stale \union Left
  BY DEF Exit
<1>2. \A c \in Ids : \/ remote'[c] = remote[c]
                     \/ \E b \in batch : b.id = c /\ remote'[c] = b.data
  BY DEF Exit, IInv, TypeOK, Entries
<1>3. Contents' = disk /\ disk \subseteq Entries
  BY <1>1 DEF Contents, IInv, TypeOK
<1>4. OneEach'
  BY <1>1 DEF CInv, OneEach, Single
<1>5. \A e \in disk : e \in Contents \/ e.at \in stale'
  <2>1. CASE open
    BY <1>1, <2>1, LeftBehind DEF Contents
  <2>2. CASE ~open
    BY <2>2 DEF Contents
  <2> QED BY <2>1, <2>2 DEF IInv, TypeOK
<1>6. \A e \in disk : Fresh(e)'
  <2> SUFFICES ASSUME NEW e \in disk, e.at \notin stale' PROVE remote'[e.id] <= e.data
    BY DEF Fresh
  <2>1. e \in Contents /\ e.id \in Ids /\ e.at \notin stale
    BY <1>1, <1>3, <1>5 DEF Entries
  <2>2. CASE remote'[e.id] = remote[e.id]
    BY <2>1, <2>2 DEF CInv, AllFresh, Fresh
  <2>3. CASE \E b \in batch : b.id = e.id /\ remote'[e.id] = b.data
    BY <2>1, <2>3 DEF CInv, AllFresh
  <2> QED BY <1>2, <2>1, <2>2, <2>3
<1> QED BY <1>1, <1>3, <1>4, <1>6 DEF CInv, AllFresh

LEMMA StepKeepsCInv == IInv /\ CInv /\ [Next]_vars => CInv'
<1> SUFFICES ASSUME IInv, CInv, [Next]_vars PROVE CInv'
  OBVIOUS
<1>1. ASSUME NEW c \in Ids, Save(c) PROVE CInv'
  BY <1>1, SaveKeepsCInv
<1>2. ASSUME NEW c \in Ids, NEW ok \in BOOLEAN, SaveEnds(c, ok) PROVE CInv'
  BY <1>2 DEF SaveEnds, queue, filling, history, CInv, OneEach, AllFresh, Fresh, Single, Contents
<1>3. CASE Tick
  <2>1. Contents = items /\ open' = TRUE /\ batch = {} /\ StartBatch(items)
    BY <1>3 DEF Tick, IInv, TypeOK, CleanIsSaved, Contents
  <2>2. UNCHANGED <<disk, remote, closed, stale>>
    BY <1>3 DEF Tick, filling
  <2> QED BY <2>1, <2>2, StartBatchKeepsCInv
<1>4. CASE UploadEnds
  BY <1>4, UploadKeepsCInv DEF UploadEnds
<1>5. CASE TimerRuns
  BY <1>5, TimerKeepsCInv, LateFlushKeepsCInv DEF TimerRuns
<1>6. CASE Backfilling
  BY <1>6, BackfillReadKeepsCInv, BackfillEnqueueKeepsCInv DEF Backfilling
<1>7. CASE Activate
  <2>1. Contents = disk /\ batch = {} /\ open' = TRUE /\ StartBatch(disk)
    BY <1>7 DEF Activate, IInv, CleanIsSaved, Contents
  <2>2. UNCHANGED <<disk, remote, closed, stale>>
    BY <1>7 DEF Activate
  <2> QED BY <2>1, <2>2, StartBatchKeepsCInv
<1>8. CASE BeginDispose
  BY <1>8 DEF BeginDispose, queue, filling, history, CInv, OneEach, AllFresh, Fresh, Single, Contents
<1>9. CASE DisposeRuns
  BY <1>9, EndDisposeKeepsCInv DEF DisposeRuns
<1>10. CASE Exit
  BY <1>10, ExitKeepsCInv
<1>11. CASE UNCHANGED vars
  BY <1>11 DEF vars, queue, filling, history, CInv, OneEach, AllFresh, Fresh, Single, Contents
<1> QED BY <1>1, <1>2, <1>3, <1>4, <1>5, <1>6, <1>7, <1>8, <1>9, <1>10, <1>11 DEF Next

LEMMA CInvHolds == Spec => [](IInv /\ CInv)
<1>1. IInv /\ CInv /\ [Next]_vars => (IInv /\ CInv)'
  BY StepKeepsIInv, StepKeepsCInv
<1> QED BY <1>1, InitIInv, InitCInv, PTL DEF Spec

\* An upload takes a copy back to an older version only with an item that was in the
\* queue's file at an exit or a failed dispose when what had replaced it was not, or that
\* a backfill enqueued with an older version; saves during an upload, failed uploads,
\* evictions and batches under way never do it (worker.ts, queue.ts).
THEOREM OnlyStaleItemsGoBack == Spec => RemoteMovesForward
<1>1. IInv /\ CInv /\ [Next]_vars =>
        \A c \in Ids : remote'[c] < remote[c] =>
          \E b \in batch : b.id = c /\ b.data = remote'[c] /\ b.at \in stale
  <2> SUFFICES ASSUME IInv, CInv, [Next]_vars, NEW c \in Ids, remote'[c] < remote[c]
               PROVE  \E b \in batch : b.id = c /\ b.data = remote'[c] /\ b.at \in stale
    OBVIOUS
  <2>1. remote[c] \in Nat
    BY QueueAssumption DEF IInv, TypeOK, Versions
  <2>2. PICK b \in batch : b.id = c /\ remote'[c] = b.data
    BY <2>1, RemoteChanges
  <2>3. Fresh(b)
    BY DEF CInv, AllFresh
  <2>4. b.data \in Nat
    BY QueueAssumption DEF IInv, TypeOK, Entries, Versions
  <2> QED BY <2>1, <2>2, <2>3, <2>4 DEF Fresh
<1> QED BY <1>1, CInvHolds, PTL DEF Spec, RemoteMovesForward

=============================================================================
