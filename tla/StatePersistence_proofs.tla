------------------------ MODULE StatePersistence_proofs ------------------------
(***************************************************************************)
(* Proofs about StatePersistence for any keys, any number of changes and   *)
(* of overlapping calls of persistPendingState, with every failure and     *)
(* restart of the model.                                                   *)
(*                                                                         *)
(* Durable is not inductive.  A call that ends clears everything pending,  *)
(* so what it has not written yet must be known to be in its hands: every  *)
(* value it holds is the cached one (HeldIsCurrent), it has passed no key  *)
(* without taking it (ShapeOfRuns), and by the time it can end the pending *)
(* keys of each kind are on disk (CallsSave) - all but for exposed keys,   *)
(* changed behind its back.  The watcher needs that a stale reading has    *)
(* another event behind it (WatchIsUpToDate).                              *)
(***************************************************************************)
EXTENDS StatePersistence, TLAPS

\* The value of a stored key is in its file, and the store's copy agrees.
Saved(i) == data[i] = cache[i] /\ disk[i] = cache[i]

Going(r) == run[r].at # "idle" /\ ~run[r].rejected

WatchPending == changed \/ onDisk # NoRead

ShapeOfRuns == \A r \in Runs : /\ run[r].at = "idle" => run[r] = Idle
                               /\ run[r].seen \intersect Plain \subseteq run[r].took

HeldIsCurrent == \A r \in Runs : \A i \in run[r].took \ exposed : run[r].held[i] = cache[i]

CallsSave ==
  \A r \in Runs : Going(r) =>
    /\ \A i \in (pending \intersect Direct) \ exposed : Saved(i)
    /\ run[r].at = "tail" => \A i \in (pending \intersect Plain) \ exposed : Saved(i)
    /\ run[r].at = "tail" /\ History \in pending \ exposed
         => cache[History] = disk[History] \/ WatchPending

StoredDurable == \A i \in Stored \ exposed : i \notin pending => Saved(i)

HistoryDurable ==
  cache[History] # disk[History] => History \in pending \union exposed \/ WatchPending

WatchIsUpToDate == onDisk # NoRead => onDisk = disk[History] \/ changed

CallOrTimer ==
  pending # {} => handle = "armed" \/ loose > 0 \/ stranded \/ \E r \in Runs : Going(r)

IInv == /\ TypeOK
        /\ ShapeOfRuns
        /\ HeldIsCurrent
        /\ CallsSave
        /\ StoredDurable
        /\ HistoryDurable
        /\ WatchIsUpToDate
        /\ CallOrTimer

-----------------------------------------------------------------------------
\* The loop's operations on a call, field by field.
LEMMA TakeFields ==
  ASSUME TypeOK, NEW c \in RunStates, NEW S \in SUBSET Plain
  PROVE  /\ Take(c, S) \in RunStates
         /\ Take(c, S).at = c.at
         /\ Take(c, S).timed = c.timed
         /\ Take(c, S).settings = c.settings
         /\ Take(c, S).rejected = c.rejected
         /\ Take(c, S).seen = c.seen \union S
         /\ Take(c, S).took = c.took \union S
         /\ \A i \in Plain : Take(c, S).held[i] = IF i \in S THEN cache[i] ELSE c.held[i]
         /\ Take(c, S).history = c.history
<1>1. cache \in [Items -> Values] /\ Plain \subseteq Items
  BY DEF TypeOK, Items, Stored
<1>2. [i \in Plain |-> IF i \in S THEN cache[i] ELSE c.held[i]] \in [Plain -> Values]
  BY <1>1 DEF RunStates
<1>3. S \subseteq Global
  BY DEF Global
<1> QED
  BY <1>2, <1>3 DEF RunStates, Take

LEMMA IdleIsCall == Idle \in RunStates /\ Idle.at = "idle" /\ Idle.took = {} /\ Idle.seen = {}
                    /\ ~Idle.rejected /\ ~Idle.settings
BY BoundsAssumption DEF Idle, RunStates, Values

LEMMA RestFields ==
  ASSUME NEW c \in RunStates
  PROVE  /\ Rest(c) \in RunStates
         /\ Rest(c) = c \/ (c.rejected /\ Rest(c) = Idle)
BY IdleIsCall DEF Rest

\* A write of the store's file keeps what was saved and saves what it was given, if
\* that was current; where it fails, the keys are exposed.
BatchEffect(S, c, files) ==
  /\ data' \in [Stored -> Values]
  /\ disk' \in [Items -> Values]
  /\ disk'[History] = files[History]
  /\ exposed' \subseteq Items /\ exposed \subseteq exposed'
  /\ exposed' \subseteq exposed \union S
  /\ \A i \in Stored \ exposed' : i \notin S /\ Saved(i) => Saved(i)'
  /\ \A i \in S \ exposed' : Entry(c, i) = cache[i] => Saved(i)'

LEMMA BatchSaves ==
  ASSUME TypeOK, NEW S \in SUBSET Stored, NEW c \in RunStates,
         NEW files \in [Items -> Values], \A i \in Stored : files[i] = disk[i],
         SetBatch(S, c, files), cache' = cache
  PROVE  BatchEffect(S, c, files)
<1>1. /\ cache \in [Items -> Values] /\ data \in [Stored -> Values]
      /\ disk \in [Items -> Values] /\ exposed \subseteq Items
      /\ Stored \subseteq Items /\ History \in Items /\ History \notin Stored
  BY KeysAreDistinct DEF TypeOK, Items
<1>2. \A i \in S : Entry(c, i) \in Values
  BY <1>1 DEF Entry, RunStates
<1>3. data' = [i \in Stored |-> IF i \in S THEN Entry(c, i) ELSE data[i]]
  BY DEF SetBatch
<1>4. data' \in [Stored -> Values]
  BY <1>1, <1>2, <1>3
<1>5. PICK ok \in StoreOutcomes :
        /\ disk' = [i \in Items |-> IF ok /\ i \in Stored /\ FileOf(i) \intersect S # {}
                                      THEN data'[i] ELSE files[i]]
        /\ exposed' = IF ok THEN exposed ELSE exposed \union S
  BY DEF SetBatch
<1>6. disk' \in [Items -> Values]
  BY <1>1, <1>4, <1>5
<1>7. disk'[History] = files[History]
  BY <1>1, <1>5
<1>8. \A i \in Stored \ exposed' : i \notin S /\ Saved(i) => Saved(i)'
  BY <1>1, <1>3, <1>5 DEF Saved
<1>9. \A i \in S \ exposed' : Entry(c, i) = cache[i] => Saved(i)'
  <2> SUFFICES ASSUME NEW i \in S \ exposed', Entry(c, i) = cache[i]
               PROVE  Saved(i)'
    OBVIOUS
  <2>1. ok
    BY <1>5
  <2>2. i \in FileOf(i) \intersect S
    BY DEF FileOf, Stored
  <2>3. disk'[i] = data'[i]
    BY <1>1, <1>5, <2>1, <2>2
  <2> QED
    BY <1>3, <2>3 DEF Saved
<1> QED
  BY <1>1, <1>4, <1>5, <1>6, <1>7, <1>8, <1>9 DEF BatchEffect

\* One stretch of a call, from where it stands to its next await.  It keeps what was
\* saved, saves the secrets and workspace keys it is given, goes on unrejected if it
\* was, and reaches its tail only with the plain keys saved and the history written
\* or not pending.
StretchEffect(r, c, D, files) ==
  /\ data' \in [Stored -> Values]
  /\ disk' \in [Items -> Values]
  /\ disk'[History] = files[History]
  /\ exposed' \subseteq Items /\ exposed \subseteq exposed'
  /\ exposed' \ exposed \subseteq Stored
  /\ \A i \in Stored \ exposed' : Saved(i) => Saved(i)'
  /\ \A i \in D \ exposed' : Saved(i)'
  /\ run' \in [Runs -> RunStates]
  /\ \A s \in Runs \ {r} : run'[s] = run[s]
  /\ run'[r].at = "idle" => run'[r] = Idle
  /\ run'[r].seen \intersect Plain \subseteq run'[r].took
  /\ \A i \in run'[r].took \ exposed' : run'[r].held[i] = cache[i]
  /\ Going(r)' <=> ~c.rejected
  /\ Going(r)' /\ run'[r].at = "tail" =>
       /\ \A i \in (pending \intersect Plain) \ exposed' : Saved(i)'
       /\ History \in pending => History \in c.seen

LEMMA StretchSaves ==
  ASSUME TypeOK, NEW r \in Runs, NEW c \in RunStates, NEW D \in SUBSET Direct,
         NEW files \in [Items -> Values], \A i \in Stored : files[i] = disk[i],
         Iterate(r, c, D, files), cache' = cache,
         c.seen \intersect Plain \subseteq c.took,
         \A i \in c.took \ exposed : c.held[i] = cache[i]
  PROVE  StretchEffect(r, c, D, files)
<1> DEFINE unseen == (pending \intersect Global) \ c.seen
           all == Take(c, unseen)
<1>1. /\ cache \in [Items -> Values] /\ Plain \subseteq Stored /\ Stored \subseteq Items
      /\ Direct \subseteq Stored /\ History \in Items /\ History \notin Stored
      /\ run \in [Runs -> RunStates] /\ Plain \intersect Direct = {}
      /\ Global = Plain \union {History} /\ cache[History] \in Values
  BY KeysAreDistinct DEF TypeOK, Items, Stored, Global
<1>2. CASE History \in unseen
  <2>1. PICK earlier \in SUBSET (unseen \ {History}) :
          run' = [run EXCEPT ![r] = [Take(c, earlier) EXCEPT !.seen = @ \union {History},
                                       !.at = "history", !.history = cache[History]]]
    BY <1>2 DEF Iterate
  <2>2. SetBatch(D, c, files)
    BY <1>2 DEF Iterate
  <2>3. earlier \in SUBSET Plain
    BY <1>1
  <2> DEFINE t == Take(c, earlier)
             u == [t EXCEPT !.seen = @ \union {History}, !.at = "history",
                            !.history = cache[History]]
  <2>4. /\ t \in RunStates /\ t.seen = c.seen \union earlier /\ t.took = c.took \union earlier
        /\ t.rejected = c.rejected
        /\ \A i \in Plain : t.held[i] = IF i \in earlier THEN cache[i] ELSE c.held[i]
    BY <2>3, TakeFields
  <2> HIDE DEF t
  <2>5. /\ u \in RunStates /\ u.seen = t.seen \union {History} /\ u.at = "history"
        /\ u.took = t.took /\ u.held = t.held /\ u.rejected = t.rejected
    BY <1>1, <2>4 DEF RunStates
  <2>6. run'[r] = u /\ run' \in [Runs -> RunStates] /\ \A s \in Runs \ {r} : run'[s] = run[s]
    BY <1>1, <2>1, <2>5 DEF t
  <2> HIDE DEF u
  <2>7. \A i \in D : Entry(c, i) = cache[i]
    BY <1>1 DEF Entry
  <2>8. BatchEffect(D, c, files)
    <3>1. D \in SUBSET Stored
      BY <1>1
    <3> QED
      BY <2>2, <3>1, BatchSaves
  <2>9. c.took \subseteq Plain
    BY DEF RunStates
  <2>10. Going(r)' <=> ~c.rejected
    BY <2>4, <2>5, <2>6 DEF Going
  <2>11. \A i \in D \ exposed' : Saved(i)'
    BY <2>7, <2>8 DEF BatchEffect
  <2>12. \A i \in Stored \ exposed' : Saved(i) => Saved(i)'
    BY <2>8, <2>11 DEF BatchEffect
  <2>13. /\ run'[r].at # "idle" /\ run'[r].at # "tail"
         /\ run'[r].seen \intersect Plain \subseteq run'[r].took
    BY <1>1, <2>3, <2>4, <2>5, <2>6, <2>9
  <2>14. \A i \in run'[r].took \ exposed' : run'[r].held[i] = cache[i]
    BY <2>3, <2>4, <2>5, <2>6, <2>8, <2>9 DEF BatchEffect
  <2>15. exposed' \ exposed \subseteq Stored
    BY <1>1, <2>8 DEF BatchEffect
  <2> QED
    BY <2>6, <2>8, <2>10, <2>11, <2>12, <2>13, <2>14, <2>15 DEF BatchEffect, StretchEffect
<1>3. CASE History \notin unseen
  <2> DEFINE u == [all EXCEPT !.at = "tail"]
             S == all.took \union D
  <2>1. run' = [run EXCEPT ![r] = Rest(u)] /\ SetBatch(S, all, files)
    BY <1>3 DEF Iterate
  <2>2. unseen \in SUBSET Plain
    BY <1>1, <1>3
  <2>3. /\ all \in RunStates /\ all.seen = c.seen \union unseen
        /\ all.took = c.took \union unseen /\ all.rejected = c.rejected
        /\ \A i \in Plain : all.held[i] = IF i \in unseen THEN cache[i] ELSE c.held[i]
    BY <2>2, TakeFields
  <2> HIDE DEF all
  <2>4. /\ u \in RunStates /\ u.at = "tail" /\ u.seen = all.seen /\ u.took = all.took
        /\ u.held = all.held /\ u.rejected = all.rejected
    BY <2>3 DEF RunStates
  <2>5. Rest(u) \in RunStates /\ (Rest(u) = u \/ (u.rejected /\ Rest(u) = Idle))
    BY <2>4, RestFields
  <2>6. /\ run'[r] = Rest(u) /\ run' \in [Runs -> RunStates]
        /\ \A s \in Runs \ {r} : run'[s] = run[s]
    BY <1>1, <2>1, <2>5
  <2> HIDE DEF u
  <2>7. c.took \subseteq Plain
    BY DEF RunStates
  <2>8. \A i \in S \ exposed : Entry(all, i) = cache[i]
    BY <1>1, <2>2, <2>3, <2>7 DEF Entry
  <2>9. S \in SUBSET Stored
    BY <1>1, <2>2, <2>3, <2>7
  <2>10. BatchEffect(S, all, files)
    BY <2>1, <2>3, <2>9, BatchSaves
  <2>11. \A i \in S \ exposed' : Saved(i)'
    BY <2>8, <2>10 DEF BatchEffect
  <2>12. (pending \intersect Plain) \subseteq S
    BY <1>1, <2>3
  <2>13. \A i \in all.took \ exposed' : all.held[i] = cache[i]
    BY <2>2, <2>3, <2>7, <2>10 DEF BatchEffect
  <2>14. /\ run'[r].at = "idle" => run'[r] = Idle
         /\ run'[r].seen \intersect Plain \subseteq run'[r].took
         /\ \A i \in run'[r].took \ exposed' : run'[r].held[i] = cache[i]
    BY <2>2, <2>3, <2>4, <2>5, <2>6, <2>13, IdleIsCall
  <2>15. Going(r)' <=> ~c.rejected
    BY <2>3, <2>4, <2>5, <2>6, IdleIsCall DEF Going
  <2>16. History \in pending => History \in c.seen
    BY <1>1, <1>3
  <2>17. \A i \in Stored \ exposed' : Saved(i) => Saved(i)'
    BY <2>10, <2>11 DEF BatchEffect
  <2>18. \A i \in D \ exposed' : Saved(i)'
    BY <2>11
  <2>19. \A i \in (pending \intersect Plain) \ exposed' : Saved(i)'
    BY <2>11, <2>12
  <2>20. exposed' \ exposed \subseteq Stored
    BY <2>9, <2>10 DEF BatchEffect
  <2> QED
    BY <2>6, <2>10, <2>14, <2>15, <2>16, <2>17, <2>18, <2>19, <2>20
    DEF BatchEffect, StretchEffect
<1> QED
  BY <1>2, <1>3

-----------------------------------------------------------------------------
\* What the steps below are shown to keep; CallOrTimer and the types of the timer's
\* variables are kept apart.
Kept == /\ ShapeOfRuns
        /\ HeldIsCurrent
        /\ CallsSave
        /\ StoredDurable
        /\ HistoryDurable
        /\ WatchIsUpToDate

\* A stretch of call r keeps the invariant, if nothing pending is left to another
\* stretch when it ends.
LEMMA StretchKeeps ==
  ASSUME IInv, NEW r \in Runs, NEW c \in RunStates, NEW D \in SUBSET Direct,
         NEW files \in [Items -> Values],
         StretchEffect(r, c, D, files),
         UNCHANGED <<cache, pending, onDisk>>,
         ~c.rejected => \A i \in (pending \intersect Direct) \ exposed' : Saved(i)',
         (files[History] = disk[History] /\ UNCHANGED changed) \/ changed' = TRUE,
         History \in c.seen => changed' = TRUE
  PROVE  Kept'
<1>1. /\ \A i \in Stored \ exposed' : Saved(i) => Saved(i)'
      /\ exposed \subseteq exposed'
      /\ disk'[History] = files[History]
      /\ \A s \in Runs \ {r} : run'[s] = run[s]
  BY DEF StretchEffect
<1>2. Direct \subseteq Stored /\ Plain \subseteq Stored
  BY DEF Stored
<1>3. ShapeOfRuns'
  BY <1>1 DEF StretchEffect, IInv, ShapeOfRuns
<1>4. HeldIsCurrent'
  BY <1>1 DEF StretchEffect, IInv, HeldIsCurrent
<1>5. CallsSave'
  <2> SUFFICES ASSUME NEW s \in Runs, Going(s)'
               PROVE  /\ \A i \in (pending \intersect Direct) \ exposed' : Saved(i)'
                      /\ run'[s].at = "tail" =>
                           \A i \in (pending \intersect Plain) \ exposed' : Saved(i)'
                      /\ run'[s].at = "tail" /\ History \in pending \ exposed' =>
                           cache[History] = disk'[History] \/ WatchPending'
    BY DEF CallsSave
  <2>1. CASE s = r
    <3>1. ~c.rejected
      BY <2>1 DEF StretchEffect
    <3>2. run'[s].at = "tail" => \A i \in (pending \intersect Plain) \ exposed' : Saved(i)'
      BY <2>1 DEF StretchEffect
    <3>3. run'[s].at = "tail" /\ History \in pending \ exposed' => WatchPending'
      BY <2>1 DEF StretchEffect, WatchPending
    <3> QED
      BY <3>1, <3>2, <3>3
  <2>2. CASE s # r
    <3>1. Going(s) /\ run'[s] = run[s]
      BY <1>1, <2>2 DEF Going
    <3>2. /\ \A i \in (pending \intersect Direct) \ exposed : Saved(i)
          /\ run[s].at = "tail" => \A i \in (pending \intersect Plain) \ exposed : Saved(i)
          /\ run[s].at = "tail" /\ History \in pending \ exposed
               => cache[History] = disk[History] \/ WatchPending
      BY <3>1 DEF IInv, CallsSave
    <3> QED
      BY <1>1, <1>2, <3>1, <3>2 DEF WatchPending
  <2> QED
    BY <2>1, <2>2
<1>6. StoredDurable'
  BY <1>1 DEF IInv, StoredDurable
<1>7. HistoryDurable'
  BY <1>1 DEF IInv, HistoryDurable, WatchPending
<1>8. WatchIsUpToDate'
  BY <1>1 DEF IInv, WatchIsUpToDate
<1> QED
  BY <1>3, <1>4, <1>5, <1>6, <1>7, <1>8 DEF Kept

LEMMA PersistKeeps ==
  ASSUME IInv, NEW r \in Runs, NEW timed \in BOOLEAN, Persist(r, timed)
  PROVE  /\ Kept' /\ Going(r)'
         /\ data' \in [Stored -> Values] /\ disk' \in [Items -> Values]
         /\ exposed' \subseteq Items /\ run' \in [Runs -> RunStates]
<1> DEFINE c == [Idle EXCEPT !.timed = timed, !.settings = Settings \in pending]
           D == pending \intersect Direct
<1>1. /\ c \in RunStates /\ c.seen = {} /\ c.took = {} /\ c.rejected = FALSE
  <2>1. Idle \in RunStates /\ Idle.seen = {} /\ Idle.took = {} /\ Idle.rejected = FALSE
    BY IdleIsCall
  <2>2. (Settings \in pending) \in BOOLEAN
    OBVIOUS
  <2> QED
    BY <2>1, <2>2 DEF RunStates
<1>2. Iterate(r, c, D, disk) /\ UNCHANGED <<cache, pending, changed, onDisk>>
  BY DEF Persist
<1>3. TypeOK /\ disk \in [Items -> Values]
  BY DEF IInv, TypeOK
<1> HIDE DEF c
<1>4. StretchEffect(r, c, D, disk)
  BY <1>1, <1>2, <1>3, StretchSaves
<1>5. \A i \in (pending \intersect Direct) \ exposed' : Saved(i)'
  BY <1>4 DEF StretchEffect
<1>6. Kept'
  BY <1>1, <1>2, <1>3, <1>4, <1>5, StretchKeeps
<1> QED
  BY <1>1, <1>4, <1>6 DEF StretchEffect

LEMMA HistoryWrittenKeeps ==
  ASSUME IInv, NEW r \in Runs, HistoryWritten(r)
  PROVE  /\ Kept'
         /\ \A s \in Runs : Going(s) => Going(s)'
         /\ data' \in [Stored -> Values] /\ disk' \in [Items -> Values]
         /\ exposed' \subseteq Items /\ run' \in [Runs -> RunStates]
<1> DEFINE c == run[r]
           files == [disk EXCEPT ![History] = run[r].history]
<1>1. /\ TypeOK /\ c \in RunStates /\ files \in [Items -> Values]
      /\ files[History] = run[r].history
      /\ \A i \in Stored : files[i] = disk[i]
  BY KeysAreDistinct DEF IInv, TypeOK, RunStates, Items
<1>2. Iterate(r, c, {}, files) /\ changed' = TRUE /\ UNCHANGED <<cache, pending, onDisk>>
  BY DEF HistoryWritten
<1>3. /\ c.seen \intersect Plain \subseteq c.took
      /\ \A i \in c.took \ exposed : c.held[i] = cache[i]
  BY DEF IInv, ShapeOfRuns, HeldIsCurrent
<1> HIDE DEF files
<1>4. StretchEffect(r, c, {}, files)
  BY <1>1, <1>2, <1>3, StretchSaves
<1>5. ~c.rejected => Going(r)
  BY DEF HistoryWritten, Going
<1>6. ~c.rejected => \A i \in (pending \intersect Direct) \ exposed' : Saved(i)'
  <2>1. ~c.rejected => \A i \in (pending \intersect Direct) \ exposed : Saved(i)
    BY <1>5 DEF IInv, CallsSave
  <2> QED
    BY <1>4, <2>1 DEF StretchEffect, Stored
<1>7. Kept'
  BY <1>1, <1>2, <1>4, <1>6, StretchKeeps
<1>8. \A s \in Runs : Going(s) => Going(s)'
  BY <1>4 DEF StretchEffect, Going
<1> QED
  BY <1>4, <1>7, <1>8 DEF StretchEffect

-----------------------------------------------------------------------------
LEMMA SetKeeps ==
  ASSUME IInv, NEW i \in Items, Set(i)
  PROVE  Kept'
<1>1. /\ cache \in [Items -> Values] /\ i \in pending'
      /\ cache' = [cache EXCEPT ![i] = now + 1]
      /\ UNCHANGED <<data, disk, run, changed, onDisk>>
      /\ pending' = pending \union {i}
  BY DEF IInv, TypeOK, Set
<1>2. \A j \in Items \ {i} : cache'[j] = cache[j] /\ (Saved(j) => Saved(j)')
  BY <1>1 DEF Saved
<1>3. /\ exposed \subseteq exposed' \union {i}
      /\ ~NoWriteUnderWay => i \in exposed' /\ exposed \subseteq exposed'
  BY DEF Set
<1>4. NoWriteUnderWay => \A r \in Runs : ~Going(r)' /\ run'[r].took = {}
  BY <1>1, IdleIsCall DEF NoWriteUnderWay, Going
<1>5. /\ Stored \subseteq Items /\ Plain \subseteq Items /\ Direct \subseteq Items
      /\ Plain \subseteq Stored /\ Direct \subseteq Stored
      /\ History \in Items /\ History \notin Stored
  BY KeysAreDistinct DEF Items, Stored
<1>6. ShapeOfRuns'
  BY <1>1 DEF IInv, ShapeOfRuns
<1>7. HeldIsCurrent'
  <2> SUFFICES ASSUME NEW r \in Runs, NEW j \in run'[r].took \ exposed'
               PROVE  run'[r].held[j] = cache'[j]
    BY DEF HeldIsCurrent
  <2>1. ~NoWriteUnderWay
    BY <1>4
  <2>2. j \in run[r].took \ exposed /\ j # i
    BY <1>1, <1>3, <2>1
  <2>3. run[r].took \subseteq Plain
    BY DEF IInv, TypeOK, RunStates
  <2> QED
    BY <1>1, <1>2, <1>5, <2>2, <2>3 DEF IInv, HeldIsCurrent
<1>8. CallsSave'
  <2> SUFFICES ASSUME NEW r \in Runs, Going(r)'
               PROVE  /\ \A j \in (pending' \intersect Direct) \ exposed' : Saved(j)'
                      /\ run'[r].at = "tail" =>
                           \A j \in (pending' \intersect Plain) \ exposed' : Saved(j)'
                      /\ run'[r].at = "tail" /\ History \in pending' \ exposed' =>
                           cache'[History] = disk'[History] \/ WatchPending'
    BY DEF CallsSave
  <2>1. i \in exposed' /\ exposed \subseteq exposed' /\ Going(r) /\ run'[r] = run[r]
    BY <1>1, <1>3, <1>4 DEF Going
  <2>2. /\ \A j \in (pending \intersect Direct) \ exposed : Saved(j)
        /\ run[r].at = "tail" => \A j \in (pending \intersect Plain) \ exposed : Saved(j)
        /\ run[r].at = "tail" /\ History \in pending \ exposed
             => cache[History] = disk[History] \/ WatchPending
    BY <2>1 DEF IInv, CallsSave
  <2> QED
    BY <1>1, <1>2, <1>5, <2>1, <2>2 DEF WatchPending
<1>9. StoredDurable'
  BY <1>1, <1>2, <1>3, <1>5 DEF IInv, StoredDurable
<1>10. HistoryDurable'
  BY <1>1, <1>2, <1>3, <1>5 DEF IInv, HistoryDurable, WatchPending
<1>11. WatchIsUpToDate'
  BY <1>1 DEF IInv, WatchIsUpToDate
<1> QED
  BY <1>6, <1>7, <1>8, <1>9, <1>10, <1>11 DEF Kept

\* Task settings among the pending keys matter to no part of the invariant.
LEMMA SettingsKeep ==
  ASSUME IInv, pending' \ {Settings} = pending \ {Settings},
         UNCHANGED <<cache, data, disk, run, changed, onDisk, exposed>>
  PROVE  Kept'
<1>1. \A i \in Items : i \in pending' <=> i \in pending
  BY KeysAreDistinct
<1>2. Direct \subseteq Items /\ Plain \subseteq Items /\ Stored \subseteq Items /\ History \in Items
  BY DEF Items, Stored
<1>3. ShapeOfRuns' /\ HeldIsCurrent'
  BY DEF IInv, ShapeOfRuns, HeldIsCurrent
<1>4. CallsSave'
  BY <1>1, <1>2 DEF IInv, CallsSave, Going, Saved, WatchPending
<1>5. StoredDurable' /\ HistoryDurable' /\ WatchIsUpToDate'
  BY <1>1, <1>2 DEF IInv, StoredDurable, HistoryDurable, WatchIsUpToDate, Saved, WatchPending
<1> QED
  BY <1>3, <1>4, <1>5 DEF Kept

\* A step that only moves calls towards their end, without going on unrejected.
LEMMA EndsKeep ==
  ASSUME IInv, NEW r \in Runs, NEW c \in RunStates,
         run' = [run EXCEPT ![r] = Rest(c)],
         c.took = run[r].took, c.held = run[r].held, c.seen = run[r].seen,
         c.at # "idle", (c.at = run[r].at /\ c.rejected = run[r].rejected) \/ c.rejected,
         UNCHANGED <<cache, data, disk, pending, changed, onDisk, exposed>>
  PROVE  Kept' /\ run' \in [Runs -> RunStates]
<1>1. run \in [Runs -> RunStates]
  BY DEF IInv, TypeOK
<1>2. Rest(c) \in RunStates /\ (Rest(c) = c \/ (c.rejected /\ Rest(c) = Idle))
  BY RestFields
<1>3. run'[r] = Rest(c) /\ \A s \in Runs \ {r} : run'[s] = run[s]
  BY <1>1
<1>4. ShapeOfRuns'
  BY <1>2, <1>3, IdleIsCall DEF IInv, ShapeOfRuns
<1>5. HeldIsCurrent'
  BY <1>2, <1>3, IdleIsCall DEF IInv, HeldIsCurrent
<1>6. \A s \in Runs : Going(s)' => Going(s) /\ run'[s].at = run[s].at
  BY <1>2, <1>3, IdleIsCall DEF Going
<1>7. CallsSave'
  BY <1>6 DEF IInv, CallsSave, Saved, WatchPending
<1>8. StoredDurable' /\ HistoryDurable' /\ WatchIsUpToDate'
  BY DEF IInv, StoredDurable, HistoryDurable, WatchIsUpToDate, Saved, WatchPending
<1> QED
  BY <1>1, <1>2, <1>4, <1>5, <1>7, <1>8 DEF Kept

LEMMA FinishKeeps ==
  ASSUME IInv, NEW r \in Runs, Finish(r)
  PROVE  Kept' /\ run' \in [Runs -> RunStates]
<1>1. /\ run \in [Runs -> RunStates] /\ pending' = {}
      /\ run' = [s \in Runs |-> IF s = r THEN Idle ELSE [run[s] EXCEPT !.seen = {}]]
      /\ UNCHANGED <<cache, data, disk, changed, onDisk, exposed>>
      /\ Going(r) /\ run[r].at = "tail"
  BY DEF IInv, TypeOK, Finish, Going
<1>2. \A s \in Runs \ {r} :
        LET t == [run[s] EXCEPT !.seen = {}]
        IN /\ t \in RunStates /\ t.at = run[s].at /\ t.took = run[s].took
           /\ t.held = run[s].held /\ t.seen = {} /\ t.rejected = run[s].rejected
           /\ run[s] = Idle => t = Idle
  <2> SUFFICES ASSUME NEW s \in Runs \ {r}
               PROVE  LET t == [run[s] EXCEPT !.seen = {}]
                      IN /\ t \in RunStates /\ t.at = run[s].at /\ t.took = run[s].took
                         /\ t.held = run[s].held /\ t.seen = {}
                         /\ t.rejected = run[s].rejected
                         /\ run[s] = Idle => t = Idle
    OBVIOUS
  <2>1. run[s] \in RunStates
    BY <1>1
  <2>2. [Idle EXCEPT !.seen = {}] = Idle
    <3>1. Idle \in RunStates /\ Idle.seen = {}
      BY IdleIsCall
    <3> QED
      BY <3>1 DEF RunStates
  <2> QED
    BY <2>1, <2>2 DEF RunStates
<1>3. run'[r] = Idle /\ \A s \in Runs \ {r} : run'[s] = [run[s] EXCEPT !.seen = {}]
  BY <1>1
<1>4. run' \in [Runs -> RunStates]
  BY <1>1, <1>2, IdleIsCall
<1>5. ShapeOfRuns' /\ HeldIsCurrent'
  BY <1>1, <1>2, <1>3, IdleIsCall DEF IInv, ShapeOfRuns, HeldIsCurrent
<1>6. CallsSave'
  BY <1>1 DEF CallsSave
<1>7. /\ \A i \in (pending \intersect Stored) \ exposed : Saved(i)
      /\ History \in pending \ exposed => cache[History] = disk[History] \/ WatchPending
  BY <1>1 DEF IInv, CallsSave, Stored
<1>8. StoredDurable'
  BY <1>1, <1>7 DEF IInv, StoredDurable, Saved
<1>9. HistoryDurable' /\ WatchIsUpToDate'
  BY <1>1, <1>7 DEF IInv, HistoryDurable, WatchIsUpToDate, WatchPending
<1> QED
  BY <1>4, <1>5, <1>6, <1>8, <1>9 DEF Kept

LEMMA WatchKeeps ==
  ASSUME IInv, Watch \/ ExternalWrite
  PROVE  Kept'
<1>1. /\ cache \in [Items -> Values] /\ disk \in [Items -> Values]
      /\ Stored \subseteq Items /\ History \in Items /\ History \notin Stored
      /\ Plain \subseteq Stored /\ Direct \subseteq Stored
      /\ run \in [Runs -> RunStates] /\ NoRead \notin Values
  BY KeysAreDistinct, BoundsAssumption DEF IInv, TypeOK, Items, Stored, NoRead, Values
<1>2. /\ UNCHANGED <<data, pending, run, exposed>>
      /\ \A i \in Stored : cache'[i] = cache[i] /\ disk'[i] = disk[i]
  BY <1>1 DEF Watch, WatchRead, WatchApply, ExternalWrite
<1>3. \A i \in Stored : Saved(i)' <=> Saved(i)
  BY <1>2 DEF Saved
<1>4. (cache'[History] = disk'[History] \/ WatchPending') \/ UNCHANGED <<cache, disk, changed, onDisk>>
  BY <1>1 DEF IInv, WatchIsUpToDate, Watch, WatchRead, WatchApply, ExternalWrite, WatchPending
<1>5. ShapeOfRuns'
  BY <1>2 DEF IInv, ShapeOfRuns
<1>6. HeldIsCurrent'
  BY <1>1, <1>2 DEF IInv, HeldIsCurrent, TypeOK, RunStates
<1>7. CallsSave'
  BY <1>1, <1>2, <1>3, <1>4 DEF IInv, CallsSave, Going, WatchPending
<1>8. StoredDurable'
  BY <1>2, <1>3 DEF IInv, StoredDurable
<1>9. HistoryDurable'
  BY <1>2, <1>4 DEF IInv, HistoryDurable, WatchPending
<1>10. WatchIsUpToDate'
  BY <1>1 DEF IInv, WatchIsUpToDate, Watch, WatchRead, WatchApply, ExternalWrite
<1> QED
  BY <1>5, <1>6, <1>7, <1>8, <1>9, <1>10 DEF Kept

-----------------------------------------------------------------------------
LEMMA InitHolds == Init => IInv
<1> SUFFICES ASSUME Init PROVE IInv
  OBVIOUS
<1>1. TypeOK
  <2>1. 0 \in Values
    BY BoundsAssumption DEF Values
  <2>2. [r \in Runs |-> Idle] \in [Runs -> RunStates]
    BY IdleIsCall
  <2> QED
    BY <2>1, <2>2 DEF Init, TypeOK
<1>2. ShapeOfRuns /\ HeldIsCurrent /\ CallsSave
  BY IdleIsCall DEF Init, ShapeOfRuns, HeldIsCurrent, CallsSave, Going
<1>3. StoredDurable /\ HistoryDurable
  BY DEF Init, StoredDurable, HistoryDurable, Saved, Items
<1>4. WatchIsUpToDate /\ CallOrTimer
  BY DEF Init, WatchIsUpToDate, CallOrTimer
<1> QED
  BY <1>1, <1>2, <1>3, <1>4 DEF IInv

LEMMA RestartKeeps ==
  ASSUME IInv, Restart
  PROVE  IInv'
<1>1. TypeOK'
  BY BoundsAssumption, IdleIsCall DEF IInv, Restart, TypeOK, Values, Items
<1>2. /\ run' = [r \in Runs |-> Idle] /\ pending' = {} /\ cache' = disk' /\ onDisk' = NoRead
      /\ data' = [i \in Stored |-> disk'[i]]
  BY DEF Restart
<1>3. ShapeOfRuns' /\ HeldIsCurrent' /\ CallsSave'
  BY <1>2, IdleIsCall DEF ShapeOfRuns, HeldIsCurrent, CallsSave, Going
<1>4. StoredDurable' /\ HistoryDurable'
  BY <1>2 DEF StoredDurable, HistoryDurable, Saved
<1>5. WatchIsUpToDate' /\ CallOrTimer'
  BY <1>2 DEF WatchIsUpToDate, CallOrTimer
<1> QED
  BY <1>1, <1>3, <1>4, <1>5 DEF IInv

\* A timer that fires, or a flush: a new call goes on, or nothing was pending.
LEMMA StartKeeps ==
  ASSUME IInv, NEW r \in Runs, HandleFires(r) \/ LooseFires(r) \/ Flush(r)
  PROVE  IInv'
<1>1. /\ handle' \in {"none", "armed", "spent"}
      /\ loose' \in Nat
  <2>1. handle \in {"none", "armed", "spent"} /\ loose \in Nat
    BY DEF IInv, TypeOK
  <2>2. CASE HandleFires(r) \/ Flush(r)
    BY <2>1, <2>2 DEF HandleFires, Flush
  <2>3. CASE LooseFires(r)
    <3>1. loose > 0 /\ (loose' = loose - 1 \/ loose' = loose - 0)
      BY <2>3 DEF LooseFires
    <3>2. handle' \in {"none", "armed", "spent"}
      BY <2>1, <2>3 DEF LooseFires
    <3> QED
      BY <2>1, <3>1, <3>2
  <2> QED
    BY <2>2, <2>3
<1>2. CASE Persist(r, TRUE) \/ Persist(r, FALSE)
  <2>1. /\ Kept' /\ Going(r)' /\ data' \in [Stored -> Values] /\ disk' \in [Items -> Values]
        /\ exposed' \subseteq Items /\ run' \in [Runs -> RunStates]
    BY <1>2, PersistKeeps
  <2>2. UNCHANGED <<cache, pending, changed, onDisk, now, stranded>>
    BY <1>2 DEF Persist
  <2>3. TypeOK'
    BY <1>1, <2>1, <2>2 DEF IInv, TypeOK
  <2>4. CallOrTimer'
    BY <2>1 DEF CallOrTimer
  <2> QED
    BY <2>1, <2>3, <2>4 DEF IInv, Kept
<1>3. CASE NothingToPersist
  <2>1. TypeOK'
    BY <1>1, <1>3 DEF IInv, TypeOK, NothingToPersist
  <2>2. CallOrTimer'
    BY <1>3 DEF CallOrTimer, NothingToPersist
  <2>3. Kept'
    BY <1>3, SettingsKeep DEF NothingToPersist
  <2> QED
    BY <2>1, <2>2, <2>3 DEF IInv, Kept
<1> QED
  BY <1>2, <1>3 DEF HandleFires, LooseFires, Flush

LEMMA WriteEndKeeps ==
  ASSUME IInv, NEW r \in Runs, WriteEnds(r)
  PROVE  IInv'
<1>1. run[r] \in RunStates /\ run \in [Runs -> RunStates]
  BY DEF IInv, TypeOK
<1>2. run[r].settings => run[r].at # "idle"
  BY IdleIsCall DEF IInv, ShapeOfRuns
<1>3. CASE HistoryWritten(r)
  <2>1. /\ Kept' /\ \A s \in Runs : Going(s) => Going(s)'
        /\ data' \in [Stored -> Values] /\ disk' \in [Items -> Values]
        /\ exposed' \subseteq Items /\ run' \in [Runs -> RunStates]
    BY <1>3, HistoryWrittenKeeps
  <2>2. changed' = TRUE /\ UNCHANGED <<cache, pending, handle, loose, onDisk, now, stranded>>
    BY <1>3 DEF HistoryWritten
  <2>3. TypeOK'
    BY <2>1, <2>2 DEF IInv, TypeOK
  <2>4. CallOrTimer'
    BY <2>1, <2>2 DEF IInv, CallOrTimer
  <2> QED
    BY <2>1, <2>3, <2>4 DEF IInv, Kept
<1>4. CASE HistoryFails(r) \/ SettingsFail(r)
  <2>1. PICK b \in RunStates :
          /\ Reject(r, b) /\ b.at # "idle" /\ b.took = run[r].took /\ b.held = run[r].held
          /\ b.seen = run[r].seen /\ b.rejected = run[r].rejected
    <3>1. CASE HistoryFails(r)
      <4> DEFINE b == [run[r] EXCEPT !.at = "tail"]
      <4>1. /\ b \in RunStates /\ b.at = "tail" /\ b.took = run[r].took
            /\ b.held = run[r].held /\ b.seen = run[r].seen
            /\ b.rejected = run[r].rejected
        BY <1>1 DEF RunStates
      <4>2. Reject(r, b)
        BY <3>1 DEF HistoryFails
      <4> QED
        BY <4>1, <4>2
    <3>2. CASE SettingsFail(r)
      <4> DEFINE b == [run[r] EXCEPT !.settings = FALSE]
      <4>1. /\ b \in RunStates /\ b.at = run[r].at /\ b.took = run[r].took
            /\ b.held = run[r].held /\ b.seen = run[r].seen
            /\ b.rejected = run[r].rejected
        BY <1>1 DEF RunStates
      <4>2. Reject(r, b) /\ run[r].at # "idle"
        BY <1>2, <3>2 DEF SettingsFail
      <4> QED
        BY <4>1, <4>2
    <3> QED
      BY <1>4, <3>1, <3>2
  <2> DEFINE c == [b EXCEPT !.rejected = TRUE]
  <2>2. /\ c \in RunStates /\ c.at = b.at /\ c.took = b.took /\ c.held = b.held
        /\ c.seen = b.seen /\ c.rejected
    BY DEF RunStates
  <2>3. /\ run' = [run EXCEPT ![r] = Rest(c)]
        /\ stranded' \in BOOLEAN /\ (stranded => stranded')
        /\ ~b.rejected => stranded' \/ handle = "armed" \/ loose # 0
        /\ UNCHANGED <<cache, data, disk, pending, changed, onDisk, now, exposed>>
    BY <2>1 DEF Reject
  <2> HIDE DEF c
  <2>4. Kept' /\ run' \in [Runs -> RunStates]
    BY <2>1, <2>2, <2>3, EndsKeep
  <2>5. /\ handle' \in {"none", "armed", "spent"} /\ loose' \in Nat
        /\ handle = "armed" \/ loose > 0 => handle' = "armed" \/ loose' > 0
    BY <2>1 DEF IInv, TypeOK, Reject, ForgetTimer
  <2>6. TypeOK'
    BY <2>3, <2>4, <2>5 DEF IInv, TypeOK
  <2>7. CallOrTimer'
    <3>1. \A s \in Runs \ {r} : run'[s] = run[s]
      BY <1>1, <2>3
    <3>2. Going(r) => stranded' \/ handle = "armed" \/ loose > 0
      BY <2>1, <2>3 DEF Going, IInv, TypeOK
    <3>3. \A s \in Runs \ {r} : Going(s) => Going(s)'
      BY <3>1 DEF Going
    <3> QED
      BY <2>3, <2>5, <3>2, <3>3 DEF IInv, CallOrTimer
  <2> QED
    BY <2>4, <2>6, <2>7 DEF IInv, Kept
<1>5. CASE SettingsWritten(r)
  <2> DEFINE c == [run[r] EXCEPT !.settings = FALSE]
  <2>1. /\ c \in RunStates /\ c.at = run[r].at /\ c.took = run[r].took
        /\ c.held = run[r].held /\ c.seen = run[r].seen /\ c.rejected = run[r].rejected
    BY <1>1 DEF RunStates
  <2>2. /\ run' = [run EXCEPT ![r] = Rest(c)] /\ c.at # "idle"
        /\ UNCHANGED <<cache, data, disk, pending, handle, loose, changed, onDisk, now,
                       exposed, stranded>>
    BY <1>2, <1>5, <2>1 DEF SettingsWritten
  <2> HIDE DEF c
  <2>3. Kept' /\ run' \in [Runs -> RunStates]
    BY <2>1, <2>2, EndsKeep
  <2>4. TypeOK'
    BY <2>2, <2>3 DEF IInv, TypeOK
  <2>5. \A s \in Runs : Going(s) => Going(s)'
    <3>1. run'[r] = Rest(c) /\ \A s \in Runs \ {r} : run'[s] = run[s]
      BY <1>1, <2>2
    <3>2. Rest(c) = c \/ c.rejected
      BY <2>1, RestFields
    <3> QED
      BY <2>1, <3>1, <3>2 DEF Going
  <2>6. CallOrTimer'
    BY <2>2, <2>5 DEF IInv, CallOrTimer
  <2> QED
    BY <2>3, <2>4, <2>6 DEF IInv, Kept
<1>6. CASE Finish(r)
  <2>1. Kept' /\ run' \in [Runs -> RunStates]
    BY <1>6, FinishKeeps
  <2>2. /\ handle' \in {"none", "armed", "spent"} /\ loose' \in Nat
    BY <1>6 DEF IInv, TypeOK, Finish, ForgetTimer
  <2>3. pending' = {} /\ UNCHANGED <<cache, data, disk, changed, onDisk, now, exposed, stranded>>
    BY <1>6 DEF Finish
  <2>4. TypeOK'
    BY <2>1, <2>2, <2>3 DEF IInv, TypeOK
  <2>5. CallOrTimer'
    BY <2>3 DEF CallOrTimer
  <2> QED
    BY <2>1, <2>4, <2>5 DEF IInv, Kept
<1> QED
  BY <1>3, <1>4, <1>5, <1>6 DEF WriteEnds

LEMMA StepKeeps == IInv /\ [Next]_vars => IInv'
<1> SUFFICES ASSUME IInv, [Next]_vars PROVE IInv'
  OBVIOUS
<1>1. ASSUME NEW i \in Items, Set(i) PROVE IInv'
  <2>1. TypeOK'
    <3>1. now + 1 \in Values
      BY <1>1, BoundsAssumption DEF IInv, TypeOK, Set, Values
    <3> QED
      BY <1>1, <3>1 DEF IInv, TypeOK, Set, Schedule
  <2>2. CallOrTimer'
    BY <1>1 DEF CallOrTimer, Set, Schedule
  <2> QED
    BY <1>1, <2>1, <2>2, SetKeeps DEF IInv, Kept
<1>2. CASE SetTaskSettings
  <2>1. TypeOK'
    <3>1. now + 1 \in Values
      BY <1>2, BoundsAssumption DEF IInv, TypeOK, SetTaskSettings, Values
    <3> QED
      BY <1>2, <3>1 DEF IInv, TypeOK, SetTaskSettings, Schedule
  <2>2. CallOrTimer'
    BY <1>2 DEF CallOrTimer, SetTaskSettings, Schedule
  <2> QED
    BY <1>2, <2>1, <2>2, SettingsKeep DEF IInv, Kept, SetTaskSettings
<1>3. CASE ClearTaskSettings
  <2>1. TypeOK'
    BY <1>3 DEF IInv, TypeOK, ClearTaskSettings
  <2>2. CallOrTimer'
    BY <1>3 DEF IInv, CallOrTimer, ClearTaskSettings, Going
  <2> QED
    BY <1>3, <2>1, <2>2, SettingsKeep DEF IInv, Kept, ClearTaskSettings
<1>4. ASSUME NEW r \in Runs, HandleFires(r) \/ LooseFires(r) \/ Flush(r) PROVE IInv'
  BY <1>4, StartKeeps
<1>5. ASSUME NEW r \in Runs, WriteEnds(r) PROVE IInv'
  BY <1>5, WriteEndKeeps
<1>6. CASE Watch \/ ExternalWrite
  <2>1. TypeOK'
    <3>1. CASE WatchRead \/ WatchApply
      <4>1. /\ History \in Items /\ cache \in [Items -> Values] /\ disk \in [Items -> Values]
            /\ onDisk \in Values \union {NoRead}
        BY DEF IInv, TypeOK, Items
      <4>2. cache' \in [Items -> Values] /\ onDisk' \in Values \union {NoRead}
        BY <3>1, <4>1 DEF WatchRead, WatchApply
      <4>3. changed' \in BOOLEAN
        BY <3>1 DEF IInv, TypeOK, WatchRead, WatchApply
      <4>4. UNCHANGED <<data, disk, pending, handle, loose, run, now, exposed, stranded>>
        BY <3>1 DEF WatchRead, WatchApply
      <4> QED
        BY <4>2, <4>3, <4>4 DEF IInv, TypeOK
    <3>2. CASE ExternalWrite
      <4>1. now + 1 \in Values
        BY <3>2, BoundsAssumption DEF IInv, TypeOK, ExternalWrite, Values
      <4> QED
        BY <3>2, <4>1 DEF IInv, TypeOK, ExternalWrite
    <3> QED
      BY <1>6, <3>1, <3>2 DEF Watch
  <2>2. CallOrTimer'
    BY <1>6 DEF IInv, CallOrTimer, Going, Watch, WatchRead, WatchApply, ExternalWrite
  <2> QED
    BY <1>6, <2>1, <2>2, WatchKeeps DEF IInv, Kept
<1>7. CASE Restart
  BY <1>7, RestartKeeps
<1>8. CASE UNCHANGED vars
  <2>1. TypeOK' /\ CallOrTimer'
    BY <1>8 DEF IInv, TypeOK, CallOrTimer, Going, vars
  <2> QED
    BY <1>8, <2>1, SettingsKeep DEF IInv, Kept, vars
<1> QED
  BY <1>1, <1>2, <1>3, <1>4, <1>5, <1>6, <1>7, <1>8 DEF Next, Setter, Fires

LEMMA Invariance == Spec => []IInv
BY InitHolds, StepKeeps, PTL DEF Spec

-----------------------------------------------------------------------------
\* The manager's variables stay well typed.
THEOREM TypeCorrect == Spec => []TypeOK
<1>1. IInv => TypeOK
  BY DEF IInv
<1> QED
  BY <1>1, Invariance, PTL

\* A change that raced no write and met no silent failure is in its file, or pending,
\* or on its way from the file: through debouncing, overlapping calls, rejected
\* writes, restarts and the watcher.
THEOREM UnracedChangesAreDurable == Spec => []Durable
<1>1. IInv => Durable
  BY KeysAreDistinct
  DEF IInv, StoredDurable, HistoryDurable, Durable, Saved, Items, WatchPending
<1> QED
  BY <1>1, Invariance, PTL

\* However the timers, their one handle and the flushes overlap, pending changes have
\* a live timer or a call under way, unless a write has failed with no timer left.
THEOREM PendingStaysScheduled == Spec => []PendingIsScheduled
<1>1. IInv => PendingIsScheduled
  BY IdleIsCall DEF IInv, CallOrTimer, PendingIsScheduled, NoWriteUnderWay, Going
<1> QED
  BY <1>1, Invariance, PTL
=============================================================================
