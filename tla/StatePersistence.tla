--------------------------- MODULE StatePersistence ---------------------------
(***************************************************************************)
(* StateManager as a write-behind cache: setters change the cache, note    *)
(* the key as pending and re-arm one 500 ms timer; a timer or a flush then *)
(* writes what is pending and clears it; a file watcher brings changes of  *)
(* taskHistory.json back into the cache.                                   *)
(*                                                                         *)
(* Sources: src/core/storage/StateManager.ts, disk.ts (task history) and   *)
(* shared/storage/IsaacFileStorage.ts.  Keys fall into three kinds by the  *)
(* way persistPendingState writes them: Plain keys of the global state     *)
(* share one file with a synchronous write, after the task history when    *)
(* that is pending too; Direct keys (secrets, workspace state) are written *)
(* synchronously at once; taskHistory has its own file and an asynchronous *)
(* write.  Task settings are one asynchronous write; their contents are    *)
(* left out.  A value is the number of the change that made it.            *)
(***************************************************************************)
EXTENDS Integers

CONSTANTS Plain, Direct,
          History,       \* the key "taskHistory"
          Settings,      \* stands for pendingTaskState being non-empty
          Runs,          \* slots for calls of persistPendingState under way
          MaxChanges,    \* bound on changes
          StoreOutcomes  \* whether writeToDisk may fail: {TRUE} or BOOLEAN

Stored == Plain \union Direct
Global == Plain \union {History}
Items == Stored \union {History}

ASSUME KeysAreDistinct == /\ Plain \intersect Direct = {}
                          /\ History \notin Stored
                          /\ Settings \notin Items
ASSUME BoundsAssumption == MaxChanges \in Nat /\ StoreOutcomes \subseteq BOOLEAN

VARIABLES cache,    \* the caches of the manager
          data,     \* the stores' own copies, from which they write whole files
          disk,     \* the files
          pending,  \* the four pending sets
          handle,   \* persistenceTimeout: null, an armed timer or one that has fired
          loose,    \* armed timers persistenceTimeout does not point to
          run,      \* calls of persistPendingState
          changed,  \* the watcher has an event to deliver
          onDisk,   \* what syncTaskHistoryFromDisk has read, or NoRead
          now,      \* number of changes so far
          exposed,  \* history variable: keys whose last change raced a write,
                    \* or whose synchronous write failed
          stranded  \* history variable: a write failed when no timer was live, and no
                    \* setter came since

vars == <<cache, data, disk, pending, handle, loose, run, changed, onDisk, now,
          exposed, stranded>>

Values == 0..MaxChanges
NoRead == -1

\* A call of persistPendingState: `at` is how far persistGlobalStateBatch is,
\* `seen` the entries of the pending set its loop has passed, `took` and `held`
\* the plain values it has collected, `history` the value being written.
RunStates == [at : {"idle", "history", "tail"}, timed : BOOLEAN, settings : BOOLEAN,
              rejected : BOOLEAN, seen : SUBSET Global, took : SUBSET Plain,
              held : [Plain -> Values], history : Values]

Idle == [at |-> "idle", timed |-> FALSE, settings |-> FALSE, rejected |-> FALSE,
         seen |-> {}, took |-> {}, held |-> [i \in Plain |-> 0], history |-> 0]

TypeOK == /\ cache \in [Items -> Values]
          /\ data \in [Stored -> Values]
          /\ disk \in [Items -> Values]
          /\ pending \subseteq Items \union {Settings}
          /\ handle \in {"none", "armed", "spent"}
          /\ loose \in Nat
          /\ run \in [Runs -> RunStates]
          /\ changed \in BOOLEAN
          /\ onDisk \in Values \union {NoRead}
          /\ now \in Values
          /\ exposed \subseteq Items
          /\ stranded \in BOOLEAN

Init == /\ cache = [i \in Items |-> 0]
        /\ data = [i \in Stored |-> 0]
        /\ disk = [i \in Items |-> 0]
        /\ pending = {}
        /\ handle = "none" /\ loose = 0
        /\ run = [r \in Runs |-> Idle]
        /\ changed = FALSE /\ onDisk = NoRead
        /\ now = 0
        /\ exposed = {} /\ stranded = FALSE

NoWriteUnderWay == \A r \in Runs : run[r] = Idle

-----------------------------------------------------------------------------
\* scheduleDebouncedPersistence: clearTimeout on the handle, then a new timer.
Schedule == handle' = "armed" /\ stranded' = FALSE /\ UNCHANGED loose

Set(i) == /\ now < MaxChanges
          /\ now' = now + 1
          /\ cache' = [cache EXCEPT ![i] = now + 1]
          /\ pending' = pending \union {i}
          /\ Schedule
          /\ exposed' = IF NoWriteUnderWay THEN exposed \ {i} ELSE exposed \union {i}
          /\ UNCHANGED <<data, disk, run, changed, onDisk>>

SetTaskSettings == /\ now < MaxChanges
                   /\ now' = now + 1
                   /\ pending' = pending \union {Settings}
                   /\ Schedule
                   /\ UNCHANGED <<cache, data, disk, run, changed, onDisk, exposed>>

\* clearTaskSettings writes the task settings itself and empties their pending set.
ClearTaskSettings == /\ Settings \in pending
                     /\ pending' = pending \ {Settings}
                     /\ UNCHANGED <<cache, data, disk, handle, loose, run, changed,
                                    onDisk, now, exposed, stranded>>

-----------------------------------------------------------------------------
\* What a store is given for key i: a plain value as collected, else the cached one.
Entry(c, i) == IF i \in Plain THEN c.held[i] ELSE cache[i]

FileOf(i) == IF i \in Plain THEN Plain ELSE Direct

\* setBatch puts the keys S into the store's copy and writes their whole files over
\* `files`; writeToDisk logs a failure and goes on.
SetBatch(S, c, files) ==
  /\ data' = [i \in Stored |-> IF i \in S THEN Entry(c, i) ELSE data[i]]
  /\ \E ok \in StoreOutcomes :
       /\ disk' = [i \in Items |-> IF ok /\ i \in Stored /\ FileOf(i) \intersect S # {}
                                     THEN data'[i] ELSE files[i]]
       /\ exposed' = IF ok THEN exposed ELSE exposed \union S

\* The loop collects the plain keys S.
Take(c, S) ==
  [c EXCEPT !.seen = @ \union S, !.took = @ \union S,
            !.held = [i \in Plain |-> IF i \in S THEN cache[i] ELSE c.held[i]]]

\* A rejected call whose parts have all ended is forgotten.
Rest(c) == IF c.rejected /\ c.at = "tail" /\ ~c.settings THEN Idle ELSE c

\* The loop of persistGlobalStateBatch over the live pending set, from where call
\* r stands (c) to the write of the task history, or to its end and the write of
\* the plain keys.  D are the secrets and workspace keys written in the same step.
Iterate(r, c, D, files) ==
  LET unseen == (pending \intersect Global) \ c.seen
      all == Take(c, unseen)
  IN \/ /\ History \in unseen
        /\ \E earlier \in SUBSET (unseen \ {History}) :
             run' = [run EXCEPT ![r] = [Take(c, earlier) EXCEPT !.seen = @ \union {History},
                                          !.at = "history", !.history = cache[History]]]
        /\ SetBatch(D, c, files)
     \/ /\ History \notin unseen
        /\ run' = [run EXCEPT ![r] = Rest([all EXCEPT !.at = "tail"])]
        /\ SetBatch(all.took \union D, all, files)

\* persistPendingState, when something is pending.
Persist(r, timed) ==
  /\ run[r] = Idle
  /\ pending # {}
  /\ Iterate(r, [Idle EXCEPT !.timed = timed, !.settings = Settings \in pending],
             pending \intersect Direct, disk)
  /\ UNCHANGED <<cache, pending, changed, onDisk, now, stranded>>

NothingToPersist == pending = {} /\ UNCHANGED <<cache, data, disk, pending, run, changed,
                                                onDisk, now, exposed, stranded>>

\* The timer callback's last word, `persistenceTimeout = null`, whatever timer the
\* handle holds by then.
ForgetTimer == handle' = "none" /\ loose' = loose + IF handle = "armed" THEN 1 ELSE 0

\* The timer the handle points to fires, or one it has forgotten.
HandleFires(r) == /\ handle = "armed"
                  /\ \/ Persist(r, TRUE) /\ handle' = "spent"
                     \/ NothingToPersist /\ handle' = "none"
                  /\ UNCHANGED loose

LooseFires(r) == /\ loose > 0
                 /\ \/ Persist(r, TRUE) /\ UNCHANGED handle /\ loose' = loose - 1
                    \/ /\ NothingToPersist
                       /\ handle' = "none"
                       /\ loose' = loose - IF handle = "armed" THEN 0 ELSE 1

\* flushPendingState cancels the timer of the handle and persists at once.
Flush(r) == /\ \/ Persist(r, FALSE)
               \/ NothingToPersist
            /\ handle' = "none"
            /\ UNCHANGED loose

\* The renaming of taskHistory.json; the loop goes on.
HistoryWritten(r) ==
  /\ run[r].at = "history"
  /\ Iterate(r, run[r], {}, [disk EXCEPT ![History] = run[r].history])
  /\ changed' = TRUE
  /\ UNCHANGED <<cache, pending, handle, loose, onDisk, now, stranded>>

SettingsWritten(r) ==
  /\ run[r].settings
  /\ run' = [run EXCEPT ![r] = Rest([@ EXCEPT !.settings = FALSE])]
  /\ UNCHANGED <<cache, data, disk, pending, handle, loose, changed, onDisk, now,
                 exposed, stranded>>

\* Mutant: only the keys of the global state are cleared.
FinishGlobal(r) ==
  /\ run[r].at = "tail" /\ ~run[r].settings /\ ~run[r].rejected
  /\ pending' = pending \ Global
  /\ run' = [s \in Runs |-> IF s = r THEN Idle ELSE [run[s] EXCEPT !.seen = {}]]
  /\ IF run[r].timed THEN ForgetTimer ELSE UNCHANGED <<handle, loose>>
  /\ UNCHANGED <<cache, data, disk, changed, onDisk, now, exposed, stranded>>

\* Promise.all resolves: everything pending is cleared, and other calls' loops have
\* no entry left behind them.
Finish(r) ==
  /\ run[r].at = "tail" /\ ~run[r].settings /\ ~run[r].rejected
  /\ pending' = {}
  /\ run' = [s \in Runs |-> IF s = r THEN Idle ELSE [run[s] EXCEPT !.seen = {}]]
  /\ IF run[r].timed THEN ForgetTimer ELSE UNCHANGED <<handle, loose>>
  /\ UNCHANGED <<cache, data, disk, changed, onDisk, now, exposed, stranded>>

\* Mutant: the pending sets are cleared in a finally block.
RejectAndClear(r, c) ==
  /\ run' = [run EXCEPT ![r] = Rest([c EXCEPT !.rejected = TRUE])]
  /\ stranded' = (stranded \/ ~c.rejected)
  /\ IF c.timed /\ ~c.rejected THEN ForgetTimer ELSE UNCHANGED <<handle, loose>>
  /\ pending' = {}
  /\ UNCHANGED <<cache, data, disk, changed, onDisk, now, exposed>>

\* The first of the call's writes to fail rejects Promise.all: the pending sets stay,
\* and the other write, if any, goes on unwatched.
Reject(r, c) ==
  /\ run' = [run EXCEPT ![r] = Rest([c EXCEPT !.rejected = TRUE])]
  /\ stranded' = (stranded \/ (~c.rejected /\ handle # "armed" /\ loose = 0))
  /\ IF c.timed /\ ~c.rejected THEN ForgetTimer ELSE UNCHANGED <<handle, loose>>
  /\ UNCHANGED <<cache, data, disk, pending, changed, onDisk, now, exposed>>

HistoryFails(r) == run[r].at = "history" /\ Reject(r, [run[r] EXCEPT !.at = "tail"])

SettingsFail(r) == run[r].settings /\ Reject(r, [run[r] EXCEPT !.settings = FALSE])

-----------------------------------------------------------------------------
\* Another window, or the user, changes taskHistory.json.
ExternalWrite == /\ now < MaxChanges
                 /\ now' = now + 1
                 /\ disk' = [disk EXCEPT ![History] = now + 1]
                 /\ changed' = TRUE
                 /\ UNCHANGED <<cache, data, pending, handle, loose, run, onDisk,
                                exposed, stranded>>

\* syncTaskHistoryFromDisk: the file is read, then the cache is set to what it held.
WatchRead == /\ changed /\ onDisk = NoRead
             /\ changed' = FALSE
             /\ onDisk' = disk[History]
             /\ UNCHANGED <<cache, data, disk, pending, handle, loose, run, now,
                            exposed, stranded>>

WatchApply == /\ onDisk # NoRead
              /\ cache' = [cache EXCEPT ![History] = onDisk]
              /\ onDisk' = NoRead
              /\ UNCHANGED <<data, disk, pending, handle, loose, run, changed, now,
                             exposed, stranded>>

\* The process dies and starts again: initialize reads everything from disk.
Restart == /\ cache' = disk
           /\ data' = [i \in Stored |-> disk[i]]
           /\ pending' = {}
           /\ handle' = "none" /\ loose' = 0
           /\ run' = [r \in Runs |-> Idle]
           /\ changed' = FALSE /\ onDisk' = NoRead
           /\ exposed' = {} /\ stranded' = FALSE
           /\ UNCHANGED <<disk, now>>

-----------------------------------------------------------------------------
Setter == (\E i \in Items : Set(i)) \/ SetTaskSettings \/ ClearTaskSettings

Fires == \E r \in Runs : HandleFires(r) \/ LooseFires(r)

WriteEnds(r) == \/ HistoryWritten(r) \/ HistoryFails(r)
                \/ SettingsWritten(r) \/ SettingsFail(r) \/ Finish(r)

Watch == WatchRead \/ WatchApply

Next == \/ Setter \/ Fires \/ Watch
        \/ \E r \in Runs : Flush(r) \/ WriteEnds(r)
        \/ ExternalWrite \/ Restart

Spec == Init /\ [][Next]_vars

\* Timers fire, file operations return and the watcher reports.  A timer never waits
\* for a slot in the code: SF keeps flushes from holding all of Runs for ever.
FairSpec == /\ Spec
            /\ SF_vars(Fires) /\ WF_vars(Watch)
            /\ \A r \in Runs : WF_vars(WriteEnds(r))

-----------------------------------------------------------------------------
\* A change that raced no write and met no silent failure is safe: while the cached
\* value is not the one in the file, its key is pending, or for the task history
\* the watcher is about to bring the file's value into the cache.
Durable == \A i \in Items \ exposed :
             cache[i] # disk[i] => \/ i \in pending
                                   \/ i = History /\ (changed \/ onDisk # NoRead)

\* What is pending is never forgotten by the clock: a live timer or a call under way
\* will write it, however timers, their shared handle and flushes overlap, unless a
\* write has failed when no timer was left to try again.
PendingIsScheduled ==
  pending # {} => handle = "armed" \/ loose > 0 \/ ~NoWriteUnderWay \/ stranded

\* Pending changes are written, unless a write fails; nothing waits for ever.
Drains == []<>(pending = {} \/ stranded)

\* The comment "Clear pending sets after successful persistence": a key stops being
\* pending only when its cached value is in its file.
ClearedWhenWritten ==
  [][\A i \in Items : i \in pending \ pending' => disk'[i] = cache'[i]]_vars

=============================================================================
