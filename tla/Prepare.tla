------------------------------ MODULE Prepare ------------------------------
(***************************************************************************)
(* The prepare phase of one process and one endpoint, with its KV metadata *)
(* cache: prepare_objects is run again and again on the same storage, and  *)
(* PUTs, listings and checkpoints fail and the process crashes in between. *)
(*                                                                         *)
(* A run restores the cache from the archive on the storage, surveys every *)
(* pool (the cache's coverage or a LIST), PUTs what it takes for missing   *)
(* with concurrent tasks whose results the main task collects, retries     *)
(* what failed, and writes the cache back as an archive.  A background     *)
(* task archives the cache meanwhile.                                      *)
(*                                                                         *)
(* Abstractions.  There is one ensure_objects entry.  A cache is the set   *)
(* of file indices it holds as Created, the only state prepare records.    *)
(* Sizes, contents, progress and metrics are left out, and retries of one  *)
(* PUT with back-off are a single outcome.  Which of the unflushed cache   *)
(* entries are in the local files, when those are archived or the process  *)
(* dies, is left open: any of them may be.                                 *)
(***************************************************************************)
EXTENDS Integers, Sequences, FiniteSets

CONSTANTS
    Count,           \* ensure_objects.count
    Configs,         \* the configurations a run may have (see Config)
    TaskChunkSize,   \* TASK_CHUNK_SIZE, 100 000 in the code
    MaxErrors,       \* DEFAULT_PREPARE_MAX_ERRORS, 100 in the code
    MaxConsecutive,  \* DEFAULT_PREPARE_MAX_CONSECUTIVE_ERRORS, 10 in the code
    MaxRuns,         \* bound: runs of prepare_objects
    MaxFaults,       \* bound: failures and crashes in all runs together
    MaxWrites,       \* bound: periodic archives being written at one time
    NoCache,         \* no cache: not open, no directory, or no archive
    Torn             \* an archive cut off by a crash

Indices  == 0 .. (Count - 1)
Contents == SUBSET Indices   \* of a cache

\* What of the configuration decides the course of prepare.  tree: a
\* directory_structure is given; sharded: key_prefix_shards > 0.
Config == [strategy    : {"parallel", "sequential"},
           layout      : {"flat", "sharded", "tree"},
           pools       : {<<"prepared">>, <<"prepared", "deletable">>},
           concurrency : Nat \ {0},
           force       : BOOLEAN,    \* force_overwrite
           skip        : BOOLEAN,    \* skip_verification
           cleanup     : BOOLEAN,    \* cleanup after the workload
           cache       : BOOLEAN]    \* enable_metadata_cache

ASSUME PrepareAssumption ==
    /\ Count \in Nat \ {0}
    /\ Configs \subseteq Config
    /\ TaskChunkSize \in Nat \ {0}
    /\ MaxErrors \in Nat \ {0}
    /\ MaxConsecutive \in Nat \ {0}
    /\ MaxRuns \in Nat
    /\ MaxFaults \in Nat
    /\ MaxWrites \in Nat
    /\ \A D \in Contents : D # NoCache /\ D # Torn
    /\ NoCache # Torn

VARIABLES
    config,       \* configuration, the same in every run
    pc,           \* where the run is
    runs, faults, \* runs begun and faults so far
    storage,      \* objects (see Uri) on the storage under test
    archive,      \* checkpoint archive on the storage: contents, NoCache or Torn
    writes,       \* contents of periodic archives whose write is under way
    disk,         \* local cache directory: what is surely in its files, or no directory
    kv,           \* the open metadata cache
    surveyed,     \* pools surveyed in this run
    todo,         \* tasks not spawned yet
    running,      \* tasks spawned, PUT under way
    arrived,      \* successful PUTs the main task has not collected yet
    total,        \* total_to_create
    failed,       \* PrepareErrorTracker.failed_objects; total_errors is their number
    consecutive,  \* PrepareErrorTracker.consecutive_errors
    aborting,     \* some PUT reached an error threshold (error_result)
    retrying,     \* tasks of the deferred retry phase
    prepared,     \* all_prepared, the objects the run reports as ready
    permanent     \* permanent_failures of the retry phases

storageVars == <<storage, archive, writes>>
cacheVars   == <<disk, kv>>
trackerVars == <<failed, consecutive, aborting>>
taskVars    == <<todo, running, arrived, total, retrying>>
reportVars  == <<prepared, permanent>>
vars == <<config, pc, runs, faults, storage, archive, writes, disk, kv,
          surveyed, todo, running, arrived, total, failed,
          consecutive, aborting, retrying, prepared, permanent>>

PoolNames == {config.pools[k] : k \in 1 .. Len(config.pools)}

\* A task is an object of a pool, and Uri is where it is stored: the paths of
\* a directory tree do not name the pool.
Tasks == PoolNames \X Indices
Uri(t) == <<IF config.layout = "tree" THEN "file" ELSE t[1], t[2]>>
Uris == {Uri(t) : t \in Tasks}

Working == {"survey", "create", "drain", "retry", "checkpoint"}

TypeOK ==
    /\ config \in Configs
    /\ pc \in Working \cup {"idle", "done", "failed", "cleaned"}
    /\ runs \in 0 .. MaxRuns
    /\ faults \in 0 .. MaxFaults
    /\ storage \subseteq Uris
    /\ archive \in {NoCache, Torn} \/ archive \in Contents
    /\ writes \subseteq Contents
    /\ disk # Torn /\ (disk = NoCache \/ disk \in Contents)
    /\ kv = NoCache \/ kv \in Contents
    /\ surveyed \in 0 .. Len(config.pools)
    /\ {todo, running, arrived, failed, retrying, prepared, permanent} \subseteq SUBSET Tasks
    /\ total \in Nat
    /\ consecutive \in Nat
    /\ aborting \in BOOLEAN

Init ==
    /\ config \in Configs
    /\ pc = "idle"
    /\ runs = 0
    /\ faults = 0
    /\ storage = {}
    /\ archive = NoCache
    /\ writes = {}
    /\ disk = NoCache
    /\ kv = NoCache
    /\ surveyed = 0
    /\ todo = {} /\ running = {} /\ arrived = {} /\ retrying = {}
    /\ total = 0
    /\ failed = {}
    /\ consecutive = 0
    /\ aborting = FALSE
    /\ prepared = {} /\ permanent = {}

\* Something outside the program goes wrong.
Fault == faults < MaxFaults /\ faults' = faults + 1
NoFault == UNCHANGED faults

\* The sets between what was flushed and what the open cache holds.
OnDisk == IF kv = NoCache \/ disk = NoCache THEN {disk}
          ELSE {D \in Contents : disk \subseteq D /\ D \subseteq kv}

(***************************************************************************)
(* Opening the cache                                                       *)
(***************************************************************************)

\* A slip: an archive cut off by a crash is unpacked like any other.
RestoredTorn(got) == IF got # NoCache THEN got
                     ELSE IF disk = NoCache THEN {} ELSE disk

\* The local directory after try_restore_from_checkpoint: a readable archive
\* replaces it, whatever it held; a torn one fails before the removal.
Restored(got) == IF got \notin {NoCache, Torn} THEN got
                 ELSE IF disk = NoCache THEN {} ELSE disk

\* prepare_objects up to the strategy: the cache is restored and opened, or
\* the run does without one; a checkpoint that cannot be fetched counts as none.
Begin ==
    /\ pc = "idle"
    /\ runs < MaxRuns
    /\ runs' = runs + 1
    /\ \/ /\ ~config.cache
          /\ NoFault
          /\ UNCHANGED cacheVars
       \/ /\ config.cache
          /\ \/ NoFault /\ disk' = Restored(archive)
             \/ Fault /\ archive # NoCache /\ disk' = Restored(NoCache)
          /\ kv' = disk'
       \/ /\ config.cache
          /\ Fault
          /\ disk' = Restored(archive)
          /\ kv' = NoCache
    /\ pc' = "survey"
    /\ surveyed' = 0
    /\ prepared' = {}
    /\ permanent' = {}
    /\ UNCHANGED <<config, storageVars, taskVars, trackerVars>>

(***************************************************************************)
(* Surveying a pool                                                        *)
(***************************************************************************)

\* CheckpointCoverage.covers_all: the keys are the config hash and the file
\* index, so entries of every pool count.
CoversAll == kv # NoCache /\ Cardinality(kv) >= Count

\* Objects a LIST sees.  The flat pattern ends in "/", under which there is
\* nothing; the others list everything below the base URI.
Listed == IF config.layout = "flat" THEN {} ELSE storage

\* Files a LIST counts that are no objects: the single-node checkpoint archive.
AlienFiles == IF config.layout = "flat" \/ archive = NoCache THEN 0 ELSE 1

\* existing_count and existing_indices when LIST returned found
Existing(found) ==
    CASE config.force -> [count |-> 0, idx |-> {}]
      [] ~config.force /\ (config.skip \/ CoversAll) -> [count |-> Count, idx |-> {}]
      [] OTHER -> [count |-> Cardinality(found) + AlienFiles,
                   idx   |-> {u[2] : u \in found}]

NeedsList == ~config.force /\ ~config.skip /\ ~CoversAll

\* The tasks the survey of pool p adds: parallel goes by the indices it does
\* not know of, sequential only if the number of files is short.
Missing(p, existing) ==
    IF \/ config.strategy = "parallel" /\ config.skip /\ ~config.force
       \/ config.strategy = "sequential" /\ existing.count >= Count
    THEN {}
    ELSE {p} \X (Indices \ existing.idx)

\* Where a run goes when a pool (sequential) or all pools (parallel) are done
NextPool(n) == IF n < Len(config.pools) THEN "survey" ELSE "checkpoint"

\* One pool is surveyed.  Listing errors below the threshold drop objects from
\* the result.  With nothing to create the objects are reported as existing:
\* in sequential per pool, in parallel only if no pool needs anything.
Survey ==
    LET p == config.pools[surveyed + 1]
        n == surveyed + 1
    IN
    /\ pc = "survey"
    /\ \E found \in IF NeedsList THEN SUBSET Listed ELSE {{}} :
        LET tasks == Missing(p, Existing(found))
            all   == todo \cup tasks
        IN
        /\ IF NeedsList /\ found # Listed THEN Fault ELSE NoFault
        /\ todo' = all
        /\ total' = Cardinality(all)
        /\ IF config.strategy = "sequential"
           THEN /\ pc' = IF tasks # {} THEN "create" ELSE NextPool(n)
                /\ prepared' = IF tasks # {} THEN prepared
                               ELSE prepared \cup {p} \X Indices
           ELSE /\ pc' = IF n < Len(config.pools) THEN "survey"
                         ELSE IF all # {} THEN "create" ELSE "checkpoint"
                /\ prepared' = IF n = Len(config.pools) /\ all = {} THEN Tasks ELSE prepared
    /\ surveyed' = n
    /\ failed' = {}
    /\ consecutive' = 0
    /\ aborting' = FALSE
    /\ UNCHANGED <<config, runs, storageVars, cacheVars, running, arrived, retrying, permanent>>

\* Listing errors reach their threshold and prepare returns the error.
ListingAborted ==
    /\ pc = "survey"
    /\ NeedsList
    /\ Fault
    /\ pc' = "failed"
    /\ todo' = {}
    /\ UNCHANGED <<config, runs, storageVars, cacheVars, surveyed, running, arrived, total,
                   retrying, trackerVars, reportVars>>

(***************************************************************************)
(* Creating objects                                                        *)
(***************************************************************************)

\* A slip the properties must notice: objects recorded as Created when their
\* tasks are spawned.
SpawnChunkRecords ==
    /\ pc = "create"
    /\ running = {} /\ arrived = {}
    /\ todo # {}
    /\ ~aborting
    /\ running' = todo
    /\ todo' = {}
    /\ kv' = IF kv = NoCache THEN kv ELSE kv \cup {t[2] : t \in todo}
    /\ UNCHANGED <<config, pc, runs, faults, storageVars, disk, surveyed, arrived, total,
                   retrying, trackerVars, reportVars>>

\* The next chunk is spawned: all tasks of the pool in sequential, in parallel
\* TASK_CHUNK_SIZE tasks in the order of their indices.
SpawnChunk ==
    /\ pc = "create"
    /\ running = {} /\ arrived = {}
    /\ todo # {}
    /\ ~aborting
    /\ \E chunk \in SUBSET todo :
        /\ chunk # {}
        /\ IF config.strategy = "sequential" THEN chunk = todo
           ELSE \/ chunk = todo /\ Cardinality(todo) <= TaskChunkSize
                \/ Cardinality(chunk) = TaskChunkSize
        /\ \A t \in chunk, u \in todo \ chunk : t[2] <= u[2]
        /\ running' = chunk
        /\ todo' = todo \ chunk
    /\ UNCHANGED <<config, pc, runs, faults, storageVars, cacheVars, surveyed, arrived, total,
                   retrying, trackerVars, reportVars>>

\* A task's PUT succeeds.
PutOk(t) ==
    /\ t \in running
    /\ storage' = storage \cup {Uri(t)}
    /\ running' = running \ {t}
    /\ arrived' = arrived \cup {t}
    /\ consecutive' = 0
    /\ UNCHANGED <<config, pc, runs, faults, archive, writes, cacheVars, surveyed, todo, total,
                   failed, aborting, retrying, reportVars>>

\* PrepareErrorTracker::record_error
OverThreshold(errors, inARow) == errors >= MaxErrors \/ inARow >= MaxConsecutive

\* A task's PUT fails for good; the object may have been stored all the same.
PutFailed(t) ==
    /\ t \in running
    /\ Fault
    /\ storage' \in {storage, storage \cup {Uri(t)}}
    /\ running' = running \ {t}
    /\ failed' = failed \cup {t}
    /\ consecutive' = consecutive + 1
    /\ aborting' = (aborting \/ OverThreshold(Cardinality(failed'), consecutive'))
    /\ UNCHANGED <<config, pc, runs, archive, writes, cacheVars, surveyed, todo, arrived, total,
                   retrying, reportVars>>

\* The main task collects a success and records it in the cache, unflushed.
Collect(t) ==
    /\ t \in arrived
    /\ arrived' = arrived \ {t}
    /\ kv' = IF kv = NoCache THEN kv ELSE kv \cup {t[2]}
    /\ prepared' = prepared \cup {t}
    /\ UNCHANGED <<config, pc, runs, faults, storageVars, disk, surveyed, todo, running, total,
                   retrying, trackerVars, permanent>>

\* determine_retry_strategy: more than 80 % failures are not retried.
WorthRetrying == Cardinality(failed) * 100 <= 80 * total

\* Where the run goes when its tasks are done
AfterTasks == IF config.strategy = "sequential" THEN NextPool(surveyed) ELSE "checkpoint"

\* A slip: failures that are not worth retrying are dropped.
EndCreateForgets ==
    /\ pc = "create"
    /\ running = {} /\ arrived = {}
    /\ todo = {} \/ aborting
    /\ pc' = IF aborting THEN "drain"
             ELSE IF failed # {} /\ WorthRetrying THEN "retry" ELSE AfterTasks
    /\ retrying' = IF ~aborting /\ WorthRetrying THEN failed ELSE {}
    /\ UNCHANGED <<config, runs, faults, storageVars, cacheVars, surveyed, todo, running,
                   arrived, total, trackerVars, reportVars>>

\* All spawned tasks are collected, and there are no more or one asked to
\* abort.  What failed is retried later or is permanent.
EndCreate ==
    /\ pc = "create"
    /\ running = {} /\ arrived = {}
    /\ todo = {} \/ aborting
    /\ pc' = IF aborting THEN "drain"
             ELSE IF failed # {} /\ WorthRetrying THEN "retry" ELSE AfterTasks
    /\ retrying' = IF ~aborting /\ WorthRetrying THEN failed ELSE {}
    /\ permanent' = IF aborting \/ WorthRetrying THEN permanent ELSE permanent \cup failed
    /\ UNCHANGED <<config, runs, faults, storageVars, cacheVars, surveyed, todo, running,
                   arrived, total, trackerVars, prepared>>

\* A slip: failed objects do not advance the progress the monitor waits for.
DrainSuccesses ==
    /\ pc = "drain"
    /\ todo = {}
    /\ failed = {}
    /\ pc' = "failed"
    /\ UNCHANGED <<config, runs, faults, storageVars, cacheVars, surveyed, taskVars, trackerVars,
                   reportVars>>

\* The error is returned once the progress monitor has ended, which it does
\* when every object counted in total_to_create was attempted.
Drain ==
    /\ pc = "drain"
    /\ todo = {}
    /\ pc' = "failed"
    /\ UNCHANGED <<config, runs, faults, storageVars, cacheVars, surveyed, taskVars, trackerVars,
                   reportVars>>

\* The retry tasks share concurrency / 4 permits.
RetryPermits == config.concurrency \div 4

\* A deferred retry succeeds; the cache is not told.
RetryOk(t) ==
    /\ t \in retrying
    /\ RetryPermits > 0
    /\ storage' = storage \cup {Uri(t)}
    /\ retrying' = retrying \ {t}
    /\ prepared' = prepared \cup {t}
    /\ UNCHANGED <<config, pc, runs, faults, archive, writes, cacheVars, surveyed, todo, running,
                   arrived, total, trackerVars, permanent>>

\* A slip: an object whose retry failed is reported as ready.
RetryFailedReady(t) ==
    /\ t \in retrying
    /\ RetryPermits > 0
    /\ Fault
    /\ retrying' = retrying \ {t}
    /\ permanent' = permanent \cup {t}
    /\ prepared' = prepared \cup {t}
    /\ UNCHANGED <<config, pc, runs, storageVars, cacheVars, surveyed, todo, running,
                   arrived, total, trackerVars>>

\* A deferred retry fails too.
RetryFailed(t) ==
    /\ t \in retrying
    /\ RetryPermits > 0
    /\ Fault
    /\ storage' \in {storage, storage \cup {Uri(t)}}
    /\ retrying' = retrying \ {t}
    /\ permanent' = permanent \cup {t}
    /\ UNCHANGED <<config, pc, runs, archive, writes, cacheVars, surveyed, todo, running,
                   arrived, total, trackerVars, prepared>>

EndRetry ==
    /\ pc = "retry"
    /\ retrying = {}
    /\ pc' = AfterTasks
    /\ UNCHANGED <<config, runs, faults, storageVars, cacheVars, surveyed, taskVars, trackerVars,
                   reportVars>>

(***************************************************************************)
(* Checkpoints                                                             *)
(***************************************************************************)

\* The timer of the background task fires: it archives the directory of the
\* live cache and hands the bytes to a blocking write.  It is stopped before
\* the final checkpoint, but not when prepare returns an error.
PeriodicArchive ==
    /\ pc \in (Working \ {"checkpoint"}) \cup {"failed"}
    /\ kv # NoCache
    /\ Cardinality(writes) < MaxWrites
    /\ \E D \in OnDisk : writes' = writes \cup {D}
    /\ UNCHANGED <<config, pc, runs, faults, storage, archive, cacheVars, surveyed, taskVars,
                   trackerVars, reportVars>>

\* A periodic write ends, even after its task was aborted or timed out.  It
\* may fail before or after it has truncated the old archive.
PeriodicWritten ==
    /\ \E D \in writes :
        /\ writes' = writes \ {D}
        /\ \/ NoFault /\ archive' = D
           \/ Fault /\ archive' \in {archive, Torn}
    /\ UNCHANGED <<config, pc, runs, storage, cacheVars, surveyed, taskVars, trackerVars,
                   reportVars>>

\* A directory of the tree cannot be made: prepare returns the error.
MkdirFailed ==
    /\ pc = "checkpoint"
    /\ config.layout = "tree"
    /\ Fault
    /\ pc' = "failed"
    /\ UNCHANGED <<config, runs, storageVars, cacheVars, surveyed, taskVars, trackerVars,
                   reportVars>>

\* The end of prepare_objects: the cache is flushed and archived, and after a
\* success its directory removed.  Failing all attempts is not fatal; the last
\* write may have been cut off, or may complete after its timeout.
FinalCheckpoint ==
    /\ pc = "checkpoint"
    /\ pc' = "done"
    /\ \/ kv = NoCache /\ NoFault /\ UNCHANGED <<archive, disk>>
       \/ kv # NoCache /\ NoFault /\ archive' = kv /\ disk' = NoCache
       \/ kv # NoCache /\ Fault /\ disk' = kv /\ archive' \in {archive, kv, Torn}
    /\ kv' = NoCache
    /\ UNCHANGED <<config, runs, storage, writes, surveyed, taskVars, trackerVars, reportVars>>

(***************************************************************************)
(* After prepare                                                           *)
(***************************************************************************)

\* cleanup_prepared_objects deletes what prepare reported; in a directory tree
\* it then deletes all that is left below the base URI.  The cache is not told.
Cleanup ==
    /\ pc = "done"
    /\ config.cleanup
    /\ prepared # {}
    /\ LET tree   == config.layout = "tree"
           doomed == IF tree THEN storage ELSE {Uri(t) : t \in prepared}
       IN  \/ /\ NoFault
              /\ storage' = storage \ doomed
              /\ archive' = IF tree THEN NoCache ELSE archive
           \/ /\ Fault
              /\ storage' \in {storage \ D : D \in SUBSET doomed}
              /\ archive' \in IF tree THEN {archive, NoCache} ELSE {archive}
    /\ pc' = "cleaned"
    /\ UNCHANGED <<config, runs, writes, cacheVars, surveyed, taskVars, trackerVars, reportVars>>

\* What a run kept in memory is gone.
Forget ==
    /\ pc' = "idle"
    /\ kv' = NoCache
    /\ disk' \in OnDisk
    /\ surveyed' = 0
    /\ todo' = {} /\ running' = {} /\ arrived' = {} /\ retrying' = {}
    /\ total' = 0
    /\ failed' = {}
    /\ consecutive' = 0
    /\ aborting' = FALSE
    /\ prepared' = {} /\ permanent' = {}

\* The run is over; the process may go on to another one.
Leave ==
    /\ pc \in {"done", "failed", "cleaned"}
    /\ Forget
    /\ UNCHANGED <<config, runs, faults, storageVars>>

\* The process dies.  A write under way is cut off, or was complete.
Crash ==
    /\ pc # "idle"
    /\ Fault
    /\ Forget
    /\ archive' \in {archive} \cup writes \cup
                    (IF writes # {} \/ (pc = "checkpoint" /\ kv # NoCache) THEN {Torn} ELSE {})
    /\ writes' = {}
    /\ UNCHANGED <<config, runs, storage>>

Progress ==
    \/ Survey \/ SpawnChunk \/ EndCreate \/ Drain \/ EndRetry \/ FinalCheckpoint
    \/ \E t \in Tasks : PutOk(t) \/ PutFailed(t) \/ Collect(t) \/ RetryOk(t) \/ RetryFailed(t)

Next ==
    \/ Begin \/ Progress \/ ListingAborted \/ MkdirFailed
    \/ PeriodicArchive \/ PeriodicWritten
    \/ Cleanup \/ Leave \/ Crash

\* The tasks of a run are scheduled as long as they can do something, and
\* every storage operation returns.
Spec == Init /\ [][Next]_vars /\ WF_vars(Progress)

(***************************************************************************)
(* Properties                                                              *)
(***************************************************************************)

\* Every index that the open cache, its files, the archive or an archive being
\* written holds as Created has an object on the storage: a crash at any point
\* between PUT, record_created, flush and checkpoint, and a restore of any
\* older copy, may forget objects but never invents one.  (Cleanup deletes
\* objects behind the cache's back.)
Recorded == UNION (({kv, disk, archive} \ {NoCache, Torn}) \cup writes)
CacheSound == ~config.cleanup => \A i \in Recorded : \E u \in storage : u[2] = i

\* When prepare_objects returns Ok, every object of every pool is on the
\* storage or was reported as permanently failed: what the coverage of the
\* cache and the LIST let the run skip really exists, and no task is lost
\* between chunks, collection and retries.
Ready == \A t \in Tasks : Uri(t) \in storage \/ t \in permanent
ReadyMeansPresent == pc = "done" /\ (config.force \/ ~config.skip) => Ready

\* Every object prepare_objects reports as ready (all_prepared, which the
\* cleanup will delete) is on the storage, even if the report was put together
\* from the cache's coverage or a count of files.
ReportedArePresent ==
    pc = "done" /\ (config.force \/ ~config.skip) => \A t \in prepared : Uri(t) \in storage

\* Every run of prepare_objects returns, whatever fails, unless it crashes.
PrepareEnds == pc \in Working ~> pc \notin Working
=============================================================================
