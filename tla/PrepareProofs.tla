--------------------------- MODULE PrepareProofs ---------------------------
(***************************************************************************)
(* Theorems about Prepare, for every number of objects, chunk size, set of *)
(* thresholds, and number of runs, faults and late writes: the types, the  *)
(* soundness of the metadata cache across crashes and restores, and that a *)
(* prepare that can know what it skips loses no object and reports none    *)
(* that is missing.                                                        *)
(***************************************************************************)
EXTENDS Prepare, FiniteSetTheorems, TLAPS

(***************************************************************************)
(* Constants and frames                                                    *)
(***************************************************************************)

\* There is a pool, and the pools of the configuration are its pool names.
LEMMA Pools ==
    ASSUME TypeOK
    PROVE  /\ Len(config.pools) \in Nat
           /\ Len(config.pools) >= 1
           /\ \A k \in 1 .. Len(config.pools) : config.pools[k] \in PoolNames
           /\ config \in Config
<1>1. config \in Config
  BY PrepareAssumption DEF TypeOK
<1>2. config.pools = <<"prepared">> \/ config.pools = <<"prepared", "deletable">>
  BY <1>1 DEF Config
<1>3. Len(<<"prepared">>) = 1 /\ Len(<<"prepared", "deletable">>) = 2
  OBVIOUS
<1>4. Len(config.pools) = 1 \/ Len(config.pools) = 2
  BY <1>2, <1>3
<1>5. \A k \in 1 .. Len(config.pools) : config.pools[k] \in PoolNames
  BY Zenon DEF PoolNames
<1>6. Len(config.pools) \in Nat /\ Len(config.pools) >= 1
  BY <1>4
<1> QED
  BY <1>1, <1>5, <1>6

\* Every set of tasks is finite.
LEMMA FiniteTasks ==
    ASSUME TypeOK, NEW S \in SUBSET Tasks
    PROVE  IsFiniteSet(S) /\ Cardinality(S) \in Nat
<1>1. config.pools = <<"prepared">> \/ config.pools = <<"prepared", "deletable">>
  BY Pools DEF Config
<1>2. PoolNames \subseteq {"prepared", "deletable"}
  BY <1>1 DEF PoolNames
<1>3. IsFiniteSet({"prepared", "deletable"})
  <2>1. IsFiniteSet({"prepared"} \cup {"deletable"})
    BY FS_Singleton, FS_Union
  <2> QED
    BY <2>1
<1>4. IsFiniteSet(PoolNames)
  BY <1>2, <1>3, FS_Subset
<1>5. IsFiniteSet(Indices)
  BY PrepareAssumption, FS_Interval DEF Indices
<1>6. IsFiniteSet(Tasks)
  BY <1>4, <1>5, FS_Product DEF Tasks
<1> QED
  BY <1>6, FS_Subset, FS_CardinalityType

\* The configuration stays, and with it the tasks and where they are stored.
LEMMA ConfigStays ==
    ASSUME [Next]_vars
    PROVE  config' = config
BY DEF Next, vars, Progress, Begin, Survey, ListingAborted, SpawnChunk, PutOk, PutFailed, Collect,
       EndCreate, Drain, RetryOk, RetryFailed, EndRetry, PeriodicArchive, PeriodicWritten,
       MkdirFailed, FinalCheckpoint, Cleanup, Leave, Crash

LEMMA TasksStay ==
    ASSUME config' = config
    PROVE  /\ Tasks' = Tasks
           /\ PoolNames' = PoolNames
           /\ Uris' = Uris
           /\ \A t : Uri(t)' = Uri(t)
<1>1. PoolNames' = PoolNames
  BY DEF PoolNames
<1>2. Tasks' = Tasks
  BY <1>1 DEF Tasks
<1>3. \A t : Uri(t)' = Uri(t)
  BY DEF Uri
<1>4. Uris' = Uris
  BY <1>2, <1>3 DEF Uris
<1> QED
  BY <1>1, <1>2, <1>3, <1>4

(***************************************************************************)
(* Types                                                                   *)
(***************************************************************************)

\* A pool that is to be surveyed exists, and an open cache has its directory.
Shape ==
    /\ pc = "survey" => surveyed < Len(config.pools)
    /\ kv # NoCache => disk # NoCache

\* A cache opened after a restore is one.
LEMMA RestoredType ==
    ASSUME TypeOK, NEW got, got \in {NoCache, Torn} \/ got \in Contents
    PROVE  Restored(got) \in Contents
BY PrepareAssumption DEF TypeOK, Restored, Contents

\* What may be in the files lies between what is flushed and what is cached.
LEMMA OnDiskType ==
    ASSUME TypeOK, NEW D \in OnDisk
    PROVE  (D = NoCache \/ D \in Contents) /\ D # Torn /\ (kv # NoCache /\ disk # NoCache => D \in Contents)
BY PrepareAssumption DEF TypeOK, OnDisk

\* A survey adds tasks of its pool only.
LEMMA MissingType ==
    ASSUME NEW p \in PoolNames, NEW existing
    PROVE  Missing(p, existing) \subseteq Tasks
BY DEF Missing, Tasks

\* Types and shape are preserved by every step.
LEMMA TypeStep ==
    ASSUME TypeOK, Shape, [Next]_vars
    PROVE  TypeOK' /\ Shape'
<1> USE PrepareAssumption
<1>0. config' = config /\ Tasks' = Tasks /\ Uris' = Uris
  BY ConfigStays, TasksStay
<1>a. Len(config.pools) \in Nat /\ Len(config.pools) >= 1
  BY Pools
<1>c. 0 \in 0 .. Len(config.pools) /\ 0 < Len(config.pools)
  BY <1>a
<1>b. /\ NextPool(surveyed) \in {"survey", "checkpoint"}
      /\ NextPool(surveyed) = "survey" => surveyed < Len(config.pools)
      /\ AfterTasks \in {"survey", "checkpoint"}
      /\ AfterTasks = "survey" => surveyed < Len(config.pools)
  BY DEF NextPool, AfterTasks
<1>1. CASE Begin
  <2>1. disk' = disk \/ disk' \in Contents
    BY <1>1, RestoredType DEF Begin, TypeOK, cacheVars
  <2>2. kv' = kv \/ kv' = disk' \/ kv' = NoCache
    BY <1>1 DEF Begin, cacheVars
  <2>3. runs' \in 0 .. MaxRuns /\ faults' \in 0 .. MaxFaults
    BY <1>1 DEF Begin, TypeOK, Fault, NoFault
  <2>4. disk' # Torn /\ (disk' = NoCache \/ disk' \in Contents)
    BY <2>1 DEF TypeOK
  <2>5. kv' = NoCache \/ kv' \in Contents
    BY <2>2, <2>4 DEF TypeOK
  <2>7. kv' # NoCache => disk' # NoCache
    BY <1>1, <2>1, RestoredType DEF Begin, TypeOK, Shape, cacheVars
  <2>6. /\ {todo, running, arrived, failed, retrying, prepared, permanent}' \subseteq SUBSET Tasks
        /\ total' = total /\ consecutive' = consecutive /\ aborting' = aborting
        /\ storage' = storage /\ archive' = archive /\ writes' = writes
        /\ surveyed' = 0 /\ pc' = "survey"
    BY <1>1 DEF Begin, TypeOK, storageVars, taskVars, trackerVars
  <2> QED
    BY <1>0, <1>c, <2>3, <2>4, <2>5, <2>6, <2>7 DEF TypeOK, Shape, Working
<1>2. CASE Survey
  <2> DEFINE p == config.pools[surveyed + 1]
  <2>1. surveyed + 1 \in 1 .. Len(config.pools)
    BY <1>2, <1>a DEF Survey, TypeOK, Shape
  <2>2. p \in PoolNames
    BY <2>1, Pools
  <2>3. PICK found : /\ IF NeedsList /\ found # Listed THEN Fault ELSE NoFault
                     /\ todo' = todo \cup Missing(p, Existing(found))
                     /\ total' = Cardinality(todo')
                     /\ pc' \in {"survey", "create", "checkpoint"}
                     /\ pc' = "survey" => surveyed + 1 < Len(config.pools)
                     /\ prepared' \in {prepared, prepared \cup {p} \X Indices, Tasks}
    BY <1>2 DEF Survey, NextPool
  <2>4. todo' \in SUBSET Tasks
    BY <2>2, <2>3, MissingType DEF TypeOK
  <2>5. total' \in Nat
    BY <2>3, <2>4, FiniteTasks
  <2>6. prepared' \in SUBSET Tasks
    BY <2>2, <2>3 DEF TypeOK, Tasks
  <2>7. faults' \in 0 .. MaxFaults
    BY <2>3 DEF TypeOK, Fault, NoFault
  <2>8. surveyed' \in 0 .. Len(config.pools) /\ surveyed' = surveyed + 1
    BY <1>2, <2>1, <1>a DEF Survey
  <2>10. /\ {todo, running, arrived, failed, retrying, prepared, permanent}' \subseteq SUBSET Tasks
         /\ runs' = runs /\ consecutive' = 0 /\ aborting' = FALSE
         /\ storage' = storage /\ archive' = archive /\ writes' = writes
         /\ disk' = disk /\ kv' = kv
    BY <1>2, <2>4, <2>6 DEF Survey, TypeOK, storageVars, cacheVars
  <2> QED
    BY <1>0, <2>3, <2>5, <2>7, <2>8, <2>10 DEF TypeOK, Shape, Working
<1>3. CASE ListingAborted
  BY <1>0, <1>3 DEF ListingAborted, TypeOK, Shape, Working, Fault, storageVars, cacheVars,
                    trackerVars, reportVars
<1>4. CASE SpawnChunk
  BY <1>0, <1>4 DEF SpawnChunk, TypeOK, Shape, Working, storageVars, cacheVars,
                    trackerVars, reportVars
<1>5. ASSUME NEW t \in Tasks, PutOk(t)
      PROVE  TypeOK' /\ Shape'
  <2>1. Uri(t) \in Uris
    BY DEF Uris
  <2> QED
    BY <1>0, <1>5, <2>1 DEF PutOk, TypeOK, Shape, Working, cacheVars, reportVars
<1>6. ASSUME NEW t \in Tasks, PutFailed(t)
      PROVE  TypeOK' /\ Shape'
  <2>1. Uri(t) \in Uris
    BY DEF Uris
  <2>2. aborting' \in BOOLEAN
    BY <1>6 DEF PutFailed
  <2> QED
    BY <1>0, <1>6, <2>1, <2>2 DEF PutFailed, TypeOK, Shape, Working, Fault, cacheVars,
                                  reportVars
<1>7. ASSUME NEW t \in Tasks, Collect(t)
      PROVE  TypeOK' /\ Shape'
  <2>1. t[2] \in Indices
    BY DEF Tasks
  <2>2. (kv' = NoCache \/ kv' \in Contents) /\ (kv' # NoCache => kv # NoCache)
    BY <1>7, <2>1 DEF Collect, TypeOK, Contents
  <2> QED
    BY <1>0, <1>7, <2>2 DEF Collect, TypeOK, Shape, Working, storageVars,
                            trackerVars
<1>8. CASE EndCreate
  BY <1>0, <1>8, <1>b DEF EndCreate, TypeOK, Shape, Working, storageVars, cacheVars,
                          trackerVars
<1>9. CASE Drain
  BY <1>0, <1>9 DEF Drain, TypeOK, Shape, Working, storageVars, cacheVars,
                    taskVars, trackerVars, reportVars
<1>10. ASSUME NEW t \in Tasks, RetryOk(t)
       PROVE  TypeOK' /\ Shape'
  <2>1. Uri(t) \in Uris
    BY DEF Uris
  <2> QED
    BY <1>0, <1>10, <2>1 DEF RetryOk, TypeOK, Shape, Working, cacheVars,
                             trackerVars
<1>11. ASSUME NEW t \in Tasks, RetryFailed(t)
       PROVE  TypeOK' /\ Shape'
  <2>1. Uri(t) \in Uris
    BY DEF Uris
  <2> QED
    BY <1>0, <1>11, <2>1 DEF RetryFailed, TypeOK, Shape, Working, Fault, cacheVars,
                             trackerVars
<1>12. CASE EndRetry
  BY <1>0, <1>12, <1>b DEF EndRetry, TypeOK, Shape, Working, storageVars, cacheVars,
                           taskVars, trackerVars, reportVars
<1>13. CASE PeriodicArchive
  <2>1. PICK D \in OnDisk : writes' = writes \cup {D}
    BY <1>13 DEF PeriodicArchive
  <2>2. D \in Contents
    BY <1>13, <2>1, OnDiskType DEF PeriodicArchive, Shape
  <2> QED
    BY <1>0, <1>13, <2>1, <2>2 DEF PeriodicArchive, TypeOK, Shape, Working, cacheVars,
                                   taskVars, trackerVars, reportVars
<1>14. CASE PeriodicWritten
  BY <1>0, <1>14 DEF PeriodicWritten, TypeOK, Shape, Working, Fault, NoFault, cacheVars,
                     taskVars, trackerVars, reportVars
<1>15. CASE MkdirFailed
  BY <1>0, <1>15 DEF MkdirFailed, TypeOK, Shape, Working, Fault, storageVars, cacheVars,
                     taskVars, trackerVars, reportVars
<1>16. CASE FinalCheckpoint
  <2>1. /\ archive' \in {archive, kv, Torn}
        /\ kv = NoCache => archive' = archive
        /\ disk' \in {disk, NoCache, kv}
        /\ kv = NoCache => disk' = disk
        /\ faults' \in 0 .. MaxFaults
    BY <1>16 DEF FinalCheckpoint, Fault, NoFault, TypeOK
  <2> QED
    BY <1>0, <1>16, <2>1 DEF FinalCheckpoint, TypeOK, Shape, Working, taskVars,
                             trackerVars, reportVars
<1>17. CASE Cleanup
  <2>1. storage' \subseteq storage
    BY <1>17 DEF Cleanup
  <2>2. faults' \in 0 .. MaxFaults
    BY <1>17 DEF Cleanup, Fault, NoFault, TypeOK
  <2>3. archive' \in {archive, NoCache} /\ pc' = "cleaned"
    BY <1>17 DEF Cleanup
  <2>4. UNCHANGED <<runs, writes, cacheVars, surveyed, taskVars, trackerVars, reportVars>>
    BY <1>17 DEF Cleanup
  <2> QED
    BY <1>0, <2>1, <2>2, <2>3, <2>4 DEF TypeOK, Shape, Working, cacheVars, taskVars,
                                        trackerVars, reportVars
<1>18. CASE Leave
  <2>1. disk' = NoCache \/ disk' \in Contents
    BY <1>18, OnDiskType DEF Leave, Forget
  <2>2. disk' # Torn
    BY <2>1
  <2>3. /\ {todo, running, arrived, failed, retrying, prepared, permanent}' \subseteq SUBSET Tasks
        /\ storage' = storage /\ archive' = archive /\ writes' = writes
    BY <1>18 DEF Leave, Forget, storageVars
  <2> QED
    BY <1>0, <1>18, <1>c, <2>1, <2>2, <2>3 DEF Leave, Forget, TypeOK, Shape, Working
<1>19. CASE Crash
  <2>1. disk' = NoCache \/ disk' \in Contents
    BY <1>19, OnDiskType DEF Crash, Forget
  <2>2. disk' # Torn
    BY <2>1
  <2>3. archive' \in {NoCache, Torn} \/ archive' \in Contents
    BY <1>19 DEF Crash, TypeOK
  <2>4. {todo, running, arrived, failed, retrying, prepared, permanent}' \subseteq SUBSET Tasks
    BY <1>19 DEF Crash, Forget
  <2>5. faults' \in 0 .. MaxFaults
    BY <1>19 DEF Crash, Fault, TypeOK
  <2>6. /\ runs' = runs /\ storage' = storage /\ writes' = {}
        /\ pc' = "idle" /\ kv' = NoCache /\ surveyed' = 0
        /\ total' = 0 /\ consecutive' = 0 /\ aborting' = FALSE
    BY <1>19 DEF Crash, Forget
  <2> QED
    BY <1>0, <1>c, <2>1, <2>2, <2>3, <2>4, <2>5, <2>6 DEF TypeOK, Shape, Working
<1>20. CASE UNCHANGED vars
  BY <1>0, <1>20 DEF vars, TypeOK, Shape, Working
<1> QED
  BY <1>1, <1>2, <1>3, <1>4, <1>5, <1>6, <1>7, <1>8, <1>9, <1>10, <1>11, <1>12, <1>13, <1>14,
     <1>15, <1>16, <1>17, <1>18, <1>19, <1>20 DEF Next, Progress

\* The initial state has its types and shape.
LEMMA InitType ==
    ASSUME Init
    PROVE  TypeOK /\ Shape
<1>1. Len(config.pools) \in Nat
  <2>1. config.pools = <<"prepared">> \/ config.pools = <<"prepared", "deletable">>
    BY PrepareAssumption DEF Init, Config
  <2>2. Len(<<"prepared">>) = 1 /\ Len(<<"prepared", "deletable">>) = 2
    OBVIOUS
  <2> QED
    BY <2>1, <2>2
<1>2. 0 \in 0 .. Len(config.pools) /\ 0 \in 0 .. MaxRuns /\ 0 \in 0 .. MaxFaults
  BY <1>1, PrepareAssumption
<1>3. {todo, running, arrived, failed, retrying, prepared, permanent} \subseteq SUBSET Tasks
  BY DEF Init
<1> QED
  BY <1>2, <1>3, PrepareAssumption DEF Init, TypeOK, Shape, Working

\* Every variable keeps its type in every run, whatever fails.
THEOREM TypeCorrect == Spec => []TypeOK
<1>1. Init => TypeOK /\ Shape
  BY InitType
<1>2. TypeOK /\ Shape /\ [Next]_vars => (TypeOK /\ Shape)'
  BY TypeStep
<1> QED
  BY <1>1, <1>2, PTL DEF Spec

(***************************************************************************)
(* The metadata cache                                                      *)
(***************************************************************************)

\* The copies of the cache that hold something
LEMMA Copies ==
    ASSUME TypeOK, NEW i
    PROVE  i \in Recorded <=>
             \/ kv # NoCache /\ i \in kv
             \/ disk # NoCache /\ i \in disk
             \/ archive \notin {NoCache, Torn} /\ i \in archive
             \/ \E D \in writes : i \in D
<1>1. kv # Torn /\ disk # Torn
  BY PrepareAssumption DEF TypeOK
<1> QED
  BY <1>1 DEF Recorded

\* A step records an index only by copying it or by collecting its task.
LEMMA NotInvented ==
    ASSUME TypeOK, Shape, [Next]_vars, NEW i, i \in Recorded'
    PROVE  i \in Recorded \/ \E t \in arrived : i = t[2]
<1>0. TypeOK'
  BY TypeStep
<1>1. \/ (kv # NoCache /\ i \in kv)'
      \/ (disk # NoCache /\ i \in disk)'
      \/ (archive \notin {NoCache, Torn} /\ i \in archive)'
      \/ \E D \in writes' : i \in D
  <2>1. kv' # Torn /\ disk' # Torn
    BY <1>0, PrepareAssumption DEF TypeOK
  <2>2. Recorded' = UNION (({kv', disk', archive'} \ {NoCache, Torn}) \cup writes')
    BY DEF Recorded
  <2>3. PICK C \in ({kv', disk', archive'} \ {NoCache, Torn}) \cup writes' : i \in C
    BY <2>2
  <2> QED
    BY <2>1, <2>3
<1>2. \A D \in OnDisk : D # NoCache /\ i \in D => i \in Recorded
  <2>1. \A D \in OnDisk : D = disk \/ (kv # NoCache /\ D \subseteq kv)
    BY DEF OnDisk
  <2> QED
    BY <2>1, Copies
<1>3. CASE Begin
  <2>1. \A got \in {archive, NoCache} : i \in Restored(got) => i \in Recorded
    BY Copies DEF Restored
  <2>2. /\ i \in disk' => (disk' = disk \/ i \in Recorded)
        /\ kv' \in {kv, disk', NoCache}
        /\ archive' = archive /\ writes' = writes
    BY <1>3, <2>1 DEF Begin, cacheVars, storageVars
  <2> QED
    BY <1>1, <2>2, Copies
<1>4. CASE \E t \in Tasks : Collect(t)
  BY <1>1, <1>4, Copies DEF Collect, storageVars
<1>5. CASE PeriodicArchive
  <2>1. PICK D \in OnDisk : writes' = writes \cup {D}
    BY <1>5 DEF PeriodicArchive
  <2>2. D # NoCache
    BY <1>5, <2>1, OnDiskType, PrepareAssumption DEF PeriodicArchive, Shape
  <2> QED
    BY <1>1, <1>2, <1>5, <2>1, <2>2, Copies DEF PeriodicArchive, cacheVars
<1>6. CASE PeriodicWritten
  BY <1>1, <1>6, Copies DEF PeriodicWritten, cacheVars
<1>7. CASE FinalCheckpoint
  <2>1. /\ kv' = NoCache
        /\ writes' = writes
        /\ archive' \in {archive, kv, Torn}
        /\ disk' \in {disk, NoCache, kv}
    BY <1>7 DEF FinalCheckpoint
  <2> QED
    BY <1>1, <2>1, Copies
<1>8. CASE Cleanup
  BY <1>1, <1>8, Copies DEF Cleanup, cacheVars
<1>9. CASE Leave
  BY <1>1, <1>2, <1>9, Copies DEF Leave, Forget, storageVars
<1>10. CASE Crash
  <2>1. /\ kv' = NoCache
        /\ writes' = {}
        /\ disk' \in OnDisk
        /\ archive' \in {archive, Torn} \cup writes
    BY <1>10 DEF Crash, Forget
  <2> QED
    BY <1>1, <1>2, <2>1, Copies
<1>11. CASE UNCHANGED <<kv, disk, archive, writes>>
  BY <1>1, <1>11, Copies
<1> QED
  BY <1>3, <1>4, <1>5, <1>6, <1>7, <1>8, <1>9, <1>10, <1>11
     DEF Next, Progress, vars, Survey, ListingAborted, SpawnChunk, PutOk, PutFailed, EndCreate,
         Drain, RetryOk, RetryFailed, EndRetry, MkdirFailed, storageVars, cacheVars

\* Only the cleanup removes objects.
LEMMA StorageGrows ==
    ASSUME [Next]_vars
    PROVE  storage \subseteq storage' \/ Cleanup
BY DEF Next, Progress, vars, Begin, Survey, ListingAborted, SpawnChunk, PutOk, PutFailed, Collect,
       EndCreate, Drain, RetryOk, RetryFailed, EndRetry, PeriodicArchive, PeriodicWritten,
       MkdirFailed, FinalCheckpoint, Leave, Crash, storageVars

\* A task arrives when its object is stored.
LEMMA ArrivesStored ==
    ASSUME [Next]_vars, NEW t \in arrived'
    PROVE  t \in arrived \/ Uri(t) \in storage'
BY DEF Next, Progress, vars, Begin, Survey, ListingAborted, SpawnChunk, PutOk, PutFailed, Collect,
       EndCreate, Drain, RetryOk, RetryFailed, EndRetry, PeriodicArchive, PeriodicWritten,
       MkdirFailed, FinalCheckpoint, Cleanup, Leave, Crash, Forget, taskVars

\* CacheSound is not inductive: what is recorded next is what arrived.
SoundInv ==
    ~config.cleanup => /\ \A t \in arrived : Uri(t) \in storage
                       /\ \A i \in Recorded : \E u \in storage : u[2] = i

\* Nothing is recorded at first.
LEMMA SoundInit ==
    ASSUME Init
    PROVE  SoundInv
<1>1. Recorded = {}
  BY PrepareAssumption DEF Init, Recorded
<1> QED
  BY <1>1 DEF Init, SoundInv

\* What has arrived and what is recorded stays stored.
LEMMA SoundStep ==
    ASSUME TypeOK, Shape, SoundInv, [Next]_vars
    PROVE  SoundInv'
<1> SUFFICES ASSUME ~config'.cleanup
             PROVE  /\ \A t \in arrived' : Uri(t)' \in storage'
                    /\ \A i \in Recorded' : \E u \in storage' : u[2] = i
  BY DEF SoundInv
<1>1. config' = config /\ \A t : Uri(t)' = Uri(t)
  BY ConfigStays, TasksStay
<1>2. storage \subseteq storage'
  BY <1>1, StorageGrows DEF Cleanup
<1>3. \A t \in arrived' : Uri(t)' \in storage'
  BY <1>1, <1>2, ArrivesStored DEF SoundInv
<1>4. ASSUME NEW i \in Recorded'
      PROVE  \E u \in storage' : u[2] = i
  <2>1. CASE i \in Recorded
    BY <1>1, <1>2, <2>1 DEF SoundInv
  <2>2. CASE \E t \in arrived : i = t[2]
    <3>1. PICK t \in arrived : i = t[2]
      BY <2>2
    <3>2. Uri(t) \in storage' /\ Uri(t)[2] = i
      BY <1>1, <1>2, <3>1 DEF SoundInv, Uri
    <3> QED
      BY <3>2
  <2> QED
    BY <2>1, <2>2, NotInvented
<1> QED
  BY <1>3, <1>4

\* No crash, restore, late write or failed checkpoint makes any copy of the
\* cache (open, on disk, archived, being written) hold an index as Created
\* that has no object on the storage.
THEOREM CacheSafety == Spec => []CacheSound
<1>1. SoundInv => CacheSound
  BY DEF SoundInv, CacheSound
<1> QED
  BY <1>1, SoundInit, SoundStep, InitType, TypeStep, PTL DEF Spec

(***************************************************************************)
(* Without a cache                                                         *)
(***************************************************************************)

\* A run that is configured without a cache leaves none, and no archive.
Cacheless == ~config.cache => kv = NoCache /\ disk = NoCache /\ archive = NoCache /\ writes = {}

LEMMA CachelessStep ==
    ASSUME Cacheless, [Next]_vars
    PROVE  Cacheless'
<1> SUFFICES ASSUME ~config'.cache
             PROVE  /\ kv' = NoCache /\ disk' = NoCache
                    /\ archive' = NoCache /\ writes' = {}
  BY DEF Cacheless
<1>1. ~config.cache
  BY ConfigStays
<1>2. /\ kv = NoCache /\ disk = NoCache /\ archive = NoCache /\ writes = {}
      /\ OnDisk = {NoCache}
  BY <1>1 DEF Cacheless, OnDisk
<1>3. CASE Cleanup
  BY <1>2, <1>3 DEF Cleanup, cacheVars
<1>4. CASE Leave \/ Crash
  BY <1>2, <1>4 DEF Leave, Crash, Forget, storageVars
<1>5. CASE ~(Cleanup \/ Leave \/ Crash)
  BY <1>1, <1>2, <1>5
     DEF Next, Progress, vars, Begin, Survey, ListingAborted, SpawnChunk, PutOk, PutFailed, Collect,
         EndCreate, Drain, RetryOk, RetryFailed, EndRetry, PeriodicArchive, PeriodicWritten,
         MkdirFailed, FinalCheckpoint, storageVars, cacheVars
<1> QED
  BY <1>3, <1>4, <1>5

(***************************************************************************)
(* No object is lost                                                       *)
(***************************************************************************)

\* The configurations in which prepare can know what it skips.  With
\* force_overwrite it skips nothing.  Else a LIST must tell the pools apart,
\* which it does not in shards.  A parallel run then goes by the indices it was
\* told; a sequential one goes by numbers: of files, among which is the
\* checkpoint archive if there is a cache, and of cache entries, which do not
\* name their pool and outlive a cleanup.
Solid ==
    \/ config.force
    \/ /\ ~config.skip
       /\ Len(config.pools) = 1 \/ config.layout # "sharded"
       /\ \/ config.strategy = "parallel"
          \/ ~config.cache
          \/ ~config.cleanup /\ config.layout = "flat" /\ Len(config.pools) = 1

Accounted(t, S) == Uri(t) \in storage \/ t \in S

\* Every object of the pools surveyed so far is stored or in S.
AccountedFor(S) == \A k \in 1 .. surveyed, i \in Indices : Accounted(<<config.pools[k], i>>, S)

\* Where every object is at each stage of a run
TasksInv ==
    /\ running # {} \/ arrived # {} => pc = "create"
    /\ retrying # {} => pc = "retry"
    /\ \A t \in arrived : Uri(t) \in storage
    /\ pc # "cleaned" => \A t \in prepared : Uri(t) \in storage
    /\ pc \in {"idle", "retry"} => todo = {}
    /\ pc = "survey" /\ config.strategy = "sequential" => todo = {}
    /\ pc = "survey" /\ config.strategy = "parallel" => permanent = {}
    /\ pc = "survey" => AccountedFor(todo \cup permanent)
    /\ pc = "create" => AccountedFor(todo \cup running \cup failed \cup permanent)
    /\ pc = "retry"  => AccountedFor(retrying \cup permanent)
    /\ pc \in {"checkpoint", "done"} => AccountedFor(permanent) /\ surveyed = Len(config.pools)
    /\ pc \in {"create", "retry"} /\ config.strategy = "parallel" => surveyed = Len(config.pools)

\* Unless shards mix the pools or flat names tell them apart, an object is
\* found under the index it has in the surveyed pool.
LEMMA OnePlace ==
    ASSUME TypeOK, NEW k \in 1 .. Len(config.pools), NEW u \in Uris,
           Len(config.pools) = 1 \/ config.layout = "tree"
    PROVE  u[2] \in Indices /\ u = Uri(<<config.pools[k], u[2]>>)
<1>1. PICK t \in Tasks : u = Uri(t)
  BY DEF Uris
<1>2. t[1] \in PoolNames /\ t[2] \in Indices
  BY DEF Tasks
<1>3. u[2] = t[2]
  BY <1>1 DEF Uri
<1>4. PICK j \in 1 .. Len(config.pools) : t[1] = config.pools[j]
  BY <1>2 DEF PoolNames
<1>5. Len(config.pools) = 1 => t[1] = config.pools[k]
  BY <1>4, Pools
<1> QED
  BY <1>1, <1>2, <1>3, <1>5 DEF Uri

LEMMA IndicesCount == IsFiniteSet(Indices) /\ Cardinality(Indices) = Count
BY PrepareAssumption, FS_Interval DEF Indices

\* As many files as there are objects, in one place, are all the objects.
LEMMA FilesCounted ==
    ASSUME TypeOK, NEW k \in 1 .. Len(config.pools), NEW found \in SUBSET storage,
           Len(config.pools) = 1 \/ config.layout = "tree", NEW i \in Indices
    PROVE  /\ Cardinality(found) \in Nat
           /\ Cardinality(found) >= Count => Uri(<<config.pools[k], i>>) \in storage
<1> DEFINE c == Uri(<<config.pools[k], 0>>)[1]
           all == {c} \X Indices
<1>1. \A j \in Indices : Uri(<<config.pools[k], j>>) = <<c, j>>
  BY DEF Uri
<1>2. found \subseteq all
  <2> SUFFICES ASSUME NEW u \in found
               PROVE  u \in all
    OBVIOUS
  <2>1. u \in Uris
    BY DEF TypeOK
  <2>2. u[2] \in Indices /\ u = Uri(<<config.pools[k], u[2]>>)
    BY <2>1, OnePlace
  <2>3. u = <<c, u[2]>>
    BY <1>1, <2>2
  <2> HIDE DEF c
  <2> QED
    BY <2>2, <2>3
<1>3. IsFiniteSet({c}) /\ Cardinality({c}) = 1
  BY FS_Singleton
<1>4. IsFiniteSet(all) /\ Cardinality(all) = 1 * Count
  BY <1>3, IndicesCount, FS_Product
<1>5. Cardinality(found) <= Cardinality(all) /\ (Cardinality(all) = Cardinality(found) => all = found)
  BY <1>2, <1>4, FS_Subset
<1>6. IsFiniteSet(found) /\ Cardinality(found) \in Nat
  BY <1>2, <1>4, FS_Subset, FS_CardinalityType
<1>7. Cardinality(found) >= Count => all = found
  BY <1>4, <1>5, <1>6, PrepareAssumption
<1> QED
  BY <1>1, <1>6, <1>7

\* A cache that covers everything covers one pool.
LEMMA CacheCounted ==
    ASSUME TypeOK, SoundInv, CoversAll, ~config.cleanup, Len(config.pools) = 1,
           NEW k \in 1 .. Len(config.pools), NEW i \in Indices
    PROVE  Uri(<<config.pools[k], i>>) \in storage
<1>1. kv \in SUBSET Indices /\ kv # NoCache /\ Cardinality(kv) >= Count
  BY DEF CoversAll, TypeOK, Contents
<1>2. Cardinality(kv) <= Count /\ (Count = Cardinality(kv) => Indices = kv)
  BY <1>1, IndicesCount, FS_Subset
<1>3. Cardinality(kv) \in Nat
  BY <1>1, IndicesCount, FS_Subset, FS_CardinalityType
<1>4. i \in kv
  BY <1>1, <1>2, <1>3, PrepareAssumption
<1>5. PICK u \in storage : u[2] = i
  BY <1>1, <1>4, Copies DEF SoundInv
<1> QED
  BY <1>5, OnePlace DEF TypeOK

\* What the survey of a pool does not find to be created is stored.
LEMMA SurveyAccounts ==
    ASSUME TypeOK, Solid, SoundInv, Cacheless,
           NEW k \in 1 .. Len(config.pools), NEW found \in SUBSET Listed, NEW i \in Indices
    PROVE  LET p == config.pools[k]
           IN  Accounted(<<p, i>>, Missing(p, Existing(found)))
<1> DEFINE p == config.pools[k]
           E == Existing(found)
<1>0. Count \in Nat /\ Count >= 1
  BY PrepareAssumption
<1>1. CASE /\ Missing(p, E) = {p} \X (Indices \ E.idx)
           /\ i \notin E.idx
  BY <1>1 DEF Accounted
<1>2. CASE i \in E.idx
  <2>1. ~config.force /\ E.idx = {u[2] : u \in found}
    BY <1>2 DEF Existing
  <2>2. PICK u \in found : u[2] = i
    BY <1>2, <2>1
  <2>3. u \in storage /\ config.layout # "flat"
    BY <2>2 DEF Listed
  <2>4. Len(config.pools) = 1 \/ config.layout = "tree"
    BY <2>1, <2>3, Pools DEF Solid, Config
  <2>5. u = Uri(<<p, i>>)
    BY <2>2, <2>3, <2>4, OnePlace DEF TypeOK
  <2> QED
    BY <2>3, <2>5 DEF Accounted
<1>3. CASE Missing(p, E) # {p} \X (Indices \ E.idx)
  <2>1. \/ config.strategy = "parallel" /\ config.skip /\ ~config.force
        \/ config.strategy = "sequential" /\ E.count >= Count
    BY <1>3 DEF Missing
  <2>2. ~config.force
    <3>1. config.force => E.count = 0
      BY DEF Existing
    <3> QED
      BY <1>0, <2>1, <3>1
  <2>3. /\ ~config.skip
        /\ config.strategy = "sequential" /\ E.count >= Count
        /\ Len(config.pools) = 1 \/ config.layout # "sharded"
        /\ ~config.cache \/ (~config.cleanup /\ config.layout = "flat" /\ Len(config.pools) = 1)
    BY <2>1, <2>2 DEF Solid
  <2>4. CASE CoversAll
    <3>1. config.cache
      BY <2>4 DEF CoversAll, Cacheless
    <3> QED
      BY <2>3, <2>4, <3>1, CacheCounted DEF Accounted
  <2>5. CASE ~CoversAll
    <3>1. E.count = Cardinality(found) + AlienFiles
      BY <2>2, <2>3, <2>5 DEF Existing
    <3>2. config.layout # "flat"
      <4> SUFFICES ASSUME config.layout = "flat"
                   PROVE  FALSE
        OBVIOUS
      <4>1. found = {} /\ AlienFiles = 0
        BY DEF Listed, AlienFiles
      <4>2. Cardinality(found) = 0
        BY <4>1, FS_EmptySet
      <4> QED
        BY <1>0, <2>3, <3>1, <4>1, <4>2
    <3>3. AlienFiles = 0
      BY <2>3, <3>2 DEF Cacheless, AlienFiles
    <3>4. Len(config.pools) = 1 \/ config.layout = "tree"
      BY <2>3, <3>2, Pools DEF Config
    <3>5. found \in SUBSET storage
      BY <3>2 DEF Listed
    <3>6. Cardinality(found) \in Nat
      BY <3>4, <3>5, FilesCounted
    <3>7. Cardinality(found) >= Count
      BY <2>3, <3>1, <3>3, <3>6
    <3> QED
      BY <3>4, <3>5, <3>7, FilesCounted DEF Accounted
  <2> QED
    BY <2>4, <2>5
<1> QED
  BY <1>1, <1>2, <1>3

\* Tasks are those of the pools.
LEMMA TaskOfPool ==
    ASSUME NEW t \in Tasks
    PROVE  \E k \in 1 .. Len(config.pools), i \in Indices : t = <<config.pools[k], i>>
BY DEF Tasks, PoolNames


\* Every step of such a run keeps account of every object.
LEMMA TasksStep ==
    ASSUME TypeOK, Shape, SoundInv, Cacheless, Solid, TasksInv, [Next]_vars
    PROVE  TasksInv'
<1>0. config' = config /\ Tasks' = Tasks /\ \A t : Uri(t)' = Uri(t)
  BY ConfigStays, TasksStay
<1>a. /\ Len(config.pools) \in Nat
      /\ config.strategy \in {"parallel", "sequential"}
      /\ surveyed \in 0 .. Len(config.pools)
  BY Pools DEF TypeOK, Config
<1> USE DEF TasksInv, AccountedFor, Accounted
<1>1. CASE Begin
  <2>1. /\ pc' = "survey" /\ surveyed' = 0 /\ prepared' = {} /\ permanent' = {}
        /\ UNCHANGED <<todo, running, arrived, retrying>>
        /\ todo = {} /\ running = {} /\ arrived = {} /\ retrying = {}
    BY <1>1 DEF Begin, taskVars
  <2>2. \A k \in 1 .. surveyed' : FALSE
    BY <2>1
  <2> QED
    BY <2>1, <2>2
<1>2. CASE Survey
  <2> DEFINE n == surveyed + 1
             p == config.pools[n]
  <2>1. n \in 1 .. Len(config.pools) /\ surveyed \in Nat
    BY <1>2, Pools DEF Survey, TypeOK, Shape
  <2>2. PICK found \in SUBSET Listed :
            /\ todo' = todo \cup Missing(p, Existing(found))
            /\ IF config.strategy = "sequential"
               THEN /\ pc' = IF Missing(p, Existing(found)) # {} THEN "create" ELSE NextPool(n)
                    /\ prepared' = IF Missing(p, Existing(found)) # {} THEN prepared
                                   ELSE prepared \cup {p} \X Indices
               ELSE /\ pc' = IF n < Len(config.pools) THEN "survey"
                             ELSE IF todo' # {} THEN "create" ELSE "checkpoint"
                    /\ prepared' = IF n = Len(config.pools) /\ todo' = {} THEN Tasks ELSE prepared
    BY <1>2 DEF Survey
  <2> DEFINE M == Missing(p, Existing(found))
  <2>3. /\ storage' = storage /\ surveyed' = n /\ permanent' = permanent /\ pc = "survey"
        /\ running' = running /\ arrived' = arrived /\ running = {} /\ arrived = {}
        /\ retrying' = retrying /\ retrying = {}
    BY <1>2 DEF Survey, storageVars
  <2>4. \A i \in Indices : Uri(<<p, i>>) \in storage \/ <<p, i>> \in M
    BY <2>1, SurveyAccounts
  <2> HIDE DEF M
  <2>5. ASSUME NEW k \in 1 .. n, NEW i \in Indices
        PROVE  Uri(<<config.pools[k], i>>) \in storage \/ <<config.pools[k], i>> \in todo' \cup permanent
    <3>1. CASE k = n
      BY <2>2, <2>4, <3>1 DEF M
    <3>2. CASE k # n
      <4>1. k \in 1 .. surveyed
        BY <2>1, <3>2
      <4> QED
        BY <2>2, <2>3, <4>1
    <3> QED
      BY <3>1, <3>2
  <2>6. AccountedFor(todo \cup permanent)'
    BY <1>0, <2>3, <2>5
  <2>7. CASE config.strategy = "sequential"
    <3>1. CASE M # {}
      BY <1>0, <2>2, <2>3, <2>6, <2>7, <3>1 DEF M
    <3>2. CASE M = {}
      <4>1. /\ prepared' = prepared \cup {p} \X Indices /\ pc' = NextPool(n) /\ todo' = todo
        BY <2>2, <2>7, <3>2 DEF M
      <4>2. \A t \in prepared' : Uri(t) \in storage
        BY <2>3, <2>4, <3>2, <4>1
      <4>3. pc' = "survey" \/ (pc' = "checkpoint" /\ n = Len(config.pools))
        BY <1>a, <2>1, <4>1 DEF NextPool
      <4>t. todo' = {}
        BY <4>1, <2>3, <2>7
      <4>4. CASE pc' = "survey"
        BY <1>0, <2>3, <2>6, <2>7, <4>2, <4>t, <4>4
      <4>5. CASE pc' = "checkpoint" /\ n = Len(config.pools)
        BY <1>0, <2>3, <2>6, <4>2, <4>t, <4>5
      <4> QED
        BY <4>3, <4>4, <4>5
    <3> QED
      BY <3>1, <3>2
  <2>8. CASE config.strategy = "parallel"
    <3>1. /\ pc' = IF n < Len(config.pools) THEN "survey"
                   ELSE IF todo' # {} THEN "create" ELSE "checkpoint"
          /\ prepared' = IF n = Len(config.pools) /\ todo' = {} THEN Tasks ELSE prepared
      BY <2>2, <2>8
    <3>2. CASE n < Len(config.pools)
      BY <1>0, <1>a, <2>1, <2>3, <2>6, <2>8, <3>1, <3>2
    <3>3. CASE n = Len(config.pools) /\ todo' # {}
      BY <1>0, <2>3, <2>6, <3>1, <3>3
    <3>4. CASE n = Len(config.pools) /\ todo' = {}
      <4>1. permanent = {}
        BY <2>3, <2>8 DEF TasksInv
      <4>2. \A t \in Tasks : Uri(t) \in storage
        BY <2>5, <3>4, <4>1, TaskOfPool
      <4> QED
        BY <1>0, <2>3, <2>6, <3>1, <3>4, <4>2
    <3> QED
      BY <2>1, <3>2, <3>3, <3>4
  <2> QED
    BY <1>a, <2>7, <2>8
<1>3. CASE ListingAborted
  BY <1>0, <1>3 DEF ListingAborted, storageVars, reportVars
<1>4. CASE SpawnChunk
  <2>1. /\ pc = "create" /\ pc' = "create" /\ arrived' = arrived /\ surveyed' = surveyed
        /\ todo \subseteq todo' \cup running'
        /\ UNCHANGED <<storage, failed, permanent, prepared, retrying>> /\ running = {}
    BY <1>4 DEF SpawnChunk, storageVars, trackerVars, reportVars
  <2> QED
    BY <1>0, <2>1
<1>5. ASSUME NEW t \in Tasks, PutOk(t)
      PROVE  TasksInv'
  BY <1>0, <1>5 DEF PutOk, reportVars
<1>6. ASSUME NEW t \in Tasks, PutFailed(t)
      PROVE  TasksInv'
  BY <1>0, <1>6 DEF PutFailed, reportVars
<1>7. ASSUME NEW t \in Tasks, Collect(t)
      PROVE  TasksInv'
  BY <1>0, <1>7 DEF Collect, storageVars, trackerVars
<1>b. AfterTasks = "survey" \/ (AfterTasks = "checkpoint" /\ (config.strategy = "sequential" => surveyed = Len(config.pools)))
  BY <1>a DEF AfterTasks, NextPool
<1>c. AfterTasks = "survey" => config.strategy = "sequential"
  BY <1>a DEF AfterTasks
<1>8. CASE EndCreate
  <2>1. pc = "create" /\ running = {} /\ arrived = {} /\ (pc' = "drain" \/ todo = {})
    BY <1>8 DEF EndCreate
  <2>2. /\ UNCHANGED <<storage, prepared, surveyed, todo, running, arrived>>
        /\ pc' \in {"drain", "retry", AfterTasks}
        /\ pc' = "retry" /\ AfterTasks # "retry" => retrying' = failed
        /\ retrying' # {} => pc' = "retry"
        /\ pc' \notin {"drain", "retry"} => failed \subseteq permanent'
        /\ permanent \subseteq permanent'
    BY <1>8 DEF EndCreate, storageVars
  <2>3. CASE pc' = "drain"
    BY <1>0, <2>1, <2>2, <2>3
  <2>4. CASE pc' = "retry"
    BY <1>0, <1>b, <2>1, <2>2, <2>4
  <2>5. CASE pc' = AfterTasks
    BY <1>0, <1>a, <1>b, <1>c, <2>1, <2>2, <2>5
  <2> QED
    BY <2>2, <2>3, <2>4, <2>5
<1>9. CASE Drain
  BY <1>0, <1>9 DEF Drain, storageVars, taskVars, reportVars
<1>10. ASSUME NEW t \in Tasks, RetryOk(t)
       PROVE  TasksInv'
  BY <1>0, <1>10 DEF RetryOk, trackerVars
<1>11. ASSUME NEW t \in Tasks, RetryFailed(t)
       PROVE  TasksInv'
  BY <1>0, <1>11 DEF RetryFailed, trackerVars
<1>12. CASE EndRetry
  <2>1. /\ pc = "retry" /\ retrying = {} /\ pc' = AfterTasks
        /\ UNCHANGED <<storage, prepared, permanent, surveyed, todo, running, arrived, retrying>>
    BY <1>12 DEF EndRetry, storageVars, taskVars, reportVars
  <2> QED
    BY <1>0, <1>a, <1>b, <1>c, <2>1
<1>13. CASE PeriodicArchive
  BY <1>0, <1>13 DEF PeriodicArchive, taskVars, trackerVars, reportVars
<1>14. CASE PeriodicWritten
  BY <1>0, <1>14 DEF PeriodicWritten, taskVars, trackerVars, reportVars
<1>15. CASE MkdirFailed
  BY <1>0, <1>15 DEF MkdirFailed, storageVars, taskVars, reportVars
<1>16. CASE FinalCheckpoint
  BY <1>0, <1>16 DEF FinalCheckpoint, taskVars, reportVars
<1>17. CASE Cleanup
  BY <1>0, <1>17 DEF Cleanup, taskVars
<1>18. CASE Leave
  BY <1>0, <1>18 DEF Leave, Forget
<1>19. CASE Crash
  BY <1>0, <1>19 DEF Crash, Forget
<1>20. CASE UNCHANGED vars
  BY <1>0, <1>20 DEF vars
<1> QED
  BY <1>1, <1>2, <1>3, <1>4, <1>5, <1>6, <1>7, <1>8, <1>9, <1>10, <1>11, <1>12, <1>13, <1>14,
     <1>15, <1>16, <1>17, <1>18, <1>19, <1>20 DEF Next, Progress

\* A prepare of either strategy that returns Ok has stored or reported as failed
\* every object of every pool, and has stored all it reports as ready, whatever
\* the cache, the LIST and earlier crashed runs made it believe (prepare_parallel,
\* prepare_sequential, the retry phase).
THEOREM NothingLost == Spec => [](Solid => ReadyMeansPresent /\ ReportedArePresent)
<1> DEFINE Kept == TypeOK /\ Shape /\ SoundInv /\ Cacheless /\ (Solid => TasksInv)
<1>1. Init => Kept
  <2>1. Init => TasksInv
    BY DEF Init, TasksInv
  <2> QED
    BY <2>1, InitType, SoundInit DEF Init, Cacheless
<1>2. Kept /\ [Next]_vars => Kept'
  <2> SUFFICES ASSUME Kept, [Next]_vars
               PROVE  Kept'
    OBVIOUS
  <2>1. (TypeOK /\ Shape /\ SoundInv /\ Cacheless)'
    BY TypeStep, SoundStep, CachelessStep
  <2>2. Solid' => Solid
    BY ConfigStays DEF Solid
  <2> QED
    BY <2>1, <2>2, TasksStep
<1>3. Kept => (Solid => ReadyMeansPresent /\ ReportedArePresent)
  <2> SUFFICES ASSUME Kept, Solid, pc = "done"
               PROVE  Ready /\ \A t \in prepared : Uri(t) \in storage
    BY DEF ReadyMeansPresent, ReportedArePresent
  <2>1. \A t \in Tasks : Uri(t) \in storage \/ t \in permanent
    BY TaskOfPool DEF TasksInv, AccountedFor, Accounted
  <2> QED
    BY <2>1 DEF TasksInv, Ready
<1> QED
  BY <1>1, <1>2, <1>3, PTL DEF Spec

\* What such a prepare reports as ready (all_prepared, the objects the cleanup
\* will delete) is on the storage, also when the report was put together from the
\* cache's coverage or a count of files.
THEOREM ReportsAreTrue == Spec => [](Solid => ReportedArePresent)
BY NothingLost, PTL
=============================================================================
