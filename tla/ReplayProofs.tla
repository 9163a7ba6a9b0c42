---------------------------- MODULE ReplayProofs ----------------------------
(***************************************************************************)
(* Theorems about Replay, for every op-log, every set of remap rules and   *)
(* every limit: a replay that returns has nothing left running, keeps its  *)
(* bound on the operations in flight, accounts for every row it has read,  *)
(* and sends a sticky key to one target.                                   *)
(***************************************************************************)
EXTENDS Replay, FiniteSetTheorems, TLAPS

Readers == {"first", "reading", "full", "draining", "waiting", "aborting", "ok", "err"}
TaskStates == {"none", "sleeping", "running", "succeeded", "failed", "collected", "aborted"}
Statistics == [total : Nat, completed : Nat, failed : Nat, skipped : Nat, flap_exit : BOOLEAN]

Begun == {i \in Rows : task[i] # "none"}
Collected == {i \in Rows : task[i] = "collected"}

(***************************************************************************)
(* The inductive invariant                                                 *)
(***************************************************************************)

\* The variables the properties are about have their types.
ReplayTypes ==
    /\ conf \in Replays
    /\ reader \in Readers
    /\ row \in 0 .. Len(conf.rows)
    /\ task \in [Rows -> TaskStates]
    /\ target = [i \in Rows |-> target[i]]
    /\ stats \in Statistics

\* A row that was not read has no task, and before the epoch no row has one.
Unread ==
    /\ \A i \in Rows : i > row => task[i] = "none"
    /\ reader = "first" => Begun = {}

\* While the reader goes on there is room for one more operation.
Room ==
    conf.max_concurrent >= 2 =>
        /\ Cardinality(InFlight) <= conf.max_concurrent
        /\ reader = "reading" => Cardinality(InFlight) < conf.max_concurrent

\* The row at which a replay is given up counts without becoming a task.
FlapRow == IF stats.flap_exit THEN 1 ELSE 0

\* The statistics count the tasks: what was begun, and what was collected.
Counted ==
    /\ stats.completed + stats.failed = Cardinality(Collected)
    /\ stats.total = Cardinality(Begun) + FlapRow
    /\ stats.total + stats.skipped = row

\* Tasks are aborted only by the way out with an error, which leaves none in flight.
Returned ==
    /\ reader # "err" => \A i \in Rows : task[i] # "aborted"
    /\ reader \in {"ok", "err"} => InFlight = {}

\* Only a replay that was given up for flapping drains; without it the log was read to its
\* end before the last tasks are awaited.  Errors of a strict replay end it.
GivenUp ==
    /\ stats.flap_exit => reader \in {"draining", "waiting", "aborting", "ok", "err"}
    /\ reader = "draining" => stats.flap_exit
    /\ reader \in {"waiting", "ok"} /\ ~stats.flap_exit => row = Len(conf.rows)
    /\ conf.strict /\ ~stats.flap_exit /\ reader \notin {"aborting", "err"} =>
           stats.failed = 0 /\ stats.skipped = 0

\* An operation that was issued went where the rules may send it.
Mapped == \A i \in Rows : target[i] # <<>> => target[i] \in Remapped(i)

ReplayInv == ReplayTypes /\ Unread /\ Room /\ Counted /\ Returned /\ GivenUp /\ Mapped

(***************************************************************************)
(* Sets of tasks                                                           *)
(***************************************************************************)

\* The facts about a configuration that the proofs use.
LEMMA ConfFacts ==
    ASSUME ReplayTypes
    PROVE  /\ Rows = 1 .. Len(conf.rows) /\ Len(conf.rows) \in Nat
           /\ conf.max_concurrent \in Nat /\ conf.strict \in BOOLEAN
           /\ row \in Nat
<1>1. ReplayOK(conf)
  BY ReplayAssumption DEF ReplayTypes
<1>2. Rows = 1 .. Len(conf.rows) /\ Len(conf.rows) \in Nat
  BY <1>1 DEF ReplayOK, Rows
<1> QED
  BY <1>1, <1>2 DEF ReplayOK, ReplayTypes

\* Every set of rows is finite.
LEMMA FiniteRows ==
    ASSUME ReplayTypes, NEW S \in SUBSET Rows
    PROVE  IsFiniteSet(S) /\ Cardinality(S) \in Nat
<1>1. IsFiniteSet(Rows)
  <2>0. 1 \in Int /\ Len(conf.rows) \in Int
    BY ConfFacts
  <2>1. IsFiniteSet(1 .. Len(conf.rows))
    BY <2>0, FS_Interval
  <2> QED
    BY <2>1, ConfFacts
<1> QED
  BY <1>1, FS_Subset, FS_CardinalityType

LEMMA TaskSetsFinite ==
    ASSUME ReplayTypes
    PROVE  /\ IsFiniteSet(InFlight) /\ Cardinality(InFlight) \in Nat
           /\ IsFiniteSet(Begun) /\ Cardinality(Begun) \in Nat
           /\ IsFiniteSet(Collected) /\ Cardinality(Collected) \in Nat
<1>1. InFlight \in SUBSET Rows /\ Begun \in SUBSET Rows /\ Collected \in SUBSET Rows
  BY DEF InFlight, Begun, Collected
<1> QED
  BY <1>1, FiniteRows

\* A row becomes a task: one more is begun and in flight.
LEMMA SpawnSets ==
    ASSUME ReplayTypes, conf' = conf, NEW i \in Rows, task[i] = "none",
           task' = [task EXCEPT ![i] = "sleeping"]
    PROVE  /\ Cardinality(InFlight') = Cardinality(InFlight) + 1
           /\ Cardinality(Begun') = Cardinality(Begun) + 1
           /\ Collected' = Collected
<1>1. InFlight' = InFlight \cup {i} /\ i \notin InFlight
  BY DEF ReplayTypes, InFlight, Rows
<1>2. Begun' = Begun \cup {i} /\ i \notin Begun
  BY DEF ReplayTypes, Begun, Rows
<1>3. Collected' = Collected
  BY DEF ReplayTypes, Collected, Rows
<1> QED
  BY <1>1, <1>2, <1>3, TaskSetsFinite, FS_AddElement

\* A result is collected: one less is in flight.
LEMMA CollectSets ==
    ASSUME ReplayTypes, conf' = conf, NEW i \in Rows, task[i] \in {"succeeded", "failed"},
           task' = [task EXCEPT ![i] = "collected"]
    PROVE  /\ Cardinality(InFlight') = Cardinality(InFlight) - 1
           /\ Cardinality(Collected') = Cardinality(Collected) + 1
           /\ Begun' = Begun
<1>1. InFlight' = InFlight \ {i} /\ i \in InFlight
  BY DEF ReplayTypes, InFlight, Rows
<1>2. Collected' = Collected \cup {i} /\ i \notin Collected
  BY DEF ReplayTypes, Collected, Rows
<1>3. Begun' = Begun
  BY DEF ReplayTypes, Begun, Rows
<1> QED
  BY <1>1, <1>2, <1>3, TaskSetsFinite, FS_AddElement, FS_RemoveElement

\* Where a row may go depends on the configuration only.
LEMMA RemapStays ==
    ASSUME conf' = conf
    PROVE  Rows' = Rows /\ \A i : Remapped(i)' = Remapped(i)
<1>1. Rows' = Rows
  BY DEF Rows
<1>2. ASSUME NEW i PROVE Matching(i)' = Matching(i)
  BY DEF Matching
<1>3. ASSUME NEW i PROVE Remapped(i)' = Remapped(i)
  BY <1>2 DEF Remapped
<1> QED
  BY <1>1, <1>3

LEMMA SameSets ==
    ASSUME conf' = conf, task' = task
    PROVE  InFlight' = InFlight /\ Begun' = Begun /\ Collected' = Collected
BY DEF InFlight, Begun, Collected, Rows

(***************************************************************************)
(* Invariance                                                              *)
(***************************************************************************)

LEMMA InitInv == ReplayInit => ReplayInv
<1> SUFFICES ASSUME ReplayInit PROVE ReplayInv
  OBVIOUS
<1>1. ReplayTypes
  <2>1. ReplayOK(conf)
    BY ReplayAssumption DEF ReplayInit
  <2> QED
    BY <2>1 DEF ReplayInit, ReplayTypes, ReplayOK, Readers, TaskStates, Statistics
<1>2. InFlight = {} /\ Begun = {} /\ Collected = {}
  BY DEF ReplayInit, InFlight, Begun, Collected
<1>3. Cardinality({}) = 0
  BY FS_EmptySet
<1>4. conf.max_concurrent \in Nat
  BY <1>1, ConfFacts
<1> QED
  BY <1>1, <1>2, <1>3, <1>4
  DEF ReplayInit, ReplayInv, Unread, Room, Counted, FlapRow, Returned, GivenUp, Mapped

\* The steps of the reader that start or end no task.
LEMMA ReaderStep ==
    ASSUME ReplayInv, SkipRow \/ RowError \/ FlapExit \/ EndOfLog \/ EmptyLog \/ Complete
    PROVE  ReplayInv'
<1>0. conf' = conf /\ task' = task /\ target' = target
  BY DEF SkipRow, RowError, FlapExit, EndOfLog, EmptyLog, Complete
<1>1. /\ InFlight' = InFlight /\ Begun' = Begun /\ Collected' = Collected
      /\ Rows' = Rows /\ \A i : Remapped(i)' = Remapped(i)
  BY <1>0, SameSets, RemapStays
<1>2. /\ Rows = 1 .. Len(conf.rows) /\ Len(conf.rows) \in Nat
      /\ conf.max_concurrent \in Nat /\ conf.strict \in BOOLEAN /\ row \in Nat
      /\ Cardinality(InFlight) \in Nat /\ Cardinality(Begun) \in Nat /\ Cardinality(Collected) \in Nat
  BY ConfFacts, TaskSetsFinite DEF ReplayInv
<1>3. ReplayTypes'
  <2>1. row' \in 0 .. Len(conf.rows) /\ reader' \in Readers
    BY <1>2
    DEF ReplayInv, ReplayTypes, SkipRow, RowError, FlapExit, EndOfLog, EmptyLog, Complete, Reading,
        Readers
  <2>2. stats' \in Statistics
    <3>1. CASE stats' = [stats EXCEPT !.skipped = @ + 1]
      BY <3>1 DEF ReplayInv, ReplayTypes, Statistics
    <3>2. CASE stats' = [stats EXCEPT !.total = @ + 1, !.flap_exit = TRUE]
      <4>1. stats \in Statistics
        BY DEF ReplayInv, ReplayTypes
      <4>2. stats' = [total |-> stats.total + 1, completed |-> stats.completed,
                      failed |-> stats.failed, skipped |-> stats.skipped, flap_exit |-> TRUE]
        BY <3>2, <4>1 DEF Statistics
      <4> QED
        BY <4>1, <4>2 DEF Statistics
    <3>3. CASE stats' = stats
      BY <3>3 DEF ReplayInv, ReplayTypes
    <3> QED
      BY <3>1, <3>2, <3>3 DEF SkipRow, RowError, FlapExit, EndOfLog, EmptyLog, Complete
  <2> QED
    BY <1>0, <1>1, <2>1, <2>2 DEF ReplayInv, ReplayTypes
<1>4. Unread'
  BY <1>0, <1>1, <1>2
  DEF ReplayInv, Unread, SkipRow, RowError, FlapExit, EndOfLog, EmptyLog, Complete, Reading
<1>5. Room'
  BY <1>0, <1>1, <1>2
  DEF ReplayInv, Room, Unread, SkipRow, RowError, FlapExit, EndOfLog, EmptyLog, Complete, Reading
<1>6. Counted'
  <2>1. CASE SkipRow \/ RowError
    <3>1. stats' = [stats EXCEPT !.skipped = @ + 1] /\ row' = row + 1
      BY <2>1 DEF SkipRow, RowError
    <3>2. /\ stats'.skipped = stats.skipped + 1 /\ stats'.flap_exit = stats.flap_exit
          /\ stats'.total = stats.total /\ stats'.completed = stats.completed
          /\ stats'.failed = stats.failed /\ stats.total \in Nat /\ stats.skipped \in Nat
      BY <3>1 DEF ReplayInv, ReplayTypes, Statistics
    <3>3. FlapRow' = FlapRow /\ FlapRow \in Nat
      BY <3>2 DEF FlapRow
    <3> QED
      BY <3>1, <3>2, <3>3, <1>1, <1>2 DEF ReplayInv, Counted
  <2>2. CASE FlapExit
    <3>1. stats' = [stats EXCEPT !.total = @ + 1, !.flap_exit = TRUE] /\ row' = row + 1
      BY <2>2 DEF FlapExit
    <3>2. /\ stats'.skipped = stats.skipped /\ stats'.flap_exit = TRUE
          /\ stats'.total = stats.total + 1 /\ stats'.completed = stats.completed
          /\ stats'.failed = stats.failed /\ stats.total \in Nat /\ stats.skipped \in Nat
      BY <3>1 DEF ReplayInv, ReplayTypes, Statistics
    <3>3. stats.flap_exit = FALSE
      BY <2>2 DEF FlapExit, ReplayInv, ReplayTypes, Statistics, GivenUp
    <3>4. FlapRow = 0 /\ FlapRow' = 1
      BY <3>2, <3>3 DEF FlapRow
    <3> QED
      BY <3>1, <3>2, <3>4, <1>1, <1>2 DEF ReplayInv, Counted
  <2>3. CASE EndOfLog \/ EmptyLog \/ Complete
    BY <2>3, <1>1 DEF EndOfLog, EmptyLog, Complete, ReplayInv, Counted, FlapRow
  <2> QED
    BY <2>1, <2>2, <2>3
<1>7. Returned'
  <2>1. reader = "first" => InFlight = {}
    BY DEF ReplayInv, Unread, Begun, InFlight
  <2> QED
    BY <1>0, <1>1, <2>1
    DEF ReplayInv, Returned, SkipRow, RowError, FlapExit, EndOfLog, EmptyLog, Complete, Reading
<1>8. GivenUp'
  BY <1>0, <1>1, <1>2
  DEF ReplayInv, ReplayTypes, Statistics, Counted, GivenUp, SkipRow, RowError, FlapExit, EndOfLog,
      EmptyLog, Complete, Reading
<1>9. Mapped'
  BY <1>0, <1>1 DEF ReplayInv, Mapped
<1> QED
  BY <1>3, <1>4, <1>5, <1>6, <1>7, <1>8, <1>9 DEF ReplayInv

\* A readable row becomes a task.
LEMMA SpawnStep ==
    ASSUME ReplayInv, FirstRow \/ NextRow
    PROVE  ReplayInv'
<1> DEFINE i == row + 1
<1>0. /\ conf' = conf /\ target' = target /\ row' = i /\ i <= Len(conf.rows)
      /\ task' = [task EXCEPT ![i] = "sleeping"]
      /\ stats' = [stats EXCEPT !.total = @ + 1]
      /\ reader \in {"first", "reading"} /\ reader' \in {"full", "reading"}
  <2>1. row \in Nat /\ Len(conf.rows) \in Nat
    BY ConfFacts DEF ReplayInv
  <2> QED
    BY <2>1 DEF FirstRow, NextRow, Spawned, Reading
<1>1. Rows' = Rows /\ \A j : Remapped(j)' = Remapped(j)
  BY <1>0, RemapStays
<1>2. /\ Rows = 1 .. Len(conf.rows) /\ Len(conf.rows) \in Nat
      /\ conf.max_concurrent \in Nat /\ conf.strict \in BOOLEAN /\ row \in Nat
      /\ Cardinality(InFlight) \in Nat /\ Cardinality(Begun) \in Nat /\ Cardinality(Collected) \in Nat
  BY ConfFacts, TaskSetsFinite DEF ReplayInv
<1>3. i \in Rows /\ task[i] = "none"
  BY <1>0, <1>2 DEF ReplayInv, Unread
<1>4. /\ Cardinality(InFlight') = Cardinality(InFlight) + 1
      /\ Cardinality(Begun') = Cardinality(Begun) + 1
      /\ Collected' = Collected
  BY <1>0, <1>3, SpawnSets DEF ReplayInv
<1> HIDE DEF i
<1>5. ReplayTypes'
  <2>1. row' \in 0 .. Len(conf.rows)
    BY <1>0, <1>2 DEF i
  <2> QED
    BY <2>1, <1>0, <1>1, <1>3 DEF ReplayInv, ReplayTypes, Readers, Statistics, TaskStates
<1>6. Unread'
  BY <1>0, <1>1, <1>2, <1>3 DEF ReplayInv, ReplayTypes, Unread, i
<1>7. Room'
  <2>1. CASE FirstRow
    <3>1. InFlight = {}
      BY <2>1 DEF FirstRow, ReplayInv, Unread, Begun, InFlight
    <3>2. Cardinality(InFlight') = 1
      BY <3>1, <1>4, FS_EmptySet
    <3> QED
      BY <3>2, <1>0, <1>2 DEF Room
  <2>2. CASE NextRow
    BY <2>2, <1>0, <1>2, <1>4 DEF NextRow, Room, ReplayInv
  <2> QED
    BY <2>1, <2>2
<1>8. Counted'
  <2>1. /\ stats'.total = stats.total + 1 /\ stats'.completed = stats.completed
        /\ stats'.failed = stats.failed /\ stats'.skipped = stats.skipped
        /\ stats'.flap_exit = stats.flap_exit
        /\ stats.total \in Nat /\ stats.skipped \in Nat
    BY <1>0 DEF ReplayInv, ReplayTypes, Statistics
  <2>2. stats.flap_exit = FALSE
    BY <1>0 DEF ReplayInv, ReplayTypes, Statistics, GivenUp
  <2> QED
    BY <2>1, <2>2, <1>0, <1>2, <1>4 DEF ReplayInv, Counted, FlapRow, i
<1>9. Returned'
  BY <1>0, <1>1, <1>3 DEF ReplayInv, ReplayTypes, Returned
<1>10. GivenUp'
  BY <1>0 DEF ReplayInv, ReplayTypes, Statistics, GivenUp
<1>11. Mapped'
  BY <1>0, <1>1 DEF ReplayInv, Mapped
<1> QED
  BY <1>5, <1>6, <1>7, <1>8, <1>9, <1>10, <1>11 DEF ReplayInv

\* A result is collected, by the reader at its limit, while draining or at the end.
LEMMA CollectStep ==
    ASSUME ReplayInv, NEW i \in Rows, Collect(i)
    PROVE  ReplayInv'
<1>0. /\ conf' = conf /\ target' = target /\ row' = row
      /\ task[i] \in {"succeeded", "failed"}
      /\ task' = [task EXCEPT ![i] = "collected"]
      /\ reader \in {"full", "draining", "waiting"}
      /\ reader' \in {"aborting", "reading", reader}
      /\ reader' = "reading" => /\ reader = "full"
                                /\ Cardinality(InFlight) - 1 < conf.max_concurrent
  BY DEF Collect, CollectSuccess, CollectFailure
<1>1. Rows' = Rows /\ \A j : Remapped(j)' = Remapped(j)
  BY <1>0, RemapStays
<1>2. /\ Rows = 1 .. Len(conf.rows) /\ Len(conf.rows) \in Nat
      /\ conf.max_concurrent \in Nat /\ conf.strict \in BOOLEAN /\ row \in Nat
      /\ Cardinality(InFlight) \in Nat /\ Cardinality(Begun) \in Nat /\ Cardinality(Collected) \in Nat
  BY ConfFacts, TaskSetsFinite DEF ReplayInv
<1>3. /\ Cardinality(InFlight') = Cardinality(InFlight) - 1
      /\ Cardinality(Collected') = Cardinality(Collected) + 1
      /\ Begun' = Begun
  BY <1>0, CollectSets DEF ReplayInv
<1>4. /\ stats' \in Statistics
      /\ stats'.total = stats.total /\ stats'.skipped = stats.skipped
      /\ stats'.flap_exit = stats.flap_exit
      /\ stats'.completed + stats'.failed = stats.completed + stats.failed + 1
      /\ stats'.failed = stats.failed \/ ~conf.strict \/ reader = "draining" \/ reader' = "aborting"
  <2>1. CASE CollectSuccess(i)
    BY <2>1 DEF CollectSuccess, ReplayInv, ReplayTypes, Statistics
  <2>2. CASE CollectFailure(i)
    BY <2>2 DEF CollectFailure, ReplayInv, ReplayTypes, Statistics
  <2> QED
    BY <2>1, <2>2 DEF Collect
<1>5. ReplayTypes'
  BY <1>0, <1>1, <1>4 DEF ReplayInv, ReplayTypes, Readers, TaskStates
<1>6. Unread'
  BY <1>0, <1>1, <1>2 DEF ReplayInv, ReplayTypes, Unread
<1>7. Room'
  BY <1>0, <1>2, <1>3 DEF ReplayInv, Room
<1>8. Counted'
  <2>1. FlapRow' = FlapRow
    BY <1>4 DEF FlapRow
  <2> QED
    BY <2>1, <1>0, <1>2, <1>3, <1>4 DEF ReplayInv, Counted
<1>9. Returned'
  BY <1>0, <1>1 DEF ReplayInv, ReplayTypes, Returned
<1>10. GivenUp'
  BY <1>0, <1>2, <1>4 DEF ReplayInv, GivenUp
<1>11. Mapped'
  BY <1>0, <1>1 DEF ReplayInv, Mapped
<1> QED
  BY <1>5, <1>6, <1>7, <1>8, <1>9, <1>10, <1>11 DEF ReplayInv

\* A task is issued, or ends.
LEMMA TaskStep ==
    ASSUME ReplayInv, NEW i \in Rows, TaskSteps(i)
    PROVE  ReplayInv'
<1>0. /\ conf' = conf /\ row' = row /\ reader' = reader /\ stats' = stats
      /\ task[i] \in {"sleeping", "running"}
  BY DEF TaskSteps, Issue, Ends
<1>1. Rows' = Rows /\ \A j : Remapped(j)' = Remapped(j)
  BY <1>0, RemapStays
<1>2. PICK t \in {"running", "succeeded", "failed"} : task' = [task EXCEPT ![i] = t]
  BY DEF TaskSteps, Issue, Ends
<1>3. InFlight' = InFlight /\ Begun' = Begun /\ Collected' = Collected
  BY <1>0, <1>2 DEF ReplayInv, ReplayTypes, InFlight, Begun, Collected, Rows
<1>4. \/ target' = target
      \/ \E u \in Remapped(i) : target' = [target EXCEPT ![i] = u]
  BY DEF TaskSteps, Issue, Ends
<1>5. target' = [j \in Rows |-> target'[j]]
  BY <1>4 DEF ReplayInv, ReplayTypes
<1>6. ReplayTypes'
  BY <1>0, <1>1, <1>2, <1>5 DEF ReplayInv, ReplayTypes, TaskStates
<1>7. Unread'
  BY <1>0, <1>1, <1>2, <1>3 DEF ReplayInv, ReplayTypes, Unread
<1>8. Room' /\ Counted'
  BY <1>0, <1>3 DEF ReplayInv, Room, Counted, FlapRow
<1>9. Returned' /\ GivenUp'
  BY <1>0, <1>1, <1>2, <1>3 DEF ReplayInv, ReplayTypes, Returned, GivenUp
<1>10. Mapped'
  BY <1>0, <1>1, <1>4 DEF ReplayInv, ReplayTypes, Mapped
<1> QED
  BY <1>6, <1>7, <1>8, <1>9, <1>10 DEF ReplayInv

\* The tasks that are left are aborted before the error is returned.
LEMMA AbortStep ==
    ASSUME ReplayInv, AbortTasks
    PROVE  ReplayInv'
<1>0. /\ conf' = conf /\ target' = target /\ row' = row /\ stats' = stats
      /\ reader = "aborting" /\ reader' = "err"
      /\ task' = [i \in Rows |-> IF i \in InFlight THEN "aborted" ELSE task[i]]
  BY DEF AbortTasks
<1>1. Rows' = Rows /\ \A j : Remapped(j)' = Remapped(j)
  BY <1>0, RemapStays
<1>2. InFlight' = {} /\ Begun' = Begun /\ Collected' = Collected
  BY <1>0, <1>1 DEF InFlight, Begun, Collected
<1>3. ReplayTypes'
  BY <1>0, <1>1 DEF ReplayInv, ReplayTypes, TaskStates, Readers
<1>4. Unread'
  BY <1>0, <1>1, <1>2 DEF ReplayInv, Unread, InFlight
<1>5. Room'
  BY <1>0, <1>2, FS_EmptySet, ConfFacts DEF ReplayInv, Room
<1>6. Counted' /\ Returned' /\ GivenUp' /\ Mapped'
  BY <1>0, <1>1, <1>2 DEF ReplayInv, Counted, FlapRow, Returned, GivenUp, Mapped
<1> QED
  BY <1>3, <1>4, <1>5, <1>6 DEF ReplayInv

LEMMA StepInv == ReplayInv /\ [ReplayNext]_replayVars => ReplayInv'
<1> SUFFICES ASSUME ReplayInv, [ReplayNext]_replayVars PROVE ReplayInv'
  OBVIOUS
<1>1. CASE SkipRow \/ RowError \/ FlapExit \/ EndOfLog \/ EmptyLog \/ Complete
  BY <1>1, ReaderStep
<1>2. CASE FirstRow \/ NextRow
  BY <1>2, SpawnStep
<1>3. CASE AbortTasks
  BY <1>3, AbortStep
<1>4. CASE \E i \in Rows : Collect(i) \/ TaskSteps(i)
  BY <1>4, CollectStep, TaskStep
<1>5. CASE Passes \/ UNCHANGED replayVars
  <2>1. /\ conf' = conf /\ task' = task /\ target' = target /\ row' = row /\ stats' = stats
        /\ reader' = reader
    BY <1>5 DEF Passes, replayVars
  <2>2. /\ InFlight' = InFlight /\ Begun' = Begun /\ Collected' = Collected
        /\ Rows' = Rows /\ \A i : Remapped(i)' = Remapped(i)
    BY <2>1, SameSets, RemapStays
  <2> QED
    BY <2>1, <2>2
    DEF ReplayInv, ReplayTypes, Unread, Room, Counted, FlapRow, Returned, GivenUp, Mapped
<1> QED
  BY <1>1, <1>2, <1>3, <1>4, <1>5 DEF ReplayNext, ReaderSteps

LEMMA Invariance == ReplaySpec => []ReplayInv
<1> QED
  BY InitInv, StepInv, PTL DEF ReplaySpec

(***************************************************************************)
(* Theorems                                                                *)
(***************************************************************************)

\* A replay that returns, well or with an error, leaves no operation scheduled or running,
\* for every op-log and every configuration (abort_and_drain).
THEOREM LeavesNothingRunning == ReplaySpec => []NothingLeftRunning
<1>1. ReplayInv => NothingLeftRunning
  BY DEF ReplayInv, Returned, NothingLeftRunning
<1> QED
  BY <1>1, Invariance, PTL

\* The reader's back-pressure holds for every limit of at least two: never are more
\* operations in flight than max_concurrent.
THEOREM KeepsItsBound == ReplaySpec => []InFlightBounded
<1>1. ReplayInv => InFlightBounded
  BY DEF ReplayInv, Room, InFlightBounded
<1> QED
  BY <1>1, Invariance, PTL

\* The statistics of a replay that returns Ok account for every row of its op-log.
THEOREM AccountsForEveryRow == ReplaySpec => []Accounted
<1>1. ReplayInv => Accounted
  <2> SUFFICES ASSUME ReplayInv, reader = "ok" PROVE Accounted
    BY DEF Accounted
  <2>1. Begun = Collected
    BY DEF ReplayInv, ReplayTypes, TaskStates, Returned, Begun, Collected, InFlight
  <2>2. stats.total = stats.completed + stats.failed + FlapRow
    BY <2>1 DEF ReplayInv, Counted
  <2>3. ~stats.flap_exit => stats.total + stats.skipped = Len(conf.rows)
    BY DEF ReplayInv, Counted, GivenUp
  <2>4. ~stats.flap_exit /\ conf.strict => stats.failed = 0 /\ stats.skipped = 0
    BY DEF ReplayInv, GivenUp
  <2> QED
    BY <2>2, <2>3, <2>4 DEF Accounted, FlapRow
<1> QED
  BY <1>1, Invariance, PTL

\* All operations on a key whose rule is sticky_key go to one target, whatever the rules
\* (select_target_from_many with an engine made for every operation).
THEOREM StickyKeysStay == ReplaySpec => []StickyKeys
<1>1. ReplayInv => StickyKeys
  <2> SUFFICES ASSUME ReplayInv,
                      NEW i \in Rows, NEW j \in Rows,
                      target[i] # <<>>, target[j] # <<>>,
                      conf.rows[i] = [conf.rows[j] EXCEPT !.start = conf.rows[i].start],
                      target[i][1] > 0, conf.rules[target[i][1]].strategy = "sticky_key"
               PROVE  target[i] = target[j]
    BY DEF StickyKeys
  <2>1. target[i] \in Remapped(i) /\ target[j] \in Remapped(j)
    BY DEF ReplayInv, Mapped
  <2>2. conf.rows[i].bucket = conf.rows[j].bucket /\ conf.rows[i].key = conf.rows[j].key
    <3>0. conf.rows \in Seq([start : Nat \cup {-1}, bucket : Nat, key : Nat])
      BY ReplayAssumption DEF ReplayInv, ReplayTypes, ReplayOK
    <3> DEFINE Entry == [start : Nat \cup {-1}, bucket : Nat, key : Nat]
    <3>1. conf.rows[j] \in Entry
      <4> HIDE DEF Entry
      <4>1. conf.rows \in Seq(Entry)
        BY <3>0 DEF Entry
      <4>2. j \in 1 .. Len(conf.rows)
        BY ConfFacts DEF ReplayInv
      <4> QED
        BY <4>1, <4>2
    <3> QED
      BY <3>1
  <2>3. Matching(i) = Matching(j)
    BY <2>2 DEF Matching
  <2>4. CASE Matching(i) = {}
    <3>1. target[i] = <<0, 0>>
      BY <2>1, <2>4 DEF Remapped
    <3> QED
      BY <3>1
  <2>5. CASE Matching(i) # {}
    <3> DEFINE n == CHOOSE m \in Matching(i) : \A k \in Matching(i) : m <= k
    <3>1. Remapped(i) = {<<n, t>> : t \in Selected(conf.rules[n], conf.rows[i].key, 0)}
      BY <2>5 DEF Remapped
    <3>2. Remapped(j) = Remapped(i)
      BY <2>2, <2>3, <2>5 DEF Remapped
    <3> HIDE DEF n
    <3>3. target[i][1] = n
      BY <2>1, <3>1
    <3>4. Selected(conf.rules[n], conf.rows[i].key, 0)
            = {1 + (Hash(conf.rows[i].key) % conf.rules[n].targets)}
      BY <3>3 DEF Selected
    <3>5. Remapped(i) = {<<n, 1 + (Hash(conf.rows[i].key) % conf.rules[n].targets)>>}
      BY <3>1, <3>4
    <3> QED
      BY <2>1, <3>2, <3>5
  <2> QED
    BY <2>4, <2>5
<1> QED
  BY <1>1, Invariance, PTL
=============================================================================
