------------------------------- MODULE Replay -------------------------------
(***************************************************************************)
(* replay_workload_streaming: rows of an op-log become tasks that wait for *)
(* their recorded time and execute; the reader bounds the tasks in flight, *)
(* switches between normal and best-effort mode by its lag, leaves when it *)
(* switches too often, and aborts what is left when an error ends it.      *)
(* The remap rules choose the bucket an operation goes to.                 *)
(*                                                                         *)
(* Time is a clock; an operation takes any time, and may fail.             *)
(***************************************************************************)
EXTENDS Integers, Sequences, FiniteSets

CONSTANTS
    Replays,   \* the replays considered, see ReplayOK
    MaxRows,   \* bound: rows of an op-log
    Window,    \* the flapping tracker's minute
    MaxTime    \* bound: length of a replay

Modes == {"Normal", "BestEffort"}
Strategies == {"round_robin", "random", "sticky_key"}

\* rows: the op-log, each row a start time, a bucket and a key, or unreadable (start -1).
\* strict: an error ends the replay (no --continue-on-error).  rules: the remap rules, each
\* with the buckets it matches, the number of its targets (1 but for a fan-out), and how it
\* chooses one.
ReplayOK(r) ==
    /\ r.rows \in Seq([start : Nat \cup {-1}, bucket : Nat, key : Nat]) /\ Len(r.rows) <= MaxRows
    /\ r.strict \in BOOLEAN /\ r.max_concurrent \in Nat \ {0}
    /\ r.lag \in Nat /\ r.recovery \in 0..r.lag /\ r.max_flaps \in Nat /\ r.drain \in Nat
    /\ r.rules \in Seq([buckets : SUBSET Nat, targets : Nat \ {0}, strategy : Strategies])

ASSUME ReplayAssumption ==
    /\ \A r \in Replays : ReplayOK(r)
    /\ Window \in Nat \ {0} /\ MaxTime \in Nat

VARIABLES
    conf,        \* the replay
    now,         \* time since the replay's epoch
    reader,      \* first, reading, full, draining, waiting, aborting, ok, err
    row,         \* rows read
    epoch,       \* start of the first readable row
    mode,        \* BackpressureController: mode
    flips,       \* transitions the flapping tracker still remembers
    drain_from,  \* time the drain began
    task,        \* task[i]: none, sleeping, running, succeeded, failed, collected, aborted
    due,         \* due[i]: time before which task i does not execute (0 in best effort)
    target,      \* target[i]: where operation i went: rule and target, <<0, 0>> if no rule matched
    stats        \* ReplayStats

replayVars == <<conf, now, reader, row, epoch, mode, flips, drain_from, task, due, target, stats>>

Rows == DOMAIN conf.rows
InFlight == {i \in Rows : task[i] \in {"sleeping", "running", "succeeded", "failed"}}
Busy == {i \in Rows : task[i] \in {"sleeping", "running"}}

ReplayInit ==
    /\ conf \in Replays
    /\ now = 0 /\ reader = "first" /\ row = 0 /\ epoch = 0
    /\ mode = "Normal" /\ flips = <<>> /\ drain_from = 0
    /\ task = [i \in Rows |-> "none"]
    /\ due = [i \in Rows |-> 0] /\ target = [i \in Rows |-> <<>>]
    /\ stats = [total |-> 0, completed |-> 0, failed |-> 0, skipped |-> 0, flap_exit |-> FALSE]

-----------------------------------------------------------------------------
\* ---- remap rules

\* The hash of a key, as any function of it
Hash(key) == key

\* Mutant: a sticky key goes anywhere
SelectedAny(rule, key, counter) == 1..rule.targets

\* select_target_from_many, with the counter an engine keeps for the rule
Selected(rule, key, counter) ==
    CASE rule.strategy = "round_robin" -> {1 + (counter % rule.targets)}
      [] rule.strategy = "random" -> 1..rule.targets
      [] rule.strategy = "sticky_key" -> {1 + (Hash(key) % rule.targets)}

\* The first rule that matches wins; a URI that no rule matches is left as it is
Matching(i) == {n \in DOMAIN conf.rules : conf.rows[i].bucket \in conf.rules[n].buckets}

\* Every operation makes an engine of its own, with all counters at 0
Remapped(i) ==
    IF Matching(i) = {} THEN {<<0, 0>>}
    ELSE LET n == CHOOSE m \in Matching(i) : \A k \in Matching(i) : m <= k
         IN {<<n, t>> : t \in Selected(conf.rules[n], conf.rows[i].key, 0)}

-----------------------------------------------------------------------------
\* ---- back-pressure

Lag(delay) == IF now > delay THEN now - delay ELSE 0

\* The mode after a row with this lag
Updated(lag) ==
    IF mode = "Normal"
    THEN IF lag > conf.lag THEN "BestEffort" ELSE "Normal"
    ELSE IF lag < conf.recovery THEN "Normal" ELSE "BestEffort"

\* record_transition: forget what is older than the window, add this one
Remembered(lag) ==
    IF Updated(lag) = mode THEN flips
    ELSE Append(SelectSeq(flips, LAMBDA t : t > now - Window), now)

FlapLimit(lag) == Updated(lag) # mode /\ Len(Remembered(lag)) > conf.max_flaps

-----------------------------------------------------------------------------
\* ---- the reader

Reading == reader \in {"first", "reading"} /\ row < Len(conf.rows)
Unreadable == conf.rows[row + 1].start = -1

\* A row the reader rejects
SkipRow ==
    /\ Reading /\ Unreadable /\ ~conf.strict
    /\ row' = row + 1
    /\ stats' = [stats EXCEPT !.skipped = @ + 1]
    /\ UNCHANGED <<conf, now, reader, epoch, mode, flips, drain_from, task, due, target>>

\* Mutant: the error is returned at once
RowErrorReturns ==
    /\ Reading /\ Unreadable /\ conf.strict
    /\ row' = row + 1
    /\ reader' = "err"
    /\ UNCHANGED <<conf, now, epoch, mode, flips, drain_from, task, due, target, stats>>

RowError ==
    /\ Reading /\ Unreadable /\ conf.strict
    /\ row' = row + 1
    /\ stats' = [stats EXCEPT !.skipped = @ + 1]
    /\ reader' = "aborting"
    /\ UNCHANGED <<conf, now, epoch, mode, flips, drain_from, task, due, target>>

Delay(start) == IF start > epoch THEN start - epoch ELSE 0

Spawned(i, delay, in_mode) ==
    /\ task' = [task EXCEPT ![i] = "sleeping"]
    /\ due' = [due EXCEPT ![i] = IF in_mode = "Normal" THEN delay ELSE 0]

\* The first readable row is the epoch
FirstRow ==
    /\ reader = "first" /\ Reading /\ ~Unreadable
    /\ row' = row + 1
    /\ epoch' = conf.rows[row + 1].start
    /\ stats' = [stats EXCEPT !.total = @ + 1]
    /\ Spawned(row + 1, 0, mode)
    /\ reader' = "reading"
    /\ UNCHANGED <<conf, now, mode, flips, drain_from, target>>

\* Mutant: completed tasks are collected only when the limit is exceeded
NextRowLate ==
    LET delay == Delay(conf.rows[row + 1].start)
        lag == Lag(delay) IN
    /\ reader = "reading" /\ Reading /\ ~Unreadable
    /\ ~FlapLimit(lag)
    /\ row' = row + 1
    /\ stats' = [stats EXCEPT !.total = @ + 1]
    /\ mode' = Updated(lag)
    /\ flips' = Remembered(lag)
    /\ Spawned(row + 1, delay, mode')
    /\ reader' = IF Cardinality(InFlight) > conf.max_concurrent THEN "full" ELSE "reading"
    /\ UNCHANGED <<conf, now, epoch, drain_from, target>>

NextRow ==
    LET delay == Delay(conf.rows[row + 1].start)
        lag == Lag(delay) IN
    /\ reader = "reading" /\ Reading /\ ~Unreadable
    /\ ~FlapLimit(lag)
    /\ row' = row + 1
    /\ stats' = [stats EXCEPT !.total = @ + 1]
    /\ mode' = Updated(lag)
    /\ flips' = Remembered(lag)
    /\ Spawned(row + 1, delay, mode')
    /\ reader' = IF Cardinality(InFlight) + 1 >= conf.max_concurrent THEN "full" ELSE "reading"
    /\ UNCHANGED <<conf, now, epoch, drain_from, target>>

\* The mode changed too often: the row is counted and given up, the tasks in flight drained
FlapExit ==
    LET lag == Lag(Delay(conf.rows[row + 1].start)) IN
    /\ reader = "reading" /\ Reading /\ ~Unreadable
    /\ FlapLimit(lag)
    /\ row' = row + 1
    /\ stats' = [stats EXCEPT !.total = @ + 1, !.flap_exit = TRUE]
    /\ mode' = Updated(lag)
    /\ flips' = Remembered(lag)
    /\ drain_from' = now
    /\ reader' = "draining"
    /\ UNCHANGED <<conf, now, epoch, task, due, target>>

\* The end of the log, or of the drain: the loop is left and all tasks are awaited
EndOfLog ==
    /\ \/ reader = "reading" /\ row = Len(conf.rows)
       \/ reader = "draining" /\ (InFlight = {} \/ now - drain_from >= conf.drain)
    /\ reader' = "waiting"
    /\ UNCHANGED <<conf, now, row, epoch, mode, flips, drain_from, task, due, target, stats>>

EmptyLog ==
    /\ reader = "first" /\ row = Len(conf.rows)
    /\ reader' = "ok"
    /\ UNCHANGED <<conf, now, row, epoch, mode, flips, drain_from, task, due, target, stats>>

\* Mutant: the reader does not go on after the in-flight limit was met
CollectSuccessStays(i) ==
    /\ reader \in {"full", "draining", "waiting"}
    /\ task[i] = "succeeded"
    /\ task' = [task EXCEPT ![i] = "collected"]
    /\ stats' = [stats EXCEPT !.completed = @ + 1]
    /\ UNCHANGED <<conf, now, reader, row, epoch, mode, flips, drain_from, due, target>>

\* Mutant: errors found while the last tasks are awaited do not end a strict replay
CollectFailureLenient(i) ==
    /\ reader \in {"full", "draining", "waiting"}
    /\ task[i] = "failed"
    /\ task' = [task EXCEPT ![i] = "collected"]
    /\ stats' = [stats EXCEPT !.failed = @ + 1]
    /\ reader' = IF conf.strict /\ reader = "full" THEN "aborting"
                 ELSE IF reader = "full" /\ Cardinality(InFlight) - 1 < conf.max_concurrent
                 THEN "reading" ELSE reader
    /\ UNCHANGED <<conf, now, row, epoch, mode, flips, drain_from, due, target>>

\* handle_task_result: at the in-flight limit, while draining and at the end; an error of a
\* strict replay ends it, but not while draining
CollectSuccess(i) ==
    /\ reader \in {"full", "draining", "waiting"}
    /\ task[i] = "succeeded"
    /\ task' = [task EXCEPT ![i] = "collected"]
    /\ stats' = [stats EXCEPT !.completed = @ + 1]
    /\ reader' = IF reader = "full" /\ Cardinality(InFlight) - 1 < conf.max_concurrent
                 THEN "reading" ELSE reader
    /\ UNCHANGED <<conf, now, row, epoch, mode, flips, drain_from, due, target>>

CollectFailure(i) ==
    /\ reader \in {"full", "draining", "waiting"}
    /\ task[i] = "failed"
    /\ task' = [task EXCEPT ![i] = "collected"]
    /\ stats' = [stats EXCEPT !.failed = @ + 1]
    /\ reader' = IF conf.strict /\ reader # "draining" THEN "aborting"
                 ELSE IF reader = "full" /\ Cardinality(InFlight) - 1 < conf.max_concurrent
                 THEN "reading" ELSE reader
    /\ UNCHANGED <<conf, now, row, epoch, mode, flips, drain_from, due, target>>

Complete ==
    /\ reader = "waiting" /\ InFlight = {}
    /\ reader' = "ok"
    /\ UNCHANGED <<conf, now, row, epoch, mode, flips, drain_from, task, due, target, stats>>

\* abort_and_drain, then the error is returned.  A task that ended meanwhile has ended.
AbortTasks ==
    /\ reader = "aborting"
    /\ task' = [i \in Rows |-> IF i \in InFlight THEN "aborted" ELSE task[i]]
    /\ reader' = "err"
    /\ UNCHANGED <<conf, now, row, epoch, mode, flips, drain_from, due, target, stats>>

-----------------------------------------------------------------------------
\* ---- tasks

\* The recorded time has come: the URI is mapped and the operation issued
Issue(i) ==
    /\ task[i] = "sleeping" /\ now >= due[i]
    /\ task' = [task EXCEPT ![i] = "running"]
    /\ \E t \in Remapped(i) : target' = [target EXCEPT ![i] = t]
    /\ UNCHANGED <<conf, now, reader, row, epoch, mode, flips, drain_from, due, stats>>

Ends(i) ==
    /\ task[i] = "running"
    /\ \E outcome \in {"succeeded", "failed"} : task' = [task EXCEPT ![i] = outcome]
    /\ UNCHANGED <<conf, now, reader, row, epoch, mode, flips, drain_from, due, target, stats>>

Passes ==
    /\ now < MaxTime /\ reader \notin {"first", "ok", "err"}
    /\ now' = now + 1
    /\ UNCHANGED <<conf, reader, row, epoch, mode, flips, drain_from, task, due, target, stats>>

ReaderSteps ==
    \/ SkipRow \/ RowError \/ FirstRow \/ NextRow \/ FlapExit \/ EndOfLog \/ EmptyLog
    \/ Complete \/ AbortTasks

Collect(i) == CollectSuccess(i) \/ CollectFailure(i)
TaskSteps(i) == Issue(i) \/ Ends(i)

ReplayNext == ReaderSteps \/ Passes \/ \E i \in Rows : Collect(i) \/ TaskSteps(i)

\* The reader and the tasks are scheduled, sleeps end, and the storage answers in the end
ReplayFairness ==
    /\ WF_replayVars(ReaderSteps) /\ WF_replayVars(Passes)
    /\ WF_replayVars(\E i \in Rows : Collect(i))
    /\ \A i \in 1..MaxRows : WF_replayVars(i \in Rows /\ TaskSteps(i))

ReplaySpec == ReplayInit /\ [][ReplayNext]_replayVars /\ ReplayFairness

-----------------------------------------------------------------------------
\* ---- properties

\* Every variable keeps its type, and the statistics never count more than was read.
ReplayTypeOK ==
    /\ conf \in Replays /\ now \in 0..MaxTime
    /\ reader \in {"first", "reading", "full", "draining", "waiting", "aborting", "ok", "err"}
    /\ row \in 0..Len(conf.rows) /\ epoch \in Nat
    /\ mode \in Modes /\ flips \in Seq(Nat) /\ drain_from \in Nat
    /\ task \in [Rows -> {"none", "sleeping", "running", "succeeded", "failed", "collected", "aborted"}]
    /\ due \in [Rows -> Nat]
    /\ stats.completed + stats.failed <= stats.total /\ stats.total + stats.skipped <= row

\* When the replay returns, well or with an error, none of its operations is scheduled or
\* running any more: not after an unreadable row, a failed operation, or a drain that took
\* longer than its timeout (abort_and_drain).
NothingLeftRunning == reader \in {"ok", "err"} => InFlight = {}

\* No more operations are in flight than max_concurrent allows.  A limit of one is let out:
\* the first row is not polled for, so two operations are in flight then.
InFlightBounded == conf.max_concurrent >= 2 => Cardinality(InFlight) <= conf.max_concurrent

\* The statistics of a replay that returns Ok account for every row: completed, failed or
\* skipped, but for the row at which a replay that flaps is given up.  Without
\* --continue-on-error nothing has failed or was skipped, unless it was given up for
\* flapping, when errors are ignored.
Accounted ==
    reader = "ok" =>
        /\ stats.total = stats.completed + stats.failed + (IF stats.flap_exit THEN 1 ELSE 0)
        /\ ~stats.flap_exit =>
             /\ stats.total + stats.skipped = Len(conf.rows)
             /\ conf.strict => stats.failed = 0 /\ stats.skipped = 0

\* All operations on an object whose rule is sticky_key go to the same target, although no
\* engine survives the operation it was made for.
StickyKeys ==
    \A i, j \in Rows :
        /\ target[i] # <<>> /\ target[j] # <<>> /\ conf.rows[i] = [conf.rows[j] EXCEPT !.start = conf.rows[i].start]
        /\ target[i][1] > 0 /\ conf.rules[target[i][1]].strategy = "sticky_key"
        => target[i] = target[j]

\* The replay returns, whatever the lag and the errors.
ReplayReturns == <>(reader \in {"ok", "err"})
=============================================================================
