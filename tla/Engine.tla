------------------------------- MODULE Engine -------------------------------
(***************************************************************************)
(* workload::run: the worker tasks that issue operations until a deadline, *)
(* the rate controller and the per-operation semaphores in front of them,  *)
(* the shared error tracker with its retries and its threshold, the pools  *)
(* GET, STAT and DELETE choose their objects from, and the caller, which   *)
(* joins the workers in order and gives up when the drain window is over.  *)
(* Beside it the live statistics and the thread that writes the            *)
(* performance log of a standalone run.                                    *)
(*                                                                         *)
(* Time is a clock in units of the rate controller's grain.  The storage   *)
(* answers when it likes: an operation under way ends with success, with   *)
(* an error (a timeout included), or not at all.  Sleeps between retries   *)
(* and high-error-rate back-offs take any time.                            *)
(***************************************************************************)
EXTENDS Integers, FiniteSets

CONSTANTS
    Concurrency,  \* worker tasks
    Jobs,         \* the configurations considered, see JobOK
    Duration,     \* the workload's duration
    Drain,        \* DEFAULT_WORKER_DRAIN_TIMEOUT_SECS
    FlushInterval, \* FLUSH_INTERVAL
    MaxOps        \* bound: operations one worker starts

Workers == 1..Concurrency
Classes == {"get", "put", "meta"}
Metadata == {"list", "stat", "delete", "mkdir", "rmdir"}
Kinds == {"get", "put"} \cup Metadata

\* Objects are named by their pool and a number; PUT draws fresh names
Pools == {"prepared", "deletable", "new"}
Patterns == {"prepared", "deletable", "prefix"}

\* get and delete: the pattern the operations choose from, a glob for the files of one
\* pool or the prefix all of them share.  tree: the run has a directory tree manifest.
\* target: IOPS target as operations per unit of time, 0 for max.  limit: the operations
\* with a concurrency of their own that is below the global one.
JobOK(j) ==
    /\ j.ops \subseteq Kinds /\ j.ops # {}
    /\ j.get \in Patterns /\ j.delete \in Patterns
    /\ {j.dynamic, j.tree} \subseteq BOOLEAN
    /\ DOMAIN j.limit \subseteq j.ops
    /\ \A k \in DOMAIN j.limit : j.limit[k] \in 1..(Concurrency - 1)
    /\ j.target \in Nat /\ (j.target > 0 => Concurrency % j.target = 0)
    /\ j.attempts \in Nat \ {0} /\ j.max_errors \in Nat \ {0}
    /\ IsFiniteSet(j.store) /\ j.store \subseteq Pools \X Nat

ASSUME EngineAssumption ==
    /\ Concurrency \in Nat \ {0} /\ Duration \in Nat \ {0} /\ Drain \in Nat /\ MaxOps \in Nat
    /\ FlushInterval \in Nat \ {0}
    /\ \A j \in Jobs : JobOK(j)

VARIABLES
    job,       \* the configuration
    clock,     \* time since the start of the run
    \* --- storage and the shared lists
    store,     \* objects stored
    lists,     \* pre-resolved GET, DELETE and STAT lists
    made,      \* objects this run has PUT successfully
    \* --- worker tasks
    wpc,       \* none, loop, paced, io, asleep, exited, failed, aborted
    at,        \* at[w]: operation, object, attempt, and the time the rate controller set
    tally,     \* tally[w]: WorkerStats, operations per class
    local,     \* local[w]: operations not yet flushed to the progress counter
    permits,   \* permits left of each limited operation
    issued,    \* ops_issued of the rate controller
    started,   \* operations that passed the rate controller
    errors,    \* total_errors
    \* --- statistics
    live,      \* LiveStatsTracker: operations per class
    progress,  \* live_ops, the progress bar's counter
    \* --- the caller
    joined,    \* workers joined
    merged,    \* operations per class of the workers joined
    result,    \* resolving, running, ok, err
    \* --- performance log thread
    lpc,       \* asleep, sampled, gone
    prev,      \* prev_*_ops: the counters of the last sample
    logged     \* operations in the entries written

poolVars   == <<store, lists, made>>
workerVars == <<wpc, at, tally, local, permits, issued, started, errors>>
statVars   == <<live, progress>>
callerVars == <<joined, merged, result>>
logVars    == <<lpc, prev, logged>>
engineVars == <<job, clock, poolVars, workerVars, statVars, callerVars, logVars>>

None == <<"none", 0>>
Idle == [op |-> "none", object |-> None, attempt |-> 0, due |-> 0]
Zero == [get |-> 0, put |-> 0, meta |-> 0]
Total(count) == count.get + count.put + count.meta
Plus(a, b) == [get |-> a.get + b.get, put |-> a.put + b.put, meta |-> a.meta + b.meta]
\* saturating_sub, class by class
Minus(a, b) == [c \in Classes |-> IF a[c] >= b[c] THEN a[c] - b[c] ELSE 0]

-----------------------------------------------------------------------------
\* ---- pools

\* A mixed workload, DELETE or RMDIR with GET or STAT, has a read-only and a deletable pool
SeparatePools(j) == j.ops \cap {"delete", "rmdir"} # {} /\ j.ops \cap {"get", "stat"} # {}

\* Mutant: every operation keeps the pattern of the configuration
RewrittenNever(j, pattern, is_delete) == pattern

\* rewrite_pattern_for_pool: only patterns that mention the prepared pool are redirected
Rewritten(j, pattern, is_delete) ==
    IF SeparatePools(j) /\ pattern = "prepared" /\ is_delete THEN "deletable" ELSE pattern

Matches(o, pattern) == pattern = "prefix" \/ o[1] = pattern

\* The objects a pattern lists at the start of the run
Resolved(j, is_delete) ==
    LET pattern == Rewritten(j, IF is_delete THEN j.delete ELSE j.get, is_delete)
    IN {o \in j.store : Matches(o, pattern)}

\* The file names of a tree manifest do not depend on the operation: every operation
\* chooses from the whole tree
GetObjects == IF job.tree THEN job.store ELSE lists.get
StatObjects == IF job.tree THEN job.store ELSE lists.stat
DeleteObjects == IF job.tree THEN job.store ELSE lists.delete

\* PUT without a tree draws a random name
PutNames == IF job.tree THEN job.store
            ELSE {<<"new", 1 + Cardinality({o \in store \cup made : o[1] = "new"})>>}

Objects(k) ==
    CASE k = "get" -> GetObjects
      [] k = "put" -> PutNames
      [] k = "stat" -> StatObjects
      [] k = "delete" -> DeleteObjects
      [] OTHER -> {None}

\* MKDIR and RMDIR choose directories, which need a tree
Unsupported(k) == k \in {"mkdir", "rmdir"} /\ ~job.tree

\* The GET list a new object joins: the list's pattern must be a prefix of its name
Joins(k) == k = "put" /\ job.dynamic /\ ~job.tree /\ "get" \in job.ops
            /\ Rewritten(job, job.get, FALSE) = "prefix"

-----------------------------------------------------------------------------
\* ---- start of the run

EngineInit ==
    /\ job \in Jobs
    /\ clock = 0
    /\ store = job.store /\ made = {}
    /\ lists = [get |-> {}, stat |-> {}, delete |-> {}]
    /\ wpc = [w \in Workers |-> "none"]
    /\ at = [w \in Workers |-> Idle]
    /\ tally = [w \in Workers |-> Zero] /\ local = [w \in Workers |-> 0]
    /\ permits = job.limit
    /\ issued = 0 /\ started = 0 /\ errors = 0
    /\ live = Zero /\ progress = 0
    /\ joined = 0 /\ merged = Zero /\ result = "resolving"
    /\ lpc = "asleep" /\ prev = Zero /\ logged = 0

NeedsList == {k \in job.ops : k \in {"get", "stat", "delete"} /\ ~job.tree}

\* A pattern without objects, or a listing that fails, ends the run before it starts
Resolve ==
    /\ result = "resolving"
    /\ LET list(k) == IF k \in NeedsList THEN Resolved(job, k = "delete") ELSE {}
       IN lists' = [get |-> list("get"), stat |-> list("stat"), delete |-> list("delete")]
    /\ LET found == \A k \in NeedsList : lists'[k] # {} IN
          /\ result' = IF found THEN "running" ELSE "err"
          /\ wpc' = IF found THEN [w \in Workers |-> "loop"] ELSE wpc
    /\ UNCHANGED <<job, clock, store, made, at, tally, local, permits, issued, started, errors,
                   statVars, joined, merged, logVars>>

ResolveFails ==
    /\ result = "resolving" /\ NeedsList # {}
    /\ result' = "err"
    /\ UNCHANGED <<job, clock, poolVars, workerVars, statVars, joined, merged, logVars>>

-----------------------------------------------------------------------------
\* ---- worker tasks

Release(k) == IF k \in DOMAIN permits THEN [permits EXCEPT ![k] = @ + 1] ELSE permits

\* Time between two operations the rate controller aims at: it divides the target by the
\* workers, but all workers share one controller and its count of operations
InterArrival == IF job.target = 0 THEN 0 ELSE Concurrency \div job.target

\* Mutant: the rate controller does not count in this mode
BeginUncounted(w) ==
    /\ wpc[w] = "loop" /\ clock < Duration
    /\ Total(tally[w]) < MaxOps
    /\ \E k \in job.ops : at' = [at EXCEPT ![w] = [Idle EXCEPT !.op = k]]
    /\ wpc' = [wpc EXCEPT ![w] = "paced"]
    /\ UNCHANGED <<job, clock, poolVars, tally, local, permits, issued, started, errors,
                   statVars, callerVars, logVars>>

\* The loop's head: stop at the deadline, choose an operation, ask the rate controller
Begin(w) ==
    /\ wpc[w] = "loop" /\ clock < Duration
    /\ Total(tally[w]) < MaxOps
    /\ \E k \in job.ops :
          at' = [at EXCEPT ![w] = [op |-> k, object |-> None, attempt |-> 0,
                                   due |-> issued * InterArrival]]
    /\ issued' = IF job.target = 0 THEN 0 ELSE issued + 1
    /\ wpc' = [wpc EXCEPT ![w] = "paced"]
    /\ UNCHANGED <<job, clock, poolVars, tally, local, permits, started, errors,
                   statVars, callerVars, logVars>>

\* Mutant: the rest of the local counter is forgotten
ExitUnflushed(w) ==
    /\ wpc[w] = "loop" /\ clock >= Duration
    /\ wpc' = [wpc EXCEPT ![w] = "exited"]
    /\ UNCHANGED <<job, clock, poolVars, at, tally, local, permits, issued, started, errors,
                   statVars, callerVars, logVars>>

\* The deadline: the rest of the local counter is flushed and the statistics returned
Exit(w) ==
    /\ wpc[w] = "loop" /\ clock >= Duration
    /\ wpc' = [wpc EXCEPT ![w] = "exited"]
    /\ progress' = progress + local[w]
    /\ local' = [local EXCEPT ![w] = 0]
    /\ UNCHANGED <<job, clock, poolVars, at, tally, permits, issued, started, errors,
                   live, callerVars, logVars>>

\* The wait is over and a permit is there: the object is chosen, before any attempt
Acquire(w) ==
    LET k == at[w].op IN
    /\ wpc[w] = "paced" /\ clock >= at[w].due
    /\ (k \in DOMAIN permits => permits[k] > 0)
    /\ ~Unsupported(k)
    /\ \E o \in Objects(k) :
          at' = [at EXCEPT ![w] = [op |-> k, object |-> o, attempt |-> 1, due |-> at[w].due]]
    /\ permits' = IF k \in DOMAIN permits THEN [permits EXCEPT ![k] = @ - 1] ELSE permits
    /\ started' = started + 1
    /\ wpc' = [wpc EXCEPT ![w] = "io"]
    /\ UNCHANGED <<job, clock, poolVars, tally, local, issued, errors, statVars, callerVars, logVars>>

\* MKDIR or RMDIR without a tree: the worker returns an error
AcquireUnsupported(w) ==
    /\ wpc[w] = "paced" /\ clock >= at[w].due
    /\ (at[w].op \in DOMAIN permits => permits[at[w].op] > 0)
    /\ Unsupported(at[w].op)
    /\ wpc' = [wpc EXCEPT ![w] = "failed"]
    /\ UNCHANGED <<job, clock, poolVars, at, tally, local, permits, issued, started, errors,
                   statVars, callerVars, logVars>>

\* What a successful operation does to the storage
Effect(k, o) ==
    CASE k = "put" -> store \cup {o}
      [] k = "delete" -> store \ {o}
      [] OTHER -> store

Flushes(w) == (local[w] + 1) % FlushInterval = 0

\* Success: the worker's statistics, the live statistics and the progress counter
Recorded(w, class) ==
    /\ tally' = [tally EXCEPT ![w][class] = @ + 1]
    /\ live' = [live EXCEPT ![class] = @ + 1]
    /\ local' = [local EXCEPT ![w] = IF Flushes(w) THEN 0 ELSE @ + 1]
    /\ progress' = IF Flushes(w) THEN progress + local[w] + 1 ELSE progress
    /\ permits' = Release(at[w].op)
    /\ wpc' = [wpc EXCEPT ![w] = "loop"]
    /\ at' = [at EXCEPT ![w] = Idle]
    /\ UNCHANGED <<job, clock, issued, started, errors, callerVars, logVars>>

Performs(w, k) == wpc[w] = "io" /\ at[w].op = k

\* An empty body is an error, so a GET that succeeds has found its object
Get(w) ==
    /\ Performs(w, "get") /\ at[w].object \in store
    /\ Recorded(w, "get")
    /\ UNCHANGED poolVars

Put(w) ==
    LET o == at[w].object IN
    /\ Performs(w, "put")
    /\ store' = Effect("put", o)
    /\ made' = made \cup {o}
    /\ lists' = IF Joins("put") THEN [lists EXCEPT !.get = @ \cup {o}] ELSE lists
    /\ Recorded(w, "put")

List(w) == Performs(w, "list") /\ Recorded(w, "meta") /\ UNCHANGED poolVars

Stat(w) ==
    /\ Performs(w, "stat") /\ at[w].object \in store
    /\ Recorded(w, "meta")
    /\ UNCHANGED poolVars

\* Backends differ on deleting what is gone already
Delete(w) ==
    /\ Performs(w, "delete")
    /\ store' = Effect("delete", at[w].object)
    /\ Recorded(w, "meta")
    /\ UNCHANGED <<lists, made>>

Mkdir(w) == Performs(w, "mkdir") /\ Recorded(w, "meta") /\ UNCHANGED poolVars

\* A recursive RMDIR takes the directory's files with it
Rmdir(w) ==
    /\ Performs(w, "rmdir")
    /\ store' \in SUBSET store
    /\ Recorded(w, "meta")
    /\ UNCHANGED <<lists, made>>

\* An attempt fails, possibly after it had its effect: the tracker counts it; at the
\* threshold the worker returns the error, statistics and local counter are lost; else it
\* sleeps and retries, or skips the operation
ThresholdReached == errors + 1 >= job.max_errors

\* Mutant: the permit of a skipped operation is forgotten
FailsKeepsPermit(w) ==
    LET last == at[w].attempt = job.attempts IN
    /\ wpc[w] = "io"
    /\ store' \in {store, Effect(at[w].op, at[w].object)}
    /\ errors' = errors + 1
    /\ wpc' = [wpc EXCEPT ![w] = IF ThresholdReached THEN "failed" ELSE IF last THEN "loop" ELSE "asleep"]
    /\ at' = [at EXCEPT ![w] = IF ThresholdReached \/ last THEN Idle ELSE [at[w] EXCEPT !.attempt = @ + 1]]
    /\ UNCHANGED <<job, clock, lists, made, tally, local, permits, issued, started, statVars,
                   callerVars, logVars>>

Fails(w) ==
    LET k == at[w].op
        last == at[w].attempt = job.attempts IN
    /\ wpc[w] = "io"
    /\ store' \in {store, Effect(k, at[w].object)}
    /\ errors' = errors + 1
    /\ wpc' = [wpc EXCEPT ![w] = IF ThresholdReached THEN "failed" ELSE IF last THEN "loop" ELSE "asleep"]
    /\ permits' = IF ThresholdReached \/ last THEN Release(k) ELSE permits
    /\ at' = [at EXCEPT ![w] = IF ThresholdReached \/ last THEN Idle ELSE [at[w] EXCEPT !.attempt = @ + 1]]
    /\ UNCHANGED <<job, clock, lists, made, tally, local, issued, started, statVars, callerVars, logVars>>

Retry(w) ==
    /\ wpc[w] = "asleep"
    /\ wpc' = [wpc EXCEPT ![w] = "io"]
    /\ UNCHANGED <<job, clock, poolVars, at, tally, local, permits, issued, started, errors,
                   statVars, callerVars, logVars>>

-----------------------------------------------------------------------------
\* ---- the caller

Awaited(w) == joined + 1 = w

\* Workers are joined in the order of their creation; an error ends the loop and leaves the
\* workers after it running
Join(w) ==
    /\ result = "running" /\ Awaited(w)
    /\ wpc[w] = "exited"
    /\ merged' = Plus(merged, tally[w])
    /\ joined' = w
    /\ UNCHANGED <<job, clock, poolVars, workerVars, statVars, result, logVars>>

\* Mutant: the error of a worker is logged and the next one joined
JoinFailedGoesOn(w) ==
    /\ result = "running" /\ Awaited(w)
    /\ wpc[w] = "failed"
    /\ joined' = w
    /\ UNCHANGED <<job, clock, poolVars, workerVars, statVars, merged, result, logVars>>

JoinFailed(w) ==
    /\ result = "running" /\ Awaited(w)
    /\ wpc[w] = "failed"
    /\ result' = "err"
    /\ UNCHANGED <<job, clock, poolVars, workerVars, statVars, joined, merged, logVars>>

\* The drain window is over: the worker waited for is aborted
DrainTimeout(w) ==
    /\ result = "running" /\ Awaited(w)
    /\ wpc[w] \notin {"exited", "failed"}
    /\ clock >= Duration + Drain
    /\ result' = "err"
    /\ wpc' = [wpc EXCEPT ![w] = "aborted"]
    /\ permits' = IF wpc[w] \in {"io", "asleep"} THEN Release(at[w].op) ELSE permits
    /\ UNCHANGED <<job, clock, poolVars, at, tally, local, issued, started, errors,
                   statVars, joined, merged, logVars>>

Finish ==
    /\ result = "running" /\ joined = Concurrency
    /\ result' = "ok"
    /\ UNCHANGED <<job, clock, poolVars, workerVars, statVars, joined, merged, logVars>>

-----------------------------------------------------------------------------
\* ---- performance log of a standalone run

\* The thread samples the live counters and writes what was added since the last sample
Sample ==
    /\ lpc = "asleep" /\ prev # live
    /\ logged' = logged + Total(Minus(live, prev))
    /\ prev' = live
    /\ lpc' = "sampled"
    /\ UNCHANGED <<job, clock, poolVars, workerVars, statVars, callerVars>>

\* It looks for the stop signal, which a successful run sends, only after a sample
CheckStop ==
    /\ lpc = "sampled"
    /\ lpc' = IF result = "ok" THEN "gone" ELSE "asleep"
    /\ UNCHANGED <<job, clock, poolVars, workerVars, statVars, callerVars, prev, logged>>

\* An interval in which nothing was done
SampleNothing ==
    /\ lpc = "asleep" /\ prev = live /\ result = "ok"
    /\ lpc' = "gone"
    /\ UNCHANGED <<job, clock, poolVars, workerVars, statVars, callerVars, prev, logged>>

-----------------------------------------------------------------------------
Tick ==
    /\ clock <= Duration + Drain \/ \E w \in Workers : wpc[w] = "paced" /\ clock < at[w].due
    /\ clock' = clock + 1
    /\ UNCHANGED <<job, poolVars, workerVars, statVars, callerVars, logVars>>

Operates(w) ==
    Get(w) \/ Put(w) \/ List(w) \/ Stat(w) \/ Delete(w) \/ Mkdir(w) \/ Rmdir(w) \/ Fails(w)
Collects(w) == Join(w) \/ JoinFailed(w) \/ DrainTimeout(w)

EngineNext ==
    \/ Resolve \/ ResolveFails \/ Finish
    \/ Sample \/ CheckStop \/ SampleNothing
    \/ Tick
    \/ \E w \in Workers :
          Begin(w) \/ Exit(w) \/ Acquire(w) \/ AcquireUnsupported(w) \/ Operates(w) \/ Retry(w)
          \/ Collects(w)

Ended(w) == wpc[w] \in {"none", "exited", "failed", "aborted"}
Timed(w) == at[w].op \notin {"mkdir", "rmdir"}

\* Tasks are scheduled and timers expire.  The answer to an operation comes because of the
\* per-operation timeout, which directory operations do not have.
EngineFairness ==
    /\ WF_engineVars(Tick) /\ WF_engineVars(Resolve) /\ WF_engineVars(Finish)
    /\ \A w \in Workers :
          /\ WF_engineVars(Collects(w))
          /\ WF_engineVars(Begin(w) \/ Exit(w) \/ Acquire(w) \/ AcquireUnsupported(w) \/ Retry(w))
          /\ WF_engineVars(Timed(w) /\ Operates(w))

EngineSpec == EngineInit /\ [][EngineNext]_engineVars /\ EngineFairness

-----------------------------------------------------------------------------
\* ---- properties

\* Every variable keeps its type, permits stay within the configured limits, and no
\* operation is attempted more often than configured (ErrorHandlingConfig, op_semaphores).
EngineTypeOK ==
    LET Count == [get : Nat, put : Nat, meta : Nat] IN
    /\ job \in Jobs /\ clock \in Nat
    /\ lists.get \cup lists.stat \cup lists.delete \subseteq job.store \cup made
    /\ wpc \in [Workers -> {"none", "loop", "paced", "io", "asleep", "exited", "failed", "aborted"}]
    /\ \A w \in Workers : /\ at[w].op \in job.ops \cup {"none"}
                          /\ at[w].attempt \in 0..job.attempts /\ at[w].due \in Nat
                          /\ local[w] \in 0..(FlushInterval - 1)
    /\ tally \in [Workers -> Count]
    /\ DOMAIN permits = DOMAIN job.limit /\ \A k \in DOMAIN permits : permits[k] \in 0..job.limit[k]
    /\ {issued, started, errors, progress, logged} \subseteq Nat
    /\ {live, merged, prev} \subseteq Count
    /\ joined \in 0..Concurrency /\ result \in {"resolving", "running", "ok", "err"}
    /\ lpc \in {"asleep", "sampled", "gone"}

\* A run that returns Ok has three records of its operations, kept by different code: the
\* workers' statistics it merges into the summary, the live statistics of the controller,
\* and the progress counter the workers flush in batches.  They agree; and at no time does
\* the performance log hold more operations than were counted.
StatsAgree ==
    /\ result = "ok" => merged = live /\ progress = Total(live)
    /\ logged <= Total(live)

\* A run returns Ok only when every worker has left by itself and the error threshold was
\* not reached: no worker that gave up, hangs or is still busy is passed over by the join.
OkMeansAllDone ==
    result = "ok" => (\A w \in Workers : wpc[w] = "exited") /\ errors < job.max_errors

\* The lists that GET, STAT and DELETE choose from suit what they do: with the prepared
\* patterns in a mixed workload, DELETE never takes away an object that a GET or STAT is
\* about to read, retries included; with dynamic_put_pool and the prefix for a pattern, GET
\* can choose every object this run has written.
PoolsSound ==
    /\ SeparatePools(job) /\ ~job.tree /\ job.get = "prepared" /\ job.delete = "prepared" =>
           \A w \in Workers : wpc[w] \in {"io", "asleep"} /\ at[w].op \in {"get", "stat"} =>
               at[w].object \in store
    /\ job.dynamic /\ ~job.tree /\ "get" \in job.ops /\ job.get = "prefix" => made \subseteq lists.get

\* The rate controller never lets more operations start than the target allows, however
\* the workers interleave at its shared counter.
RateCapped == job.target > 0 => started <= clock * job.target + 1

\* The run returns, since the drain window bounds the wait for workers stuck in the storage;
\* and every worker ends, the ones abandoned by a run that returned early included: no
\* permit is lost with a worker that skips, fails or is aborted, so nobody waits for one for
\* ever.  (MKDIR and RMDIR have no timeout: a worker may stay in one.)
EngineEnds ==
    /\ <>(result \in {"ok", "err"})
    /\ (job.ops \cap {"mkdir", "rmdir"} = {}) => <>[](\A w \in Workers : Ended(w))
=============================================================================
