---------------------------- MODULE EngineProofs ----------------------------
(***************************************************************************)
(* Theorems about Engine, for every number of workers, every configuration *)
(* and every duration: a run that returns Ok has waited for every worker,  *)
(* its three counts of operations agree, the rate controller keeps its     *)
(* target, and the pools of a mixed workload stay apart.                   *)
(***************************************************************************)
EXTENDS Engine, FiniteSetTheorems, TLAPS

States == {"none", "loop", "paced", "io", "asleep", "exited", "failed", "aborted"}
Names == (Pools \X Nat) \cup {None}
Counts == [get : Nat, put : Nat, meta : Nat]
AtWork == [op : Kinds \cup {"none"}, object : Names, attempt : Nat, due : Nat]

(***************************************************************************)
(* The inductive invariant                                                 *)
(***************************************************************************)

\* The variables the properties are about have their types; every name is a name of a pool.
EngineTypes ==
    /\ job \in Jobs /\ clock \in Nat
    /\ wpc \in [Workers -> States] /\ at \in [Workers -> AtWork]
    /\ IsFiniteSet(store \cup made) /\ store \cup made \subseteq Names
    /\ lists \in [get : SUBSET Names, stat : SUBSET Names, delete : SUBSET Names]
    /\ tally \in [Workers -> Counts] /\ local \in [Workers -> Nat]
    /\ issued \in Nat /\ started \in Nat /\ errors \in Nat
    /\ live \in Counts /\ progress \in Nat /\ merged \in Counts
    /\ joined \in 0..Concurrency /\ result \in {"resolving", "running", "ok", "err"}
    /\ prev \in Counts /\ logged \in Nat

\* The caller has joined the workers up to joined, which had left; an exceeded threshold
\* leaves a worker that failed and cannot be joined.
Joining ==
    /\ result = "resolving" => joined = 0 /\ \A w \in Workers : wpc[w] = "none"
    /\ \A w \in 1..joined : wpc[w] = "exited"
    /\ result = "ok" => joined = Concurrency
    /\ errors >= job.max_errors => \E w \in Workers : wpc[w] = "failed"

\* A worker without an operation holds nothing; one whose operation was admitted has made
\* an attempt.
AtOperations ==
    \A w \in Workers :
        /\ wpc[w] \in {"none", "loop"} => at[w] = Idle
        /\ wpc[w] = "paced" => at[w].op # "none" /\ at[w].attempt = 0
        /\ wpc[w] \in {"io", "asleep"} => at[w].attempt >= 1 /\ ~Unsupported(at[w].op)

\* The conditions under which the pools are separate, and the objects reads choose from
Apart == SeparatePools(job) /\ ~job.tree /\ job.get = "prepared" /\ job.delete = "prepared"
ReadOnly == {o \in job.store : o[1] = "prepared"}

\* With separate pools nothing is ever removed from the read-only one, which all reads
\* under way choose from.
Separated ==
    Apart => /\ ReadOnly \subseteq store
             /\ lists.get \cup lists.stat \subseteq ReadOnly
             /\ \A o \in lists.delete : o[1] = "deletable"
             /\ \A w \in Workers : wpc[w] \in {"io", "asleep"} =>
                    /\ at[w].op \in {"get", "stat"} => at[w].object \in ReadOnly
                    /\ at[w].op = "delete" => at[w].object[1] = "deletable"

\* A growing pool has everything that was written.
Growing ==
    /\ result = "resolving" => made = {}
    /\ job.dynamic /\ ~job.tree /\ "get" \in job.ops /\ job.get = "prefix" => made \subseteq lists.get

\* The workers that were given a time by the rate controller and have not passed it; one
\* that failed or was aborted there keeps it for ever.
Holders == {w \in Workers : at[w].op # "none" /\ at[w].attempt = 0}

\* Every operation issued has started or is held, and one whose time lies ahead is held.
Paced ==
    job.target > 0 =>
        /\ started + Cardinality(Holders) <= issued
        /\ \A n \in Nat : clock < n /\ n < issued =>
               \E w \in Holders : at[w].due = n * InterArrival

\* The operations that count, one by one: a worker and a number up to its count.  The size
\* of this set is the sum of the counts.
Grid(S, count) == {p \in S \X Nat : 1 <= p[2] /\ p[2] <= count[p[1]]}
Of(class) == [w \in Workers |-> tally[w][class]]
Done(class) == Grid(Workers, Of(class))
Merged(class) == Grid(1..joined, Of(class))
Unflushed == Grid(Workers, local)

\* The live statistics are the sum of the workers', the merged ones that of the workers
\* joined; what is missing from the progress counter waits with its worker; and the log
\* has what the last sample had.
Summed ==
    /\ \A c \in Classes : /\ IsFiniteSet(Done(c)) /\ live[c] = Cardinality(Done(c))
                          /\ IsFiniteSet(Merged(c)) /\ merged[c] = Cardinality(Merged(c))
    /\ IsFiniteSet(Unflushed) /\ progress + Cardinality(Unflushed) = Total(live)
    /\ \A w \in Workers : wpc[w] = "exited" => local[w] = 0
    /\ \A c \in Classes : prev[c] <= live[c]
    /\ logged = Total(prev)

EngineInv == EngineTypes /\ Joining /\ AtOperations /\ Separated /\ Growing /\ Paced /\ Summed

(***************************************************************************)
(* Constants                                                               *)
(***************************************************************************)

LEMMA WorkerFacts ==
    /\ Concurrency \in Nat /\ Concurrency >= 1 /\ Workers = 1..Concurrency
    /\ IsFiniteSet(Workers)
<1>1. Concurrency \in Nat /\ Concurrency >= 1
  BY EngineAssumption
<1>2. 1 \in Int /\ Concurrency \in Int
  BY <1>1
<1>3. IsFiniteSet(1..Concurrency)
  BY <1>2, FS_Interval
<1> QED
  BY <1>1, <1>3 DEF Workers

LEMMA JobFacts ==
    ASSUME job \in Jobs
    PROVE  /\ job.ops \subseteq Kinds /\ job.target \in Nat
           /\ job.attempts \in Nat /\ job.attempts >= 1 /\ job.max_errors \in Nat /\ job.max_errors >= 1
           /\ IsFiniteSet(job.store) /\ job.store \subseteq Pools \X Nat
           /\ InterArrival \in Nat /\ (job.target > 0 => InterArrival >= 1)
<1>1. JobOK(job)
  BY EngineAssumption
<1>2. job.target > 0 => Concurrency \div job.target \in Nat /\ Concurrency \div job.target >= 1
  <2> SUFFICES ASSUME job.target > 0
               PROVE  Concurrency \div job.target \in Nat /\ Concurrency \div job.target >= 1
    OBVIOUS
  <2>1. job.target \in Nat /\ Concurrency \in Nat /\ Concurrency >= 1 /\ Concurrency % job.target = 0
    BY <1>1, WorkerFacts DEF JobOK
  <2> DEFINE q == Concurrency \div job.target
  <2>2. q \in Int /\ Concurrency = (job.target * q) + (Concurrency % job.target)
    BY <2>1
  <2> HIDE DEF q
  <2>3. Concurrency = job.target * q
    BY <2>1, <2>2
  <2>4. ~(q <= 0)
    <3> SUFFICES ASSUME q <= 0 PROVE FALSE
      OBVIOUS
    <3>1. \A t \in Nat, x \in Int : x <= 0 => t * x <= 0
      OBVIOUS
    <3>2. job.target * q <= 0
      BY <2>1, <2>2, <3>1
    <3> QED
      BY <2>1, <2>3, <3>2
  <2> USE DEF q
  <2> QED
    BY <2>2, <2>4
<1> QED
  BY <1>1, <1>2 DEF JobOK, InterArrival

\* The operations' names, and those of directories, are no object's.
LEMMA ObjectNames ==
    ASSUME EngineTypes, NEW k \in Kinds, NEW o \in Objects(k)
    PROVE  o \in Names
<1>1. job.store \subseteq Names
  BY JobFacts DEF EngineTypes, Names
<1>2. lists.get \subseteq Names /\ lists.stat \subseteq Names /\ lists.delete \subseteq Names
  BY DEF EngineTypes
<1>3. PutNames \subseteq Names
  <2>1. IsFiniteSet({x \in store \cup made : x[1] = "new"})
    BY FS_Subset DEF EngineTypes
  <2>2. 1 + Cardinality({x \in store \cup made : x[1] = "new"}) \in Nat
    BY <2>1, FS_CardinalityType
  <2>3. <<"new", 1 + Cardinality({x \in store \cup made : x[1] = "new"})>> \in Names
    BY <2>2 DEF Names, Pools
  <2> QED
    BY <1>1, <2>3 DEF PutNames
<1>4. CASE k = "put"
  BY <1>3, <1>4 DEF Objects
<1>5. CASE k \in {"get", "stat", "delete"}
  BY <1>1, <1>2, <1>5 DEF Objects, GetObjects, StatObjects, DeleteObjects
<1>6. CASE k \in {"list", "mkdir", "rmdir"}
  BY <1>6 DEF Objects, Names
<1> QED
  BY <1>4, <1>5, <1>6 DEF Kinds, Metadata

(***************************************************************************)
(* Types                                                                   *)
(***************************************************************************)

\* What a success leaves alone and what it changes.
LEMMA RecordedFacts ==
    ASSUME EngineTypes, NEW w \in Workers, NEW class \in Classes, Recorded(w, class)
    PROVE  /\ tally' \in [Workers -> Counts] /\ live' \in Counts
           /\ local' \in [Workers -> Nat] /\ progress' \in Nat
           /\ wpc' \in [Workers -> States] /\ at' \in [Workers -> AtWork]
<1>1. tally[w][class] \in Nat /\ live[class] \in Nat
  BY DEF EngineTypes, Counts, Classes
<1>2. [tally[w] EXCEPT ![class] = @ + 1] \in Counts /\ [live EXCEPT ![class] = @ + 1] \in Counts
  BY <1>1 DEF EngineTypes, Counts, Classes
<1>3. tally' \in [Workers -> Counts] /\ live' \in Counts
  BY <1>2 DEF Recorded, EngineTypes
<1>4. local' \in [Workers -> Nat] /\ progress' \in Nat
  BY DEF Recorded, EngineTypes
<1>5. Idle \in AtWork
  BY DEF Idle, AtWork, Names
<1>6. wpc' \in [Workers -> States] /\ at' \in [Workers -> AtWork]
  BY <1>5 DEF Recorded, EngineTypes, States
<1> QED
  BY <1>3, <1>4, <1>6

\* The name of a successful operation's class
LEMMA SuccessIsRecorded ==
    ASSUME NEW w, Get(w) \/ Put(w) \/ List(w) \/ Stat(w) \/ Delete(w) \/ Mkdir(w) \/ Rmdir(w)
    PROVE  (\E class \in Classes : Recorded(w, class)) /\ wpc[w] = "io" /\ at[w].op \in Kinds
BY DEF Get, Put, List, Stat, Delete, Mkdir, Rmdir, Performs, Classes, Kinds, Metadata

\* What the steps do to the pools: nothing, an object more or less, or fewer.
LEMMA PoolTypes ==
    ASSUME EngineTypes, NEW w \in Workers,
           Get(w) \/ Put(w) \/ List(w) \/ Stat(w) \/ Delete(w) \/ Mkdir(w) \/ Rmdir(w) \/ Fails(w)
    PROVE  /\ IsFiniteSet(store' \cup made') /\ store' \cup made' \subseteq Names
           /\ lists' \in [get : SUBSET Names, stat : SUBSET Names, delete : SUBSET Names]
<1> DEFINE o == at[w].object
<1>1. o \in Names
  BY DEF EngineTypes, AtWork
<1>2. store' \cup made' \subseteq store \cup made \cup {o}
  BY DEF Get, Put, List, Stat, Delete, Mkdir, Rmdir, Fails, Effect, poolVars
<1>3. IsFiniteSet(store \cup made \cup {o}) /\ store \cup made \cup {o} \subseteq Names
  BY <1>1, FS_AddElement DEF EngineTypes
<1>4. IsFiniteSet(store' \cup made') /\ store' \cup made' \subseteq Names
  BY <1>2, <1>3, FS_Subset
<1>5. lists' = lists \/ lists' = [lists EXCEPT !.get = @ \cup {o}]
  BY DEF Get, Put, List, Stat, Delete, Mkdir, Rmdir, Fails, poolVars
<1>6. lists' \in [get : SUBSET Names, stat : SUBSET Names, delete : SUBSET Names]
  BY <1>1, <1>5 DEF EngineTypes
<1> QED
  BY <1>4, <1>6

LEMMA InitTypes == EngineInit => EngineTypes
<1> SUFFICES ASSUME EngineInit PROVE EngineTypes
  OBVIOUS
<1>1. Idle \in AtWork /\ Zero \in Counts
  BY DEF Idle, AtWork, Names, Zero, Counts
<1>2. job \in Jobs /\ IsFiniteSet(job.store) /\ job.store \subseteq Names
  BY JobFacts DEF EngineInit, Names
<1>3. store \cup made = job.store
  BY DEF EngineInit
<1> QED
  BY <1>1, <1>2, <1>3, WorkerFacts DEF EngineInit, EngineTypes, States

LEMMA TypesStep ==
    ASSUME EngineTypes, [EngineNext]_engineVars
    PROVE  EngineTypes'
<1> USE DEF poolVars, workerVars, statVars, callerVars, logVars
<1>0. /\ Idle \in AtWork /\ InterArrival \in Nat /\ job.ops \subseteq Kinds /\ job.store \subseteq Names
      /\ Concurrency \in Nat
  BY JobFacts, WorkerFacts DEF EngineTypes, Idle, AtWork, Names
<1>1. CASE Resolve
  <2>1. lists' \in [get : SUBSET Names, stat : SUBSET Names, delete : SUBSET Names]
    BY <1>0, <1>1 DEF Resolve, Resolved
  <2>2. wpc' \in [Workers -> States] /\ result' \in {"running", "err"}
    BY <1>1 DEF Resolve, EngineTypes, States
  <2> QED
    BY <1>1, <2>1, <2>2 DEF Resolve, EngineTypes
<1>2. CASE ResolveFails \/ Finish \/ CheckStop \/ SampleNothing
  BY <1>2 DEF ResolveFails, Finish, CheckStop, SampleNothing, EngineTypes
<1>3. CASE Sample
  <2>1. Total(Minus(live, prev)) \in Nat
    BY DEF EngineTypes, Total, Minus, Counts, Classes
  <2> QED
    BY <1>3, <2>1 DEF Sample, EngineTypes
<1>4. CASE Tick
  BY <1>4 DEF Tick, EngineTypes
<1>5. ASSUME NEW w \in Workers, Begin(w) PROVE EngineTypes'
  <2>1. PICK k \in job.ops :
          at' = [at EXCEPT ![w] = [op |-> k, object |-> None, attempt |-> 0,
                                   due |-> issued * InterArrival]]
    BY <1>5 DEF Begin
  <2>2. issued * InterArrival \in Nat
    BY <1>0 DEF EngineTypes
  <2>3. [op |-> k, object |-> None, attempt |-> 0, due |-> issued * InterArrival] \in AtWork
    BY <1>0, <2>2 DEF AtWork, Names
  <2>4. at' \in [Workers -> AtWork] /\ wpc' \in [Workers -> States] /\ issued' \in Nat
    BY <1>5, <2>1, <2>3 DEF Begin, EngineTypes, States
  <2> QED
    BY <1>5, <2>4 DEF Begin, EngineTypes
<1>6. ASSUME NEW w \in Workers, Exit(w) PROVE EngineTypes'
  <2>1. wpc' \in [Workers -> States] /\ local' \in [Workers -> Nat] /\ progress' \in Nat
    BY <1>6 DEF Exit, EngineTypes, States
  <2> QED
    BY <1>6, <2>1 DEF Exit, EngineTypes
<1>7. ASSUME NEW w \in Workers, Acquire(w) PROVE EngineTypes'
  <2>1. PICK o \in Objects(at[w].op) :
          at' = [at EXCEPT ![w] = [op |-> at[w].op, object |-> o, attempt |-> 1, due |-> at[w].due]]
    BY <1>7 DEF Acquire
  <2>2. at[w].op \in Kinds \cup {"none"} /\ at[w] \in AtWork
    BY DEF EngineTypes, AtWork
  <2>3. o \in Names
    <3>1. CASE at[w].op \in Kinds
      BY <2>1, <3>1, ObjectNames
    <3>2. CASE at[w].op = "none"
      BY <2>1, <3>2 DEF Objects, Names
    <3> QED
      BY <2>2, <3>1, <3>2
  <2>4. at' \in [Workers -> AtWork]
    BY <2>1, <2>2, <2>3 DEF EngineTypes, AtWork
  <2>5. wpc' \in [Workers -> States] /\ started' \in Nat
    BY <1>7 DEF Acquire, EngineTypes, States
  <2> QED
    BY <1>7, <2>4, <2>5 DEF Acquire, EngineTypes
<1>8. ASSUME NEW w \in Workers, AcquireUnsupported(w) \/ Retry(w) PROVE EngineTypes'
  <2>1. wpc' \in [Workers -> States]
    BY <1>8 DEF AcquireUnsupported, Retry, EngineTypes, States
  <2> QED
    BY <1>8, <2>1 DEF AcquireUnsupported, Retry, EngineTypes
<1>9. ASSUME NEW w \in Workers,
             Get(w) \/ Put(w) \/ List(w) \/ Stat(w) \/ Delete(w) \/ Mkdir(w) \/ Rmdir(w)
      PROVE  EngineTypes'
  <2>1. PICK class \in Classes : Recorded(w, class)
    BY <1>9, SuccessIsRecorded
  <2>2. UNCHANGED <<job, clock, issued, started, errors, callerVars, logVars>>
    BY <2>1 DEF Recorded
  <2>3. /\ tally' \in [Workers -> Counts] /\ live' \in Counts
        /\ local' \in [Workers -> Nat] /\ progress' \in Nat
        /\ wpc' \in [Workers -> States] /\ at' \in [Workers -> AtWork]
    BY <2>1, RecordedFacts
  <2>4. /\ IsFiniteSet(store' \cup made') /\ store' \cup made' \subseteq Names
        /\ lists' \in [get : SUBSET Names, stat : SUBSET Names, delete : SUBSET Names]
    BY <1>9, PoolTypes
  <2> QED
    BY <2>2, <2>3, <2>4 DEF EngineTypes
<1>10. ASSUME NEW w \in Workers, Fails(w) PROVE EngineTypes'
  <2>1. /\ IsFiniteSet(store' \cup made') /\ store' \cup made' \subseteq Names
        /\ lists' \in [get : SUBSET Names, stat : SUBSET Names, delete : SUBSET Names]
    BY <1>10, PoolTypes
  <2>2. [at[w] EXCEPT !.attempt = @ + 1] \in AtWork
    BY DEF EngineTypes, AtWork
  <2>3. at' \in [Workers -> AtWork]
    <3>1. CASE ThresholdReached \/ at[w].attempt = job.attempts
      BY <1>0, <1>10, <3>1 DEF Fails, EngineTypes
    <3>2. CASE ~(ThresholdReached \/ at[w].attempt = job.attempts)
      BY <1>10, <2>2, <3>2 DEF Fails, EngineTypes
    <3> QED
      BY <3>1, <3>2
  <2>4. wpc' \in [Workers -> States] /\ errors' \in Nat
    BY <1>10 DEF Fails, EngineTypes, States
  <2> QED
    BY <1>10, <2>1, <2>3, <2>4 DEF Fails, EngineTypes
<1>11. ASSUME NEW w \in Workers, Collects(w) PROVE EngineTypes'
  <2>1. CASE Join(w)
    <3>1. Plus(merged, tally[w]) \in Counts
      BY DEF EngineTypes, Plus, Counts
    <3> QED
      BY <2>1, <3>1, WorkerFacts DEF Join, EngineTypes
  <2>2. CASE JoinFailed(w)
    BY <2>2 DEF JoinFailed, EngineTypes
  <2>3. CASE DrainTimeout(w)
    <3>1. wpc' \in [Workers -> States]
      BY <2>3 DEF DrainTimeout, EngineTypes, States
    <3> QED
      BY <2>3, <3>1 DEF DrainTimeout, EngineTypes
  <2> QED
    BY <1>11, <2>1, <2>2, <2>3 DEF Collects
<1>12. CASE UNCHANGED engineVars
  BY <1>12 DEF engineVars, EngineTypes
<1> QED
  BY <1>1, <1>2, <1>3, <1>4, <1>5, <1>6, <1>7, <1>8, <1>9, <1>10, <1>11, <1>12
  DEF EngineNext, Operates

(***************************************************************************)
(* Joining, and what a worker holds                                        *)
(***************************************************************************)

Succeeds(w) == Get(w) \/ Put(w) \/ List(w) \/ Stat(w) \/ Delete(w) \/ Mkdir(w) \/ Rmdir(w)

\* A success brings a worker from its operation back to its loop.
LEMMA SuccessFacts ==
    ASSUME EngineTypes, NEW w \in Workers, Succeeds(w)
    PROVE  /\ wpc[w] = "io" /\ wpc' = [wpc EXCEPT ![w] = "loop"] /\ at' = [at EXCEPT ![w] = Idle]
           /\ UNCHANGED <<job, clock, issued, started, errors, joined, merged, result, prev, logged>>
<1>1. (\E class \in Classes : Recorded(w, class)) /\ wpc[w] = "io"
  BY SuccessIsRecorded DEF Succeeds
<1> QED
  BY <1>1 DEF Recorded, callerVars, logVars

\* A failed attempt ends the worker at the threshold, and only there.
LEMMA FailsFacts ==
    ASSUME EngineTypes, NEW w \in Workers, Fails(w)
    PROVE  /\ wpc[w] = "io" /\ errors' = errors + 1
           /\ \/ /\ ThresholdReached /\ wpc' = [wpc EXCEPT ![w] = "failed"]
                 /\ at' = [at EXCEPT ![w] = Idle]
              \/ /\ ~ThresholdReached /\ wpc' = [wpc EXCEPT ![w] = "loop"]
                 /\ at' = [at EXCEPT ![w] = Idle]
              \/ /\ ~ThresholdReached /\ wpc' = [wpc EXCEPT ![w] = "asleep"]
                 /\ at' = [at EXCEPT ![w] = [at[w] EXCEPT !.attempt = @ + 1]]
           /\ UNCHANGED <<job, clock, lists, made, tally, local, issued, started, live, progress,
                          joined, merged, result, prev, logged>>
<1>1. CASE ThresholdReached
  BY <1>1 DEF Fails, statVars, callerVars, logVars
<1>2. CASE ~ThresholdReached /\ at[w].attempt = job.attempts
  BY <1>2 DEF Fails, statVars, callerVars, logVars
<1>3. CASE ~ThresholdReached /\ at[w].attempt # job.attempts
  BY <1>3 DEF Fails, statVars, callerVars, logVars
<1> QED
  BY <1>1, <1>2, <1>3

\* Every step, by what it does to the workers' states.
LEMMA StepForms ==
    ASSUME [EngineNext]_engineVars
    PROVE  \/ Resolve
           \/ ResolveFails \/ Finish \/ Sample \/ CheckStop \/ SampleNothing \/ Tick
           \/ UNCHANGED engineVars
           \/ \E w \in Workers : \/ Begin(w) \/ Exit(w) \/ Acquire(w) \/ AcquireUnsupported(w)
                                 \/ Succeeds(w) \/ Fails(w) \/ Retry(w)
                                 \/ Join(w) \/ JoinFailed(w) \/ DrainTimeout(w)
BY DEF EngineNext, Operates, Collects, Succeeds

LEMMA JoiningStep ==
    ASSUME EngineTypes, Joining, AtOperations, [EngineNext]_engineVars
    PROVE  Joining'
<1> USE DEF poolVars, workerVars, statVars, callerVars, logVars
<1>0. /\ Concurrency \in Nat /\ Workers = 1..Concurrency /\ joined \in 0..Concurrency
      /\ joined \in Nat /\ \A w \in 1..joined : w \in Workers
  BY WorkerFacts DEF EngineTypes
<1>1. CASE Resolve \/ ResolveFails \/ Finish \/ Sample \/ CheckStop \/ SampleNothing \/ Tick
           \/ UNCHANGED engineVars
  <2>1. CASE Resolve
    <3>1. joined' = 0 /\ result' \in {"running", "err"} /\ errors' = errors /\ job' = job
      BY <2>1 DEF Joining, Resolve
    <3>2. ~(errors >= job.max_errors)
      BY <2>1 DEF Joining, Resolve
    <3>3. 1..joined' = {}
      BY <3>1
    <3> QED
      BY <3>1, <3>2, <3>3 DEF Joining
  <2>2. CASE ~Resolve
    BY <1>1, <2>2 DEF Joining, ResolveFails, Finish, Sample, CheckStop, SampleNothing, Tick, engineVars
  <2> QED
    BY <2>1, <2>2
<1>2. ASSUME NEW w \in Workers,
             Begin(w) \/ Exit(w) \/ Acquire(w) \/ AcquireUnsupported(w) \/ Succeeds(w) \/ Retry(w)
             \/ DrainTimeout(w)
      PROVE  Joining'
  <2>1. /\ UNCHANGED <<job, errors, joined>> /\ result' \in {result, "err"}
        /\ result # "resolving"
        /\ \E s \in States : wpc' = [wpc EXCEPT ![w] = s] /\ wpc[w] \notin {"exited", "failed"}
    BY <1>2, SuccessFacts
    DEF Joining, Begin, Exit, Acquire, AcquireUnsupported, Retry, DrainTimeout, States
  <2>2. \A v \in Workers : wpc[v] \in {"exited", "failed"} => wpc'[v] = wpc[v]
    BY <2>1 DEF EngineTypes
  <2> QED
    BY <1>0, <2>1, <2>2 DEF Joining
<1>3. ASSUME NEW w \in Workers, Fails(w) PROVE Joining'
  <2>1. /\ wpc[w] = "io" /\ UNCHANGED <<job, joined, result>> /\ errors' = errors + 1
        /\ \A v \in Workers \ {w} : wpc'[v] = wpc[v]
        /\ ThresholdReached => wpc'[w] = "failed"
    BY <1>3, FailsFacts DEF EngineTypes
  <2>2. (errors' >= job.max_errors => wpc'[w] = "failed") /\ result # "resolving"
    BY <2>1 DEF ThresholdReached, Joining
  <2> QED
    BY <1>0, <2>1, <2>2 DEF Joining
<1>4. ASSUME NEW w \in Workers, Join(w) PROVE Joining'
  BY <1>0, <1>4 DEF Join, Awaited, Joining
<1>5. ASSUME NEW w \in Workers, JoinFailed(w) PROVE Joining'
  BY <1>5 DEF JoinFailed, Joining
<1> QED
  BY <1>1, <1>2, <1>3, <1>4, <1>5, StepForms

LEMMA JobStays ==
    ASSUME [EngineNext]_engineVars
    PROVE  job' = job
BY DEF engineVars, EngineNext, Operates, Collects, Recorded, Resolve, ResolveFails, Finish, Sample,
       CheckStop, SampleNothing, Tick, Begin, Exit, Acquire, AcquireUnsupported, Get, Put, List,
       Stat, Delete, Mkdir, Rmdir, Fails, Retry, Join, JoinFailed, DrainTimeout

\* The steps that change neither a worker's state nor its operation.
Elsewhere == ResolveFails \/ Finish \/ Sample \/ CheckStop \/ SampleNothing \/ Tick
             \/ UNCHANGED engineVars \/ \E w \in Workers : Join(w) \/ JoinFailed(w)

LEMMA ElsewhereFacts ==
    ASSUME Elsewhere
    PROVE  UNCHANGED <<job, wpc, at, store, lists, made, tally, local, issued, started, live, progress>>
BY DEF Elsewhere, engineVars, poolVars, workerVars, statVars, ResolveFails, Finish, Sample, CheckStop,
       SampleNothing, Tick, Join, JoinFailed

\* A step of worker w that is neither an answer nor a failure, as a change of its state and
\* of its operation.
LEMMA WorkerForms ==
    ASSUME EngineTypes, NEW w \in Workers
    PROVE  /\ Begin(w) =>
                \E k \in job.ops : /\ wpc[w] = "loop" /\ wpc' = [wpc EXCEPT ![w] = "paced"]
                                   /\ at' = [at EXCEPT ![w] = [op |-> k, object |-> None, attempt |-> 0,
                                                               due |-> issued * InterArrival]]
           /\ Acquire(w) =>
                \E o \in Objects(at[w].op) :
                   /\ wpc[w] = "paced" /\ wpc' = [wpc EXCEPT ![w] = "io"] /\ ~Unsupported(at[w].op)
                   /\ at' = [at EXCEPT ![w] = [op |-> at[w].op, object |-> o, attempt |-> 1,
                                               due |-> at[w].due]]
           /\ Exit(w) => wpc[w] = "loop" /\ wpc' = [wpc EXCEPT ![w] = "exited"] /\ at' = at
           /\ AcquireUnsupported(w) => wpc[w] = "paced" /\ wpc' = [wpc EXCEPT ![w] = "failed"] /\ at' = at
           /\ Retry(w) => wpc[w] = "asleep" /\ wpc' = [wpc EXCEPT ![w] = "io"] /\ at' = at
           /\ DrainTimeout(w) => wpc' = [wpc EXCEPT ![w] = "aborted"] /\ at' = at
<1>1. ASSUME Acquire(w)
      PROVE \E o \in Objects(at[w].op) :
                   /\ wpc[w] = "paced" /\ wpc' = [wpc EXCEPT ![w] = "io"] /\ ~Unsupported(at[w].op)
                   /\ at' = [at EXCEPT ![w] = [op |-> at[w].op, object |-> o, attempt |-> 1,
                                               due |-> at[w].due]]
  <2>1. PICK o \in Objects(at[w].op) :
          at' = [at EXCEPT ![w] = [op |-> at[w].op, object |-> o, attempt |-> 1, due |-> at[w].due]]
    BY <1>1 DEF Acquire
  <2> QED
    BY <1>1, <2>1 DEF Acquire
<1>2. ASSUME Begin(w)
      PROVE \E k \in job.ops : /\ wpc[w] = "loop" /\ wpc' = [wpc EXCEPT ![w] = "paced"]
                               /\ at' = [at EXCEPT ![w] = [op |-> k, object |-> None, attempt |-> 0,
                                                           due |-> issued * InterArrival]]
  BY <1>2 DEF Begin
<1> QED
  BY <1>1, <1>2 DEF Exit, AcquireUnsupported, Retry, DrainTimeout

\* What AtOperations says of a worker in state s with operation a.
AtOne(s, a) ==
    /\ s \in {"none", "loop"} => a = Idle
    /\ s = "paced" => a.op # "none" /\ a.attempt = 0
    /\ s \in {"io", "asleep"} => a.attempt >= 1 /\ ~Unsupported(a.op)

LEMMA AtOneStep ==
    ASSUME EngineTypes, AtOperations, job' = job, NEW w \in Workers, NEW s, NEW a,
           wpc' = [wpc EXCEPT ![w] = s], at' = [at EXCEPT ![w] = a], AtOne(s, a)
    PROVE  AtOperations'
<1>1. \A v \in Workers \ {w} : wpc'[v] = wpc[v] /\ at'[v] = at[v]
  BY DEF EngineTypes
<1>2. wpc'[w] = s /\ at'[w] = a
  BY DEF EngineTypes
<1> QED
  BY <1>1, <1>2 DEF AtOperations, AtOne, Unsupported

LEMMA AtStep ==
    ASSUME EngineTypes, Joining, AtOperations, [EngineNext]_engineVars
    PROVE  AtOperations'
<1>0. job' = job /\ job.ops \subseteq Kinds /\ "none" \notin Kinds
  BY JobStays, JobFacts DEF EngineTypes, Kinds, Metadata
<1>1. CASE Resolve
  BY <1>0, <1>1 DEF Resolve, Joining, AtOperations, Unsupported
<1>2. CASE Elsewhere
  BY <1>2, ElsewhereFacts DEF AtOperations, Unsupported
<1>3. ASSUME NEW w \in Workers, Begin(w) PROVE AtOperations'
  <2>1. PICK k \in job.ops :
          /\ wpc' = [wpc EXCEPT ![w] = "paced"]
          /\ at' = [at EXCEPT ![w] = [op |-> k, object |-> None, attempt |-> 0,
                                      due |-> issued * InterArrival]]
    BY <1>3, WorkerForms
  <2>2. AtOne("paced", [op |-> k, object |-> None, attempt |-> 0, due |-> issued * InterArrival])
    BY <1>0 DEF AtOne
  <2> QED
    BY <1>0, <2>1, <2>2, AtOneStep
<1>4. ASSUME NEW w \in Workers, Acquire(w) PROVE AtOperations'
  <2>1. PICK o \in Objects(at[w].op) :
          /\ wpc' = [wpc EXCEPT ![w] = "io"] /\ ~Unsupported(at[w].op)
          /\ at' = [at EXCEPT ![w] = [op |-> at[w].op, object |-> o, attempt |-> 1, due |-> at[w].due]]
    BY <1>4, WorkerForms
  <2>2. AtOne("io", [op |-> at[w].op, object |-> o, attempt |-> 1, due |-> at[w].due])
    BY <2>1 DEF AtOne
  <2> QED
    BY <1>0, <2>1, <2>2, AtOneStep
<1>5. ASSUME NEW w \in Workers, Exit(w) \/ AcquireUnsupported(w) \/ Retry(w) \/ DrainTimeout(w)
      PROVE  AtOperations'
  <2>1. at' = at /\ \E s \in {"exited", "failed", "io", "aborted"} :
                        wpc' = [wpc EXCEPT ![w] = s] /\ (s = "io" => wpc[w] = "asleep")
    BY <1>5, WorkerForms
  <2> QED
    BY <1>0, <2>1 DEF AtOperations, EngineTypes, Unsupported
<1>6. ASSUME NEW w \in Workers, Succeeds(w) PROVE AtOperations'
  <2>1. AtOne("loop", Idle)
    BY DEF AtOne
  <2> QED
    BY <1>0, <1>6, <2>1, SuccessFacts, AtOneStep
<1>7. ASSUME NEW w \in Workers, Fails(w) PROVE AtOperations'
  <2>1. AtOne("loop", Idle) /\ AtOne("failed", Idle)
    BY DEF AtOne
  <2>2. AtOne("asleep", [at[w] EXCEPT !.attempt = @ + 1])
    <3>1. wpc[w] = "io" /\ at[w] \in AtWork
      BY <1>7, FailsFacts DEF EngineTypes
    <3> QED
      BY <3>1 DEF AtOne, AtOperations, AtWork
  <2> QED
    BY <1>0, <1>7, <2>1, <2>2, FailsFacts, AtOneStep
<1> QED
  BY <1>1, <1>2, <1>3, <1>4, <1>5, <1>6, <1>7, StepForms DEF Elsewhere

(***************************************************************************)
(* The pools                                                               *)
(***************************************************************************)

\* What Separated says of a worker in state s with operation a.
SepOne(s, a) ==
    s \in {"io", "asleep"} =>
        /\ a.op \in {"get", "stat"} => a.object \in ReadOnly
        /\ a.op = "delete" => a.object[1] = "deletable"

LEMMA SepOneStep ==
    ASSUME EngineTypes, Separated, Apart, job' = job, ReadOnly \subseteq store', lists' = lists,
           NEW w \in Workers, NEW s, NEW a,
           wpc' = [wpc EXCEPT ![w] = s], at' = [at EXCEPT ![w] = a], SepOne(s, a)
    PROVE  Separated'
<1>1. \A v \in Workers \ {w} : wpc'[v] = wpc[v] /\ at'[v] = at[v]
  BY DEF EngineTypes
<1>2. wpc'[w] = s /\ at'[w] = a
  BY DEF EngineTypes
<1>3. ReadOnly' = ReadOnly
  BY DEF ReadOnly
<1> QED
  BY <1>1, <1>2, <1>3 DEF Separated, SepOne

LEMMA SeparatedStep ==
    ASSUME EngineTypes, Joining, AtOperations, Separated, [EngineNext]_engineVars
    PROVE  Separated'
<1>0. job' = job /\ (Apart' <=> Apart) /\ ReadOnly' = ReadOnly
  <2>1. job' = job
    BY JobStays
  <2> QED
    BY <2>1 DEF Apart, ReadOnly, SeparatePools
<1> SUFFICES ASSUME Apart PROVE Separated'
  BY <1>0 DEF Separated
<1>a. /\ ReadOnly \subseteq store /\ lists.get \cup lists.stat \subseteq ReadOnly
      /\ \A o \in lists.delete : o[1] = "deletable"
      /\ \A w \in Workers : SepOne(wpc[w], at[w])
  BY DEF Separated, SepOne
<1>b. /\ ~job.tree /\ Rewritten(job, job.get, FALSE) = "prepared"
      /\ Rewritten(job, job.delete, TRUE) = "deletable"
  BY DEF Apart, Rewritten
<1>1. CASE Resolve
  <2>1. Resolved(job, FALSE) = ReadOnly /\ \A o \in Resolved(job, TRUE) : o[1] = "deletable"
    BY <1>b DEF Resolved, Matches, ReadOnly
  <2>2. lists'.get \subseteq ReadOnly /\ lists'.stat \subseteq ReadOnly
        /\ \A o \in lists'.delete : o[1] = "deletable"
    BY <1>1, <2>1 DEF Resolve
  <2>3. store' = store /\ \A w \in Workers : wpc'[w] \in {"none", "loop"}
    BY <1>1 DEF Resolve, Joining
  <2> QED
    BY <1>0, <1>a, <2>2, <2>3 DEF Separated
<1>2. CASE Elsewhere
  BY <1>0, <1>2, ElsewhereFacts DEF Separated
<1>3. ASSUME NEW w \in Workers, Begin(w) PROVE Separated'
  <2>1. PICK a : wpc' = [wpc EXCEPT ![w] = "paced"] /\ at' = [at EXCEPT ![w] = a]
    BY <1>3, WorkerForms
  <2>2. SepOne("paced", a) /\ store' = store /\ lists' = lists
    BY <1>3 DEF SepOne, Begin, poolVars
  <2> QED
    BY <1>0, <1>a, <2>1, <2>2, SepOneStep
<1>4. ASSUME NEW w \in Workers, Acquire(w) PROVE Separated'
  <2>1. PICK o \in Objects(at[w].op) :
          /\ wpc' = [wpc EXCEPT ![w] = "io"]
          /\ at' = [at EXCEPT ![w] = [op |-> at[w].op, object |-> o, attempt |-> 1, due |-> at[w].due]]
    BY <1>4, WorkerForms
  <2>2. /\ at[w].op = "get" => o \in lists.get
        /\ at[w].op = "stat" => o \in lists.stat
        /\ at[w].op = "delete" => o \in lists.delete
    BY <1>b, <2>1 DEF Objects, GetObjects, StatObjects, DeleteObjects
  <2>3. SepOne("io", [op |-> at[w].op, object |-> o, attempt |-> 1, due |-> at[w].due])
    BY <1>a, <2>2 DEF SepOne
  <2>4. store' = store /\ lists' = lists
    BY <1>4 DEF Acquire, poolVars
  <2> QED
    BY <1>0, <1>a, <2>1, <2>3, <2>4, SepOneStep
<1>5. ASSUME NEW w \in Workers, Exit(w) \/ AcquireUnsupported(w) \/ Retry(w) \/ DrainTimeout(w)
      PROVE  Separated'
  <2>1. at' = at /\ \E s \in {"exited", "failed", "io", "aborted"} :
                        wpc' = [wpc EXCEPT ![w] = s] /\ (s = "io" => wpc[w] = "asleep")
    BY <1>5, WorkerForms
  <2>2. store' = store /\ lists' = lists
    BY <1>5 DEF Exit, AcquireUnsupported, Retry, DrainTimeout, poolVars
  <2> QED
    BY <1>0, <2>1, <2>2 DEF Separated, EngineTypes
<1>6. ASSUME NEW w \in Workers, Succeeds(w) \/ Fails(w)
      PROVE  ReadOnly \subseteq store' /\ lists' = lists
  <2>1. wpc[w] = "io" /\ at[w].op # "rmdir"
    <3>1. wpc[w] = "io"
      BY <1>6, SuccessFacts, FailsFacts
    <3> QED
      BY <1>b, <3>1 DEF AtOperations, Unsupported
  <2>2. at[w].op = "delete" => at[w].object[1] = "deletable"
    BY <1>a, <2>1 DEF SepOne
  <2>3. ~Rmdir(w) /\ ~Joins("put")
    BY <1>b, <2>1 DEF Rmdir, Performs, Joins
  <2>4. lists' = lists /\ (store' = store \/ store' = Effect(at[w].op, at[w].object))
    BY <1>6, <2>3 DEF Succeeds, Get, Put, List, Stat, Delete, Mkdir, Fails, Performs, poolVars
  <2>5. ReadOnly \subseteq Effect(at[w].op, at[w].object)
    <3>1. \A o \in ReadOnly : o[1] = "prepared"
      BY DEF ReadOnly
    <3> QED
      BY <1>a, <2>2, <3>1 DEF Effect
  <2> QED
    BY <1>a, <2>4, <2>5
<1>7. ASSUME NEW w \in Workers, Succeeds(w) PROVE Separated'
  <2>1. SepOne("loop", Idle)
    BY DEF SepOne
  <2> QED
    BY <1>0, <1>6, <1>7, <2>1, SuccessFacts, SepOneStep
<1>8. ASSUME NEW w \in Workers, Fails(w) PROVE Separated'
  <2>1. SepOne("loop", Idle) /\ SepOne("failed", Idle)
    BY DEF SepOne
  <2>2. SepOne("asleep", [at[w] EXCEPT !.attempt = @ + 1])
    <3>1. wpc[w] = "io" /\ at[w] \in AtWork
      BY <1>8, FailsFacts DEF EngineTypes
    <3> QED
      BY <1>a, <3>1 DEF SepOne, AtWork
  <2> QED
    BY <1>0, <1>6, <1>8, <2>1, <2>2, FailsFacts, SepOneStep
<1> QED
  BY <1>1, <1>2, <1>3, <1>4, <1>5, <1>7, <1>8, StepForms DEF Elsewhere

LEMMA GrowingStep ==
    ASSUME EngineTypes, Joining, Growing, [EngineNext]_engineVars
    PROVE  Growing'
<1>0. job' = job
  BY JobStays
<1>1. CASE Resolve
  BY <1>0, <1>1 DEF Growing, Resolve
<1>2. CASE Elsewhere
  <2>1. UNCHANGED <<made, lists>>
    BY <1>2, ElsewhereFacts
  <2>2. result' = "resolving" => result = "resolving"
    BY <1>2 DEF Elsewhere, ResolveFails, Finish, Sample, CheckStop, SampleNothing, Tick, Join,
               JoinFailed, engineVars, callerVars
  <2> QED
    BY <1>0, <2>1, <2>2 DEF Growing
<1>3. ASSUME NEW w \in Workers, Begin(w) \/ Acquire(w) \/ Exit(w) \/ AcquireUnsupported(w) \/ Retry(w)
                                \/ DrainTimeout(w)
      PROVE  Growing'
  BY <1>0, <1>3 DEF Growing, Begin, Acquire, Exit, AcquireUnsupported, Retry, DrainTimeout, poolVars,
                    callerVars
<1>4. ASSUME NEW w \in Workers, Fails(w) PROVE Growing'
  BY <1>0, <1>4, FailsFacts DEF Growing
<1>5. ASSUME NEW w \in Workers, Succeeds(w) PROVE Growing'
  <2>1. result' = result /\ result # "resolving"
    BY <1>5, SuccessFacts DEF Joining
  <2>2. CASE Put(w)
    <3>1. made' = made \cup {at[w].object}
      BY <2>2 DEF Put
    <3>2. CASE Joins("put")
      <4>1. lists'.get = lists.get \cup {at[w].object}
        BY <2>2, <3>2 DEF Put, EngineTypes
      <4> QED
        BY <1>0, <2>1, <3>1, <4>1 DEF Growing
    <3>3. CASE ~Joins("put")
      <4>1. ~(job.dynamic /\ ~job.tree /\ "get" \in job.ops /\ job.get = "prefix")
        BY <3>3 DEF Joins, Rewritten
      <4> QED
        BY <1>0, <2>1, <4>1 DEF Growing
    <3> QED
      BY <3>2, <3>3
  <2>3. CASE ~Put(w)
    <3>1. UNCHANGED <<made, lists>>
      BY <1>5, <2>3 DEF Succeeds, Get, List, Stat, Delete, Mkdir, Rmdir, poolVars
    <3> QED
      BY <1>0, <2>1, <3>1 DEF Growing
  <2> QED
    BY <2>2, <2>3
<1> QED
  BY <1>1, <1>2, <1>3, <1>4, <1>5, StepForms DEF Elsewhere

(***************************************************************************)
(* The rate controller                                                     *)
(***************************************************************************)

LEMMA HoldersFinite == IsFiniteSet(Holders) /\ Cardinality(Holders) \in Nat
<1>1. Holders \in SUBSET Workers
  BY DEF Holders
<1> QED
  BY <1>1, WorkerFacts, FS_Subset, FS_CardinalityType

\* A step that leaves the holders and the counters alone.
LEMMA PacedSame ==
    ASSUME EngineTypes, Paced, job' = job, UNCHANGED <<started, issued>>, clock' \in Nat,
           clock <= clock', Holders' = Holders, \A w \in Holders : at'[w].due = at[w].due
    PROVE  Paced'
<1>1. InterArrival' = InterArrival
  BY DEF InterArrival
<1>2. \A n \in Nat : clock' < n => clock < n
  BY DEF EngineTypes
<1> QED
  BY <1>1, <1>2 DEF Paced

LEMMA PacedStep ==
    ASSUME EngineTypes, Joining, AtOperations, Paced, [EngineNext]_engineVars
    PROVE  Paced'
<1>0. /\ job' = job /\ job.ops \subseteq Kinds /\ "none" \notin Kinds
      /\ InterArrival \in Nat /\ InterArrival' = InterArrival
      /\ (job.target > 0 => InterArrival >= 1) /\ job.target \in Nat
  BY JobStays, JobFacts DEF EngineTypes, Kinds, Metadata, InterArrival
<1>a. /\ clock \in Nat /\ issued \in Nat /\ started \in Nat
      /\ at \in [Workers -> AtWork] /\ wpc \in [Workers -> States]
  BY DEF EngineTypes
<1>1. CASE Resolve
  <2>1. UNCHANGED <<at, clock, started, issued>>
    BY <1>1 DEF Resolve
  <2> QED
    BY <1>0, <1>a, <2>1, PacedSame DEF Holders
<1>2. CASE Elsewhere
  <2>1. UNCHANGED <<at, started, issued>> /\ clock' \in Nat /\ clock <= clock'
    BY <1>2, <1>a, ElsewhereFacts
    DEF Elsewhere, ResolveFails, Finish, Sample, CheckStop, SampleNothing, Tick, Join, JoinFailed,
        engineVars
  <2> QED
    BY <1>0, <2>1, PacedSame DEF Holders
<1>3. ASSUME NEW w \in Workers, Exit(w) \/ AcquireUnsupported(w) \/ Retry(w) \/ DrainTimeout(w)
      PROVE  Paced'
  <2>1. UNCHANGED <<at, clock, started, issued>>
    BY <1>3 DEF Exit, AcquireUnsupported, Retry, DrainTimeout
  <2> QED
    BY <1>0, <1>a, <2>1, PacedSame DEF Holders
<1>4. ASSUME NEW w \in Workers, Succeeds(w) \/ Fails(w) PROVE Paced'
  <2>1. /\ UNCHANGED <<clock, started, issued>> /\ wpc[w] = "io"
        /\ at' = [at EXCEPT ![w] = Idle] \/ at' = [at EXCEPT ![w] = [at[w] EXCEPT !.attempt = @ + 1]]
    BY <1>4, SuccessFacts, FailsFacts
  <2>2. at[w].attempt >= 1 /\ at[w].attempt \in Nat
    BY <1>a, <2>1 DEF AtOperations, AtWork
  <2>3. w \notin Holders
    BY <1>a, <2>2 DEF Holders
  <2>4. Idle.op = "none" /\ [at[w] EXCEPT !.attempt = @ + 1].attempt # 0
    BY <1>a, <2>2 DEF Idle, AtWork
  <2>5. Holders' = Holders /\ \A v \in Holders : at'[v] = at[v]
    BY <1>a, <2>1, <2>3, <2>4 DEF Holders
  <2> QED
    BY <1>0, <1>a, <2>1, <2>5, PacedSame
<1>5. ASSUME NEW w \in Workers, Begin(w) PROVE Paced'
  <2> SUFFICES ASSUME job.target > 0 PROVE Paced'
    BY <1>0 DEF Paced
  <2>1. PICK k \in job.ops :
          /\ wpc[w] = "loop"
          /\ at' = [at EXCEPT ![w] = [op |-> k, object |-> None, attempt |-> 0,
                                      due |-> issued * InterArrival]]
    BY <1>5, WorkerForms DEF EngineTypes
  <2>2. UNCHANGED <<clock, started>> /\ issued' = issued + 1
    BY <1>0, <1>5 DEF Begin
  <2>3. w \notin Holders
    BY <2>1 DEF AtOperations, Holders, Idle
  <2>4. /\ Holders' = Holders \cup {w} /\ at'[w].due = issued * InterArrival
        /\ \A v \in Holders : at'[v] = at[v]
    BY <1>0, <1>a, <2>1, <2>3 DEF Holders
  <2>5. Cardinality(Holders') = Cardinality(Holders) + 1
    BY <2>3, <2>4, HoldersFinite, FS_AddElement
  <2>6. started' + Cardinality(Holders') <= issued'
    BY <1>a, <2>2, <2>5, HoldersFinite DEF Paced
  <2>7. ASSUME NEW n \in Nat, clock' < n, n < issued'
        PROVE  \E v \in Holders' : at'[v].due = n * InterArrival
    <3>1. CASE n = issued
      BY <2>4, <3>1
    <3>2. CASE n # issued
      <4>1. clock < n /\ n < issued
        BY <1>a, <2>2, <2>7, <3>2
      <4>2. PICK v \in Holders : at[v].due = n * InterArrival
        BY <4>1 DEF Paced
      <4> QED
        BY <2>4, <4>2
    <3> QED
      BY <3>1, <3>2
  <2> QED
    BY <1>0, <2>6, <2>7 DEF Paced
<1>6. ASSUME NEW w \in Workers, Acquire(w) PROVE Paced'
  <2> SUFFICES ASSUME job.target > 0 PROVE Paced'
    BY <1>0 DEF Paced
  <2>1. PICK o \in Objects(at[w].op) :
          /\ wpc[w] = "paced"
          /\ at' = [at EXCEPT ![w] = [op |-> at[w].op, object |-> o, attempt |-> 1, due |-> at[w].due]]
    BY <1>6, WorkerForms DEF EngineTypes
  <2>2. UNCHANGED <<clock, issued>> /\ started' = started + 1 /\ clock >= at[w].due
    BY <1>6 DEF Acquire
  <2>3. w \in Holders
    BY <2>1 DEF AtOperations, Holders
  <2>4. Holders' = Holders \ {w} /\ \A v \in Holders \ {w} : at'[v] = at[v]
    BY <1>a, <2>1 DEF Holders
  <2>5. Cardinality(Holders') = Cardinality(Holders) - 1
    BY <2>3, <2>4, HoldersFinite, FS_RemoveElement
  <2>6. started' + Cardinality(Holders') <= issued'
    BY <1>a, <2>2, <2>5, HoldersFinite DEF Paced
  <2>7. ASSUME NEW n \in Nat, clock' < n, n < issued'
        PROVE  \E v \in Holders' : at'[v].due = n * InterArrival
    <3>1. PICK v \in Holders : at[v].due = n * InterArrival
      BY <2>2, <2>7 DEF Paced
    <3>2. n * InterArrival >= n
      <4>1. \A x, y \in Nat : y >= 1 => x * y >= x
        OBVIOUS
      <4> QED
        BY <1>0, <4>1
    <3>3. v # w
      <4>1. at[w].due \in Nat
        BY <1>a DEF AtWork
      <4> QED
        BY <1>0, <1>a, <2>2, <2>7, <3>1, <3>2, <4>1
    <3> QED
      BY <2>4, <3>1, <3>3
  <2> QED
    BY <1>0, <2>6, <2>7 DEF Paced
<1> QED
  BY <1>1, <1>2, <1>3, <1>4, <1>5, <1>6, StepForms DEF Elsewhere

\* Of the operations issued, those whose time lies ahead are held: at most one for every
\* unit of time, and one at the start, has passed.
LEMMA PacedCaps ==
    ASSUME EngineTypes, Paced
    PROVE  RateCapped
<1> SUFFICES ASSUME job.target > 0 PROVE started <= (clock * job.target) + 1
  BY DEF RateCapped
<1>0. /\ clock \in Nat /\ issued \in Nat /\ started \in Nat /\ job.target \in Nat
      /\ InterArrival \in Nat /\ InterArrival >= 1
  BY JobFacts DEF EngineTypes
<1>1. started + Cardinality(Holders) <= issued
  BY DEF Paced
<1>2. started <= clock + 1
  <2>1. CASE issued <= clock + 1
    BY <1>0, <1>1, <2>1, HoldersFinite
  <2>2. CASE issued > clock + 1
    <3> DEFINE Ahead == (clock + 1)..(issued - 1)
               h == [n \in Ahead |-> CHOOSE w \in Holders : at[w].due = n * InterArrival]
    <3>1. \A n \in Ahead : n \in Nat /\ h[n] \in Holders /\ at[h[n]].due = n * InterArrival
      <4>1. \A n \in Ahead : n \in Nat /\ clock < n /\ n < issued
        BY <1>0
      <4>2. \A n \in Ahead : \E w \in Holders : at[w].due = n * InterArrival
        BY <4>1 DEF Paced
      <4> QED
        BY <4>1, <4>2
    <3>2. \A m, n \in Nat : m * InterArrival = n * InterArrival => m = n
      BY <1>0
    <3>3. h \in [Ahead -> Holders]
      BY <3>1
    <3>4. \A m, n \in Ahead : h[m] = h[n] => m = n
      <4> HIDE DEF h, Ahead
      <4> QED
        BY <3>1, <3>2
    <3>5. h \in Injection(Ahead, Holders)
      <4> HIDE DEF h, Ahead
      <4> QED
        BY <3>3, <3>4 DEF Injection, IsInjective
    <3>6. Cardinality(Ahead) <= Cardinality(Holders)
      <4> HIDE DEF h, Ahead
      <4> QED
        BY <3>5, HoldersFinite, FS_Injection
    <3>7. clock + 1 \in Int /\ issued - 1 \in Int /\ ~(clock + 1 > issued - 1)
      BY <1>0, <2>2
    <3>8. Cardinality(Ahead) = (issued - 1) - (clock + 1) + 1
      BY <3>7, FS_Interval
    <3> HIDE DEF h, Ahead
    <3> QED
      BY <1>0, <1>1, <3>6, <3>8, HoldersFinite
  <2> QED
    BY <1>0, <2>1, <2>2
<1>3. clock <= clock * job.target
  <2>1. \A x, y \in Nat : y >= 1 => x * y >= x
    OBVIOUS
  <2> QED
    BY <1>0, <2>1
<1> QED
  BY <1>0, <1>2, <1>3

(***************************************************************************)
(* The counts                                                              *)
(***************************************************************************)

\* The row of one worker is as long as its count.
LEMMA GridRow ==
    ASSUME NEW w, NEW k \in Nat
    PROVE  IsFiniteSet({w} \X (1..k)) /\ Cardinality({w} \X (1..k)) = k
<1>1. IsFiniteSet({w}) /\ Cardinality({w}) = 1
  BY FS_Singleton
<1>2. 1 \in Int /\ k \in Int
  OBVIOUS
<1>3. IsFiniteSet(1..k) /\ Cardinality(1..k) = k
  BY <1>2, FS_Interval
<1>4. /\ IsFiniteSet({w} \X (1..k))
      /\ Cardinality({w} \X (1..k)) = Cardinality({w}) * Cardinality(1..k)
  BY <1>1, <1>3, FS_Product
<1> QED
  BY <1>1, <1>3, <1>4

\* One more for a worker of S is one more in all,
LEMMA GridMore ==
    ASSUME NEW S, NEW w \in S, NEW f \in [S -> Nat], NEW g \in [S -> Nat], g[w] = f[w] + 1,
           \A v \in S \ {w} : g[v] = f[v], IsFiniteSet(Grid(S, f))
    PROVE  IsFiniteSet(Grid(S, g)) /\ Cardinality(Grid(S, g)) = Cardinality(Grid(S, f)) + 1
<1>0. f[w] \in Nat /\ f[w] + 1 \in Nat
  OBVIOUS
<1>1. Grid(S, g) = Grid(S, f) \cup {<<w, f[w] + 1>>}
  <2>1. ASSUME NEW v \in S, NEW n \in Nat
        PROVE  (1 <= n /\ n <= g[v]) <=> (1 <= n /\ n <= f[v]) \/ (v = w /\ n = f[w] + 1)
    <3>1. CASE v = w
      BY <1>0, <3>1
    <3>2. CASE v # w
      BY <3>2
    <3> QED
      BY <3>1, <3>2
  <2> QED
    BY <1>0, <2>1 DEF Grid
<1>2. <<w, f[w] + 1>> \notin Grid(S, f)
  BY <1>0 DEF Grid
<1> QED
  BY <1>1, <1>2, FS_AddElement

\* a worker more is its count more,
LEMMA GridAdds ==
    ASSUME NEW S, NEW w, w \notin S, NEW f, \A v \in S \cup {w} : f[v] \in Nat, IsFiniteSet(Grid(S, f))
    PROVE  /\ IsFiniteSet(Grid(S \cup {w}, f))
           /\ Cardinality(Grid(S \cup {w}, f)) = Cardinality(Grid(S, f)) + f[w]
<1> DEFINE R == {w} \X (1..f[w])
<1>1. f[w] \in Nat
  OBVIOUS
<1>2. IsFiniteSet(R) /\ Cardinality(R) = f[w]
  BY <1>1, GridRow
<1>3. Grid(S \cup {w}, f) = Grid(S, f) \cup R
  BY <1>1 DEF Grid
<1>4. Grid(S, f) \cap R = {}
  BY DEF Grid
<1>5. Cardinality(Grid(S, f) \cap R) = 0
  BY <1>4, FS_EmptySet
<1>6. Cardinality(Grid(S, f)) \in Nat
  BY FS_CardinalityType
<1> HIDE DEF R
<1>7. /\ IsFiniteSet(Grid(S, f) \cup R)
      /\ Cardinality(Grid(S, f) \cup R) = Cardinality(Grid(S, f)) + Cardinality(R)
                                         - Cardinality(Grid(S, f) \cap R)
  BY <1>2, FS_Union
<1>8. Cardinality(Grid(S, f) \cup R) = Cardinality(Grid(S, f)) + f[w]
  BY <1>1, <1>2, <1>5, <1>6, <1>7
<1> QED
  BY <1>3, <1>7, <1>8

\* and a count that is taken away is as much less.
LEMMA GridCleared ==
    ASSUME NEW S, NEW w \in S, NEW f \in [S -> Nat], NEW g \in [S -> Nat], g[w] = 0,
           \A v \in S \ {w} : g[v] = f[v], IsFiniteSet(Grid(S, f))
    PROVE  /\ IsFiniteSet(Grid(S, g)) /\ Cardinality(Grid(S, g)) \in Nat
           /\ Cardinality(Grid(S, g)) + f[w] = Cardinality(Grid(S, f))
<1> DEFINE T == S \ {w}
<1>1. Grid(S, g) = Grid(T, f)
  <2>1. ASSUME NEW v \in S, NEW n \in Nat
        PROVE  (1 <= n /\ n <= g[v]) <=> v # w /\ 1 <= n /\ n <= f[v]
    <3>1. CASE v = w
      BY <3>1
    <3>2. CASE v # w
      BY <3>2
    <3> QED
      BY <3>1, <3>2
  <2> QED
    BY <2>1 DEF Grid
<1>2. Grid(T, f) \subseteq Grid(S, f)
  BY DEF Grid
<1>3. IsFiniteSet(Grid(T, f))
  BY <1>2, FS_Subset
<1>4. T \cup {w} = S /\ w \notin T /\ \A v \in T \cup {w} : f[v] \in Nat
  OBVIOUS
<1> HIDE DEF T
<1>5. Cardinality(Grid(T \cup {w}, f)) = Cardinality(Grid(T, f)) + f[w]
  BY <1>3, <1>4, GridAdds
<1>6. Cardinality(Grid(T, f)) \in Nat
  BY <1>3, FS_CardinalityType
<1> QED
  BY <1>1, <1>3, <1>4, <1>5, <1>6

\* Counts that agree have the same grid.
LEMMA GridSame ==
    ASSUME NEW S, NEW f, NEW g, \A v \in S : f[v] = g[v]
    PROVE  Grid(S, f) = Grid(S, g)
BY DEF Grid

\* The counts of a class
LEMMA OfType ==
    ASSUME EngineTypes, NEW c \in Classes
    PROVE  /\ Of(c) \in [Workers -> Nat] /\ \A w \in Workers : Of(c)[w] = tally[w][c]
           /\ live[c] \in Nat /\ merged[c] \in Nat /\ prev[c] \in Nat
BY DEF EngineTypes, Of, Counts, Classes

\* The steps that count nothing.
LEMMA SummedSame ==
    ASSUME EngineTypes, Summed,
           UNCHANGED <<tally, local, live, progress, merged, joined, prev, logged>>,
           \A w \in Workers : wpc'[w] = "exited" => wpc[w] = "exited"
    PROVE  Summed'
<1>1. \A c : Done(c)' = Done(c) /\ Merged(c)' = Merged(c)
  BY DEF Done, Merged, Of
<1>2. Unflushed' = Unflushed
  BY DEF Unflushed
<1> QED
  BY <1>1, <1>2 DEF Summed

\* A success adds one to the class of the operation, in the statistics of the worker and in
\* the live ones.
LEMMA RecordedCounts ==
    ASSUME EngineTypes, NEW w \in Workers, NEW class \in Classes, Recorded(w, class)
    PROVE  /\ \A c \in Classes : live'[c] = IF c = class THEN live[c] + 1 ELSE live[c]
           /\ \A c \in Classes : tally'[w][c] = IF c = class THEN tally[w][c] + 1 ELSE tally[w][c]
           /\ \A v \in Workers \ {w} : tally'[v] = tally[v]
           /\ Total(live') = Total(live) + 1
<1>1. live' = [live EXCEPT ![class] = live[class] + 1]
  BY DEF Recorded
<1>2. tally' = [tally EXCEPT ![w] = [tally[w] EXCEPT ![class] = tally[w][class] + 1]]
  BY DEF Recorded
<1>3. live \in Counts /\ tally \in [Workers -> Counts] /\ tally[w] \in Counts
  BY DEF EngineTypes
<1>4. \A c \in Classes : live'[c] = IF c = class THEN live[c] + 1 ELSE live[c]
  BY <1>1, <1>3 DEF Counts, Classes
<1>5. tally'[w] = [tally[w] EXCEPT ![class] = tally[w][class] + 1]
      /\ \A v \in Workers \ {w} : tally'[v] = tally[v]
  BY <1>2, <1>3
<1>6. \A c \in Classes : tally'[w][c] = IF c = class THEN tally[w][c] + 1 ELSE tally[w][c]
  BY <1>3, <1>5 DEF Counts, Classes
<1>7. live["get"] \in Nat /\ live["put"] \in Nat /\ live["meta"] \in Nat
  BY <1>3 DEF Counts
<1>8. Total(live') = Total(live) + 1
  BY <1>4, <1>7 DEF Total, Classes
<1> QED
  BY <1>4, <1>5, <1>6, <1>8

LEMMA SummedSuccess ==
    ASSUME EngineTypes, EngineTypes', Joining, Summed, NEW w \in Workers, Succeeds(w)
    PROVE  Summed'
<1>0. PICK class \in Classes : Recorded(w, class)
  BY SuccessIsRecorded DEF Succeeds
<1>a. /\ wpc[w] = "io" /\ wpc' = [wpc EXCEPT ![w] = "loop"] /\ UNCHANGED <<joined, merged, prev, logged>>
  BY SuccessFacts
<1>b. /\ \A c \in Classes : live'[c] = IF c = class THEN live[c] + 1 ELSE live[c]
      /\ \A c \in Classes : tally'[w][c] = IF c = class THEN tally[w][c] + 1 ELSE tally[w][c]
      /\ \A v \in Workers \ {w} : tally'[v] = tally[v]
      /\ Total(live') = Total(live) + 1
  BY <1>0, RecordedCounts
<1>c. joined \in Nat /\ joined <= Concurrency /\ Workers = 1..Concurrency /\ Concurrency \in Nat
      /\ w \notin 1..joined
  BY <1>a, WorkerFacts DEF EngineTypes, Joining
<1>1. ASSUME NEW c \in Classes
      PROVE  /\ IsFiniteSet(Done(c)') /\ live'[c] = Cardinality(Done(c)')
             /\ IsFiniteSet(Merged(c)') /\ merged'[c] = Cardinality(Merged(c)')
             /\ prev'[c] <= live'[c]
  <2>1. /\ Of(c) \in [Workers -> Nat] /\ \A v \in Workers : Of(c)[v] = tally[v][c]
        /\ live[c] \in Nat /\ prev[c] \in Nat
    BY OfType
  <2>2. Of(c)' \in [Workers -> Nat] /\ \A v \in Workers : Of(c)'[v] = tally'[v][c]
    BY DEF EngineTypes, Of, Counts, Classes
  <2>3. IsFiniteSet(Grid(Workers, Of(c))) /\ live[c] = Cardinality(Grid(Workers, Of(c)))
    BY DEF Summed, Done
  <2>4. IsFiniteSet(Grid(Workers, Of(c)')) /\ live'[c] = Cardinality(Grid(Workers, Of(c)'))
    <3>1. CASE c = class
      <4>1. Of(c)'[w] = Of(c)[w] + 1 /\ \A v \in Workers \ {w} : Of(c)'[v] = Of(c)[v]
        BY <1>b, <2>1, <2>2, <3>1
      <4>2. /\ IsFiniteSet(Grid(Workers, Of(c)'))
            /\ Cardinality(Grid(Workers, Of(c)')) = Cardinality(Grid(Workers, Of(c))) + 1
        BY <2>1, <2>2, <2>3, <4>1, GridMore
      <4> QED
        BY <1>b, <2>3, <3>1, <4>2
    <3>2. CASE c # class
      <4>1. \A v \in Workers : Of(c)'[v] = Of(c)[v]
        BY <1>b, <2>1, <2>2, <3>2
      <4>2. Grid(Workers, Of(c)') = Grid(Workers, Of(c))
        BY <4>1, GridSame
      <4> QED
        BY <1>b, <2>3, <3>2, <4>2
    <3> QED
      BY <3>1, <3>2
  <2>5. Grid(1..joined, Of(c)') = Grid(1..joined, Of(c))
    <3>0. \A v \in 1..joined : v \in Workers \ {w}
      BY <1>c
    <3>1. \A v \in 1..joined : Of(c)'[v] = Of(c)[v]
      BY <1>b, <2>1, <2>2, <3>0
    <3> QED
      BY <3>1, GridSame
  <2>6. IsFiniteSet(Merged(c)') /\ merged'[c] = Cardinality(Merged(c)')
    BY <1>a, <2>5 DEF Merged, Summed
  <2>7. prev'[c] <= live'[c]
    BY <1>a, <1>b, <2>1 DEF Summed
  <2> QED
    BY <2>4, <2>6, <2>7 DEF Done
<1>2. local \in [Workers -> Nat] /\ local' \in [Workers -> Nat] /\ progress \in Nat
      /\ IsFiniteSet(Grid(Workers, local)) /\ progress + Cardinality(Grid(Workers, local)) = Total(live)
      /\ Cardinality(Grid(Workers, local)) \in Nat
  BY FS_CardinalityType DEF EngineTypes, Summed, Unflushed
<1>3. IsFiniteSet(Grid(Workers, local')) /\ progress' + Cardinality(Grid(Workers, local')) = Total(live')
  <2>1. CASE Flushes(w)
    <3>1. local'[w] = 0 /\ progress' = progress + local[w] + 1 /\ \A v \in Workers \ {w} : local'[v] = local[v]
      BY <1>0, <1>2, <2>1 DEF Recorded
    <3>2. /\ IsFiniteSet(Grid(Workers, local')) /\ Cardinality(Grid(Workers, local')) \in Nat
          /\ Cardinality(Grid(Workers, local')) + local[w] = Cardinality(Grid(Workers, local))
      BY <1>2, <3>1, GridCleared
    <3> QED
      BY <1>2, <1>b, <3>1, <3>2
  <2>2. CASE ~Flushes(w)
    <3>1. local'[w] = local[w] + 1 /\ progress' = progress /\ \A v \in Workers \ {w} : local'[v] = local[v]
      BY <1>0, <1>2, <2>2 DEF Recorded
    <3>2. /\ IsFiniteSet(Grid(Workers, local'))
          /\ Cardinality(Grid(Workers, local')) = Cardinality(Grid(Workers, local)) + 1
      BY <1>2, <3>1, GridMore
    <3> QED
      BY <1>2, <1>b, <3>1, <3>2
  <2> QED
    BY <2>1, <2>2
<1>4. \A v \in Workers : wpc'[v] = "exited" => local'[v] = 0
  <2>1. \A v \in Workers \ {w} : local'[v] = local[v] /\ wpc'[v] = wpc[v]
    BY <1>0, <1>a, <1>2 DEF Recorded, EngineTypes
  <2>2. wpc'[w] = "loop"
    BY <1>a DEF EngineTypes
  <2> QED
    BY <2>1, <2>2 DEF Summed
<1>5. logged' = Total(prev')
  BY <1>a DEF Summed
<1> QED
  BY <1>1, <1>3, <1>4, <1>5 DEF Summed, Unflushed

LEMMA SummedExit ==
    ASSUME EngineTypes, EngineTypes', Summed, NEW w \in Workers, Exit(w)
    PROVE  Summed'
<1>1. /\ UNCHANGED <<tally, live, merged, joined, prev, logged>> /\ wpc' = [wpc EXCEPT ![w] = "exited"]
      /\ progress' = progress + local[w] /\ local' = [local EXCEPT ![w] = 0]
  BY DEF Exit, callerVars, logVars
<1>2. local \in [Workers -> Nat] /\ local' \in [Workers -> Nat] /\ progress \in Nat
      /\ IsFiniteSet(Grid(Workers, local)) /\ progress + Cardinality(Grid(Workers, local)) = Total(live)
  BY DEF EngineTypes, Summed, Unflushed
<1>3. local'[w] = 0 /\ \A v \in Workers \ {w} : local'[v] = local[v] /\ wpc'[v] = wpc[v]
  BY <1>1, <1>2 DEF EngineTypes
<1>4. /\ IsFiniteSet(Grid(Workers, local')) /\ Cardinality(Grid(Workers, local')) \in Nat
      /\ Cardinality(Grid(Workers, local')) + local[w] = Cardinality(Grid(Workers, local))
  BY <1>2, <1>3, GridCleared
<1>5. progress' + Cardinality(Grid(Workers, local')) = Total(live')
  BY <1>1, <1>2, <1>4
<1>6. \A c : Done(c)' = Done(c) /\ Merged(c)' = Merged(c)
  BY <1>1 DEF Done, Merged, Of
<1>7. \A v \in Workers : wpc'[v] = "exited" => local'[v] = 0
  BY <1>3 DEF Summed
<1> QED
  BY <1>1, <1>4, <1>5, <1>6, <1>7 DEF Summed, Unflushed

LEMMA SummedJoin ==
    ASSUME EngineTypes, Summed, NEW w \in Workers, Join(w)
    PROVE  Summed'
<1>1. /\ UNCHANGED <<tally, live, local, progress, prev, logged, wpc>> /\ joined + 1 = w /\ joined' = w
      /\ merged' = Plus(merged, tally[w])
  BY DEF Join, Awaited, workerVars, statVars, logVars
<1>2. joined \in Nat /\ joined <= Concurrency /\ Workers = 1..Concurrency /\ Concurrency \in Nat
  BY WorkerFacts DEF EngineTypes
<1>3. 1..joined' = (1..joined) \cup {w} /\ w \notin 1..joined /\ (1..joined) \cup {w} \subseteq Workers
  BY <1>1, <1>2
<1>4. \A c \in Classes : merged'[c] = merged[c] + tally[w][c]
  BY <1>1 DEF EngineTypes, Plus, Counts, Classes
<1>5. ASSUME NEW c \in Classes
      PROVE  IsFiniteSet(Merged(c)') /\ merged'[c] = Cardinality(Merged(c)')
  <2>1. Of(c) \in [Workers -> Nat] /\ Of(c)[w] = tally[w][c] /\ Of(c)' = Of(c)
    BY <1>1, OfType DEF Of
  <2>2. IsFiniteSet(Grid(1..joined, Of(c))) /\ merged[c] = Cardinality(Grid(1..joined, Of(c)))
    BY DEF Summed, Merged
  <2>3. \A v \in (1..joined) \cup {w} : Of(c)[v] \in Nat
    BY <1>3, <2>1
  <2>4. /\ IsFiniteSet(Grid((1..joined) \cup {w}, Of(c)))
        /\ Cardinality(Grid((1..joined) \cup {w}, Of(c))) = Cardinality(Grid(1..joined, Of(c))) + Of(c)[w]
    BY <1>3, <2>2, <2>3, GridAdds
  <2>5. Merged(c)' = Grid((1..joined) \cup {w}, Of(c))
    BY <1>3, <2>1 DEF Merged
  <2> QED
    BY <1>4, <2>1, <2>2, <2>4, <2>5
<1>6. \A c : Done(c)' = Done(c)
  BY <1>1 DEF Done, Of
<1>7. Unflushed' = Unflushed
  BY <1>1 DEF Unflushed
<1> QED
  BY <1>1, <1>5, <1>6, <1>7 DEF Summed

LEMMA SummedSample ==
    ASSUME EngineTypes, Summed, Sample
    PROVE  Summed'
<1>1. /\ UNCHANGED <<tally, live, local, progress, merged, joined, wpc>>
      /\ prev' = live /\ logged' = logged + Total(Minus(live, prev))
  BY DEF Sample, workerVars, statVars, callerVars
<1>2. \A c : Done(c)' = Done(c) /\ Merged(c)' = Merged(c)
  BY <1>1 DEF Done, Merged, Of
<1>3. Unflushed' = Unflushed
  BY <1>1 DEF Unflushed
<1>4. logged' = Total(prev')
  <2>1. \A c \in Classes : /\ prev[c] \in Nat /\ live[c] \in Nat /\ prev[c] <= live[c]
                           /\ Minus(live, prev)[c] = live[c] - prev[c]
    BY OfType DEF Summed, Minus
  <2> QED
    BY <1>1, <2>1 DEF Total, Classes, Summed
<1>5. \A c \in Classes : prev'[c] <= live'[c]
  BY <1>1, OfType
<1> QED
  BY <1>1, <1>2, <1>3, <1>4, <1>5 DEF Summed

LEMMA SummedStep ==
    ASSUME EngineTypes, EngineTypes', Joining, Summed, [EngineNext]_engineVars
    PROVE  Summed'
<1>1. CASE Resolve
  <2>1. UNCHANGED <<tally, local, live, progress, merged, joined, prev, logged>>
    BY <1>1 DEF Resolve, statVars, logVars
  <2>2. \A w \in Workers : wpc'[w] # "exited"
    BY <1>1 DEF Resolve, Joining
  <2> QED
    BY <2>1, <2>2, SummedSame
<1>2. CASE ResolveFails \/ Finish \/ CheckStop \/ SampleNothing \/ Tick \/ UNCHANGED engineVars
           \/ \E w \in Workers : JoinFailed(w)
  <2>1. UNCHANGED <<wpc, tally, local, live, progress, merged, joined, prev, logged>>
    BY <1>2 DEF ResolveFails, Finish, CheckStop, SampleNothing, Tick, JoinFailed, engineVars,
               workerVars, statVars, callerVars, logVars
  <2> QED
    BY <2>1, SummedSame
<1>3. CASE Sample
  BY <1>3, SummedSample
<1>4. ASSUME NEW w \in Workers, Begin(w) \/ Acquire(w) \/ AcquireUnsupported(w) \/ Retry(w)
                                \/ DrainTimeout(w) \/ Fails(w)
      PROVE  Summed'
  <2>1. UNCHANGED <<tally, local, live, progress, merged, joined, prev, logged>>
    BY <1>4, FailsFacts DEF Begin, Acquire, AcquireUnsupported, Retry, DrainTimeout, statVars,
               callerVars, logVars
  <2>2. \E s \in {"paced", "io", "failed", "aborted", "loop", "asleep"} : wpc' = [wpc EXCEPT ![w] = s]
    BY <1>4, WorkerForms, FailsFacts
  <2>3. \A v \in Workers : wpc'[v] = "exited" => wpc[v] = "exited"
    BY <2>2 DEF EngineTypes
  <2> QED
    BY <2>1, <2>3, SummedSame
<1>5. ASSUME NEW w \in Workers, Exit(w) PROVE Summed'
  BY <1>5, SummedExit
<1>6. ASSUME NEW w \in Workers, Succeeds(w) PROVE Summed'
  BY <1>6, SummedSuccess
<1>7. ASSUME NEW w \in Workers, Join(w) PROVE Summed'
  BY <1>7, SummedJoin
<1> QED
  BY <1>1, <1>2, <1>3, <1>4, <1>5, <1>6, <1>7, StepForms

(***************************************************************************)
(* The theorems                                                            *)
(***************************************************************************)

LEMMA InitEstablishes == EngineInit => EngineInv
<1> SUFFICES ASSUME EngineInit PROVE EngineInv
  OBVIOUS
<1>1. EngineTypes
  BY InitTypes
<1>a. job \in Jobs /\ job.max_errors \in Nat /\ job.max_errors >= 1
  BY <1>1, JobFacts DEF EngineTypes
<1>2. Joining
  <2>1. 1..joined = {} /\ ~(errors >= job.max_errors)
    BY <1>a DEF EngineInit
  <2> QED
    BY <2>1 DEF EngineInit, Joining
<1>3. AtOperations /\ Growing
  BY DEF EngineInit, AtOperations, Growing
<1>4. Separated
  BY DEF EngineInit, Separated, ReadOnly
<1>5. Holders = {} /\ Cardinality(Holders) = 0
  <2>1. Holders = {}
    BY DEF EngineInit, Holders, Idle
  <2> QED
    BY <2>1, FS_EmptySet
<1>6. Paced
  BY <1>5 DEF EngineInit, Paced
<1>7. Summed
  <2>1. \A c \in Classes : Zero[c] = 0
    BY DEF Zero, Classes
  <2>2. ASSUME NEW c \in Classes PROVE Done(c) = {} /\ Merged(c) = {}
    <3>1. \A w \in Workers : Of(c)[w] = 0
      BY <2>1 DEF EngineInit, Of
    <3>2. joined = 0
      BY DEF EngineInit
    <3> QED
      BY <3>1, <3>2 DEF Done, Merged, Grid
  <2>3. Unflushed = {}
    BY DEF EngineInit, Unflushed, Grid
  <2>4. Total(Zero) = 0
    BY DEF Total, Zero
  <2> QED
    BY <2>1, <2>2, <2>3, <2>4, FS_EmptySet DEF EngineInit, Summed
<1> QED
  BY <1>1, <1>2, <1>3, <1>4, <1>6, <1>7 DEF EngineInv

LEMMA Preserved == EngineInv /\ [EngineNext]_engineVars => EngineInv'
BY TypesStep, JoiningStep, AtStep, SeparatedStep, GrowingStep, PacedStep, SummedStep DEF EngineInv

LEMMA EngineInvariance == EngineSpec => []EngineInv
BY InitEstablishes, Preserved, PTL DEF EngineSpec

\* A run returns Ok only when every worker has left by itself and fewer errors than the
\* threshold were counted, for every number of workers, configuration and interleaving
\* (workload::run's join loop, ErrorTracker).
THEOREM OkWaitsForAll == EngineSpec => []OkMeansAllDone
<1>1. EngineInv => OkMeansAllDone
  <2> SUFFICES ASSUME EngineInv, result = "ok"
               PROVE  (\A w \in Workers : wpc[w] = "exited") /\ errors < job.max_errors
    BY DEF OkMeansAllDone
  <2>1. \A w \in Workers : wpc[w] = "exited"
    BY WorkerFacts DEF EngineInv, Joining
  <2>2. ~(errors >= job.max_errors)
    BY <2>1 DEF EngineInv, Joining
  <2>3. errors \in Nat /\ job.max_errors \in Nat
    BY JobFacts DEF EngineInv, EngineTypes
  <2> QED
    BY <2>1, <2>2, <2>3
<1> QED
  BY <1>1, EngineInvariance, PTL

\* The summary, the live statistics and the progress counter of a run that returns Ok agree,
\* however many workers count in whatever order, and the performance log never holds an
\* operation that was not counted (WorkerStats, LiveStatsTracker, live_ops, PerfLogWriter).
THEOREM CountsAgree == EngineSpec => []StatsAgree
<1>1. EngineInv => StatsAgree
  <2> SUFFICES ASSUME EngineInv PROVE StatsAgree
    OBVIOUS
  <2>0. EngineTypes /\ Joining /\ Summed
    BY DEF EngineInv
  <2>1. ASSUME result = "ok" PROVE merged = live /\ progress = Total(live)
    <3>1. joined = Concurrency /\ \A w \in Workers : local[w] = 0
      BY <2>0, <2>1, WorkerFacts DEF Joining, Summed
    <3>2. \A c \in Classes : Merged(c) = Done(c)
      BY <3>1, WorkerFacts DEF Merged, Done
    <3>3. \A c \in Classes : merged[c] = live[c]
      BY <2>0, <3>2 DEF Summed
    <3>4. merged = live
      BY <2>0, <3>3 DEF EngineTypes, Counts, Classes
    <3>5. Unflushed = {}
      BY <3>1 DEF Unflushed, Grid
    <3>6. Cardinality(Unflushed) = 0 /\ progress \in Nat
      BY <2>0, <3>5, FS_EmptySet DEF EngineTypes
    <3>7. progress = Total(live)
      BY <2>0, <3>6 DEF Summed
    <3> QED
      BY <3>4, <3>7
  <2>2. logged <= Total(live)
    <3>1. \A c \in Classes : prev[c] \in Nat /\ live[c] \in Nat /\ prev[c] <= live[c]
      BY <2>0, OfType DEF Summed
    <3> QED
      BY <2>0, <3>1 DEF Summed, Total, Classes
  <2> QED
    BY <2>1, <2>2 DEF StatsAgree
<1> QED
  BY <1>1, EngineInvariance, PTL

\* With the prepared patterns of a mixed workload no DELETE ever removes an object a GET or
\* STAT is about to read, and a growing pool has every object that was written, for every
\* store and number of workers (rewrite_pattern_for_pool, dynamic_put_pool).
THEOREM PoolsStayApart == EngineSpec => []PoolsSound
<1>1. EngineInv => PoolsSound
  BY DEF EngineInv, PoolsSound, Separated, Growing, Apart
<1> QED
  BY <1>1, EngineInvariance, PTL

\* The rate controller admits no more operations than the target allows, however many
\* workers share its counter and however long they wait (RateController::wait).
THEOREM RateIsKept == EngineSpec => []RateCapped
<1>1. EngineInv => RateCapped
  BY PacedCaps DEF EngineInv
<1> QED
  BY <1>1, EngineInvariance, PTL

=============================================================================
