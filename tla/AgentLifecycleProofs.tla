------------------------ MODULE AgentLifecycleProofs ------------------------
(***************************************************************************)
(* What the tasks of an agent's jobs may do to one another through the     *)
(* state, the broadcasts and the op-log session they share, proved for any *)
(* number of jobs and stages and any bound on retries and aborts.          *)
(*                                                                         *)
(* Two inductive invariants.  LifeInv holds whatever the environment does: *)
(* what a job's own tasks have told one another (Results) and which file   *)
(* the op-log session is open on while work is under way (Logging).        *)
(* AgentInv holds as long as no stream opens before everything of the job  *)
(* before is over.  Its first half, CoreInv, survives even a SYNC_STATE: at*)
(* most one job is alive (Alone), and a job that has the agent keeps it at *)
(* a stage (Kept).  Its second half, OwnInv, is claimed while no SYNC_STATE*)
(* has forced the state since the agent was last Idle: the state, the      *)
(* current job and the tasks of that job agree (Answers, Stops, Leaving).  *)
(* CoreInv is what gives OwnInv back once a forced agent is Idle again.    *)
(***************************************************************************)
EXTENDS AgentLifecycle, TLAPS

Fields == DOMAIN NewJob
Shape == DOMAIN job = Jobs /\ \A j \in Jobs : DOMAIN job[j] = Fields

Active == {"spawned", "next", "exec", "wait"}

\* What the reader, the workflow and the writer of one job have told one another
Result(b) ==
    /\ b.conn = "none" => b.reader = "none"
    /\ b.reader \in {"none", "wait"} =>
         b.workflow = "none" /\ b.tx_done = <<>> /\ b.sent \cap {"completed", "error"} = {}
         /\ b.stage = 0
    /\ b.workflow \in Active => b.tx_done = <<>> /\ b.sent \cap {"completed", "error"} = {}
    /\ b.workflow \in {"none", "failed"} =>
         b.tx_done \in {<<>>, <<"err">>} /\ "completed" \notin b.sent
    /\ b.workflow = "ended" =>
         /\ b.tx_done \in {<<>>, <<"ok">>} /\ "error" \notin b.sent
         /\ b.tx_done = <<"ok">> => b.stage = NumStages /\ "completed" \notin b.sent
         /\ "completed" \in b.sent => b.stage = NumStages
    /\ b.workflow \in Active \cup {"none", "ended", "failed"}

Results == \A j \in Jobs : Result(job[j])

SessionShape == session = [status |-> session.status, key |-> session.key]
OpenOn(path) == session = [status |-> "Active", key |-> path]

\* From START to the end of the workflow the session stays on the job's file
Logging ==
    serving =>
      /\ \A j \in Jobs : job[j].workflow \in Active /\ job[j].log # NoLog =>
           OpenOn(StagedPath(job[j].log))
      /\ unary.pc = "running" /\ unary.log # NoLog => OpenOn(UnaryPath(unary.log))

LifeInv == Shape /\ SessionShape /\ Results /\ Logging
-----------------------------------------------------------------------------
\* Some task of the job still runs
Live(b) ==
    \/ b.workflow \in Active
    \/ b.reader \notin {"none", "gone"}
    \/ b.writer \notin {"none", "exit"}

Alone == \A i, j \in Jobs : Live(job[i]) /\ Live(job[j]) => i = j

\* A job that still waits for START has never had the agent; one whose
\* workflow runs has it, unless a RESET cleared it
Owner(j) ==
    /\ job[j].reader \in {"none", "wait"} => j \notin off /\ current # j
    /\ job[j].workflow \in Active => current \in {j, 0}

Staged(j) ==
    /\ job[j].stage \in 0 .. NumStages
    /\ job[j].workflow = "spawned" => job[j].stage = 0
    /\ job[j].workflow \in {"exec", "wait"} => job[j].stage >= 1

\* A job taken off finds no stage to start: the state has left the stages, or
\* its stream is gone and the release that would take it further cannot come
Stops(j) ==
    j \in off /\ job[j].workflow \in Active =>
      \/ state.name # "AtStage"
      \/ /\ job[j].conn = "closed" /\ job[j].reader = "gone"
         /\ job[j].workflow \in {"exec", "wait"}
         /\ job[j].workflow = "wait" => job[j].barrier_rx = <<>>

\* A reader that saw the job at a barrier when it left its loop leaves a job
\* that is past the preflight
Leaving(j) ==
    job[j].reader = "left" =>
      /\ job[j].conn = "closed"
      /\ /\ job[j].seen.name = "AtStage" /\ job[j].seen.rdy
         /\ current = j /\ j \notin off /\ job[j].workflow \in Active
         => job[j].stage >= 1

\* What a status query finds while the agent is at a stage
Answers ==
    state.name = "AtStage" /\ current # 0 /\ current \notin off =>
      LET b == job[current] IN
      /\ b.stage = state.i
      /\ state.rdy => b.workflow \in {"wait", "next", "failed"} /\ b.stage >= 1
      /\ ~state.rdy => /\ b.workflow \in {"spawned", "next", "exec", "failed"}
                       /\ b.workflow = "next" => b.stage = 0
      /\ b.reader \in {"read", "left"}
      /\ b.reader = "left" => b.seen.name = "AtStage"

Typed == state \in WorkloadState /\ current \in 0 .. NumJobs /\ off \subseteq Jobs
InOrder(j) == Owner(j) /\ Staged(j) /\ Stops(j) /\ Leaving(j)

OwnInv == Typed /\ Alone /\ Answers /\ \A j \in Jobs : InOrder(j)

\* A job that has the agent and was not taken off it leaves it at a stage
Kept(j) == job[j].workflow \in Active /\ current = j /\ j \notin off => state.name = "AtStage"

\* A reader that left its loop has no stream; one that flushes ABORTED was taken
\* off; a writer that flushes the result has no workflow left
Ending(j) ==
    /\ job[j].reader = "left" => job[j].conn = "closed"
    /\ job[j].reader = "flush" /\ current = j => j \in off
    /\ job[j].writer \in {"flushOk", "flushErr"} =>
         job[j].workflow \notin Active /\ job[j].reader \notin {"none", "wait"}

Core(j) == Owner(j) /\ Staged(j) /\ Kept(j) /\ Ending(j)

CoreInv == Typed /\ Alone /\ \A j \in Jobs : Core(j)

AgentInv == CoreInv /\ (~synced => OwnInv)
-----------------------------------------------------------------------------
LEMMA FieldNames ==
  Fields = {"conn", "reader", "seen", "workflow", "stage", "timeouts", "barrier_rx", "abort_rx",
            "reported", "tx_done", "writer", "sent", "log"}
BY DEF Fields, NewJob

\* An abort signal changes nothing but the flag that it has arrived.
LEMMA SignalTouchesFlag ==
  ASSUME NEW jobs, DOMAIN jobs = Jobs, \A j \in Jobs : DOMAIN jobs[j] = Fields
  PROVE  /\ DOMAIN Signalled(jobs) = Jobs
         /\ \A j \in Jobs : DOMAIN Signalled(jobs)[j] = Fields
         /\ \A j \in Jobs : \A f \in Fields \ {"abort_rx"} : Signalled(jobs)[j][f] = jobs[j][f]
BY DEF Signalled

LEMMA LifeInit == LifecycleInit => LifeInv
<1>. SUFFICES ASSUME LifecycleInit PROVE LifeInv
  OBVIOUS
<1>1. Shape
  BY DEF LifecycleInit, Shape, Fields
<1>2. Results
  BY DEF LifecycleInit, Results, Result, NewJob, Active
<1>3. Logging
  BY DEF LifecycleInit, Logging, NewJob, Active
<1>4. SessionShape
  BY DEF LifecycleInit, SessionShape, NoSession
<1>. QED  BY <1>1, <1>2, <1>3, <1>4 DEF LifeInv

\* Job i keeps what the invariant reads of it
Keeps(i) ==
    \A f \in {"conn", "reader", "workflow", "stage", "tx_done", "sent", "log"} :
        job'[i][f] = job[i][f]

\* A step of job j that opens no log, and leaves the session and the unary RPC
LEMMA OneJobStep ==
  ASSUME LifeInv, NEW j \in Jobs, Shape', Result(job'[j]),
         \A i \in Jobs \ {j} : Keeps(i) \/ job'[i] = GoneJob,
         UNCHANGED <<session, unary, serving>>,
         job'[j].workflow \in Active => job[j].workflow \in Active /\ job'[j].log = job[j].log
  PROVE  LifeInv'
<1>1. Results'
  <2>1. ASSUME NEW i \in Jobs \ {j}  PROVE Result(job'[i])
    <3>1. CASE Keeps(i)
      BY <3>1 DEF LifeInv, Results, Result, Keeps
    <3>2. CASE job'[i] = GoneJob
      BY <3>2 DEF GoneJob, NewJob, Result, Active
    <3>. QED  BY <3>1, <3>2
  <2>. QED  BY <2>1 DEF Results
<1>2. Logging'
  <2>. SUFFICES ASSUME serving'  PROVE Logging'
    BY DEF Logging
  <2>1. session' = session /\ unary' = unary /\ serving /\ Logging
    BY Zenon DEF LifeInv
  <2>2. ASSUME NEW i \in Jobs, job'[i].workflow \in Active
        PROVE  job[i].workflow \in Active /\ job'[i].log = job[i].log
    <3>1. CASE i = j
      BY <2>2, <3>1
    <3>2. CASE i # j
      <4>1. GoneJob.workflow \notin Active
        BY DEF GoneJob, NewJob, Active
      <4>. QED  BY <2>2, <3>2, <4>1 DEF Keeps
    <3>. QED  BY <3>1, <3>2
  <2>3. ASSUME NEW i \in Jobs, job'[i].workflow \in Active, job'[i].log # NoLog
        PROVE  session' = [status |-> "Active", key |-> StagedPath(job'[i].log)]
    BY <2>1, <2>2, <2>3 DEF Logging, OpenOn
  <2>4. unary'.pc = "running" /\ unary'.log # NoLog =>
          session' = [status |-> "Active", key |-> UnaryPath(unary'.log)]
    BY <2>1 DEF Logging, OpenOn
  <2>. QED  BY <2>3, <2>4 DEF Logging, OpenOn, Active
<1>3. SessionShape'
  BY DEF LifeInv, SessionShape
<1>. QED  BY <1>1, <1>2, <1>3 DEF LifeInv

LEMMA KeepingStep ==
  ASSUME LifeInv, Shape', \A i \in Jobs : Keeps(i), UNCHANGED <<session, unary, serving>>
  PROVE  LifeInv'
<1>1. 1 \in Jobs
  BY LifecycleAssumption DEF Jobs
<1>2. Result(job'[1])
  BY <1>1 DEF LifeInv, Results, Result, Keeps
<1>3. job'[1].workflow = job[1].workflow /\ job'[1].log = job[1].log
  BY <1>1 DEF Keeps
<1>. QED  BY <1>1, <1>2, <1>3, OneJobStep

LEMMA StartLife ==
  ASSUME LifeInv, serving, NEW j \in Jobs, Start(j)
  PROVE  LifeInv'
<1>1. PICK log \in Logs \cup {NoLog} :
        /\ Receives(j, "wait")
        /\ IF log = NoLog THEN UNCHANGED session ELSE BeginSession(StagedPath(log), session')
        /\ job' = [job EXCEPT ![j].reader = "read", ![j].workflow = "spawned", ![j].log = log]
  BY DEF Start
<1>2. Shape'
  BY <1>1 DEF LifeInv, Shape
<1>3. /\ job'[j].workflow = "spawned" /\ job'[j].log = log
      /\ \A i \in Jobs \ {j} : job'[i] = job[i]
  BY <1>1, FieldNames DEF LifeInv, Shape
<1>4. Results'
  <2>1. Result(job[j])'
    BY <1>1, FieldNames DEF LifeInv, Shape, Results, Result, Receives, Active
  <2>. QED  BY <2>1, <1>3 DEF LifeInv, Results
<1>5. Logging'
  <2>1. unary' = unary /\ Logging /\ serving
    BY DEF Start, LifeInv
  <2>2. ASSUME NEW path, OpenOn(path)  PROVE session' = session
    BY <1>1, <2>2 DEF BeginSession, OpenOn
  <2>3. ASSUME NEW i \in Jobs, job'[i].workflow \in Active, job'[i].log # NoLog
        PROVE  session' = [status |-> "Active", key |-> StagedPath(job'[i].log)]
    <3>1. CASE i = j
      <4>1. BeginSession(StagedPath(log), session')
        BY <1>1, <1>3, <2>3, <3>1
      <4>. QED  BY <1>3, <3>1, <4>1 DEF BeginSession, LifeInv, SessionShape
    <3>2. CASE i # j
      BY <1>3, <2>1, <2>2, <2>3, <3>2 DEF Logging, OpenOn
    <3>. QED  BY <3>1, <3>2
  <2>4. unary'.pc = "running" /\ unary'.log # NoLog =>
          session' = [status |-> "Active", key |-> UnaryPath(unary'.log)]
    BY <2>1, <2>2 DEF Logging, OpenOn
  <2>. QED  BY <2>3, <2>4 DEF Logging, OpenOn, Active
<1>6. SessionShape'
  BY <1>1 DEF BeginSession, LifeInv, SessionShape
<1>. QED  BY <1>2, <1>4, <1>5, <1>6 DEF LifeInv

LEMMA StartLogRefusedLife ==
  ASSUME LifeInv, NEW j \in Jobs, StartLogRefused(j)
  PROVE  LifeInv'
<1>1. Shape' /\ \A i \in Jobs \ {j} : Keeps(i)
  BY FieldNames DEF StartLogRefused, Receives, Told, LifeInv, Shape, Keeps
<1>2. job'[j].workflow \in Active => job[j].workflow \in Active /\ job'[j].log = job[j].log
  BY FieldNames DEF StartLogRefused, Receives, Told, LifeInv, Shape, Active
<1>3. Result(job'[j])
  BY FieldNames DEF StartLogRefused, Receives, Told, LifeInv, Shape, Results, Result, Active
<1>. QED  BY <1>1, <1>2, <1>3, OneJobStep DEF StartLogRefused, processVars

LEMMA StartRefusedLife ==
  ASSUME LifeInv, NEW j \in Jobs, StartRefused(j)
  PROVE  LifeInv'
<1>1. Shape' /\ \A i \in Jobs \ {j} : Keeps(i)
  BY FieldNames DEF StartRefused, Receives, LifeInv, Shape, Keeps
<1>2. job'[j].workflow \in Active => job[j].workflow \in Active /\ job'[j].log = job[j].log
  BY FieldNames DEF StartRefused, Receives, LifeInv, Shape, Active
<1>3. Result(job'[j])
  BY FieldNames DEF StartRefused, Receives, LifeInv, Shape, Results, Result, Active
<1>. QED  BY <1>1, <1>2, <1>3, OneJobStep DEF StartRefused, processVars

LEMMA AbortFlushedLife ==
  ASSUME LifeInv, NEW j \in Jobs, AbortFlushed(j)
  PROVE  LifeInv'
<1>1. Shape' /\ \A i \in Jobs \ {j} : Keeps(i)
  BY FieldNames DEF AbortFlushed, LifeInv, Shape, Keeps
<1>2. job'[j].workflow \in Active => job[j].workflow \in Active /\ job'[j].log = job[j].log
  BY FieldNames DEF AbortFlushed, LifeInv, Shape, Active
<1>3. Result(job'[j])
  BY FieldNames DEF AbortFlushed, LifeInv, Shape, Results, Result, Active
<1>. QED  BY <1>1, <1>2, <1>3, OneJobStep DEF AbortFlushed, processVars

LEMMA GoodbyeLife ==
  ASSUME LifeInv, NEW j \in Jobs, Goodbye(j)
  PROVE  LifeInv'
<1>1. Shape' /\ \A i \in Jobs \ {j} : Keeps(i)
  BY FieldNames DEF Goodbye, Receives, LifeInv, Shape, Keeps
<1>2. job'[j].workflow \in Active => job[j].workflow \in Active /\ job'[j].log = job[j].log
  BY FieldNames DEF Goodbye, Receives, LifeInv, Shape, Active
<1>3. Result(job'[j])
  BY FieldNames DEF Goodbye, Receives, LifeInv, Shape, Results, Result, Active
<1>. QED  BY <1>1, <1>2, <1>3, OneJobStep DEF Goodbye, processVars

LEMMA VanishLife ==
  ASSUME LifeInv, NEW j \in Jobs, Vanish(j)
  PROVE  LifeInv'
<1>1. Shape' /\ \A i \in Jobs \ {j} : Keeps(i)
  BY FieldNames DEF Vanish, LifeInv, Shape, Keeps
<1>2. job'[j].workflow \in Active => job[j].workflow \in Active /\ job'[j].log = job[j].log
  BY FieldNames DEF Vanish, LifeInv, Shape, Active
<1>3. Result(job'[j])
  BY FieldNames DEF Vanish, LifeInv, Shape, Results, Result, Active
<1>. QED  BY <1>1, <1>2, <1>3, OneJobStep DEF Vanish, processVars

LEMMA StreamEndsLife ==
  ASSUME LifeInv, NEW j \in Jobs, StreamEnds(j)
  PROVE  LifeInv'
<1>1. Shape' /\ \A i \in Jobs \ {j} : Keeps(i)
  BY FieldNames DEF StreamEnds, LifeInv, Shape, Keeps
<1>2. job'[j].workflow \in Active => job[j].workflow \in Active /\ job'[j].log = job[j].log
  BY FieldNames DEF StreamEnds, LifeInv, Shape, Active
<1>3. Result(job'[j])
  BY FieldNames DEF StreamEnds, LifeInv, Shape, Results, Result, Active
<1>. QED  BY <1>1, <1>2, <1>3, OneJobStep DEF StreamEnds, processVars

LEMMA SubscribeAbortLife ==
  ASSUME LifeInv, NEW j \in Jobs, SubscribeAbort(j)
  PROVE  LifeInv'
<1>1. Shape' /\ \A i \in Jobs \ {j} : Keeps(i)
  BY FieldNames DEF SubscribeAbort, LifeInv, Shape, Keeps
<1>2. job'[j].workflow \in Active => job[j].workflow \in Active /\ job'[j].log = job[j].log
  BY FieldNames DEF SubscribeAbort, LifeInv, Shape, Active
<1>3. Result(job'[j])
  BY FieldNames DEF SubscribeAbort, LifeInv, Shape, Results, Result, Active
<1>. QED  BY <1>1, <1>2, <1>3, OneJobStep DEF SubscribeAbort, processVars

LEMMA NextStageLife ==
  ASSUME LifeInv, NEW j \in Jobs, NextStage(j)
  PROVE  LifeInv'
<1>0. CASE Return(j, "err")
  <2>1. Shape' /\ \A i \in Jobs \ {j} : Keeps(i)
    BY <1>0, FieldNames DEF Return, LifeInv, Shape, Keeps
  <2>2. job'[j].workflow = "failed"
    BY <1>0, FieldNames DEF Return, LifeInv, Shape
  <2>3. Result(job'[j])
    BY <1>0, FieldNames DEF NextStage, Return, LifeInv, Shape, Results, Result, Active
  <2>. QED  BY <2>1, <2>2, <2>3, OneJobStep DEF NextStage, processVars, Active
<1>1. CASE job' = [job EXCEPT ![j].stage = @ + 1, ![j].workflow = "exec"]
  <2>1. Shape' /\ \A i \in Jobs \ {j} : Keeps(i)
    BY <1>1, FieldNames DEF LifeInv, Shape, Keeps
  <2>2. job[j].workflow \in Active /\ job'[j].log = job[j].log
    BY <1>1, FieldNames DEF NextStage, LifeInv, Shape, Active
  <2>3. Result(job'[j])
    BY <1>1, FieldNames DEF NextStage, LifeInv, Shape, Results, Result, Active
  <2>. QED  BY <2>1, <2>2, <2>3, OneJobStep DEF NextStage, processVars
<1>. QED  BY <1>0, <1>1 DEF NextStage

LEMMA StageDoneLife ==
  ASSUME LifeInv, NEW j \in Jobs, StageDone(j)
  PROVE  LifeInv'
<1>0. CASE Return(j, "err")
  <2>1. Shape' /\ \A i \in Jobs \ {j} : Keeps(i)
    BY <1>0, FieldNames DEF Return, LifeInv, Shape, Keeps
  <2>2. job'[j].workflow = "failed"
    BY <1>0, FieldNames DEF Return, LifeInv, Shape
  <2>3. Result(job'[j])
    BY <1>0, FieldNames DEF StageDone, Return, LifeInv, Shape, Results, Result, Active
  <2>. QED  BY <2>1, <2>2, <2>3, OneJobStep DEF StageDone, processVars, Active
<1>1. CASE job' = [job EXCEPT ![j].workflow = "wait", ![j].barrier_rx = <<>>,
                                 ![j].timeouts = 0, ![j].reported = Reported(job[j])]
  <2>1. Shape' /\ \A i \in Jobs \ {j} : Keeps(i)
    BY <1>1, FieldNames DEF LifeInv, Shape, Keeps
  <2>2. job[j].workflow \in Active /\ job'[j].log = job[j].log
    BY <1>1, FieldNames DEF StageDone, LifeInv, Shape, Active
  <2>3. Result(job'[j])
    BY <1>1, FieldNames DEF StageDone, LifeInv, Shape, Results, Result, Active
  <2>. QED  BY <2>1, <2>2, <2>3, OneJobStep DEF StageDone, processVars
<1>. QED  BY <1>0, <1>1 DEF StageDone

LEMMA StageFailsLife ==
  ASSUME LifeInv, NEW j \in Jobs, StageFails(j)
  PROVE  LifeInv'
<1>1. Shape' /\ \A i \in Jobs \ {j} : Keeps(i)
  BY FieldNames DEF StageFails, Return, LifeInv, Shape, Keeps
<1>2. job'[j].workflow \in Active => job[j].workflow \in Active /\ job'[j].log = job[j].log
  BY FieldNames DEF StageFails, Return, LifeInv, Shape, Active
<1>3. Result(job'[j])
  BY FieldNames DEF StageFails, Return, LifeInv, Shape, Results, Result, Active
<1>. QED  BY <1>1, <1>2, <1>3, OneJobStep DEF StageFails, processVars

LEMMA AwaitReleaseLife ==
  ASSUME LifeInv, NEW j \in Jobs, AwaitRelease(j)
  PROVE  LifeInv'
<1>1. Shape' /\ \A i \in Jobs \ {j} : Keeps(i)
  BY FieldNames DEF AwaitRelease, Return, LifeInv, Shape, Keeps
<1>2. job'[j].workflow \in Active => job[j].workflow \in Active /\ job'[j].log = job[j].log
  BY FieldNames DEF AwaitRelease, Return, LifeInv, Shape, Active
<1>3. Result(job'[j])
  BY FieldNames DEF AwaitRelease, Return, LifeInv, Shape, Results, Result, Active
<1>. QED  BY <1>1, <1>2, <1>3, OneJobStep DEF AwaitRelease, processVars

LEMMA AllStagesDoneLife ==
  ASSUME LifeInv, NEW j \in Jobs, AllStagesDone(j)
  PROVE  LifeInv'
<1>1. Shape' /\ \A i \in Jobs \ {j} : Keeps(i)
  BY FieldNames DEF AllStagesDone, Return, LifeInv, Shape, Keeps
<1>2. job'[j].workflow \in Active => job[j].workflow \in Active /\ job'[j].log = job[j].log
  BY FieldNames DEF AllStagesDone, Return, LifeInv, Shape, Active
<1>3. Result(job'[j])
  BY FieldNames DEF AllStagesDone, Return, LifeInv, Shape, Results, Result, Active
<1>. QED  BY <1>1, <1>2, <1>3, OneJobStep DEF AllStagesDone, processVars

LEMMA WriterPollsLife ==
  ASSUME LifeInv, NEW j \in Jobs, WriterPolls(j)
  PROVE  LifeInv'
<1>1. Shape' /\ \A i \in Jobs \ {j} : Keeps(i)
  BY FieldNames DEF WriterPolls, WriterTo, Told, LifeInv, Shape, Keeps
<1>2. job'[j].workflow \in Active => job[j].workflow \in Active /\ job'[j].log = job[j].log
  BY FieldNames DEF WriterPolls, WriterTo, Told, LifeInv, Shape, Active
<1>3. Result(job'[j])
  BY FieldNames DEF WriterPolls, WriterTo, Told, LifeInv, Shape, Results, Result, Active
<1>. QED  BY <1>1, <1>2, <1>3, OneJobStep DEF WriterPolls, processVars

LEMMA WriterWaitsLife ==
  ASSUME LifeInv, NEW j \in Jobs, WriterWaits(j)
  PROVE  LifeInv'
<1>1. Shape' /\ \A i \in Jobs \ {j} : Keeps(i)
  BY FieldNames DEF WriterWaits, WriterTo, LifeInv, Shape, Keeps
<1>2. job'[j].workflow \in Active => job[j].workflow \in Active /\ job'[j].log = job[j].log
  BY FieldNames DEF WriterWaits, WriterTo, LifeInv, Shape, Active
<1>3. Result(job'[j])
  BY FieldNames DEF WriterWaits, WriterTo, LifeInv, Shape, Results, Result, Active
<1>. QED  BY <1>1, <1>2, <1>3, OneJobStep DEF WriterWaits, processVars

LEMMA WriterReportsLife ==
  ASSUME LifeInv, NEW j \in Jobs, WriterReports(j)
  PROVE  LifeInv'
<1>1. Shape' /\ \A i \in Jobs \ {j} : Keeps(i)
  BY FieldNames DEF WriterReports, Told, LifeInv, Shape, Keeps
<1>2. job'[j].workflow \in Active => job[j].workflow \in Active /\ job'[j].log = job[j].log
  BY FieldNames DEF WriterReports, Told, LifeInv, Shape, Active
<1>3. Result(job'[j])
  BY FieldNames DEF WriterReports, Told, LifeInv, Shape, Results, Result, Active
<1>. QED  BY <1>1, <1>2, <1>3, OneJobStep DEF WriterReports, processVars

LEMMA WriterFlushedLife ==
  ASSUME LifeInv, NEW j \in Jobs, WriterFlushed(j)
  PROVE  LifeInv'
<1>1. Shape' /\ \A i \in Jobs \ {j} : Keeps(i)
  BY FieldNames DEF WriterFlushed, WriterTo, LifeInv, Shape, Keeps
<1>2. job'[j].workflow \in Active => job[j].workflow \in Active /\ job'[j].log = job[j].log
  BY FieldNames DEF WriterFlushed, WriterTo, LifeInv, Shape, Active
<1>3. Result(job'[j])
  BY FieldNames DEF WriterFlushed, WriterTo, LifeInv, Shape, Results, Result, Active
<1>. QED  BY <1>1, <1>2, <1>3, OneJobStep DEF WriterFlushed, processVars

LEMMA WriterLeavesLife ==
  ASSUME LifeInv, NEW j \in Jobs, WriterLeaves(j)
  PROVE  LifeInv'
<1>1. Shape' /\ \A i \in Jobs \ {j} : Keeps(i)
  BY FieldNames DEF WriterLeaves, WriterTo, LifeInv, Shape, Keeps
<1>2. job'[j].workflow \in Active => job[j].workflow \in Active /\ job'[j].log = job[j].log
  BY FieldNames DEF WriterLeaves, WriterTo, LifeInv, Shape, Active
<1>3. Result(job'[j])
  BY FieldNames DEF WriterLeaves, WriterTo, LifeInv, Shape, Results, Result, Active
<1>. QED  BY <1>1, <1>2, <1>3, OneJobStep DEF WriterLeaves, processVars

LEMMA ConnectLife ==
  ASSUME LifeInv, NEW j \in Jobs, Connect(j)
  PROVE  LifeInv'
<1>1. job' = [i \in Jobs |->
        IF i = j THEN [NewJob EXCEPT !.conn = "open", !.reader = "wait", !.writer = "poll"]
        ELSE IF Settled /\ i < j THEN GoneJob ELSE job[i]]
  BY DEF Connect
<1>2. Shape'
  BY <1>1 DEF LifeInv, Shape, Fields, NewJob, GoneJob
<1>3. \A i \in Jobs \ {j} : Keeps(i) \/ job'[i] = GoneJob
  BY <1>1 DEF Keeps
<1>4. Result(job'[j]) /\ job'[j].workflow = "none"
  BY <1>1 DEF Result, NewJob, Active
<1>. QED  BY <1>2, <1>3, <1>4, OneJobStep DEF Connect, processVars, Active

LEMMA ReleaseBarrierLife ==
  ASSUME LifeInv, NEW j \in Jobs, ReleaseBarrier(j)
  PROVE  LifeInv'
<1>. PICK k \in job[j].reported :
        job' = [w \in Jobs |->
           [job[w] EXCEPT !.reported = IF w = j THEN @ \ {k} ELSE @,
                          !.barrier_rx = IF job[w].workflow = "wait" THEN Append(@, k) ELSE @]]
  BY DEF ReleaseBarrier
<1>1. Shape'
  BY DEF LifeInv, Shape
<1>2. \A i \in Jobs : Keeps(i)
  BY FieldNames DEF LifeInv, Shape, Keeps
<1>. QED  BY <1>1, <1>2, KeepingStep DEF ReleaseBarrier, processVars

LEMMA SignalLife ==
  ASSUME LifeInv, job' = Signalled(job), UNCHANGED <<session, unary, serving>>
  PROVE  LifeInv'
<1>1. /\ DOMAIN Signalled(job) = Jobs /\ \A j \in Jobs : DOMAIN Signalled(job)[j] = Fields
      /\ \A j \in Jobs : \A f \in Fields \ {"abort_rx"} : Signalled(job)[j][f] = job[j][f]
  BY SignalTouchesFlag DEF LifeInv, Shape
<1>2. Shape'
  BY <1>1 DEF Shape, Fields
<1>3. \A i \in Jobs : Keeps(i)
  BY <1>1, FieldNames DEF Keeps
<1>. QED  BY <1>2, <1>3, KeepingStep

LEMMA AbortCommandLife ==
  ASSUME LifeInv, NEW j \in Jobs, AbortCommand(j)
  PROVE  LifeInv'
<1>1. Shape' /\ \A i \in Jobs \ {j} : Keeps(i)
  BY FieldNames, SignalTouchesFlag DEF AbortCommand, LifeInv, Shape, Keeps
<1>2. job'[j].workflow = job[j].workflow /\ job'[j].log = job[j].log
  BY FieldNames, SignalTouchesFlag DEF AbortCommand, LifeInv, Shape
<1>3. Result(job'[j])
  BY FieldNames, SignalTouchesFlag
     DEF AbortCommand, Receives, Told, LifeInv, Shape, Results, Result, Active
<1>. QED  BY <1>1, <1>2, <1>3, OneJobStep DEF AbortCommand, processVars

LEMMA ReaderCleansUpLife ==
  ASSUME LifeInv, NEW j \in Jobs, ReaderCleansUp(j)
  PROVE  LifeInv'
<1>. DEFINE left == [job EXCEPT ![j].reader = "gone", ![j].seen = Idle]
<1>1. DOMAIN left = Jobs /\ \A i \in Jobs : DOMAIN left[i] = Fields
  BY DEF LifeInv, Shape
<1>2. job' = left \/ job' = Signalled(left)
  BY DEF ReaderCleansUp
<1>3. Shape' /\ \A i \in Jobs : \A f \in Fields \ {"abort_rx"} : job'[i][f] = left[i][f]
  <2>. HIDE DEF left
  <2>1. /\ DOMAIN Signalled(left) = Jobs /\ \A i \in Jobs : DOMAIN Signalled(left)[i] = Fields
        /\ \A i \in Jobs : \A f \in Fields \ {"abort_rx"} : Signalled(left)[i][f] = left[i][f]
    BY <1>1, SignalTouchesFlag
  <2>2. DOMAIN job' = Jobs /\ \A i \in Jobs : DOMAIN job'[i] = Fields
    BY <1>1, <1>2, <2>1
  <2>3. \A i \in Jobs : \A f \in Fields \ {"abort_rx"} : job'[i][f] = left[i][f]
    BY <1>2, <2>1
  <2>. QED  BY <2>2, <2>3 DEF Shape, Fields
<1>4. \A i \in Jobs \ {j} : Keeps(i)
  BY <1>3, FieldNames DEF LifeInv, Shape, Keeps
<1>5. /\ \A f \in Fields \ {"abort_rx", "reader", "seen"} : job'[j][f] = job[j][f]
      /\ job'[j].reader = "gone"
  BY <1>3, FieldNames DEF LifeInv, Shape
<1>6. Result(job'[j])
  BY <1>5, FieldNames DEF ReaderCleansUp, LifeInv, Results, Result, Active
<1>7. job'[j].workflow = job[j].workflow /\ job'[j].log = job[j].log
  BY <1>5, FieldNames
<1>. QED  BY <1>3, <1>4, <1>6, <1>7, OneJobStep DEF ReaderCleansUp, processVars

LEMMA UnaryBeginLife ==
  ASSUME LifeInv, serving, UnaryBegin
  PROVE  LifeInv'
<1>1. job' = job /\ Logging
  BY DEF UnaryBegin, LifeInv
<1>2. PICK log \in Logs :
        BeginSession(UnaryPath(log), session') /\ unary' = [pc |-> "running", log |-> log]
  BY DEF UnaryBegin
<1>3. ASSUME NEW path, OpenOn(path)  PROVE session' = session
  BY <1>2, <1>3 DEF BeginSession, OpenOn
<1>4. ASSUME NEW i \in Jobs, job'[i].workflow \in Active, job'[i].log # NoLog
      PROVE  session' = [status |-> "Active", key |-> StagedPath(job'[i].log)]
  BY <1>1, <1>3, <1>4 DEF Logging, OpenOn
<1>5. unary'.pc = "running" => session' = [status |-> "Active", key |-> UnaryPath(unary'.log)]
  BY <1>2 DEF BeginSession, LifeInv, SessionShape
<1>6. Logging'
  BY <1>4, <1>5 DEF Logging, OpenOn, Active
<1>7. SessionShape'
  BY <1>2 DEF BeginSession, LifeInv, SessionShape
<1>. QED  BY <1>1, <1>6, <1>7 DEF LifeInv, Shape, Results

LEMMA ShutdownLife ==
  ASSUME LifeInv, Shutdown
  PROVE  LifeInv'
<1>1. Logging'
  BY DEF Shutdown, Logging
<1>2. SessionShape'
  BY DEF Shutdown, LifeInv, SessionShape
<1>3. job' = [j \in Jobs |-> GoneJob]
  BY DEF Shutdown
<1>4. Shape'
  BY <1>3 DEF Shape, Fields, GoneJob, NewJob
<1>5. Results'
  BY <1>3 DEF Results, Result, GoneJob, NewJob, Active
<1>. QED  BY <1>1, <1>2, <1>4, <1>5 DEF LifeInv

LEMMA ResetLife ==
  ASSUME LifeInv, NEW j \in Jobs, Reset(j)
  PROVE  LifeInv'
<1>1. Shape' /\ \A i \in Jobs \ {j} : Keeps(i)
  BY FieldNames, SignalTouchesFlag DEF Reset, LifeInv, Shape, Keeps
<1>2. job'[j].workflow = job[j].workflow /\ job'[j].log = job[j].log
  BY FieldNames, SignalTouchesFlag DEF Reset, LifeInv, Shape
<1>3. Result(job'[j])
  BY FieldNames, SignalTouchesFlag
     DEF Reset, Receives, Told, LifeInv, Shape, Results, Result, Active
<1>. QED  BY <1>1, <1>2, <1>3, OneJobStep DEF Reset, processVars

LEMMA SyncStateLife ==
  ASSUME LifeInv, NEW j \in Jobs, SyncState(j)
  PROVE  LifeInv'
<1>1. Shape' /\ \A i \in Jobs \ {j} : Keeps(i)
  BY FieldNames DEF SyncState, Told, LifeInv, Shape, Keeps
<1>2. job'[j].workflow = job[j].workflow /\ job'[j].log = job[j].log
  BY FieldNames DEF SyncState, Told, LifeInv, Shape
<1>3. Result(job'[j])
  BY FieldNames DEF SyncState, Receives, Told, LifeInv, Shape, Results, Result, Active
<1>. QED  BY <1>1, <1>2, <1>3, OneJobStep DEF SyncState, processVars

LEMMA UnaryEndsLife ==
  ASSUME LifeInv, serving, UnaryEnds
  PROVE  LifeInv'
<1>1. unary'.pc # "running" /\ job' = job /\ session' = session
  BY DEF UnaryEnds
<1>2. Logging'
  BY <1>1 DEF LifeInv, Logging, OpenOn, Active
<1>. QED  BY <1>1, <1>2 DEF LifeInv, Shape, Results, SessionShape

LEMMA QuietLife ==
  ASSUME LifeInv, UNCHANGED <<job, session, unary, serving>>
  PROVE  LifeInv'
<1>1. Shape' /\ \A i \in Jobs : Keeps(i)
  BY DEF LifeInv, Shape, Keeps
<1>. QED  BY <1>1, KeepingStep

\* LifeInv is inductive.
LEMMA LifeStep == LifeInv /\ [LifecycleNext]_vars => LifeInv'
<1>. SUFFICES ASSUME LifeInv, [LifecycleNext]_vars  PROVE LifeInv'
  OBVIOUS
<1>1. CASE UNCHANGED vars
  BY <1>1, QuietLife DEF vars, agentVars, processVars
<1>2. CASE serving /\ \E j \in Jobs :
             \/ Connect(j) \/ Start(j) \/ StartLogRefused(j) \/ StartRefused(j)
             \/ ReleaseBarrier(j) \/ AbortCommand(j) \/ Reset(j) \/ Goodbye(j) \/ Vanish(j)
  <2>. PICK j \in Jobs : \/ Connect(j) \/ Start(j) \/ StartLogRefused(j) \/ StartRefused(j)
                         \/ ReleaseBarrier(j) \/ AbortCommand(j) \/ Reset(j) \/ Goodbye(j)
                         \/ Vanish(j)
    BY <1>2
  <2>. QED  BY <1>2, ConnectLife, StartLife, StartLogRefusedLife, StartRefusedLife,
               ReleaseBarrierLife, AbortCommandLife, ResetLife, GoodbyeLife, VanishLife
<1>3. CASE \E j \in Jobs : Reader(j) \/ Workflow(j) \/ StageFails(j) \/ Writer(j)
  <2>. PICK j \in Jobs : Reader(j) \/ Workflow(j) \/ StageFails(j) \/ Writer(j)
    BY <1>3
  <2>1. CASE Reader(j)
    BY <2>1, StreamEndsLife, ReaderCleansUpLife, AbortFlushedLife DEF Reader
  <2>2. CASE Workflow(j)
    BY <2>2, SubscribeAbortLife, NextStageLife, StageDoneLife, AwaitReleaseLife,
       AllStagesDoneLife DEF Workflow
  <2>3. CASE Writer(j)
    BY <2>3, WriterPollsLife, WriterWaitsLife, WriterReportsLife, WriterFlushedLife,
       WriterLeavesLife DEF Writer
  <2>. QED  BY <2>1, <2>2, <2>3, StageFailsLife
<1>4. CASE AbortRequested \/ DelayedReset
  BY <1>4, QuietLife DEF AbortRequested, DelayedReset
<1>5. CASE AbortWorkload
  BY <1>5, SignalLife DEF AbortWorkload
<1>6. CASE serving /\ (UnaryBegin \/ UnaryEnds \/ Shutdown)
  BY <1>6, UnaryBeginLife, UnaryEndsLife, ShutdownLife
<1>7. CASE \E j \in Jobs : SyncState(j)
  BY <1>7, SyncStateLife
<1>. QED  BY <1>1, <1>2, <1>3, <1>4, <1>5, <1>6, <1>7 DEF LifecycleNext, AgentStep

\* What the tasks of a job have told one another, and the file the op-log session
\* is open on, stay as LifeInv says, whatever the environment does.
THEOREM LifeInvariant == LifecycleSpec => []LifeInv
BY LifeInit, LifeStep, PTL DEF LifecycleSpec

\* COMPLETED is reported for a job only after its own workflow got through every
\* stage, and never together with ERROR, whatever the environment does.
THEOREM CompletedJobsRan == LifecycleSpec => []CompletedMeansRan
<1>1. LifeInv => CompletedMeansRan
  BY DEF LifeInv, Results, Result, CompletedMeansRan, Active
<1>. QED  BY <1>1, LifeInvariant, PTL

\* Work that asked for an op-log is done while the session is open on its file,
\* whatever jobs and unary RPCs overlap.
THEOREM WorkIsLogged == LifecycleSpec => []LoggedWork
<1>1. LifeInv => LoggedWork
  BY DEF LifeInv, Logging, LoggedWork, OpenOn, Active
<1>. QED  BY <1>1, LifeInvariant, PTL
-----------------------------------------------------------------------------
LEMMA OwnInit == LifecycleInit => OwnInv
<1>. SUFFICES ASSUME LifecycleInit  PROVE OwnInv
  OBVIOUS
<1>1. Typed
  BY LifecycleAssumption DEF LifecycleInit, Typed, WorkloadState, Idle
<1>2. Alone /\ Answers
  BY DEF LifecycleInit, Alone, Live, Active, NewJob, Answers, Idle, Plain
<1>3. \A j \in Jobs : InOrder(j)
  BY LifecycleAssumption
     DEF LifecycleInit, InOrder, Owner, Staged, Stops, Leaving, Active, NewJob, Jobs
<1>. QED  BY <1>1, <1>2, <1>3 DEF OwnInv

\* Job i keeps what OwnInv reads of it, and no task of it comes alive
Rests(i) ==
    /\ \A f \in {"conn", "reader", "seen", "workflow", "stage", "barrier_rx"} :
         job'[i][f] = job[i][f]
    /\ Live(job'[i]) => Live(job[i])

\* A step of job j, or of the agent on its behalf
LEMMA OwnStep ==
  ASSUME OwnInv, Typed', NEW j \in Jobs, \A i \in Jobs \ {j} : Rests(i),
         Live(job'[j]) => Live(job[j]),
         \/ state' = state \/ state'.name # "AtStage" \/ job[j].workflow \in Active
         \/ current' = j /\ Live(job[j]),
         current' \in {current, 0} \/ (current' = j /\ Live(job[j])),
         off \subseteq off', off' \subseteq off \cup {current},
         off' = off \/ state'.name # "AtStage" \/ Live(job[j]),
         InOrder(j)', current' = j => Answers'
  PROVE  OwnInv'
<1>1. Alone'
  BY DEF OwnInv, Alone, Rests
<1>2. ASSUME NEW i \in Jobs \ {j}  PROVE InOrder(i)'
  <2>1. InOrder(i) /\ Rests(i) /\ i # 0
    BY DEF OwnInv, Jobs
  <2>2. Live(job[j]) => ~Live(job[i])
    BY DEF OwnInv, Alone
  <2>3. Owner(i)'
    BY <2>1, <2>2 DEF InOrder, Owner, Rests, Live, Active
  <2>4. Staged(i)'
    BY <2>1 DEF InOrder, Staged, Rests
  <2>5. Stops(i)'
    BY <2>1, <2>2 DEF InOrder, Stops, Owner, Rests, Live, Active
  <2>6. Leaving(i)'
    BY <2>1, <2>2 DEF InOrder, Leaving, Rests, Live, Active
  <2>. QED  BY <2>3, <2>4, <2>5, <2>6 DEF InOrder
<1>3. Answers'
  <2>. SUFFICES ASSUME current' # j, current' # 0, state'.name = "AtStage", current' \notin off'
       PROVE  Answers'
    BY DEF Answers
  <2>1. current' = current /\ current \in Jobs \ {j} /\ current \notin off
    BY DEF Typed, OwnInv, Jobs
  <2>2. state' = state
    BY <2>1 DEF OwnInv, InOrder, Owner
  <2>. QED  BY <2>1, <2>2 DEF OwnInv, Answers, Rests
<1>. QED  BY <1>1, <1>2, <1>3 DEF OwnInv

\* A step that leaves the jobs alone and takes the agent to no stage
LEMMA OwnQuiet ==
  ASSUME OwnInv, Typed', \A i \in Jobs : Rests(i), state' = state \/ state'.name # "AtStage",
         current' \in {current, 0}, off \subseteq off', off' \subseteq off \cup {current},
         off' = off \/ state'.name # "AtStage"
  PROVE  OwnInv'
<1>1. Alone'
  BY DEF OwnInv, Alone, Rests
<1>2. ASSUME NEW i \in Jobs  PROVE InOrder(i)'
  <2>1. InOrder(i) /\ Rests(i) /\ i # 0
    BY DEF OwnInv, Jobs
  <2>2. Owner(i)'
    BY <2>1 DEF InOrder, Owner, Rests, Active
  <2>3. Staged(i)'
    BY <2>1 DEF InOrder, Staged, Rests
  <2>4. Stops(i)'
    BY <2>1 DEF InOrder, Stops, Rests, Active
  <2>5. Leaving(i)'
    BY <2>1 DEF InOrder, Leaving, Rests, Active
  <2>. QED  BY <2>2, <2>3, <2>4, <2>5 DEF InOrder
<1>3. Answers'
  <2>. SUFFICES ASSUME current' # 0, state'.name = "AtStage", current' \notin off'
       PROVE  Answers'
    BY DEF Answers
  <2>1. current' = current /\ current \in Jobs /\ current \notin off /\ state' = state
    BY DEF Typed, OwnInv, Jobs
  <2>. QED  BY <2>1 DEF OwnInv, Answers, Rests
<1>. QED  BY <1>1, <1>2, <1>3 DEF OwnInv

LEMMA StateKinds ==
  ASSUME NEW s \in WorkloadState
  PROVE  /\ s = Plain(s.name) \/ (s.name = "AtStage" /\ s = AtStage(s.i, s.rdy))
         /\ s.name = "AtStage" => s.i \in 0 .. NumStages /\ s.rdy \in BOOLEAN
         /\ s.name \in {"Idle", "Completed", "Failed", "Aborting", "AtStage"}
BY DEF WorkloadState, Plain, AtStage

\* The transitions the readers, the writers and the abort RPC ask for
LEMMA Transitions ==
  ASSUME NEW s \in WorkloadState
  PROVE  /\ Moved(s, Plain("Aborting")) = Plain("Aborting")
         /\ Moved(s, Idle) = s \/ Moved(s, Idle) = Idle
         /\ Moved(s, Idle).name = "AtStage" => s.name = "AtStage" /\ ~s.rdy
         /\ Moved(Moved(s, Plain("Failed")), Idle) \in {Idle, Plain("Aborting"), Plain("Failed")}
         /\ Moved(s, Plain("Completed")) = s \/ Moved(s, Plain("Completed")) = Plain("Completed")
         /\ Moved(s, Plain("Completed")).name = "AtStage" => ~s.rdy
<1>. USE StateKinds DEF Plain, Idle, AtStage
<1>1. Moved(s, Plain("Aborting")) = Plain("Aborting")
  BY DEF Moved, Accepted, CanTransition
<1>2. Moved(s, Idle) = s \/ Moved(s, Idle) = Idle
  BY DEF Moved
<1>3. Moved(s, Idle).name = "AtStage" => s.name = "AtStage" /\ ~s.rdy
  BY DEF Moved, Accepted, CanTransition
<1>4. Moved(s, Plain("Failed")) \in {Plain("Idle"), Plain("Completed"), Plain("Aborting"), Plain("Failed")}
  BY DEF Moved, Accepted, CanTransition
<1>5. Moved(Moved(s, Plain("Failed")), Idle) = Idle
  BY <1>4 DEF Moved, Accepted, CanTransition
<1>6. Moved(s, Plain("Completed")) = s \/ Moved(s, Plain("Completed")) = Plain("Completed")
  BY DEF Moved
<1>7. Moved(s, Plain("Completed")).name = "AtStage" => ~s.rdy
  BY DEF Moved, Accepted, CanTransition
<1>. QED  BY <1>1, <1>2, <1>3, <1>5, <1>6, <1>7

\* A stage is entered only from a stage: the one before it at its barrier, the
\* preflight, or its own execution
LEMMA StageTransitions ==
  ASSUME NEW s \in WorkloadState, NEW i \in Nat, NEW r \in BOOLEAN, Accepted(s, AtStage(i, r)), i >= 1
  PROVE  s.name = "AtStage"
BY StateKinds DEF Accepted, CanTransition, AtStage, Idle, Plain

LEMMA StatesTyped ==
  /\ \A n \in {"Idle", "Completed", "Failed", "Aborting"} :
       Plain(n) \in WorkloadState /\ Plain(n).name = n
  /\ Idle \in WorkloadState /\ Idle.name = "Idle"
  /\ \A i \in 0 .. NumStages : \A r \in BOOLEAN :
       /\ AtStage(i, r) \in WorkloadState /\ AtStage(i, r).name = "AtStage"
       /\ AtStage(i, r).i = i /\ AtStage(i, r).rdy = r
<1>1. \A n \in {"Idle", "Completed", "Failed", "Aborting"} :
        Plain(n) \in WorkloadState /\ Plain(n).name = n
  <2>1. \A n \in {"Idle", "Completed", "Failed", "Aborting"} : Plain(n) \in WorkloadState
    BY DEF WorkloadState
  <2>. QED  BY <2>1 DEF Plain
<1>2. Idle \in WorkloadState /\ Idle.name = "Idle"
  BY DEF WorkloadState, Plain, Idle
<1>3. ASSUME NEW i \in 0 .. NumStages, NEW r \in BOOLEAN
      PROVE  AtStage(i, r) \in WorkloadState
  BY DEF WorkloadState
<1>4. ASSUME NEW i, NEW r
      PROVE  AtStage(i, r).name = "AtStage" /\ AtStage(i, r).i = i /\ AtStage(i, r).rdy = r
  BY DEF AtStage
<1>. QED  BY <1>1, <1>2, <1>3, <1>4

LEMMA TakeOffAdds ==
  ASSUME Typed, TakeOff
  PROVE  off \subseteq off' /\ off' \subseteq off \cup {current} /\ off' \subseteq Jobs
         /\ (current # 0 => current \in off')
BY DEF Typed, TakeOff, Jobs

LEMMA WriterOwn ==
  ASSUME LifeInv, OwnInv, NEW j \in Jobs, Writer(j)
  PROVE  OwnInv'
<1>1. \A i \in Jobs : Rests(i)
  <2>1. CASE WriterPolls(j)
    BY <2>1, FieldNames DEF WriterPolls, WriterTo, LifeInv, Shape, Rests, Live
  <2>2. CASE WriterWaits(j)
    BY <2>2, FieldNames DEF WriterWaits, WriterTo, LifeInv, Shape, Rests, Live
  <2>3. CASE WriterReports(j)
    BY <2>3, FieldNames DEF WriterReports, LifeInv, Shape, Rests, Live
  <2>4. CASE WriterFlushed(j)
    BY <2>4, FieldNames DEF WriterFlushed, WriterTo, LifeInv, Shape, Rests, Live
  <2>5. CASE WriterLeaves(j)
    BY <2>5, FieldNames DEF WriterLeaves, WriterTo, LifeInv, Shape, Rests, Live
  <2>. QED  BY <2>1, <2>2, <2>3, <2>4, <2>5 DEF Writer
<1>2. state \in WorkloadState /\ current \in 0 .. NumJobs
  BY DEF OwnInv, Typed
<1>3. /\ current' = current /\ off' = off
      /\ \/ state' = state \/ state' = Moved(state, Idle)
         \/ state' = Moved(Moved(state, Plain("Failed")), Idle)
  BY DEF Writer, WriterPolls, WriterWaits, WriterReports, WriterFlushed, WriterLeaves
<1>4. state' = state \/ (state' \in WorkloadState /\ state'.name # "AtStage")
  BY <1>2, <1>3, Transitions, StatesTyped
<1>5. Typed'
  BY <1>2, <1>3, <1>4 DEF OwnInv, Typed, WorkloadState
<1>. QED  BY <1>1, <1>3, <1>4, <1>5, OwnQuiet

LEMMA SignalRests ==
  ASSUME LifeInv, job' = Signalled(job)
  PROVE  \A i \in Jobs : Rests(i)
<1>1. \A i \in Jobs : \A f \in Fields \ {"abort_rx"} : Signalled(job)[i][f] = job[i][f]
  BY SignalTouchesFlag DEF LifeInv, Shape
<1>. QED  BY <1>1, FieldNames DEF Rests, Live

LEMMA ResetRests ==
  ASSUME LifeInv, NEW j \in Jobs, Reset(j)
  PROVE  \A i \in Jobs : Rests(i)
<1>1. /\ DOMAIN Signalled(job) = Jobs /\ \A i \in Jobs : DOMAIN Signalled(job)[i] = Fields
      /\ \A i \in Jobs : \A f \in Fields \ {"abort_rx"} : Signalled(job)[i][f] = job[i][f]
  BY SignalTouchesFlag DEF LifeInv, Shape
<1>2. job' = [Signalled(job) EXCEPT ![j].sent = Told(job[j], "ready")]
  BY DEF Reset
<1>3. \A i \in Jobs : \A f \in Fields \ {"abort_rx", "sent"} : job'[i][f] = job[i][f]
  BY <1>1, <1>2, FieldNames
<1>. QED  BY <1>3, FieldNames DEF Rests, Live

LEMMA AgentOwn ==
  ASSUME LifeInv, OwnInv, AbortWorkload \/ \E j \in Jobs : Reset(j)
  PROVE  OwnInv'
<1>1. TakeOff /\ current' \in {current, 0}
  BY DEF AbortWorkload, Reset
<1>2. state \in WorkloadState /\ current \in 0 .. NumJobs /\ Typed
  BY DEF OwnInv, Typed
<1>3. state' = Idle \/ state' = Moved(state, Plain("Aborting"))
  BY DEF AbortWorkload, Reset
<1>4. state' \in WorkloadState /\ state'.name # "AtStage"
  BY <1>2, <1>3, Transitions, StatesTyped
<1>5. off \subseteq off' /\ off' \subseteq off \cup {current} /\ off' \subseteq Jobs
  BY <1>1, <1>2, TakeOffAdds
<1>6. Typed'
  BY <1>1, <1>2, <1>4, <1>5, LifecycleAssumption DEF Typed, WorkloadState
<1>7. \A i \in Jobs : Rests(i)
  <2>1. CASE AbortWorkload
    BY <2>1, SignalRests DEF AbortWorkload
  <2>2. ASSUME NEW j \in Jobs, Reset(j)  PROVE \A i \in Jobs : Rests(i)
    BY <2>2, ResetRests
  <2>. QED  BY <2>1, <2>2
<1>. QED  BY <1>1, <1>4, <1>5, <1>6, <1>7, OwnQuiet

LEMMA TimerOwn ==
  ASSUME OwnInv,
         AbortRequested \/ DelayedReset \/ UnaryBegin \/ UnaryEnds \/ UNCHANGED vars
  PROVE  OwnInv'
<1>1. \A i \in Jobs : Rests(i)
  BY DEF AbortRequested, DelayedReset, UnaryBegin, UnaryEnds, vars, agentVars, Rests
<1>2. /\ current' = current
      /\ (state' = state /\ off' = off) \/ (state' = Idle /\ off' = off) \/ (state' = Idle /\ TakeOff)
  BY DEF AbortRequested, DelayedReset, UnaryBegin, UnaryEnds, vars, agentVars
<1>3. state \in WorkloadState /\ current \in 0 .. NumJobs /\ Typed
  BY DEF OwnInv, Typed
<1>4. state' \in WorkloadState /\ (state' = state \/ state'.name # "AtStage")
  BY <1>2, <1>3, StatesTyped
<1>5. off \subseteq off' /\ off' \subseteq off \cup {current} /\ off' \subseteq Jobs
  BY <1>2, <1>3, TakeOffAdds DEF Typed
<1>6. off' = off \/ state'.name # "AtStage"
  BY <1>2, StatesTyped
<1>7. Typed'
  BY <1>2, <1>3, <1>4, <1>5 DEF Typed, WorkloadState
<1>. QED  BY <1>1, <1>2, <1>4, <1>5, <1>6, <1>7, OwnQuiet

\* After the shutdown nothing is left
LEMMA ShutdownOwn ==
  ASSUME Shutdown
  PROVE  OwnInv'
<1>1. state' = Idle /\ current' = 0 /\ off' = {} /\ job' = [j \in Jobs |-> GoneJob]
  BY DEF Shutdown
<1>2. /\ GoneJob.workflow = "ended" /\ GoneJob.reader = "gone"
      /\ GoneJob.writer = "exit" /\ GoneJob.stage = 0
  BY DEF GoneJob, NewJob
<1>3. Typed'
  BY <1>1, StatesTyped, LifecycleAssumption DEF Typed, WorkloadState, Jobs
<1>4. Alone' /\ Answers'
  BY <1>1, <1>2 DEF Alone, Live, Active, Answers
<1>5. \A j \in Jobs : InOrder(j)'
  BY <1>1, <1>2, LifecycleAssumption DEF InOrder, Owner, Staged, Stops, Leaving, Active
<1>. QED  BY <1>3, <1>4, <1>5 DEF OwnInv

LEMMA VanishOwn ==
  ASSUME LifeInv, OwnInv, NEW j \in Jobs, Vanish(j)
  PROVE  OwnInv'
<1>1. /\ \A i \in Jobs \ {j} : Rests(i)
      /\ \A f \in Fields \ {"conn", "reported", "sent"} : job'[j][f] = job[j][f]
      /\ job'[j].conn = "closed"
  BY FieldNames DEF Vanish, LifeInv, Shape, Rests
<1>2. state' = state /\ current' = current /\ off' = off
  BY DEF Vanish
<1>3. Typed' /\ (Live(job'[j]) => Live(job[j]))
  BY <1>1, <1>2, FieldNames DEF OwnInv, Typed, Live, WorkloadState
<1>4. Owner(j)' /\ Staged(j)'
  BY <1>1, <1>2, FieldNames DEF OwnInv, InOrder, Owner, Staged, Active
<1>5. Stops(j)' /\ Leaving(j)'
  BY <1>1, <1>2, FieldNames DEF OwnInv, InOrder, Stops, Leaving, Active
<1>6. current' = j => Answers'
  BY <1>1, <1>2, FieldNames DEF OwnInv, Answers
<1>. QED  BY <1>1, <1>2, <1>3, <1>4, <1>5, <1>6, OwnStep DEF InOrder

LEMMA StreamEndsOwn ==
  ASSUME LifeInv, OwnInv, NEW j \in Jobs, StreamEnds(j)
  PROVE  OwnInv'
<1>1. /\ \A i \in Jobs \ {j} : Rests(i)
      /\ \A f \in Fields \ {"reader", "seen"} : job'[j][f] = job[j][f]
      /\ job'[j].reader = "left" /\ job'[j].seen = state
      /\ job[j].reader \in {"wait", "read"} /\ job[j].conn = "closed"
  BY FieldNames DEF StreamEnds, LifeInv, Shape, Rests
<1>2. state' = state /\ current' = current /\ off' = off
  BY DEF StreamEnds
<1>3. Typed' /\ Live(job[j])
  BY <1>1, <1>2, FieldNames DEF OwnInv, Typed, Live, WorkloadState
<1>4. Owner(j)' /\ Staged(j)'
  BY <1>1, <1>2, FieldNames DEF OwnInv, InOrder, Owner, Staged, Active
<1>5. Stops(j)'
  BY <1>1, <1>2, FieldNames DEF OwnInv, InOrder, Stops, Active
<1>6. Leaving(j)'
  BY <1>1, <1>2, FieldNames DEF OwnInv, Answers, Leaving, Jobs
<1>7. current' = j => Answers'
  BY <1>1, <1>2, FieldNames DEF OwnInv, Answers
<1>. QED  BY <1>1, <1>2, <1>3, <1>4, <1>5, <1>6, <1>7, OwnStep DEF InOrder

LEMMA ReaderReturns ==
  ASSUME LifeInv, OwnInv, NEW j \in Jobs, StartLogRefused(j) \/ StartRefused(j)
  PROVE  OwnInv'
<1>1. /\ \A i \in Jobs \ {j} : Rests(i)
      /\ \A f \in {"conn", "seen", "workflow", "stage", "barrier_rx", "writer"} :
           job'[j][f] = job[j][f]
      /\ job'[j].reader = "gone" /\ job[j].reader = "wait"
  BY FieldNames DEF StartLogRefused, StartRefused, Receives, LifeInv, Shape, Rests
<1>2. state' = state /\ off' = off /\ (current' = current \/ (state = Idle /\ current' = j))
  BY StatesTyped DEF StartLogRefused, StartRefused, Moved, Accepted, CanTransition, Plain, Idle
<1>3. job[j].workflow = "none" /\ Live(job[j])
  BY <1>1 DEF LifeInv, Results, Result, Live
<1>4. Typed' /\ (Live(job'[j]) => Live(job[j]))
  BY <1>2, <1>3 DEF OwnInv, Typed, WorkloadState, Jobs
<1>5. Owner(j)' /\ Staged(j)' /\ Stops(j)' /\ Leaving(j)'
  BY <1>1, <1>2, <1>3, FieldNames DEF OwnInv, InOrder, Owner, Staged, Stops, Leaving, Active
<1>6. current' = j => Answers'
  <2>1. current' = j => state' = Idle
    BY <1>1, <1>2 DEF OwnInv, InOrder, Owner
  <2>. QED  BY <2>1, StatesTyped DEF Answers
<1>. QED  BY <1>1, <1>2, <1>3, <1>4, <1>5, <1>6, OwnStep DEF InOrder

LEMMA AbortFlushedOwn ==
  ASSUME LifeInv, OwnInv, NEW j \in Jobs, AbortFlushed(j)
  PROVE  OwnInv'
<1>1. /\ \A i \in Jobs \ {j} : Rests(i)
      /\ \A f \in Fields \ {"reader"} : job'[j][f] = job[j][f]
      /\ job'[j].reader = "read" /\ job[j].reader = "flush"
  BY FieldNames DEF AbortFlushed, LifeInv, Shape, Rests
<1>2. state' = Moved(state, Idle) /\ current' = current /\ off' = off /\ Typed
  BY DEF AbortFlushed, OwnInv
<1>3. state' \in WorkloadState /\ (state' = state \/ state'.name # "AtStage")
  BY <1>2, Transitions, StatesTyped DEF Typed
<1>4. Typed' /\ Live(job[j])
  BY <1>1, <1>2, <1>3 DEF Typed, Live, WorkloadState
<1>5. Owner(j)' /\ Staged(j)'
  BY <1>1, <1>2, FieldNames DEF OwnInv, InOrder, Owner, Staged, Active
<1>6. Stops(j)' /\ Leaving(j)'
  BY <1>1, <1>2, <1>3, FieldNames DEF OwnInv, InOrder, Stops, Leaving, Active
<1>7. current' = j => Answers'
  BY <1>1, <1>2, <1>3, FieldNames DEF OwnInv, Answers
<1>. QED  BY <1>1, <1>2, <1>3, <1>4, <1>5, <1>6, <1>7, OwnStep DEF InOrder

LEMMA AbortCommandOwn ==
  ASSUME LifeInv, OwnInv, NEW j \in Jobs, AbortCommand(j)
  PROVE  OwnInv'
<1>1. /\ \A i \in Jobs \ {j} : Rests(i)
      /\ \A f \in Fields \ {"reader", "sent", "abort_rx"} : job'[j][f] = job[j][f]
      /\ job'[j].reader = "flush" /\ job[j].reader = "read"
  <2>1. /\ DOMAIN Signalled(job) = Jobs /\ \A i \in Jobs : DOMAIN Signalled(job)[i] = Fields
        /\ \A i \in Jobs : \A f \in Fields \ {"abort_rx"} : Signalled(job)[i][f] = job[i][f]
    BY SignalTouchesFlag DEF LifeInv, Shape
  <2>2. /\ job[j].reader = "read"
        /\ job' = [Signalled(job) EXCEPT ![j].reader = "flush", ![j].sent = Told(job[j], "aborted")]
    BY DEF AbortCommand, Receives
  <2>3. \A i \in Jobs \ {j} : job'[i] = Signalled(job)[i]
    BY <2>1, <2>2
  <2>4. \A i \in Jobs \ {j} : Rests(i)
    BY <2>1, <2>3, FieldNames DEF Rests, Live
  <2>. QED  BY <2>1, <2>2, <2>4, FieldNames
<1>2. state' = Plain("Aborting") /\ current' = current /\ TakeOff /\ Typed
  BY Transitions DEF AbortCommand, OwnInv, Typed
<1>3. state' \in WorkloadState /\ state'.name # "AtStage"
  BY <1>2, StatesTyped
<1>4. off \subseteq off' /\ off' \subseteq off \cup {current} /\ off' \subseteq Jobs
  BY <1>2, TakeOffAdds
<1>5. Typed' /\ Live(job[j])
  BY <1>1, <1>2, <1>3, <1>4 DEF Typed, Live, WorkloadState
<1>6. Owner(j)' /\ Staged(j)'
  BY <1>1, <1>2, FieldNames DEF OwnInv, InOrder, Owner, Staged, Active
<1>7. Stops(j)' /\ Leaving(j)' /\ Answers'
  BY <1>1, <1>3, FieldNames DEF Stops, Leaving, Answers
<1>. QED  BY <1>1, <1>2, <1>3, <1>4, <1>5, <1>6, <1>7, OwnStep DEF InOrder

LEMMA GoodbyeOwn ==
  ASSUME LifeInv, OwnInv, NEW j \in Jobs, Goodbye(j)
  PROVE  OwnInv'
<1>1. /\ \A i \in Jobs \ {j} : Rests(i)
      /\ \A f \in Fields \ {"reader", "conn", "seen", "reported"} : job'[j][f] = job[j][f]
      /\ job'[j].reader = "left" /\ job[j].reader = "read" /\ job'[j].conn = "closed"
  BY FieldNames DEF Goodbye, Receives, LifeInv, Shape, Rests
<1>2. state' = Moved(state, Idle) /\ current' = current /\ off' = off /\ Typed
  BY DEF Goodbye, OwnInv
<1>3. state' \in WorkloadState /\ (state' = state \/ state'.name # "AtStage")
  BY <1>2, Transitions, StatesTyped DEF Typed
<1>4. job[j].workflow = "ended"
  BY DEF Goodbye, LifeInv, Results, Result, Active
<1>5. Typed' /\ Live(job[j])
  BY <1>1, <1>2, <1>3 DEF Typed, Live, WorkloadState
<1>6. Owner(j)' /\ Staged(j)' /\ Stops(j)' /\ Leaving(j)'
  BY <1>1, <1>2, <1>4, FieldNames DEF OwnInv, InOrder, Owner, Staged, Stops, Leaving, Active
<1>7. current' = j => Answers'
  BY <1>1, <1>2, <1>3, <1>4, FieldNames DEF OwnInv, Answers
<1>. QED  BY <1>1, <1>2, <1>3, <1>5, <1>6, <1>7, OwnStep DEF InOrder

LEMMA ReaderCleansUpOwn ==
  ASSUME LifeInv, OwnInv, NEW j \in Jobs, ReaderCleansUp(j)
  PROVE  OwnInv'
<1>. DEFINE left == [job EXCEPT ![j].reader = "gone", ![j].seen = Idle]
<1>1. DOMAIN left = Jobs /\ \A i \in Jobs : DOMAIN left[i] = Fields
  BY DEF LifeInv, Shape
<1>2. job' = left \/ job' = Signalled(left)
  BY DEF ReaderCleansUp
<1>3. \A i \in Jobs : \A f \in Fields \ {"abort_rx"} : job'[i][f] = left[i][f]
  <2>. HIDE DEF left
  <2>1. \A i \in Jobs : \A f \in Fields \ {"abort_rx"} : Signalled(left)[i][f] = left[i][f]
    BY <1>1, SignalTouchesFlag
  <2>. QED  BY <1>2, <2>1
<1>4. /\ \A i \in Jobs \ {j} : Rests(i)
      /\ \A f \in Fields \ {"reader", "abort_rx", "seen"} : job'[j][f] = job[j][f]
      /\ job'[j].reader = "gone" /\ job[j].reader = "left"
  BY <1>3, FieldNames DEF ReaderCleansUp, LifeInv, Shape, Rests, Live
<1>5. current' = current /\ Typed /\ InOrder(j) /\ Answers
  BY DEF ReaderCleansUp, OwnInv
<1>6. /\ (off' = off /\ state' = state /\ job[j].seen.name # "AtStage")
         \/ (TakeOff /\ \/ state' = Moved(state, Idle) /\ job[j].seen.name = "AtStage" /\ job[j].seen.rdy
                        \/ state' = Moved(Moved(state, Plain("Failed")), Idle))
  BY DEF ReaderCleansUp
<1>7. off \subseteq off' /\ off' \subseteq off \cup {current} /\ off' \subseteq Jobs
  BY <1>5, <1>6, TakeOffAdds DEF Typed
<1>8. state' \in WorkloadState /\ (state' = state \/ state'.name # "AtStage")
  BY <1>5, <1>6, Transitions, StatesTyped DEF Typed
<1>9. Typed' /\ Live(job[j])
  BY <1>4, <1>5, <1>7, <1>8 DEF Typed, Live, WorkloadState
<1>10. Owner(j)' /\ Staged(j)' /\ Leaving(j)'
  BY <1>4, <1>5, FieldNames DEF InOrder, Owner, Staged, Leaving, Active
<1>11. current' = j => Answers'
  <2>1. CASE TakeOff
    BY <1>5, <2>1, TakeOffAdds DEF Answers
  <2>2. CASE off' = off /\ state' = state /\ job[j].seen.name # "AtStage"
    BY <1>4, <1>5, <2>2, FieldNames DEF Answers
  <2>. QED  BY <1>6, <2>1, <2>2
<1>12. Stops(j)'
  <2>. SUFFICES ASSUME j \in off', job[j].workflow \in Active, state'.name = "AtStage"
       PROVE  /\ job[j].conn = "closed"
              /\ job[j].workflow \in {"exec", "wait"}
              /\ job[j].workflow = "wait" => job[j].barrier_rx = <<>>
    BY <1>4, FieldNames DEF Stops, Active
  <2>1. state' = state /\ j \notin off
    BY <1>4, <1>5, <1>8 DEF InOrder, Stops
  <2>2. /\ state.name = "AtStage" /\ ~state.rdy
        /\ current = j /\ job[j].seen.name = "AtStage" /\ job[j].seen.rdy
    BY <1>5, <1>6, <1>7, <2>1, Transitions, StatesTyped DEF Typed
  <2>3. job[j].stage >= 1 /\ job[j].conn = "closed"
    BY <1>4, <1>5, <2>1, <2>2 DEF InOrder, Leaving
  <2>4. job[j].workflow = "exec"
    BY <1>5, <2>1, <2>2, <2>3 DEF Answers, InOrder, Staged, Active, Jobs
  <2>. QED  BY <2>3, <2>4
<1>. QED  BY <1>4, <1>5, <1>7, <1>8, <1>9, <1>10, <1>11, <1>12, OwnStep DEF InOrder

LEMMA ReleaseBarrierOwn ==
  ASSUME LifeInv, OwnInv, NEW j \in Jobs, ReleaseBarrier(j)
  PROVE  OwnInv'
<1>0. PICK k \in job[j].reported :
        job' = [w \in Jobs |->
           [job[w] EXCEPT !.reported = IF w = j THEN @ \ {k} ELSE @,
                          !.barrier_rx = IF job[w].workflow = "wait" THEN Append(@, k) ELSE @]]
  BY DEF ReleaseBarrier
<1>1. \A i \in Jobs : /\ \A f \in Fields \ {"reported", "barrier_rx"} : job'[i][f] = job[i][f]
                      /\ job[i].workflow # "wait" => job'[i].barrier_rx = job[i].barrier_rx
  BY <1>0, FieldNames DEF LifeInv, Shape
<1>2. job[j].reader = "read" /\ Live(job[j])
  BY DEF ReleaseBarrier, Receives, Live
<1>3. ASSUME NEW i \in Jobs \ {j}  PROVE Rests(i)
  <2>1. job[i].workflow # "wait"
    BY <1>2 DEF OwnInv, Alone, Live, Active
  <2>. QED  BY <1>1, <2>1, FieldNames DEF Rests, Live
<1>4. state' = state /\ current' = current /\ off' = off
  BY DEF ReleaseBarrier
<1>5. Typed' /\ (Live(job'[j]) => Live(job[j]))
  BY <1>2, <1>4 DEF OwnInv, Typed, WorkloadState
<1>6. Owner(j)' /\ Staged(j)' /\ Leaving(j)'
  BY <1>1, <1>4, FieldNames DEF OwnInv, InOrder, Owner, Staged, Leaving, Active
<1>7. Stops(j)'
  BY <1>1, <1>2, <1>4, FieldNames DEF OwnInv, InOrder, Stops, Active
<1>8. current' = j => Answers'
  BY <1>1, <1>4, FieldNames DEF OwnInv, Answers
<1>. QED  BY <1>3, <1>4, <1>5, <1>6, <1>7, <1>8, OwnStep DEF InOrder

LEMMA StartOwn ==
  ASSUME LifeInv, OwnInv, NEW j \in Jobs, Start(j)
  PROVE  OwnInv'
<1>1. /\ \A i \in Jobs \ {j} : Rests(i)
      /\ \A f \in Fields \ {"reader", "workflow", "log"} : job'[j][f] = job[j][f]
      /\ job'[j].reader = "read" /\ job'[j].workflow = "spawned" /\ job[j].reader = "wait"
  <2>1. PICK log \in Logs \cup {NoLog} :
          job' = [job EXCEPT ![j].reader = "read", ![j].workflow = "spawned", ![j].log = log]
    BY DEF Start
  <2>. QED  BY <2>1, FieldNames DEF Start, Receives, LifeInv, Shape, Rests
<1>2. state' = AtStage(0, FALSE) /\ current' = j /\ off' = off
  BY DEF Start
<1>3. /\ state' \in WorkloadState /\ state'.name = "AtStage"
      /\ state'.i = 0 /\ state'.rdy = FALSE
  <2>1. 0 \in 0 .. NumStages /\ FALSE \in BOOLEAN
    BY LifecycleAssumption
  <2>. QED  BY <1>2, <2>1, StatesTyped
<1>4. j \notin off /\ Live(job[j]) /\ job[j].workflow = "none"
  BY <1>1 DEF OwnInv, InOrder, Owner, Live, LifeInv, Results, Result
<1>5. Typed'
  <2>1. j \in 0 .. NumJobs /\ off \subseteq Jobs
    BY DEF OwnInv, Typed, Jobs
  <2>2. state' \in WorkloadState /\ current' \in 0 .. NumJobs /\ off' \subseteq Jobs
    BY <1>2, <1>3, <2>1
  <2>. QED  BY <2>2 DEF Typed, WorkloadState, Jobs
<1>6. job[j].stage = 0
  BY <1>1 DEF LifeInv, Results, Result
<1>7. Owner(j)' /\ Stops(j)' /\ Leaving(j)'
  BY <1>1, <1>2, <1>4 DEF Owner, Stops, Leaving, Active
<1>9. Staged(j)'
  BY <1>1, <1>6, FieldNames, LifecycleAssumption DEF Staged
<1>8. Answers'
  BY <1>1, <1>2, <1>3, <1>6, FieldNames DEF Answers
<1>. QED  BY <1>1, <1>2, <1>4, <1>5, <1>7, <1>8, <1>9, OwnStep DEF InOrder

\* A stream opens only when everything before has come to rest
LEMMA ConnectOwn ==
  ASSUME LifeInv, OwnInv, NEW j \in Jobs, Connect(j), "overlap" \notin Adversity
  PROVE  OwnInv'
<1>1. job' = [i \in Jobs |->
        IF i = j THEN [NewJob EXCEPT !.conn = "open", !.reader = "wait", !.writer = "poll"]
        ELSE IF Settled /\ i < j THEN GoneJob ELSE job[i]]
  BY DEF Connect
<1>2. /\ job'[j].reader = "wait" /\ job'[j].workflow = "none" /\ job'[j].stage = 0
  BY <1>1 DEF NewJob
<1>3. ASSUME NEW i \in Jobs  PROVE ~Live(job[i])
  BY DEF Connect, Settled, Live, Active
<1>4. GoneJob.workflow = "ended" /\ GoneJob.reader = "gone" /\ GoneJob.writer = "exit" /\ GoneJob.stage = 0
  BY DEF GoneJob, NewJob
<1>5. ASSUME NEW i \in Jobs \ {j}  PROVE job'[i] = job[i] \/ job'[i] = GoneJob
  BY <1>1
<1>6. ASSUME NEW i \in Jobs \ {j}  PROVE ~Live(job'[i])
  BY <1>3, <1>4, <1>5 DEF Live, Active
<1>7. Alone'
  BY <1>6 DEF Alone
<1>8. state' = state /\ current' = current /\ off' = off
  BY DEF Connect
<1>9. Typed'
  BY <1>8 DEF OwnInv, Typed, WorkloadState
<1>10. job[j].reader = "none"
  BY DEF Connect, LifeInv, Results, Result
<1>11. InOrder(j)'
  BY <1>2, <1>8, <1>10, LifecycleAssumption
     DEF OwnInv, InOrder, Owner, Staged, Stops, Leaving, Active
<1>12. ASSUME NEW i \in Jobs \ {j}  PROVE InOrder(i)'
  <2>1. CASE job'[i] = job[i]
    BY <1>8, <2>1 DEF OwnInv, InOrder, Owner, Staged, Stops, Leaving, Active
  <2>2. CASE job'[i] = GoneJob
    BY <1>4, <2>2, LifecycleAssumption DEF InOrder, Owner, Staged, Stops, Leaving, Active
  <2>. QED  BY <1>5, <2>1, <2>2
<1>13. Answers'
  <2>. SUFFICES ASSUME state.name = "AtStage", current # 0, current \notin off  PROVE FALSE
    BY <1>8 DEF Answers
  <2>1. current \in Jobs /\ job[current].reader \in {"read", "left"}
    BY DEF OwnInv, Typed, Answers, Jobs
  <2>. QED  BY <1>3, <2>1 DEF Live
<1>. QED  BY <1>7, <1>9, <1>11, <1>12, <1>13 DEF OwnInv

LEMMA SubscribeAbortOwn ==
  ASSUME LifeInv, OwnInv, NEW j \in Jobs, SubscribeAbort(j)
  PROVE  OwnInv'
<1>1. /\ \A i \in Jobs \ {j} : Rests(i)
      /\ \A f \in Fields \ {"workflow"} : job'[j][f] = job[j][f]
      /\ job[j].workflow = "spawned"
      /\ job'[j].workflow \in {"next", "failed"}
  BY FieldNames DEF SubscribeAbort, LifeInv, Shape, Rests
<1>2. state' = state /\ current' = current /\ off' = off
  BY DEF SubscribeAbort
<1>3. Typed' /\ Live(job[j]) /\ job[j].stage = 0
  BY <1>1, <1>2 DEF OwnInv, Typed, Live, Active, WorkloadState, InOrder, Staged
<1>4. Owner(j)' /\ Staged(j)' /\ Leaving(j)'
  BY <1>1, <1>2, FieldNames DEF OwnInv, InOrder, Owner, Staged, Leaving, Active
<1>5. Stops(j)'
  BY <1>1, <1>2, FieldNames DEF OwnInv, InOrder, Stops, Active
<1>6. current' = j => Answers'
  BY <1>1, <1>2, <1>3, FieldNames DEF OwnInv, Answers
<1>. QED  BY <1>1, <1>2, <1>3, <1>4, <1>5, <1>6, OwnStep DEF InOrder

\* The workflow of j returns and the agent enters no stage
LEMMA ReturnOwn ==
  ASSUME LifeInv, OwnInv, NEW j \in Jobs, NEW r \in {"ok", "err"}, Return(j, r),
         job[j].workflow \in Active, Typed', current' = current, off' = off,
         state' = state \/ state'.name # "AtStage",
         r = "ok" /\ current' = j => Answers'
  PROVE  OwnInv'
<1>1. /\ \A i \in Jobs \ {j} : Rests(i)
      /\ \A f \in {"conn", "reader", "seen", "stage", "writer"} : job'[j][f] = job[j][f]
      /\ job'[j].workflow = IF r = "ok" THEN "ended" ELSE "failed"
  BY FieldNames DEF Return, LifeInv, Shape, Rests
<1>2. Live(job[j])
  BY DEF Live
<1>3. Owner(j)' /\ Staged(j)' /\ Stops(j)' /\ Leaving(j)'
  BY <1>1, FieldNames DEF OwnInv, InOrder, Owner, Staged, Stops, Leaving, Active
<1>4. current' = j => Answers'
  BY <1>1, FieldNames DEF OwnInv, Answers
<1>. QED  BY <1>1, <1>2, <1>3, <1>4, OwnStep DEF InOrder

LEMMA AllStagesDoneOwn ==
  ASSUME LifeInv, OwnInv, NEW j \in Jobs, AllStagesDone(j)
  PROVE  OwnInv'
<1>1. /\ Return(j, "ok") /\ job[j].workflow = "next" /\ job[j].stage = NumStages
      /\ state' = Moved(state, Plain("Completed")) /\ current' = current /\ off' = off
  BY DEF AllStagesDone
<1>2. /\ state' = state \/ state' = Plain("Completed")
      /\ state'.name = "AtStage" => ~state.rdy
  BY <1>1, Transitions DEF OwnInv, Typed
<1>3. state' \in WorkloadState /\ (state' = state \/ state'.name # "AtStage")
  BY <1>2, StatesTyped DEF OwnInv, Typed
<1>4. Typed'
  BY <1>1, <1>3 DEF OwnInv, Typed, WorkloadState
<1>5. current' = j => Answers'
  <2>. SUFFICES ASSUME current = j, state'.name = "AtStage", j \notin off, j # 0  PROVE FALSE
    BY <1>1 DEF Answers
  <2>1. state' = state /\ ~state.rdy
    BY <1>2, <1>3
  <2>. QED  BY <1>1, <2>1, LifecycleAssumption DEF OwnInv, Answers
<1>. QED  BY <1>1, <1>3, <1>4, <1>5, ReturnOwn DEF Active

LEMMA StageFailsOwn ==
  ASSUME LifeInv, OwnInv, NEW j \in Jobs, StageFails(j)
  PROVE  OwnInv'
<1>1. /\ Return(j, "err") /\ job[j].workflow = "exec"
      /\ state' = state /\ current' = current /\ off' = off
  BY DEF StageFails
<1>2. Typed'
  BY <1>1 DEF OwnInv, Typed, WorkloadState
<1>. QED  BY <1>1, <1>2, ReturnOwn DEF Active

LEMMA NextStageOwn ==
  ASSUME LifeInv, OwnInv, NEW j \in Jobs, NextStage(j)
  PROVE  OwnInv'
<1>1. /\ job[j].workflow = "next" /\ job[j].stage < NumStages /\ job[j].stage \in 0 .. NumStages
      /\ current' = current /\ off' = off
  BY DEF NextStage, OwnInv, InOrder, Staged
<1>2. CASE Return(j, "err") /\ state' = state
  <2>1. Typed'
    BY <1>1, <1>2 DEF OwnInv, Typed, WorkloadState
  <2>. QED  BY <1>1, <1>2, <2>1, ReturnOwn DEF Active
<1>3. CASE /\ Accepted(state, AtStage(job[j].stage + 1, FALSE))
           /\ state' = AtStage(job[j].stage + 1, FALSE)
           /\ job' = [job EXCEPT ![j].stage = @ + 1, ![j].workflow = "exec"]
  <2>1. /\ \A i \in Jobs \ {j} : Rests(i)
        /\ \A f \in Fields \ {"workflow", "stage"} : job'[j][f] = job[j][f]
        /\ job'[j].workflow = "exec" /\ job'[j].stage = job[j].stage + 1
    BY <1>3, FieldNames DEF LifeInv, Shape, Rests
  <2>2. job[j].stage + 1 \in 0 .. NumStages /\ job[j].stage + 1 >= 1
        /\ FALSE \in BOOLEAN /\ job[j].stage + 1 \in Nat
    BY <1>1, LifecycleAssumption
  <2>3. state.name = "AtStage"
    BY <1>3, <2>2, StageTransitions DEF OwnInv, Typed
  <2>4. /\ state' \in WorkloadState /\ state'.name = "AtStage"
        /\ state'.i = job[j].stage + 1 /\ state'.rdy = FALSE
    BY <1>3, <2>2, StatesTyped
  <2>5. Typed'
    <3>1. state' \in WorkloadState /\ current' \in 0 .. NumJobs /\ off' \subseteq Jobs
      BY <1>1, <2>4 DEF OwnInv, Typed
    <3>. QED  BY <3>1 DEF Typed, WorkloadState, Jobs
  <2>6. j \notin off
    BY <1>1, <2>3 DEF OwnInv, InOrder, Stops, Active
  <2>7. Live(job[j]) /\ current \in {j, 0}
    BY <1>1 DEF Live, Active, OwnInv, InOrder, Owner
  <2>8. Owner(j)' /\ Stops(j)'
    BY <1>1, <2>1, <2>6, <2>7, FieldNames DEF OwnInv, InOrder, Owner, Stops, Active
  <2>9. Staged(j)' /\ Leaving(j)'
    BY <1>1, <2>1, <2>2, FieldNames DEF OwnInv, InOrder, Staged, Leaving
  <2>10. current' = j => Answers'
    BY <1>1, <2>1, <2>3, <2>4, <2>6, FieldNames DEF OwnInv, Answers
  <2>. QED  BY <1>1, <2>1, <2>5, <2>7, <2>8, <2>9, <2>10, OwnStep DEF InOrder, Active
<1>. QED  BY <1>2, <1>3 DEF NextStage

LEMMA StageDoneOwn ==
  ASSUME LifeInv, OwnInv, NEW j \in Jobs, StageDone(j)
  PROVE  OwnInv'
<1>1. /\ job[j].workflow = "exec" /\ job[j].stage >= 1 /\ job[j].stage \in 0 .. NumStages
      /\ current' = current /\ off' = off
  BY DEF StageDone, OwnInv, InOrder, Staged
<1>2. CASE Return(j, "err") /\ state' = state
  <2>1. Typed'
    BY <1>1, <1>2 DEF OwnInv, Typed, WorkloadState
  <2>. QED  BY <1>1, <1>2, <2>1, ReturnOwn DEF Active
<1>3. CASE /\ Accepted(state, AtStage(job[j].stage, TRUE))
           /\ state' = AtStage(job[j].stage, TRUE)
           /\ job' = [job EXCEPT ![j].workflow = "wait", ![j].barrier_rx = <<>>,
                                 ![j].timeouts = 0, ![j].reported = Reported(job[j])]
  <2>1. /\ \A i \in Jobs \ {j} : Rests(i)
        /\ \A f \in {"conn", "reader", "seen", "stage"} : job'[j][f] = job[j][f]
        /\ job'[j].workflow = "wait" /\ job'[j].barrier_rx = <<>>
    BY <1>3, FieldNames DEF LifeInv, Shape, Rests
  <2>2. TRUE \in BOOLEAN /\ job[j].stage \in Nat
    BY <1>1, LifecycleAssumption
  <2>3. state.name = "AtStage"
    BY <1>1, <1>3, <2>2, StageTransitions DEF OwnInv, Typed
  <2>4. /\ state' \in WorkloadState /\ state'.name = "AtStage"
        /\ state'.i = job[j].stage /\ state'.rdy = TRUE
    BY <1>1, <1>3, <2>2, StatesTyped
  <2>5. Typed'
    <3>1. state' \in WorkloadState /\ current' \in 0 .. NumJobs /\ off' \subseteq Jobs
      BY <1>1, <2>4 DEF OwnInv, Typed
    <3>. QED  BY <3>1 DEF Typed, WorkloadState, Jobs
  <2>6. Live(job[j]) /\ current \in {j, 0}
    BY <1>1 DEF Live, Active, OwnInv, InOrder, Owner
  <2>7. Owner(j)' /\ Staged(j)'
    BY <1>1, <2>1, <2>6 DEF OwnInv, InOrder, Owner, Staged, Active
  <2>8. Stops(j)'
    BY <1>1, <2>1, <2>3 DEF OwnInv, InOrder, Stops, Active
  <2>9. Leaving(j)'
    BY <1>1, <2>1 DEF OwnInv, InOrder, Leaving
  <2>10. current' = j => Answers'
    BY <1>1, <2>1, <2>3, <2>4 DEF OwnInv, Answers
  <2>. QED  BY <1>1, <2>1, <2>5, <2>6, <2>7, <2>8, <2>9, <2>10, OwnStep DEF InOrder, Active
<1>. QED  BY <1>2, <1>3 DEF StageDone

LEMMA AwaitReleaseOwn ==
  ASSUME LifeInv, OwnInv, NEW j \in Jobs, AwaitRelease(j)
  PROVE  OwnInv'
<1>1. job[j].workflow = "wait" /\ state' = state /\ current' = current /\ off' = off
  BY DEF AwaitRelease
<1>2. Typed'
  BY <1>1 DEF OwnInv, Typed, WorkloadState
<1>3. CASE Return(j, "err")
  BY <1>1, <1>2, <1>3, ReturnOwn DEF Active
<1>4. CASE ~Return(j, "err")
  <2>1. /\ \A i \in Jobs \ {j} : Rests(i)
        /\ \A f \in {"conn", "reader", "seen", "stage"} : job'[j][f] = job[j][f]
        /\ job'[j].workflow \in {"wait", "next"}
        /\ job[j].barrier_rx = <<>> => job'[j].workflow = "wait" /\ job'[j].barrier_rx = <<>>
    BY <1>4, FieldNames DEF AwaitRelease, LifeInv, Shape, Rests
  <2>2. Live(job[j])
    BY <1>1 DEF Live, Active
  <2>3. Owner(j)' /\ Staged(j)' /\ Leaving(j)'
    BY <1>1, <2>1 DEF OwnInv, InOrder, Owner, Staged, Leaving, Active
  <2>4. Stops(j)'
    BY <1>1, <2>1 DEF OwnInv, InOrder, Stops, Active
  <2>5. current' = j => Answers'
    BY <1>1, <2>1 DEF OwnInv, Answers
  <2>. QED  BY <1>1, <1>2, <2>1, <2>2, <2>3, <2>4, <2>5, OwnStep DEF InOrder
<1>. QED  BY <1>3, <1>4

\* OwnInv is kept by every step but a SYNC_STATE while jobs do not overlap.
LEMMA OwnNext ==
  ASSUME "overlap" \notin Adversity, LifeInv, OwnInv, AgentStep \/ UNCHANGED vars
  PROVE  OwnInv'
<1>1. CASE UNCHANGED vars
  BY <1>1, TimerOwn
<1>2. CASE \E j \in Jobs :
             \/ Connect(j) \/ Start(j) \/ StartLogRefused(j) \/ StartRefused(j)
             \/ ReleaseBarrier(j) \/ AbortCommand(j) \/ Reset(j) \/ Goodbye(j) \/ Vanish(j)
  <2>. PICK j \in Jobs : \/ Connect(j) \/ Start(j) \/ StartLogRefused(j) \/ StartRefused(j)
                         \/ ReleaseBarrier(j) \/ AbortCommand(j) \/ Reset(j) \/ Goodbye(j)
                         \/ Vanish(j)
    BY <1>2
  <2>. QED  BY ConnectOwn, StartOwn, ReaderReturns, ReleaseBarrierOwn, AbortCommandOwn,
               AgentOwn, GoodbyeOwn, VanishOwn
<1>3. CASE \E j \in Jobs : Reader(j) \/ Workflow(j) \/ StageFails(j) \/ Writer(j)
  <2>. PICK j \in Jobs : Reader(j) \/ Workflow(j) \/ StageFails(j) \/ Writer(j)
    BY <1>3
  <2>1. CASE Reader(j)
    BY <2>1, StreamEndsOwn, ReaderCleansUpOwn, AbortFlushedOwn DEF Reader
  <2>2. CASE Workflow(j)
    BY <2>2, SubscribeAbortOwn, NextStageOwn, StageDoneOwn, AwaitReleaseOwn, AllStagesDoneOwn
       DEF Workflow
  <2>. QED  BY <2>1, <2>2, StageFailsOwn, WriterOwn
<1>4. CASE AbortRequested \/ DelayedReset \/ UnaryBegin \/ UnaryEnds
  BY <1>4, TimerOwn
<1>5. CASE AbortWorkload
  BY <1>5, AgentOwn
<1>6. CASE Shutdown
  BY <1>6, ShutdownOwn
<1>. QED  BY <1>1, <1>2, <1>3, <1>4, <1>5, <1>6 DEF AgentStep

LEMMA CoreInit == LifecycleInit => CoreInv
<1>. SUFFICES ASSUME LifecycleInit  PROVE CoreInv
  OBVIOUS
<1>1. Typed /\ Alone /\ \A j \in Jobs : Owner(j) /\ Staged(j)
  BY OwnInit DEF OwnInv, InOrder
<1>2. \A j \in Jobs : Kept(j) /\ Ending(j)
  BY DEF LifecycleInit, Kept, Ending, NewJob, Active
<1>. QED  BY <1>1, <1>2 DEF CoreInv, Core

\* Job i keeps what CoreInv reads of it
Stands(i) == \A f \in {"conn", "reader", "workflow", "stage", "writer"} : job'[i][f] = job[i][f]

\* A step on behalf of job j
LEMMA CoreStep ==
  ASSUME CoreInv, Typed', NEW j \in Jobs, \A i \in Jobs \ {j} : Stands(i),
         Live(job'[j]) => Live(job[j]),
         current' \in {current, 0} \/ (current' = j /\ Live(job[j])),
         off \subseteq off', off' \subseteq off \cup {current},
         state.name = "AtStage" =>
           state'.name = "AtStage" \/ current \in off' \/ current' = 0 \/ Live(job[j]),
         Core(j)'
  PROVE  CoreInv'
<1>1. Alone'
  BY DEF CoreInv, Alone, Stands, Live
<1>2. ASSUME NEW i \in Jobs \ {j}  PROVE Core(i)'
  <2>1. Core(i) /\ Stands(i) /\ i # 0
    BY DEF CoreInv, Jobs
  <2>2. Live(job[j]) => ~Live(job[i])
    BY DEF CoreInv, Alone
  <2>3. Owner(i)'
    BY <2>1, <2>2 DEF Core, Owner, Stands, Live, Active
  <2>4. Staged(i)'
    BY <2>1 DEF Core, Staged, Stands
  <2>5. Kept(i)'
    BY <2>1, <2>2 DEF Core, Kept, Stands, Live, Active
  <2>6. Ending(i)'
    BY <2>1, <2>2 DEF Core, Ending, Stands, Live, Active
  <2>. QED  BY <2>3, <2>4, <2>5, <2>6 DEF Core
<1>. QED  BY <1>1, <1>2 DEF CoreInv

\* A step that leaves the tasks of every job where they are
LEMMA CoreQuiet ==
  ASSUME CoreInv, Typed', \A i \in Jobs : Stands(i), current' \in {current, 0},
         off \subseteq off', off' \subseteq off \cup {current},
         state.name = "AtStage" => state'.name = "AtStage" \/ current \in off' \cup {0}
  PROVE  CoreInv'
<1>1. Alone'
  BY DEF CoreInv, Alone, Stands, Live
<1>2. ASSUME NEW i \in Jobs  PROVE Core(i)'
  <2>1. Core(i) /\ Stands(i) /\ i # 0
    BY DEF CoreInv, Jobs
  <2>2. Owner(i)' /\ Staged(i)'
    BY <2>1 DEF Core, Owner, Staged, Stands, Active
  <2>3. Kept(i)' /\ Ending(i)'
    BY <2>1 DEF Core, Kept, Ending, Stands, Active
  <2>. QED  BY <2>2, <2>3 DEF Core
<1>. QED  BY <1>1, <1>2 DEF CoreInv

\* A step of one task of job j that leaves the agent's state alone
LEMMA CoreTask ==
  ASSUME CoreInv, NEW j \in Jobs, UNCHANGED <<state, current, off>>,
         \A i \in Jobs \ {j} : Stands(i), Live(job'[j]) => Live(job[j]),
         job'[j].reader \in {"none", "wait", "flush"} => job'[j].reader = job[j].reader,
         job'[j].workflow \in Active => job[j].workflow \in Active,
         Staged(j)', Ending(j)'
  PROVE  CoreInv'
<1>1. Typed'
  BY DEF CoreInv, Typed, WorkloadState
<1>2. Owner(j)' /\ Kept(j)'
  BY DEF CoreInv, Core, Owner, Kept
<1>. QED  BY <1>1, <1>2, CoreStep DEF Core

LEMMA StreamCore ==
  ASSUME LifeInv, CoreInv, NEW j \in Jobs, Vanish(j) \/ StreamEnds(j)
  PROVE  CoreInv'
<1>1. /\ \A i \in Jobs \ {j} : Stands(i)
      /\ \A f \in {"workflow", "stage", "writer"} : job'[j][f] = job[j][f]
      /\ \/ job'[j].reader = job[j].reader /\ job'[j].conn = "closed"
         \/ /\ job'[j].reader = "left" /\ job'[j].conn = job[j].conn
            /\ job[j].reader \in {"wait", "read"} /\ job[j].conn = "closed"
  BY FieldNames DEF Vanish, StreamEnds, LifeInv, Shape, Stands
<1>2. UNCHANGED <<state, current, off>>
  BY DEF Vanish, StreamEnds
<1>3. Staged(j)' /\ Ending(j)' /\ (Live(job'[j]) => Live(job[j]))
  BY <1>1, <1>2 DEF CoreInv, Core, Staged, Ending, Live, Active
<1>. QED  BY <1>1, <1>2, <1>3, CoreTask

\* A step of the workflow that leaves the agent's state alone
LEMMA WorkflowCore ==
  ASSUME LifeInv, CoreInv, NEW j \in Jobs, UNCHANGED <<state, current, off>>,
         \/ SubscribeAbort(j) \/ AwaitRelease(j)
         \/ job[j].workflow \in Active /\ Return(j, "err")
  PROVE  CoreInv'
<1>1. /\ \A i \in Jobs \ {j} : Stands(i)
      /\ \A f \in {"conn", "reader", "stage", "writer"} : job'[j][f] = job[j][f]
      /\ job[j].workflow \in Active
      /\ job'[j].workflow = "failed" \/ (job'[j].workflow = "next" /\ job[j].workflow = "spawned")
         \/ (job'[j].workflow \in {"wait", "next"} /\ job[j].workflow = "wait")
  <2>1. CASE SubscribeAbort(j)
    BY <2>1, FieldNames DEF SubscribeAbort, LifeInv, Shape, Stands, Active
  <2>2. CASE job[j].workflow \in Active /\ Return(j, "err")
    BY <2>2, FieldNames DEF Return, LifeInv, Shape, Stands
  <2>3. CASE AwaitRelease(j)
    BY <2>3, FieldNames DEF AwaitRelease, Return, LifeInv, Shape, Stands, Active
  <2>. QED  BY <2>1, <2>2, <2>3
<1>2. Live(job[j])
  BY <1>1 DEF Live
<1>3. Staged(j)' /\ Ending(j)'
  BY <1>1 DEF CoreInv, Core, Staged, Ending, Active
<1>. QED  BY <1>1, <1>2, <1>3, CoreTask

LEMMA WriterCore ==
  ASSUME LifeInv, CoreInv, NEW j \in Jobs, Writer(j)
  PROVE  CoreInv'
<1>1. /\ \A i \in Jobs \ {j} : Stands(i)
      /\ \A f \in {"conn", "reader", "workflow", "stage"} : job'[j][f] = job[j][f]
      /\ job[j].writer \notin {"none", "exit"} /\ current' = current /\ off' = off
      /\ \/ /\ job'[j].writer \notin {"flushOk", "flushErr"} /\ state' = state
         \/ /\ job'[j].writer \in {"flushOk", "flushErr"} /\ job[j].tx_done # <<>> /\ state' = state
         \/ /\ job[j].writer \in {"flushOk", "flushErr"} /\ job'[j].writer = "exit"
            /\ \/ state' = Moved(state, Idle)
               \/ state' = Moved(Moved(state, Plain("Failed")), Idle)
  <2>1. CASE WriterPolls(j)
    BY <2>1, FieldNames DEF WriterPolls, WriterTo, LifeInv, Shape, Stands
  <2>2. CASE WriterWaits(j)
    BY <2>2, FieldNames DEF WriterWaits, WriterTo, LifeInv, Shape, Stands
  <2>3. CASE WriterReports(j)
    BY <2>3, FieldNames DEF WriterReports, LifeInv, Shape, Stands
  <2>4. CASE WriterFlushed(j)
    BY <2>4, FieldNames DEF WriterFlushed, WriterTo, LifeInv, Shape, Stands
  <2>5. CASE WriterLeaves(j)
    BY <2>5, FieldNames DEF WriterLeaves, WriterTo, LifeInv, Shape, Stands
  <2>. QED  BY <2>1, <2>2, <2>3, <2>4, <2>5 DEF Writer
<1>2. state \in WorkloadState /\ current \in 0 .. NumJobs /\ off \subseteq Jobs /\ Live(job[j])
  BY <1>1 DEF CoreInv, Typed, Live
<1>3. state' \in WorkloadState
  BY <1>1, <1>2, Transitions, StatesTyped
<1>4. Typed'
  BY <1>1, <1>2, <1>3 DEF Typed, WorkloadState, Jobs
<1>5. job[j].tx_done # <<>> => job[j].workflow \notin Active /\ job[j].reader \notin {"none", "wait"}
  BY DEF LifeInv, Results, Result
<1>6. Owner(j)' /\ Staged(j)' /\ Ending(j)'
  BY <1>1, <1>5 DEF CoreInv, Core, Owner, Staged, Ending, Active
<1>7. Kept(j)'
  BY <1>1 DEF CoreInv, Core, Ending, Kept, Active
<1>. QED  BY <1>1, <1>2, <1>4, <1>6, <1>7, CoreStep DEF Core

LEMMA ReaderReturnsCore ==
  ASSUME LifeInv, CoreInv, NEW j \in Jobs, StartLogRefused(j) \/ StartRefused(j)
  PROVE  CoreInv'
<1>1. /\ \A i \in Jobs \ {j} : Stands(i)
      /\ \A f \in {"conn", "workflow", "stage", "writer"} : job'[j][f] = job[j][f]
      /\ job'[j].reader = "gone" /\ job[j].reader = "wait"
  BY FieldNames DEF StartLogRefused, StartRefused, Receives, LifeInv, Shape, Stands
<1>2. state' = state /\ off' = off /\ current' \in {current, j}
  BY StatesTyped DEF StartLogRefused, StartRefused, Moved, Accepted, CanTransition, Plain, Idle
<1>3. job[j].workflow = "none" /\ Live(job[j])
  BY <1>1 DEF LifeInv, Results, Result, Live
<1>4. Typed'
  BY <1>2, <1>3 DEF CoreInv, Typed, WorkloadState, Jobs
<1>5. Owner(j)' /\ Staged(j)' /\ Kept(j)' /\ Ending(j)'
  BY <1>1, <1>2, <1>3 DEF CoreInv, Core, Owner, Staged, Kept, Ending, Active
<1>. QED  BY <1>1, <1>2, <1>3, <1>4, <1>5, CoreStep DEF Core

LEMMA StartCore ==
  ASSUME LifeInv, CoreInv, NEW j \in Jobs, Start(j)
  PROVE  CoreInv'
<1>1. /\ \A i \in Jobs \ {j} : Stands(i)
      /\ \A f \in {"conn", "stage", "writer"} : job'[j][f] = job[j][f]
      /\ job'[j].reader = "read" /\ job'[j].workflow = "spawned" /\ job[j].reader = "wait"
  <2>1. PICK log \in Logs \cup {NoLog} :
          job' = [job EXCEPT ![j].reader = "read", ![j].workflow = "spawned", ![j].log = log]
    BY DEF Start
  <2>. QED  BY <2>1, FieldNames DEF Start, Receives, LifeInv, Shape, Stands
<1>2. /\ state' = AtStage(0, FALSE) /\ current' = j /\ off' = off
      /\ state' \in WorkloadState /\ state'.name = "AtStage"
  <2>1. 0 \in 0 .. NumStages /\ FALSE \in BOOLEAN
    BY LifecycleAssumption
  <2>2. state' = AtStage(0, FALSE) /\ current' = j /\ off' = off
    BY DEF Start
  <2>. QED  BY <2>1, <2>2, StatesTyped
<1>3. Live(job[j]) /\ job[j].stage = 0
  BY <1>1 DEF Live, LifeInv, Results, Result
<1>4. Typed'
  <2>1. j \in 0 .. NumJobs /\ off \subseteq Jobs
    BY DEF CoreInv, Typed, Jobs
  <2>2. state' \in WorkloadState /\ current' \in 0 .. NumJobs /\ off' \subseteq Jobs
    BY <1>2, <2>1
  <2>. QED  BY <2>2 DEF Typed, WorkloadState, Jobs
<1>5. Owner(j)' /\ Staged(j)' /\ Kept(j)'
  <2>1. Owner(j)' /\ Kept(j)'
    BY <1>1, <1>2 DEF Owner, Kept
  <2>2. Staged(j)'
    BY <1>1, <1>3, LifecycleAssumption DEF Staged
  <2>. QED  BY <2>1, <2>2
<1>6. Ending(j)'
  BY <1>1, <1>2 DEF CoreInv, Core, Ending
<1>. QED  BY <1>1, <1>2, <1>3, <1>4, <1>5, <1>6, CoreStep DEF Core

LEMMA ReleaseBarrierCore ==
  ASSUME LifeInv, CoreInv, NEW j \in Jobs, ReleaseBarrier(j)
  PROVE  CoreInv'
<1>0. PICK k \in job[j].reported :
        job' = [w \in Jobs |->
           [job[w] EXCEPT !.reported = IF w = j THEN @ \ {k} ELSE @,
                          !.barrier_rx = IF job[w].workflow = "wait" THEN Append(@, k) ELSE @]]
  BY DEF ReleaseBarrier
<1>1. \A i \in Jobs : Stands(i)
  BY <1>0, FieldNames DEF LifeInv, Shape, Stands
<1>2. UNCHANGED <<state, current, off>>
  BY DEF ReleaseBarrier
<1>3. Typed'
  BY <1>2 DEF CoreInv, Typed, WorkloadState
<1>. QED  BY <1>1, <1>2, <1>3, CoreQuiet

LEMMA SyncStateCore ==
  ASSUME LifeInv, CoreInv, NEW j \in Jobs, SyncState(j)
  PROVE  CoreInv'
<1>1. \A i \in Jobs : Stands(i)
  BY FieldNames DEF SyncState, LifeInv, Shape, Stands
<1>2. current' = current /\ off' = off /\ state' \in WorkloadState /\ state'.name = "AtStage"
  BY StatesTyped DEF SyncState
<1>3. Typed'
  BY <1>2 DEF CoreInv, Typed, WorkloadState
<1>. QED  BY <1>1, <1>2, <1>3, CoreQuiet

\* An abort or a reset of the agent, from whichever side it comes
LEMMA AgentCore ==
  ASSUME LifeInv, CoreInv, AbortWorkload \/ \E j \in Jobs : Reset(j)
  PROVE  CoreInv'
<1>1. TakeOff /\ current' \in {current, 0}
  BY DEF AbortWorkload, Reset
<1>2. state \in WorkloadState /\ current \in 0 .. NumJobs /\ Typed
  BY DEF CoreInv, Typed
<1>3. state' = Idle \/ state' = Moved(state, Plain("Aborting"))
  BY DEF AbortWorkload, Reset
<1>4. state' \in WorkloadState
  BY <1>2, <1>3, Transitions, StatesTyped
<1>5. /\ off \subseteq off' /\ off' \subseteq off \cup {current} /\ off' \subseteq Jobs
      /\ current \in off' \cup {0}
  BY <1>1, <1>2, TakeOffAdds
<1>6. Typed'
  BY <1>1, <1>2, <1>4, <1>5, LifecycleAssumption DEF Typed, WorkloadState
<1>7. \A i \in Jobs : Stands(i)
  <2>1. /\ DOMAIN Signalled(job) = Jobs /\ \A i \in Jobs : DOMAIN Signalled(job)[i] = Fields
        /\ \A i \in Jobs : \A f \in Fields \ {"abort_rx"} : Signalled(job)[i][f] = job[i][f]
    BY SignalTouchesFlag DEF LifeInv, Shape
  <2>2. CASE AbortWorkload
    BY <2>1, <2>2, FieldNames DEF AbortWorkload, Stands
  <2>3. ASSUME NEW j \in Jobs, Reset(j)  PROVE \A i \in Jobs : Stands(i)
    <3>1. job' = [Signalled(job) EXCEPT ![j].sent = Told(job[j], "ready")]
      BY <2>3 DEF Reset
    <3>2. \A i \in Jobs : \A f \in Fields \ {"abort_rx", "sent"} : job'[i][f] = job[i][f]
      BY <2>1, <3>1, FieldNames
    <3>. QED  BY <3>2, FieldNames DEF Stands
  <2>. QED  BY <2>2, <2>3
<1>. QED  BY <1>1, <1>5, <1>6, <1>7, CoreQuiet

LEMMA TimerCore ==
  ASSUME CoreInv, AbortRequested \/ DelayedReset \/ UnaryBegin \/ UnaryEnds \/ UNCHANGED vars
  PROVE  CoreInv'
<1>1. \A i \in Jobs : Stands(i)
  BY DEF AbortRequested, DelayedReset, UnaryBegin, UnaryEnds, vars, agentVars, Stands
<1>2. /\ current' = current
      /\ \/ state' = state /\ off' = off
         \/ state' = Idle /\ TakeOff
         \/ state.name = "Aborting" /\ state' = Idle /\ off' = off
  BY DEF AbortRequested, DelayedReset, UnaryBegin, UnaryEnds, vars, agentVars
<1>3. state \in WorkloadState /\ current \in 0 .. NumJobs /\ Typed
  BY DEF CoreInv, Typed
<1>4. state' \in WorkloadState
  BY <1>2, <1>3, StatesTyped
<1>5. /\ off \subseteq off' /\ off' \subseteq off \cup {current} /\ off' \subseteq Jobs
      /\ state.name = "AtStage" => state'.name = "AtStage" \/ current \in off' \cup {0}
  BY <1>2, <1>3, TakeOffAdds DEF Typed
<1>6. Typed'
  BY <1>2, <1>3, <1>4, <1>5 DEF Typed, WorkloadState
<1>. QED  BY <1>1, <1>2, <1>5, <1>6, CoreQuiet

LEMMA AbortCommandCore ==
  ASSUME LifeInv, CoreInv, NEW j \in Jobs, AbortCommand(j)
  PROVE  CoreInv'
<1>1. /\ \A i \in Jobs \ {j} : Stands(i)
      /\ \A f \in {"conn", "workflow", "stage", "writer"} : job'[j][f] = job[j][f]
      /\ job'[j].reader = "flush" /\ job[j].reader = "read"
  <2>1. /\ DOMAIN Signalled(job) = Jobs /\ \A i \in Jobs : DOMAIN Signalled(job)[i] = Fields
        /\ \A i \in Jobs : \A f \in Fields \ {"abort_rx"} : Signalled(job)[i][f] = job[i][f]
    BY SignalTouchesFlag DEF LifeInv, Shape
  <2>2. /\ job[j].reader = "read"
        /\ job' = [Signalled(job) EXCEPT ![j].reader = "flush", ![j].sent = Told(job[j], "aborted")]
    BY DEF AbortCommand, Receives
  <2>3. \A i \in Jobs \ {j} : job'[i] = Signalled(job)[i]
    BY <2>1, <2>2
  <2>4. \A i \in Jobs \ {j} : Stands(i)
    BY <2>1, <2>3, FieldNames DEF Stands
  <2>. QED  BY <2>1, <2>2, <2>4, FieldNames
<1>2. state' = Plain("Aborting") /\ current' = current /\ TakeOff /\ Typed
  BY Transitions DEF AbortCommand, CoreInv, Typed
<1>3. state' \in WorkloadState
  BY <1>2, StatesTyped
<1>4. /\ off \subseteq off' /\ off' \subseteq off \cup {current} /\ off' \subseteq Jobs
      /\ current \in off' \cup {0}
  BY <1>2, TakeOffAdds
<1>5. Typed' /\ Live(job[j]) /\ j # 0
  BY <1>1, <1>2, <1>3, <1>4 DEF Typed, Live, WorkloadState, Jobs
<1>6. Owner(j)' /\ Staged(j)'
  BY <1>1, <1>2 DEF CoreInv, Core, Owner, Staged, Active
<1>7. Kept(j)' /\ Ending(j)'
  BY <1>1, <1>2, <1>4, <1>5 DEF CoreInv, Core, Kept, Ending
<1>. QED  BY <1>1, <1>2, <1>4, <1>5, <1>6, <1>7, CoreStep DEF Core

LEMMA AbortFlushedCore ==
  ASSUME LifeInv, CoreInv, NEW j \in Jobs, AbortFlushed(j)
  PROVE  CoreInv'
<1>1. /\ \A i \in Jobs \ {j} : Stands(i)
      /\ \A f \in {"conn", "workflow", "stage", "writer"} : job'[j][f] = job[j][f]
      /\ job'[j].reader = "read" /\ job[j].reader = "flush"
  BY FieldNames DEF AbortFlushed, LifeInv, Shape, Stands
<1>2. state' = Moved(state, Idle) /\ current' = current /\ off' = off /\ Typed
  BY DEF AbortFlushed, CoreInv
<1>3. state' \in WorkloadState
  BY <1>2, Transitions, StatesTyped DEF Typed
<1>4. Typed' /\ Live(job[j])
  BY <1>1, <1>2, <1>3 DEF Typed, Live, WorkloadState
<1>5. Owner(j)' /\ Staged(j)' /\ Ending(j)' /\ Kept(j)'
  BY <1>1, <1>2 DEF CoreInv, Core, Owner, Staged, Kept, Ending, Active
<1>. QED  BY <1>1, <1>2, <1>4, <1>5, CoreStep DEF Core

LEMMA GoodbyeCore ==
  ASSUME LifeInv, CoreInv, NEW j \in Jobs, Goodbye(j)
  PROVE  CoreInv'
<1>1. /\ \A i \in Jobs \ {j} : Stands(i)
      /\ \A f \in {"workflow", "stage", "writer"} : job'[j][f] = job[j][f]
      /\ job'[j].reader = "left" /\ job[j].reader = "read" /\ job'[j].conn = "closed"
  BY FieldNames DEF Goodbye, Receives, LifeInv, Shape, Stands
<1>2. state' = Moved(state, Idle) /\ current' = current /\ off' = off /\ Typed
  BY DEF Goodbye, CoreInv
<1>3. state' \in WorkloadState
  BY <1>2, Transitions, StatesTyped DEF Typed
<1>4. job[j].workflow = "ended"
  BY DEF Goodbye, LifeInv, Results, Result, Active
<1>5. Typed' /\ Live(job[j])
  BY <1>1, <1>2, <1>3 DEF Typed, Live, WorkloadState
<1>6. Owner(j)' /\ Staged(j)' /\ Kept(j)' /\ Ending(j)'
  BY <1>1, <1>2, <1>4 DEF CoreInv, Core, Owner, Staged, Kept, Ending, Active
<1>. QED  BY <1>1, <1>2, <1>5, <1>6, CoreStep DEF Core

LEMMA ReaderCleansUpCore ==
  ASSUME LifeInv, CoreInv, NEW j \in Jobs, ReaderCleansUp(j)
  PROVE  CoreInv'
<1>. DEFINE left == [job EXCEPT ![j].reader = "gone", ![j].seen = Idle]
<1>1. DOMAIN left = Jobs /\ \A i \in Jobs : DOMAIN left[i] = Fields
  BY DEF LifeInv, Shape
<1>2. job' = left \/ job' = Signalled(left)
  BY DEF ReaderCleansUp
<1>3. \A i \in Jobs : \A f \in Fields \ {"abort_rx"} : job'[i][f] = left[i][f]
  <2>. HIDE DEF left
  <2>1. \A i \in Jobs : \A f \in Fields \ {"abort_rx"} : Signalled(left)[i][f] = left[i][f]
    BY <1>1, SignalTouchesFlag
  <2>. QED  BY <1>2, <2>1
<1>4. /\ \A i \in Jobs \ {j} : Stands(i)
      /\ \A f \in {"conn", "workflow", "stage", "writer"} : job'[j][f] = job[j][f]
      /\ job'[j].reader = "gone" /\ job[j].reader = "left"
  BY <1>3, FieldNames DEF ReaderCleansUp, LifeInv, Shape, Stands
<1>5. current' = current /\ Typed
  BY DEF ReaderCleansUp, CoreInv
<1>6. \/ off' = off /\ state' = state
      \/ TakeOff /\ \/ state' = Moved(state, Idle)
                    \/ state' = Moved(Moved(state, Plain("Failed")), Idle)
  BY DEF ReaderCleansUp
<1>7. /\ off \subseteq off' /\ off' \subseteq off \cup {current} /\ off' \subseteq Jobs
      /\ state' = state \/ current \in off' \cup {0}
  BY <1>5, <1>6, TakeOffAdds DEF Typed
<1>8. state' \in WorkloadState
  BY <1>5, <1>6, Transitions, StatesTyped DEF Typed
<1>9. Typed' /\ Live(job[j]) /\ j # 0
  BY <1>4, <1>5, <1>7, <1>8 DEF Typed, Live, WorkloadState, Jobs
<1>10. Owner(j)' /\ Staged(j)'
  BY <1>4, <1>5 DEF CoreInv, Core, Owner, Staged, Active
<1>11. Kept(j)' /\ Ending(j)'
  BY <1>4, <1>5, <1>7, <1>9 DEF CoreInv, Core, Kept, Ending
<1>. QED  BY <1>4, <1>5, <1>7, <1>9, <1>10, <1>11, CoreStep DEF Core

\* A stream opens only when everything before has come to rest
LEMMA ConnectCore ==
  ASSUME LifeInv, CoreInv, NEW j \in Jobs, Connect(j), "overlap" \notin Adversity
  PROVE  CoreInv'
<1>1. job' = [i \in Jobs |->
        IF i = j THEN [NewJob EXCEPT !.conn = "open", !.reader = "wait", !.writer = "poll"]
        ELSE IF Settled /\ i < j THEN GoneJob ELSE job[i]]
  BY DEF Connect
<1>2. /\ job'[j].reader = "wait" /\ job'[j].workflow = "none" /\ job'[j].stage = 0
      /\ job'[j].writer = "poll"
  BY <1>1 DEF NewJob
<1>3. ASSUME NEW i \in Jobs  PROVE ~Live(job[i])
  BY DEF Connect, Settled, Live, Active
<1>4. /\ GoneJob.workflow = "ended" /\ GoneJob.reader = "gone"
      /\ GoneJob.writer = "exit" /\ GoneJob.stage = 0
  BY DEF GoneJob, NewJob
<1>5. ASSUME NEW i \in Jobs \ {j}  PROVE job'[i] = job[i] \/ job'[i] = GoneJob
  BY <1>1
<1>6. ASSUME NEW i \in Jobs \ {j}  PROVE ~Live(job'[i])
  BY <1>3, <1>4, <1>5 DEF Live, Active
<1>7. Alone'
  BY <1>6 DEF Alone
<1>8. state' = state /\ current' = current /\ off' = off
  BY DEF Connect
<1>9. Typed'
  BY <1>8 DEF CoreInv, Typed, WorkloadState
<1>10. job[j].reader = "none"
  BY DEF Connect, LifeInv, Results, Result
<1>11. Core(j)'
  BY <1>2, <1>8, <1>10, LifecycleAssumption
     DEF CoreInv, Core, Owner, Staged, Kept, Ending, Active
<1>12. ASSUME NEW i \in Jobs \ {j}  PROVE Core(i)'
  <2>1. CASE job'[i] = job[i]
    BY <1>8, <2>1 DEF CoreInv, Core, Owner, Staged, Kept, Ending, Active
  <2>2. CASE job'[i] = GoneJob
    BY <1>4, <2>2, LifecycleAssumption DEF Core, Owner, Staged, Kept, Ending, Active
  <2>. QED  BY <1>5, <2>1, <2>2
<1>. QED  BY <1>7, <1>9, <1>11, <1>12 DEF CoreInv

\* The workflow of j announces a stage
LEMMA AnnounceCore ==
  ASSUME LifeInv, CoreInv, NEW j \in Jobs, NEW i \in 0 .. NumStages, NEW r \in BOOLEAN,
         state' = AtStage(i, r), current' = current, off' = off,
         \A k \in Jobs \ {j} : Stands(k), job[j].workflow \in Active,
         \A f \in {"conn", "reader", "writer"} : job'[j][f] = job[j][f],
         job'[j].workflow \in {"exec", "wait"}, job'[j].stage \in 1 .. NumStages
  PROVE  CoreInv'
<1>1. state' \in WorkloadState /\ state'.name = "AtStage"
  BY StatesTyped
<1>2. Typed'
  <2>1. state' \in WorkloadState /\ current' \in 0 .. NumJobs /\ off' \subseteq Jobs
    BY <1>1 DEF CoreInv, Typed
  <2>. QED  BY <2>1 DEF Typed, WorkloadState, Jobs
<1>3. Live(job[j]) /\ Core(j)
  BY DEF Live, CoreInv
<1>4. Owner(j)' /\ Kept(j)' /\ Ending(j)'
  BY <1>1, <1>3 DEF Core, Owner, Kept, Ending
<1>5. Staged(j)'
  BY LifecycleAssumption DEF Staged
<1>. QED  BY <1>1, <1>2, <1>3, <1>4, <1>5, CoreStep DEF Core

LEMMA NextStageCore ==
  ASSUME LifeInv, CoreInv, NEW j \in Jobs, NextStage(j)
  PROVE  CoreInv'
<1>1. /\ job[j].workflow = "next" /\ job[j].stage < NumStages /\ job[j].stage \in 0 .. NumStages
      /\ current' = current /\ off' = off
  BY DEF NextStage, CoreInv, Core, Staged
<1>2. CASE Return(j, "err") /\ state' = state
  BY <1>1, <1>2, WorkflowCore DEF Active
<1>3. CASE /\ state' = AtStage(job[j].stage + 1, FALSE)
           /\ job' = [job EXCEPT ![j].stage = @ + 1, ![j].workflow = "exec"]
  <2>1. /\ \A i \in Jobs \ {j} : Stands(i)
        /\ \A f \in {"conn", "reader", "writer"} : job'[j][f] = job[j][f]
        /\ job'[j].workflow = "exec" /\ job'[j].stage = job[j].stage + 1
    BY <1>3, FieldNames DEF LifeInv, Shape, Stands
  <2>2. /\ job[j].stage + 1 \in 0 .. NumStages /\ job[j].stage + 1 \in 1 .. NumStages
        /\ FALSE \in BOOLEAN
    BY <1>1, LifecycleAssumption
  <2>. QED  BY <1>1, <1>3, <2>1, <2>2, AnnounceCore DEF Active
<1>. QED  BY <1>2, <1>3 DEF NextStage

LEMMA StageDoneCore ==
  ASSUME LifeInv, CoreInv, NEW j \in Jobs, StageDone(j)
  PROVE  CoreInv'
<1>1. /\ job[j].workflow = "exec" /\ job[j].stage >= 1 /\ job[j].stage \in 0 .. NumStages
      /\ current' = current /\ off' = off
  BY DEF StageDone, CoreInv, Core, Staged
<1>2. CASE Return(j, "err") /\ state' = state
  BY <1>1, <1>2, WorkflowCore DEF Active
<1>3. CASE /\ state' = AtStage(job[j].stage, TRUE)
           /\ job' = [job EXCEPT ![j].workflow = "wait", ![j].barrier_rx = <<>>,
                                 ![j].timeouts = 0, ![j].reported = Reported(job[j])]
  <2>1. /\ \A i \in Jobs \ {j} : Stands(i)
        /\ \A f \in {"conn", "reader", "stage", "writer"} : job'[j][f] = job[j][f]
        /\ job'[j].workflow = "wait"
    BY <1>3, FieldNames DEF LifeInv, Shape, Stands
  <2>2. TRUE \in BOOLEAN /\ job[j].stage \in 1 .. NumStages
    BY <1>1, LifecycleAssumption
  <2>. QED  BY <1>1, <1>3, <2>1, <2>2, AnnounceCore DEF Active
<1>. QED  BY <1>2, <1>3 DEF StageDone

LEMMA AllStagesDoneCore ==
  ASSUME LifeInv, CoreInv, NEW j \in Jobs, AllStagesDone(j)
  PROVE  CoreInv'
<1>1. /\ \A i \in Jobs \ {j} : Stands(i)
      /\ \A f \in {"conn", "reader", "stage", "writer"} : job'[j][f] = job[j][f]
      /\ job[j].workflow = "next" /\ job'[j].workflow = "ended"
  BY FieldNames DEF AllStagesDone, Return, LifeInv, Shape, Stands
<1>2. state' = Moved(state, Plain("Completed")) /\ current' = current /\ off' = off /\ Typed
  BY DEF AllStagesDone, CoreInv
<1>3. state' \in WorkloadState
  BY <1>2, Transitions, StatesTyped DEF Typed
<1>4. Typed' /\ Live(job[j])
  BY <1>1, <1>2, <1>3 DEF Typed, Live, WorkloadState, Active
<1>5. Owner(j)' /\ Staged(j)' /\ Kept(j)' /\ Ending(j)'
  BY <1>1, <1>2 DEF CoreInv, Core, Owner, Staged, Kept, Ending, Active
<1>. QED  BY <1>1, <1>2, <1>4, <1>5, CoreStep DEF Core

LEMMA ShutdownCore ==
  ASSUME Shutdown
  PROVE  CoreInv'
<1>1. job' = [j \in Jobs |-> GoneJob] /\ Typed' /\ Alone' /\ \A j \in Jobs : InOrder(j)'
  BY ShutdownOwn DEF Shutdown, OwnInv
<1>2. \A j \in Jobs : Kept(j)' /\ Ending(j)'
  BY <1>1 DEF Kept, Ending, GoneJob, NewJob, Active
<1>. QED  BY <1>1, <1>2 DEF CoreInv, Core, InOrder

\* CoreInv is inductive while jobs do not overlap, SYNC_STATE or not.
LEMMA CoreNext ==
  ASSUME "overlap" \notin Adversity, LifeInv, CoreInv, [LifecycleNext]_vars
  PROVE  CoreInv'
<1>1. CASE UNCHANGED vars
  BY <1>1, TimerCore
<1>2. CASE \E j \in Jobs :
             \/ Connect(j) \/ Start(j) \/ StartLogRefused(j) \/ StartRefused(j)
             \/ ReleaseBarrier(j) \/ AbortCommand(j) \/ Reset(j) \/ Goodbye(j) \/ Vanish(j)
             \/ SyncState(j)
  <2>. PICK j \in Jobs : \/ Connect(j) \/ Start(j) \/ StartLogRefused(j) \/ StartRefused(j)
                         \/ ReleaseBarrier(j) \/ AbortCommand(j) \/ Reset(j) \/ Goodbye(j)
                         \/ Vanish(j) \/ SyncState(j)
    BY <1>2
  <2>. QED  BY ConnectCore, StartCore, ReaderReturnsCore, ReleaseBarrierCore, AbortCommandCore,
               AgentCore, GoodbyeCore, StreamCore, SyncStateCore
<1>3. CASE \E j \in Jobs : Reader(j) \/ Workflow(j) \/ StageFails(j) \/ Writer(j)
  <2>. PICK j \in Jobs : Reader(j) \/ Workflow(j) \/ StageFails(j) \/ Writer(j)
    BY <1>3
  <2>1. CASE Reader(j)
    BY <2>1, StreamCore, ReaderCleansUpCore, AbortFlushedCore DEF Reader
  <2>2. CASE SubscribeAbort(j) \/ AwaitRelease(j)
    BY <2>2, WorkflowCore DEF SubscribeAbort, AwaitRelease
  <2>3. CASE StageFails(j)
    BY <2>3, WorkflowCore DEF StageFails, Active
  <2>. QED  BY <2>1, <2>2, <2>3, NextStageCore, StageDoneCore, AllStagesDoneCore, WriterCore
            DEF Workflow
<1>4. CASE AbortRequested \/ DelayedReset \/ UnaryBegin \/ UnaryEnds
  BY <1>4, TimerCore
<1>5. CASE AbortWorkload
  BY <1>5, AgentCore
<1>6. CASE Shutdown
  BY <1>6, ShutdownCore
<1>. QED  BY <1>1, <1>2, <1>3, <1>4, <1>5, <1>6 DEF LifecycleNext, AgentStep

\* A forced agent that is Idle again has forgotten the stage it was forced to.
LEMMA IdleAgain ==
  ASSUME CoreInv', state' = Idle
  PROVE  OwnInv'
<1>1. state'.name # "AtStage"
  BY StatesTyped
<1>2. Answers'
  BY <1>1 DEF Answers
<1>3. ASSUME NEW j \in Jobs  PROVE InOrder(j)'
  <2>1. Core(j)'
    BY DEF CoreInv
  <2>2. Stops(j)' /\ Leaving(j)'
    BY <1>1, <2>1 DEF Stops, Core, Kept, Ending, Leaving
  <2>. QED  BY <2>1, <2>2 DEF InOrder, Core
<1>. QED  BY <1>2, <1>3 DEF CoreInv, OwnInv

LEMMA AgentNext ==
  ASSUME "overlap" \notin Adversity
  PROVE  LifeInv /\ AgentInv /\ [LifecycleNext]_vars => AgentInv'
<1>. SUFFICES ASSUME LifeInv, AgentInv, [LifecycleNext]_vars  PROVE AgentInv'
  OBVIOUS
<1>1. CoreInv'
  BY CoreNext DEF AgentInv
<1>2. ASSUME ~synced'  PROVE OwnInv'
  <2>1. CASE UNCHANGED vars
    <3>1. ~synced
      BY <1>2, <2>1 DEF vars
    <3>. QED  BY <2>1, <3>1, OwnNext DEF AgentInv
  <2>2. CASE AgentStep /\ synced' = (synced /\ state' # Idle)
    <3>1. CASE synced
      BY <1>1, <1>2, <2>2, <3>1, IdleAgain
    <3>2. CASE ~synced
      BY <2>2, <3>2, OwnNext DEF AgentInv
    <3>. QED  BY <3>1, <3>2
  <2>. QED  BY <1>2, <2>1, <2>2 DEF LifecycleNext
<1>. QED  BY <1>1, <1>2 DEF AgentInv

\* While jobs do not overlap, the shared state, the current job and the tasks of
\* the one live job agree as AgentInv says, and go on to do so after a SYNC_STATE
\* once the agent has been Idle.
THEOREM AgentInvariant ==
  ASSUME "overlap" \notin Adversity
  PROVE  LifecycleSpec => []AgentInv
<1>1. LifecycleInit => AgentInv
  BY OwnInit, CoreInit DEF AgentInv
<1>. QED  BY <1>1, AgentNext, LifeInvariant, PTL DEF LifecycleSpec

\* While jobs do not overlap, what query_agent_status answers about a job that
\* was not taken off is what its workflow is doing, through lost streams, aborts,
\* failed stages and every race of the tasks of one job; a SYNC_STATE suspends
\* this only until the agent is Idle again.
THEOREM QueriesAnswerTruly ==
  ASSUME "overlap" \notin Adversity
  PROVE  LifecycleSpec => []QueryTruthful
<1>1. AgentInv => QueryTruthful
  BY DEF AgentInv, OwnInv, Answers, QueryTruthful
<1>. QED  BY <1>1, AgentInvariant, PTL

\* A workflow enters a stage at the top of its loop only, through the transition
\* that announces the stage.
LEMMA OnlyNextStageStarts ==
  ASSUME LifeInv, LifecycleNext, NEW j \in Jobs,
         job'[j].workflow = "exec", job[j].workflow # "exec"
  PROVE  NextStage(j) /\ Accepted(state, AtStage(job[j].stage + 1, FALSE))
<1>. DEFINE Same == job'[j].workflow = job[j].workflow
<1>. SUFFICES ASSUME ~(NextStage(j) /\ Accepted(state, AtStage(job[j].stage + 1, FALSE)))
     PROVE  Same \/ job'[j].workflow # "exec"
  OBVIOUS
<1>. USE FieldNames DEF LifeInv, Shape
<1>1. ASSUME NEW i \in Jobs, Connect(i)  PROVE Same \/ job'[j].workflow # "exec"
  BY <1>1 DEF Connect, NewJob, GoneJob
<1>2. ASSUME NEW i \in Jobs, Start(i) \/ StartLogRefused(i) \/ StartRefused(i)
      PROVE  Same \/ job'[j].workflow # "exec"
  <2>1. CASE Start(i)
    BY <2>1 DEF Start
  <2>2. CASE StartLogRefused(i)
    BY <2>2 DEF StartLogRefused
  <2>3. CASE StartRefused(i)
    BY <2>3 DEF StartRefused
  <2>. QED  BY <1>2, <2>1, <2>2, <2>3
<1>3. ASSUME NEW i \in Jobs, ReleaseBarrier(i)  PROVE Same
  BY <1>3 DEF ReleaseBarrier
<1>4. ASSUME NEW i \in Jobs, Goodbye(i) \/ Vanish(i) \/ StreamEnds(i) \/ AbortFlushed(i)
      PROVE  Same
  BY <1>4 DEF Goodbye, Vanish, StreamEnds, AbortFlushed
<1>5. ASSUME job' = Signalled(job)  PROVE Same
  BY <1>5, SignalTouchesFlag
<1>6. ASSUME NEW i \in Jobs, AbortCommand(i)  PROVE Same
  BY <1>6, SignalTouchesFlag DEF AbortCommand
<1>7. ASSUME NEW i \in Jobs, ReaderCleansUp(i)  PROVE Same
  <2>. DEFINE left == [job EXCEPT ![i].reader = "gone", ![i].seen = Idle]
  <2>1. /\ DOMAIN left = Jobs /\ \A k \in Jobs : DOMAIN left[k] = Fields
        /\ left[j].workflow = job[j].workflow
    OBVIOUS
  <2>2. job' = left \/ job' = Signalled(left)
    BY <1>7 DEF ReaderCleansUp
  <2>. HIDE DEF left
  <2>3. Signalled(left)[j].workflow = left[j].workflow
    BY <2>1, SignalTouchesFlag
  <2>. QED  BY <2>1, <2>2, <2>3
<1>8. ASSUME NEW i \in Jobs, SubscribeAbort(i) \/ StageFails(i) \/ AllStagesDone(i)
      PROVE  Same \/ job'[j].workflow # "exec"
  BY <1>8 DEF SubscribeAbort, StageFails, AllStagesDone, Return
<1>9. ASSUME NEW i \in Jobs, StageDone(i) \/ AwaitRelease(i)
      PROVE  Same \/ job'[j].workflow # "exec"
  <2>1. CASE StageDone(i)
    <3>1. job'[i].workflow \in {"wait", "failed"} /\ \A k \in Jobs \ {i} : job'[k] = job[k]
      BY <2>1 DEF StageDone, Return
    <3>. QED  BY <3>1
  <2>2. CASE AwaitRelease(i)
    <3>1. /\ job'[i].workflow \in {"wait", "next", "failed"}
          /\ \A k \in Jobs \ {i} : job'[k] = job[k]
      BY <2>2 DEF AwaitRelease, Return
    <3>. QED  BY <3>1
  <2>. QED  BY <1>9, <2>1, <2>2
<1>10. ASSUME NEW i \in Jobs, NextStage(i)  PROVE Same \/ job'[j].workflow # "exec"
  <2>1. \A k \in Jobs \ {i} : job'[k] = job[k]
    BY <1>10 DEF NextStage, Return
  <2>2. CASE Return(i, "err")
    <3>1. job'[i].workflow = "failed"
      BY <2>2 DEF Return
    <3>. QED  BY <2>1, <3>1
  <2>3. CASE ~Return(i, "err")
    <3>1. i # j
      BY <1>10, <2>3 DEF NextStage
    <3>. QED  BY <2>1, <3>1
  <2>. QED  BY <2>2, <2>3
<1>11. ASSUME NEW i \in Jobs, Writer(i)  PROVE Same
  BY <1>11 DEF Writer, WriterPolls, WriterWaits, WriterReports, WriterFlushed, WriterLeaves, WriterTo
<1>12. ASSUME AbortRequested \/ DelayedReset \/ UnaryBegin \/ UnaryEnds  PROVE Same
  BY <1>12 DEF AbortRequested, DelayedReset, UnaryBegin, UnaryEnds
<1>13. ASSUME Shutdown  PROVE job'[j].workflow # "exec"
  BY <1>13 DEF Shutdown, GoneJob, NewJob
<1>14. ASSUME NEW i \in Jobs, Reset(i)  PROVE Same
  BY <1>14, ResetRests DEF Rests
<1>15. ASSUME NEW i \in Jobs, SyncState(i)  PROVE Same
  BY <1>15 DEF SyncState
<1>. HIDE DEF Same
<1>. QED  BY <1>1, <1>2, <1>3, <1>4, <1>5, <1>6, <1>7, <1>8, <1>9, <1>10, <1>11, <1>12, <1>13,
             <1>14, <1>15
          DEF LifecycleNext, AgentStep, Reader, Workflow, AbortWorkload

\* While jobs do not overlap, the workflow of a job that was taken off the agent
\* starts no further stage, unless a SYNC_STATE has forced the agent to a stage
\* and it was not Idle since.
THEOREM StoppedJobsStayStopped ==
  ASSUME "overlap" \notin Adversity
  PROVE  LifecycleSpec => StoppedStaysStopped
<1>1. ASSUME LifeInv, AgentInv, [LifecycleNext]_vars
      PROVE  [\A j \in off : job'[j].workflow = "exec" => job[j].workflow = "exec" \/ synced]_vars
  <2>. SUFFICES ASSUME NEW j \in off, LifecycleNext, job'[j].workflow = "exec", ~synced
       PROVE  job[j].workflow = "exec"
    BY <1>1
  <2>. SUFFICES ASSUME job[j].workflow # "exec"  PROVE FALSE
    OBVIOUS
  <2>1. j \in Jobs /\ InOrder(j) /\ state \in WorkloadState
    BY <1>1 DEF AgentInv, OwnInv, Typed
  <2>2. NextStage(j) /\ Accepted(state, AtStage(job[j].stage + 1, FALSE))
    BY <1>1, <2>1, OnlyNextStageStarts
  <2>3. job[j].workflow = "next" /\ job[j].stage + 1 \in Nat /\ job[j].stage + 1 >= 1
    BY <2>1, <2>2, LifecycleAssumption DEF NextStage, InOrder, Staged
  <2>4. state.name = "AtStage"
    BY <2>1, <2>2, <2>3, StageTransitions
  <2>. QED  BY <2>1, <2>3, <2>4 DEF InOrder, Stops, Active
<1>. QED  BY <1>1, LifeInvariant, AgentInvariant, PTL DEF LifecycleSpec, StoppedStaysStopped
=============================================================================
