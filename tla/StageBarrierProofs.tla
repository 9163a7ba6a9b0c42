------------------------- MODULE StageBarrierProofs -------------------------
(***************************************************************************)
(* Proofs about StageBarrier for every number of agents and stages, every  *)
(* policy, every retry limit and every Adversity.                          *)
(***************************************************************************)
EXTENDS StageBarrier, FiniteSetTheorems, SequenceTheorems, TLAPS

\* Where the workflow is tells how many stages it has started and finished
WorkflowInv ==
    \A a \in Agents :
        /\ wf[a] = "idle" => stage[a] = 0 /\ finished[a] = 0
        /\ wf[a] = "next" => finished[a] = stage[a]
        /\ wf[a] = "exec" => finished[a] + 1 = stage[a]
        /\ wf[a] \in {"ready", "wait"} => finished[a] = stage[a] /\ stage[a] > 0
        /\ wf[a] = "done" => finished[a] = stage[a] /\ stage[a] = NumStages
        /\ finished[a] <= stage[a]
        /\ state[a] = "AtBarrier" => finished[a] > 0

\* A writer past its first poll speaks for an agent that finished stage 1
WriterInv ==
    \A a \in Agents :
        /\ writer[a] = "poll" => polls[a] = 0
        /\ writer[a] = "ready" => finished[a] > 0 /\ polls[a] < MaxWaitPolls

\* Every barrier report under way is true
ReportsTrue ==
    \A a \in Agents : \A i \in 1 .. Len(up[a]) :
        up[a][i].kind \in {"ready", "barrier"} => finished[a] > up[a][i].k

\* The barrier manager counts only agents that finished the stage
TrackedTrue == \A k \in Barriers : ready_agents[k] \subseteq FinishersOf(k)

PolicyMet(k) ==
    CanRelease(BarrierType, Cardinality(FinishersOf(k)), Cardinality(Agents), 0)

\* A released barrier is a barrier whose policy is met, for good
ReleasedMet == \A k \in released : PolicyMet(k)

\* Only released barriers are on their way to the agents
ReleasesTrue ==
    /\ \A i \in 1 .. Len(bcast) : bcast[i].barrier \in released
    /\ \A a \in Agents : \A i \in 1 .. Len(barrier_rx[a]) : barrier_rx[a][i] \in released

\* An agent gets past a barrier only when it was released
PassedReleased ==
    \A a \in Agents, k \in Barriers : Passed(a, k) => k \in released

IInv ==
    /\ TypeOK
    /\ WorkflowInv
    /\ WriterInv
    /\ ReportsTrue
    /\ TrackedTrue
    /\ ReleasedMet
    /\ ReleasesTrue
    /\ PassedReleased
-----------------------------------------------------------------------------
(***************************************************************************)
(* Lemmas about the operators of the model                                 *)
(***************************************************************************)

\* A release decision stays right when more agents are found to have finished
LEMMA CanReleaseGrows ==
    ASSUME NEW S \in SUBSET Agents, NEW T \in SUBSET Agents, S \subseteq T,
           CanRelease(BarrierType, Cardinality(S), Cardinality(Agents), 0)
    PROVE  CanRelease(BarrierType, Cardinality(T), Cardinality(Agents), 0)
<1>1. /\ IsFiniteSet(T)
      /\ Cardinality(T) <= Cardinality(Agents)
  BY FS_Subset, ConstantsAssumption
<1>2. Cardinality(S) <= Cardinality(T)
  BY <1>1, FS_Subset
<1>3. /\ Cardinality(S) \in Nat
      /\ Cardinality(T) \in Nat
      /\ Cardinality(Agents) \in Nat
  BY <1>1, FS_Subset, FS_CardinalityType, ConstantsAssumption
<1>4. QED
  BY <1>1, <1>2, <1>3 DEF CanRelease

\* The messages of the protocol are messages
LEMMA MessageType ==
    /\ Ready \in Message
    /\ Completed \in Message
    /\ Error \in Message
    /\ \A k \in Barriers, b \in BOOLEAN : AtBarrier(k, b) \in Message
  BY ConstantsAssumption
     DEF Ready, Completed, Error, AtBarrier, Message, Barriers

\* Sending adds at most the message sent
LEMMA SendLemma ==
    ASSUME up \in [Agents -> Seq(Message)],
           NEW a \in Agents, NEW m \in Message, Send(a, m)
    PROVE  /\ up' \in [Agents -> Seq(Message)]
           /\ \A b \in Agents : \A i \in 1 .. Len(up'[b]) :
                 \/ i \in 1 .. Len(up[b]) /\ up'[b][i] = up[b][i]
                 \/ b = a /\ up'[b][i] = m
<1>1. CASE fwd[a] # "gone" /\ ctl \notin Terminal
  <2>1. up' = [up EXCEPT ![a] = Append(@, m)]
    BY <1>1 DEF Send
  <2>2. up'[a] = Append(up[a], m) /\ \A b \in Agents : b # a => up'[b] = up[b]
    BY <2>1
  <2>3. up[a] \in Seq(Message)
    OBVIOUS
  <2>4. \A i \in 1 .. Len(up'[a]) :
          (i \in 1 .. Len(up[a]) /\ up'[a][i] = up[a][i]) \/ up'[a][i] = m
    BY <2>2, <2>3
  <2>5. up' \in [Agents -> Seq(Message)]
    BY <2>1
  <2>6. QED
    BY <2>2, <2>4, <2>5
<1>2. CASE ~(fwd[a] # "gone" /\ ctl \notin Terminal)
  <2>1. up' = up
    BY <1>2 DEF Send
  <2>2. QED
    BY <2>1
<1>3. QED
  BY <1>1, <1>2

\* A broken stream keeps a prefix and adds at most an ERROR
LEMMA LoseStreamLemma ==
    ASSUME up \in [Agents -> Seq(Message)], NEW a \in Agents, LoseStream(a)
    PROVE  /\ up' \in [Agents -> Seq(Message)]
           /\ \A b \in Agents : \A i \in 1 .. Len(up'[b]) :
                 \/ i \in 1 .. Len(up[b]) /\ up'[b][i] = up[b][i]
                 \/ b = a /\ up'[b][i] = Error
<1>1. PICK n \in 0 .. Len(up[a]) :
        \/ up' = [up EXCEPT ![a] = Append(SubSeq(up[a], 1, n), Error)]
        \/ up' = [up EXCEPT ![a] = SubSeq(up[a], 1, n)]
  BY Zenon DEF LoseStream
<1> DEFINE through == SubSeq(up[a], 1, n)
<1>2. /\ through \in Seq(Message)
      /\ Len(through) = n
      /\ \A i \in 1 .. n : through[i] = up[a][i] /\ i \in 1 .. Len(up[a])
  OBVIOUS
<1> HIDE DEF through
<1>3. Error \in Message
  BY MessageType
<1>4. CASE up' = [up EXCEPT ![a] = Append(through, Error)]
  <2>1. up'[a] = Append(through, Error) /\ \A b \in Agents : b # a => up'[b] = up[b]
    BY <1>4
  <2>2. Append(through, Error) \in Seq(Message)
    BY <1>2, <1>3
  <2>3. \A i \in 1 .. Len(up'[a]) :
          (i \in 1 .. Len(up[a]) /\ up'[a][i] = up[a][i]) \/ up'[a][i] = Error
    BY <1>2, <1>3, <2>1
  <2>4. up' \in [Agents -> Seq(Message)]
    BY <1>4, <2>2
  <2>5. QED
    BY <2>1, <2>3, <2>4
<1>5. CASE up' = [up EXCEPT ![a] = through]
  BY <1>2, <1>5
<1>6. QED
  BY <1>1, <1>4, <1>5 DEF through

\* Receiving invents nothing
LEMMA ReceiveLemma ==
    ASSUME up \in [Agents -> Seq(Message)],
           fwd \in [Agents -> {"wait", "run", "gone"}],
           NEW a \in Agents, up[a] # <<>>, Receive(a, Head(up[a]))
    PROVE  /\ up' \in [Agents -> Seq(Message)]
           /\ fwd' \in [Agents -> {"wait", "run", "gone"}]
           /\ \A b \in Agents : \A i \in 1 .. Len(up'[b]) :
                 \E j \in 1 .. Len(up[b]) : up'[b][i] = up[b][j]
<1>1. up' = [up EXCEPT ![a] = <<>>] \/ up' = [up EXCEPT ![a] = Tail(@)]
  BY DEF Receive
<1>2. fwd' \in [Agents -> {"wait", "run", "gone"}]
  BY DEF Receive
<1>3. CASE up' = [up EXCEPT ![a] = <<>>]
  <2>1. up' \in [Agents -> Seq(Message)]
    BY <1>3
  <2>2. ASSUME NEW b \in Agents, NEW i \in 1 .. Len(up'[b])
        PROVE  \E j \in 1 .. Len(up[b]) : up'[b][i] = up[b][j]
    <3>1. b # a
      BY <1>3, <2>2
    <3>2. up'[b] = up[b]
      BY <1>3, <3>1
    <3>3. QED
      BY <2>2, <3>2
  <2>3. QED
    BY <1>2, <2>1, <2>2
<1>4. CASE up' = [up EXCEPT ![a] = Tail(@)]
  <2>1. /\ Tail(up[a]) \in Seq(Message)
        /\ Len(Tail(up[a])) = Len(up[a]) - 1
        /\ \A i \in 1 .. Len(Tail(up[a])) :
              i + 1 \in 1 .. Len(up[a]) /\ Tail(up[a])[i] = up[a][i + 1]
    OBVIOUS
  <2>2. up' \in [Agents -> Seq(Message)]
    BY <1>4, <2>1
  <2>3. ASSUME NEW b \in Agents, NEW i \in 1 .. Len(up'[b])
        PROVE  \E j \in 1 .. Len(up[b]) : up'[b][i] = up[b][j]
    <3>1. CASE b = a
      <4>1. up'[b] = Tail(up[a])
        BY <1>4, <3>1
      <4>2. up'[b][i] = up[b][i + 1] /\ i + 1 \in 1 .. Len(up[b])
        BY <2>1, <2>3, <3>1, <4>1
      <4>3. QED
        BY <4>2
    <3>2. CASE b # a
      <4>1. up'[b] = up[b]
        BY <1>4, <3>2
      <4>2. QED
        BY <2>3, <4>1
    <3>3. QED
      BY <3>1, <3>2
  <2>4. QED
    BY <1>2, <2>2, <2>3
<1>5. QED
  BY <1>1, <1>3, <1>4

Releases == [agent : Agents, barrier : Barriers]

\* What a concatenation with a function on 1 .. n consists of
LEMMA ConcatElements ==
    ASSUME NEW S, NEW s \in Seq(S), NEW n \in Nat, NEW f \in [1 .. n -> S]
    PROVE  /\ s \o f \in Seq(S)
           /\ \A i \in 1 .. Len(s \o f) :
                 \/ i \in 1 .. Len(s) /\ (s \o f)[i] = s[i]
                 \/ \E j \in 1 .. n : (s \o f)[i] = f[j]
<1>1. f \in Seq(S) /\ Len(f) = n
  OBVIOUS
<1>2. /\ s \o f \in Seq(S)
      /\ Len(s \o f) = Len(s) + n
      /\ \A i \in 1 .. Len(s) + n :
            (s \o f)[i] = IF i <= Len(s) THEN s[i] ELSE f[i - Len(s)]
  BY <1>1, ConcatProperties
<1>3. Len(s) \in Nat
  OBVIOUS
<1>4. ASSUME NEW i \in 1 .. Len(s) + n
      PROVE  \/ i \in 1 .. Len(s) /\ (s \o f)[i] = s[i]
             \/ \E j \in 1 .. n : (s \o f)[i] = f[j]
  <2>1. CASE i <= Len(s)
    BY <1>2, <1>3, <2>1
  <2>2. CASE i > Len(s)
    <3>1. i - Len(s) \in 1 .. n
      BY <1>3, <2>2
    <3>2. (s \o f)[i] = f[i - Len(s)]
      BY <1>2, <1>3, <2>2
    <3>3. QED
      BY <3>1, <3>2
  <2>3. QED
    BY <1>3, <2>1, <2>2
<1>5. QED
  BY <1>2, <1>4

\* A report adds one agent to one barrier; a barrier is released only when the
\* agents tracked for it meet the policy, and only its releases are broadcast
LEMMA TrackBarrierLemma ==
    ASSUME ready_agents \in [Barriers -> SUBSET Agents],
           released \in SUBSET Barriers, bcast \in Seq(Releases),
           NEW a \in Agents, NEW k \in Barriers, TrackBarrier(a, k)
    PROVE  /\ ready_agents' = [ready_agents EXCEPT ![k] = @ \cup {a}]
           /\ released' \in SUBSET Barriers
           /\ released \subseteq released'
           /\ bcast' \in Seq(Releases)
           /\ \A j \in released' \ released :
                 CanRelease(BarrierType, Cardinality(ready_agents'[j]), Cardinality(Agents), 0)
           /\ \A i \in 1 .. Len(bcast') :
                 \/ i \in 1 .. Len(bcast) /\ bcast'[i] = bcast[i]
                 \/ bcast'[i].barrier \in released'
<1> DEFINE now == ready_agents[k] \cup {a}
<1>1. /\ ready_agents' = [ready_agents EXCEPT ![k] = now]
      /\ ready_agents'[k] = now
      /\ now \in SUBSET Agents
  BY DEF TrackBarrier
<1>2. Cardinality(now) \in Nat
  BY <1>1, FS_Subset, FS_CardinalityType, ConstantsAssumption
<1>3. CASE released' = released /\ bcast' = bcast
  BY <1>1, <1>3
<1>4. CASE /\ CanRelease(BarrierType, Cardinality(now), Cardinality(Agents), 0)
           /\ ReleaseTo(now, k)
  <2>1. released' = released \cup {k}
    BY <1>4 DEF ReleaseTo
  <2>2. PICK s \in Orders(now) :
           bcast' = bcast \o [i \in 1 .. Cardinality(now) |-> [agent |-> s[i], barrier |-> k]]
    BY <1>4 DEF ReleaseTo
  <2> DEFINE sent == [i \in 1 .. Cardinality(now) |-> [agent |-> s[i], barrier |-> k]]
  <2>3. \A i \in 1 .. Cardinality(now) : s[i] \in Agents
    BY <1>1, <1>2, <2>2 DEF Orders
  <2>4. /\ sent \in [1 .. Cardinality(now) -> Releases]
        /\ \A i \in 1 .. Cardinality(now) : sent[i].barrier = k
    BY <2>3 DEF Releases
  <2>5. bcast' = bcast \o sent
    BY <2>2
  <2> HIDE DEF sent, now
  <2>6. /\ bcast' \in Seq(Releases)
        /\ \A i \in 1 .. Len(bcast') :
              \/ i \in 1 .. Len(bcast) /\ bcast'[i] = bcast[i]
              \/ \E j \in 1 .. Cardinality(now) : bcast'[i] = sent[j]
    BY <1>2, <2>4, <2>5, ConcatElements
  <2>7. QED
    BY <1>1, <1>4, <2>1, <2>4, <2>6 DEF now
<1>5. QED
  BY <1>3, <1>4 DEF TrackBarrier

\* What the main loop does with the barrier part of a message
LEMMA NoteBarrierLemma ==
    ASSUME TypeOK, NEW a \in Agents, NEW m \in Message, NoteBarrier(a, m)
    PROVE  /\ ready_agents' \in [Barriers -> SUBSET Agents]
           /\ released' \in SUBSET Barriers
           /\ released \subseteq released'
           /\ bcast' \in Seq(Releases)
           /\ summaries' \in [Barriers -> Seq(Agents)]
           /\ \A k \in Barriers :
                 \/ ready_agents'[k] = ready_agents[k]
                 \/ /\ m.kind \in {"ready", "barrier"}
                    /\ m.k = k
                    /\ ready_agents'[k] = ready_agents[k] \cup {a}
           /\ \A j \in released' \ released :
                 CanRelease(BarrierType, Cardinality(ready_agents'[j]), Cardinality(Agents), 0)
           /\ \A i \in 1 .. Len(bcast') :
                 \/ i \in 1 .. Len(bcast) /\ bcast'[i] = bcast[i]
                 \/ bcast'[i].barrier \in released'
<1>1. /\ m.k \in Barriers
      /\ ready_agents \in [Barriers -> SUBSET Agents]
      /\ released \in SUBSET Barriers
      /\ bcast \in Seq(Releases)
      /\ summaries \in [Barriers -> Seq(Agents)]
  BY DEF TypeOK, Message, Releases
<1>2. CASE BarrierType # NoBarrierManager /\ m.kind \in {"ready", "barrier"}
  <2>1. TrackBarrier(a, m.k)
    BY <1>2 DEF NoteBarrier
  <2>2. summaries' \in [Barriers -> Seq(Agents)]
    <3>1. summaries' = IF m.sum THEN [summaries EXCEPT ![m.k] = Append(@, a)]
                                ELSE summaries
      BY <1>2, Zenon DEF NoteBarrier
    <3>2. summaries' = [summaries EXCEPT ![m.k] = Append(@, a)] \/ summaries' = summaries
      <4>1. CASE m.sum = TRUE
        BY <3>1, <4>1, Zenon
      <4>2. CASE m.sum = FALSE
        BY <3>1, <4>2, Zenon
      <4>3. m.sum = TRUE \/ m.sum = FALSE
        BY Zenon DEF Message
      <4>4. QED
        BY <4>1, <4>2, <4>3, Zenon
    <3>3. Append(summaries[m.k], a) \in Seq(Agents)
      <4>1. summaries[m.k] \in Seq(Agents)
        BY <1>1
      <4>2. QED
        BY <4>1, AppendProperties
    <3>4. [summaries EXCEPT ![m.k] = Append(@, a)] \in [Barriers -> Seq(Agents)]
      BY <1>1, <3>3, Zenon
    <3>5. QED
      BY <1>1, <3>2, <3>4, Zenon
  <2>3. /\ ready_agents' = [ready_agents EXCEPT ![m.k] = @ \cup {a}]
        /\ released' \in SUBSET Barriers
        /\ released \subseteq released'
        /\ bcast' \in Seq(Releases)
        /\ \A j \in released' \ released :
              CanRelease(BarrierType, Cardinality(ready_agents'[j]), Cardinality(Agents), 0)
        /\ \A i \in 1 .. Len(bcast') :
              \/ i \in 1 .. Len(bcast) /\ bcast'[i] = bcast[i]
              \/ bcast'[i].barrier \in released'
    BY <1>1, <2>1, TrackBarrierLemma
  <2>4. ready_agents' \in [Barriers -> SUBSET Agents]
    BY <1>1, <2>3
  <2>5. \A k \in Barriers :
           \/ ready_agents'[k] = ready_agents[k]
           \/ m.k = k /\ ready_agents'[k] = ready_agents[k] \cup {a}
    BY <1>1, <2>3
  <2>6. QED
    BY <1>2, <2>2, <2>3, <2>4, <2>5
<1>3. CASE ~(BarrierType # NoBarrierManager /\ m.kind \in {"ready", "barrier"})
  <2>1. UNCHANGED <<ready_agents, released, bcast, summaries>>
    BY <1>3 DEF NoteBarrier
  <2>2. QED
    BY <1>1, <2>1
<1>4. QED
  BY <1>2, <1>3
-----------------------------------------------------------------------------
(***************************************************************************)
(* Type correctness                                                        *)
(***************************************************************************)

\* The workflow's part of TypeOK
LEMMA WorkflowTypes ==
    ASSUME TypeOK, NEW a \in Agents
    PROVE  /\ stage \in [Agents -> 0 .. NumStages]
           /\ finished \in [Agents -> 0 .. NumStages]
           /\ wf \in [Agents -> {"idle", "next", "exec", "ready", "wait", "done", "failed"}]
           /\ state \in [Agents -> States]
           /\ stage[a] \in 0 .. NumStages
           /\ finished[a] \in 0 .. NumStages
  BY DEF TypeOK

\* An agent at a barrier is at one of the barriers
LEMMA BarrierIndex ==
    ASSUME TypeOK, WorkflowInv, NEW a \in Agents, wf[a] = "ready" \/ wf[a] = "wait"
    PROVE  stage[a] - 1 \in Barriers
<1>1. finished[a] = stage[a] /\ stage[a] > 0
  BY DEF WorkflowInv
<1>2. QED
  BY <1>1, WorkflowTypes, ConstantsAssumption DEF Barriers

\* Every step keeps the types; barrier indices need WorkflowInv
LEMMA TypeStep ==
    ASSUME TypeOK, WorkflowInv, WriterInv, Next
    PROVE  TypeOK'
<1> USE ConstantsAssumption
<1> USE DEF workflowVars, writerVars, controllerVars
<1>1. ASSUME NEW a \in Agents, Start(a) PROVE TypeOK'
  BY <1>1 DEF TypeOK, Start, Moves, States
<1>2. ASSUME NEW a \in Agents, StartStage(a) PROVE TypeOK'
  <2>1. stage' \in [Agents -> 0 .. NumStages]
    BY <1>2, WorkflowTypes DEF StartStage
  <2>2. /\ wf' \in [Agents -> {"idle", "next", "exec", "ready", "wait", "done", "failed"}]
        /\ state' \in [Agents -> States]
    BY <1>2, WorkflowTypes DEF StartStage, Moves, States
  <2>3. UNCHANGED <<finished, timeouts, barrier_rx, writer, polls, up, fwd, bcast, cursor,
                    ctl, responded, ready_agents, released, agg, comp, summaries>>
    BY <1>2 DEF StartStage
  <2>4. QED
    BY <2>1, <2>2, <2>3 DEF TypeOK
<1>3. ASSUME NEW a \in Agents, FinishStage(a) PROVE TypeOK'
  <2>1. wf[a] = "exec"
    BY <1>3 DEF FinishStage, Moves
  <2>2. finished[a] + 1 = stage[a]
    BY <2>1 DEF WorkflowInv
  <2>3. finished' \in [Agents -> 0 .. NumStages]
    BY <1>3, <2>2, WorkflowTypes DEF FinishStage
  <2>4. /\ wf' \in [Agents -> {"idle", "next", "exec", "ready", "wait", "done", "failed"}]
        /\ state' \in [Agents -> States]
    BY <1>3, WorkflowTypes DEF FinishStage, Moves, States
  <2>5. UNCHANGED <<stage, timeouts, barrier_rx, writer, polls, up, fwd, bcast, cursor,
                    ctl, responded, ready_agents, released, agg, comp, summaries>>
    BY <1>3 DEF FinishStage
  <2>6. QED
    BY <2>3, <2>4, <2>5 DEF TypeOK
<1>4. ASSUME NEW a \in Agents, EnterBarrier(a) PROVE TypeOK'
  <2>1. stage[a] - 1 \in Barriers
    BY <1>4, BarrierIndex DEF EnterBarrier, Moves
  <2>2. up' \in [Agents -> Seq(Message)]
    BY <1>4, <2>1, SendLemma, MessageType DEF TypeOK, EnterBarrier
  <2>3. QED
    <3>1. timeouts' \in [Agents -> 0 .. MaxBarrierRetries]
      BY <1>4 DEF TypeOK, EnterBarrier
    <3>2. wf' \in [Agents -> {"idle", "next", "exec", "ready", "wait", "done", "failed"}]
      BY <1>4, WorkflowTypes DEF EnterBarrier, Moves
    <3>3. barrier_rx' \in [Agents -> Seq(Barriers)]
      <4>1. <<>> \in Seq(Barriers)
        OBVIOUS
      <4>2. QED
        BY <1>4, <4>1 DEF TypeOK, EnterBarrier
    <3>4. UNCHANGED <<stage, finished, state, writer, polls, fwd, bcast, cursor,
                      ctl, responded, ready_agents, released, agg, comp, summaries>>
      BY <1>4 DEF EnterBarrier
    <3>5. QED
      BY <2>2, <3>1, <3>2, <3>3, <3>4 DEF TypeOK
<1>5. ASSUME NEW a \in Agents, RecvRelease(a) PROVE TypeOK'
  <2>1. wf' \in [Agents -> {"idle", "next", "exec", "ready", "wait", "done", "failed"}]
    BY <1>5, WorkflowTypes DEF RecvRelease
  <2>2. barrier_rx' \in [Agents -> Seq(Barriers)]
    <3>1. barrier_rx[a] \in Seq(Barriers) /\ barrier_rx[a] # <<>>
      BY <1>5 DEF TypeOK, RecvRelease
    <3>2. Tail(barrier_rx[a]) \in Seq(Barriers)
      BY <3>1
    <3>3. QED
      BY <1>5, <3>2 DEF TypeOK, RecvRelease
  <2>3. UNCHANGED <<stage, finished, state, timeouts, writer, polls, up, fwd, bcast, cursor,
                    ctl, responded, ready_agents, released, agg, comp, summaries>>
    BY <1>5 DEF RecvRelease
  <2>4. QED
    BY <2>1, <2>2, <2>3 DEF TypeOK
<1>6. ASSUME NEW a \in Agents, BarrierTimeout(a) PROVE TypeOK'
  <2>1. stage[a] - 1 \in Barriers
    BY <1>6, BarrierIndex DEF BarrierTimeout, Moves
  <2>2. up' \in [Agents -> Seq(Message)]
    BY <1>6, <2>1, SendLemma, MessageType DEF TypeOK, BarrierTimeout
  <2>3. QED
    <3>1. timeouts' \in [Agents -> 0 .. MaxBarrierRetries]
      <4>1. \/ timeouts[a] < MaxBarrierRetries /\ timeouts' = [timeouts EXCEPT ![a] = @ + 1]
            \/ timeouts' = timeouts
        BY <1>6 DEF BarrierTimeout
      <4>2. timeouts \in [Agents -> 0 .. MaxBarrierRetries]
        BY DEF TypeOK
      <4>3. QED
        BY <4>1, <4>2
    <3>2. wf' \in [Agents -> {"idle", "next", "exec", "ready", "wait", "done", "failed"}]
      BY <1>6, WorkflowTypes DEF BarrierTimeout, Moves
    <3>3. UNCHANGED <<stage, finished, state, barrier_rx, writer, polls, fwd, bcast, cursor,
                      ctl, responded, ready_agents, released, agg, comp, summaries>>
      BY <1>6 DEF BarrierTimeout
    <3>4. QED
      BY <2>2, <3>1, <3>2, <3>3 DEF TypeOK
<1>7. ASSUME NEW a \in Agents, CompleteStages(a) PROVE TypeOK'
  BY <1>7 DEF TypeOK, CompleteStages, Moves, States
<1>8. ASSUME NEW a \in Agents, WriterPoll(a) PROVE TypeOK'
  <2>1. up' \in [Agents -> Seq(Message)]
    BY <1>8, SendLemma, MessageType DEF TypeOK, WriterPoll
  <2>2. QED
    BY <1>8, <2>1 DEF TypeOK, WriterPoll, WriterTo
<1>9. ASSUME NEW a \in Agents, WriterResend(a) PROVE TypeOK'
  <2>1. up' \in [Agents -> Seq(Message)]
    BY <1>9, SendLemma, MessageType DEF TypeOK, WriterResend
  <2>2. QED
    <3>1. writer[a] = "ready"
      BY <1>9 DEF WriterResend, WriterTo
    <3>2. polls[a] < MaxWaitPolls
      BY <3>1 DEF WriterInv
    <3>3. polls' \in [Agents -> 0 .. MaxWaitPolls]
      <4>1. polls' = [polls EXCEPT ![a] = @ + 1] \/ polls' = [polls EXCEPT ![a] = @]
        BY <1>9, Zenon DEF WriterResend
      <4>2. polls \in [Agents -> 0 .. MaxWaitPolls]
        BY DEF TypeOK
      <4>3. QED
        BY <3>2, <4>1, <4>2
    <3>4. writer' \in [Agents -> {"poll", "ready", "run", "exit"}]
      <4>1. writer \in [Agents -> {"poll", "ready", "run", "exit"}]
        BY DEF TypeOK
      <4>2. \E to \in {"run", "exit", "ready"} : writer' = [writer EXCEPT ![a] = to]
        BY <1>9, Zenon DEF WriterResend, WriterTo
      <4>3. QED
        BY <4>1, <4>2
    <3>5. UNCHANGED <<wf, stage, finished, state, timeouts, barrier_rx, fwd, bcast, cursor,
                      ctl, responded, ready_agents, released, agg, comp, summaries>>
      BY <1>9 DEF WriterResend
    <3>6. QED
      BY <2>1, <3>3, <3>4, <3>5 DEF TypeOK
<1>10. ASSUME NEW a \in Agents, WriterDone(a) PROVE TypeOK'
  <2>1. up' \in [Agents -> Seq(Message)]
    BY <1>10, SendLemma, MessageType DEF TypeOK, WriterDone
  <2>2. QED
    BY <1>10, <2>1 DEF TypeOK, WriterDone, WriterTo, States
<1>11. ASSUME NEW a \in Agents, FailStage(a) PROVE TypeOK'
  BY <1>11 DEF TypeOK, FailStage, Moves
<1>12. ASSUME NEW a \in Agents, StartRejected(a) PROVE TypeOK'
  BY <1>12 DEF TypeOK, StartRejected
<1>13. ASSUME NEW a \in Agents, StreamLost(a) PROVE TypeOK'
  <2>1. up' \in [Agents -> Seq(Message)]
    BY <1>13, LoseStreamLemma DEF TypeOK, StreamLost
  <2>2. fwd' \in [Agents -> {"wait", "run", "gone"}]
    BY <1>13 DEF TypeOK, StreamLost, LoseStream
  <2>3. QED
    BY <1>13, <2>1, <2>2 DEF TypeOK, StreamLost, TakenOff, States
<1>14. ASSUME NEW a \in Agents, AgentCrash(a) PROVE TypeOK'
  <2>1. up' \in [Agents -> Seq(Message)]
    BY <1>14, LoseStreamLemma DEF TypeOK, AgentCrash
  <2>2. fwd' \in [Agents -> {"wait", "run", "gone"}]
    BY <1>14 DEF TypeOK, AgentCrash, LoseStream
  <2>3. QED
    <3>1. barrier_rx' \in [Agents -> Seq(Barriers)]
      <4>1. <<>> \in Seq(Barriers)
        OBVIOUS
      <4>2. QED
        BY <1>14, <4>1 DEF TypeOK, AgentCrash
    <3>2. /\ state' \in [Agents -> States]
          /\ wf' \in [Agents -> {"idle", "next", "exec", "ready", "wait", "done", "failed"}]
          /\ writer' \in [Agents -> {"poll", "ready", "run", "exit"}]
      <4>1. /\ state' = [state EXCEPT ![a] = "Left"]
            /\ wf' = [wf EXCEPT ![a] = "failed"]
            /\ writer' = [writer EXCEPT ![a] = "exit"]
        BY <1>14 DEF AgentCrash
      <4>2. QED
        BY <4>1 DEF TypeOK, States
    <3>3. UNCHANGED <<stage, finished, timeouts, polls, bcast, cursor,
                      ctl, responded, ready_agents, released, agg, comp, summaries>>
      BY <1>14 DEF AgentCrash
    <3>4. QED
      BY <2>1, <2>2, <3>1, <3>2, <3>3 DEF TypeOK
<1>15. ASSUME NEW a \in Agents, ForwardControl(a) PROVE TypeOK'
  <2>1. cursor' \in [Agents -> Nat]
    <3>1. /\ cursor \in [Agents -> Nat]
          /\ Len(bcast) \in Nat
      <4>1. bcast \in Seq(Releases) /\ cursor \in [Agents -> Nat]
        BY DEF TypeOK, Releases
      <4>2. QED
        BY <4>1
    <3>2. \/ /\ Len(bcast) - cursor[a] > BroadcastCap
             /\ cursor' = [cursor EXCEPT ![a] = Len(bcast) - BroadcastCap]
          \/ cursor' = [cursor EXCEPT ![a] = @ + 1]
      BY <1>15 DEF ForwardControl
    <3>3. QED
      BY <3>1, <3>2
  <2>2. barrier_rx' \in [Agents -> Seq(Barriers)]
    <3>1. \/ barrier_rx' = barrier_rx
          \/ /\ cursor[a] + 1 \in 1 .. Len(bcast)
             /\ barrier_rx' = [barrier_rx EXCEPT ![a] = Append(@, bcast[cursor[a] + 1].barrier)]
      <4>1. /\ cursor[a] \in Nat
            /\ Len(bcast) \in Nat
            /\ cursor[a] < Len(bcast)
        BY <1>15 DEF TypeOK, ForwardControl
      <4>2. cursor[a] + 1 \in 1 .. Len(bcast)
        BY <4>1
      <4>3. QED
        BY <1>15, <4>2, Zenon DEF ForwardControl
    <3>2. barrier_rx \in [Agents -> Seq(Barriers)] /\ barrier_rx[a] \in Seq(Barriers)
      BY DEF TypeOK
    <3>3. CASE barrier_rx' = barrier_rx
      BY <3>2, <3>3
    <3>4. CASE /\ cursor[a] + 1 \in 1 .. Len(bcast)
               /\ barrier_rx' = [barrier_rx EXCEPT ![a] =
                                   Append(@, bcast[cursor[a] + 1].barrier)]
      <4>1. bcast[cursor[a] + 1].barrier \in Barriers
        <5>1. bcast \in Seq(Releases)
          BY DEF TypeOK, Releases
        <5>2. bcast[cursor[a] + 1] \in Releases
          BY <3>4, <5>1, ElementOfSeq
        <5>3. QED
          BY <5>2 DEF Releases
      <4>2. Append(barrier_rx[a], bcast[cursor[a] + 1].barrier) \in Seq(Barriers)
        BY <3>2, <4>1, AppendProperties
      <4>3. barrier_rx' = [barrier_rx EXCEPT ![a] =
                             Append(barrier_rx[a], bcast[cursor[a] + 1].barrier)]
        BY <3>4
      <4>4. QED
        BY <3>2, <4>2, <4>3
    <3>5. QED
      BY <3>1, <3>3, <3>4
  <2>3. QED
    BY <1>15, <2>1, <2>2 DEF TypeOK, ForwardControl
<1>16. ASSUME NEW a \in Agents, ForwarderGivesUp(a) PROVE TypeOK'
  BY <1>16 DEF TypeOK, ForwarderGivesUp, TakenOff, States
<1>17. ASSUME NEW a \in Agents, Disconnect(a) PROVE TypeOK'
  BY <1>17 DEF TypeOK, Disconnect, States
<1>18. ASSUME NEW a \in Agents, CtlStartup(a) PROVE TypeOK'
  <2>1. up[a] # <<>> /\ Receive(a, Head(up[a]))
    BY <1>18 DEF CtlStartup
  <2>2. /\ up' \in [Agents -> Seq(Message)]
        /\ fwd' \in [Agents -> {"wait", "run", "gone"}]
    BY <2>1, ReceiveLemma DEF TypeOK
  <2>3. responded' \in SUBSET Agents /\ ctl' \in {"startup", "main"} \cup Terminal
    <3>1. responded' \in {responded, responded \cup {a}} /\ ctl' \in {"main", ctl}
      BY <1>18 DEF CtlStartup
    <3>2. QED
      BY <3>1 DEF TypeOK
  <2>4. QED
    BY <1>18, <2>2, <2>3 DEF TypeOK, CtlStartup
<1>19. ASSUME NEW a \in Agents, CtlMain(a) PROVE TypeOK'
  <2> DEFINE m == Head(up[a])
  <2>1. up[a] # <<>> /\ Receive(a, m)
    BY <1>19 DEF CtlMain
  <2>2. /\ up' \in [Agents -> Seq(Message)]
        /\ fwd' \in [Agents -> {"wait", "run", "gone"}]
    BY <2>1, ReceiveLemma DEF TypeOK
  <2>3. m \in Message
    <3>1. up[a] \in Seq(Message)
      BY DEF TypeOK
    <3>2. QED
      BY <2>1, <3>1
  <2> HIDE DEF m
  <2>4. \/ UNCHANGED <<ready_agents, released, bcast, summaries, agg, comp, ctl>>
        \/ /\ NoteBarrier(a, m)
           /\ Aggregate(a, m)
           /\ ctl' \in {"aborted", "finished", ctl}
    BY <1>19 DEF CtlMain, m
  <2>5. /\ ready_agents' \in [Barriers -> SUBSET Agents]
        /\ released' \in SUBSET Barriers
        /\ bcast' \in Seq([agent : Agents, barrier : Barriers])
        /\ summaries' \in [Barriers -> Seq(Agents)]
    <3>1. CASE NoteBarrier(a, m)
      BY <2>3, <3>1, NoteBarrierLemma DEF Releases
    <3>2. CASE UNCHANGED <<ready_agents, released, bcast, summaries, agg, comp, ctl>>
      BY <3>2 DEF TypeOK
    <3>3. QED
      BY <2>4, <3>1, <3>2
  <2>6. /\ agg' \in SUBSET Agents
        /\ comp' \in SUBSET Agents
        /\ ctl' \in {"startup", "main"} \cup Terminal
    BY <2>4 DEF TypeOK, Aggregate, Terminal
  <2>7. QED
    BY <1>19, <2>2, <2>5, <2>6 DEF TypeOK, CtlMain
<1>20. CASE StartupTimeout \/ ShutdownSignal \/ CtlClosed
  <2>1. /\ ctl' \in Terminal
        /\ UNCHANGED <<wf, stage, finished, state, timeouts, barrier_rx, writer, polls,
                       up, fwd, bcast, cursor, responded, ready_agents, released,
                       agg, comp, summaries>>
    BY <1>20 DEF StartupTimeout, ShutdownSignal, CtlClosed, Terminal
  <2>2. QED
    BY <2>1 DEF TypeOK
<1>21. ASSUME NEW a \in Agents, CtlRunning(a) PROVE TypeOK'
  <2>1. /\ agg' \in SUBSET Agents
        /\ comp' \in SUBSET Agents
        /\ ctl' \in {"startup", "main"} \cup Terminal
    BY <1>21 DEF TypeOK, CtlRunning, PhaseSwitch, Terminal
  <2>2. UNCHANGED <<wf, stage, finished, state, timeouts, barrier_rx, writer, polls, up, fwd,
                    bcast, cursor, responded, ready_agents, released, summaries>>
    BY <1>21 DEF CtlRunning
  <2>3. QED
    BY <2>1, <2>2 DEF TypeOK
<1>22. QED
  BY <1>1, <1>2, <1>3, <1>4, <1>5, <1>6, <1>7, <1>8, <1>9, <1>10, <1>11, <1>12, <1>13,
     <1>14, <1>15, <1>16, <1>17, <1>18, <1>19, <1>20, <1>21
     DEF Next, Workflow, Writer, AgentFault
-----------------------------------------------------------------------------
(***************************************************************************)
(* Which steps touch what                                                  *)
(***************************************************************************)

\* The workflow variables change only in the workflow's own steps and in a
\* crash; the releases received only there and in ForwardControl
LEMMA WorkflowOwner ==
    ASSUME TypeOK, Next
    PROVE  \/ \E a \in Agents : \/ Start(a) \/ Workflow(a) \/ FailStage(a)
                                \/ AgentCrash(a)
           \/ /\ UNCHANGED <<wf, stage, finished>>
              /\ \A b \in Agents : state'[b] = "AtBarrier" => state[b] = "AtBarrier"
              /\ barrier_rx' = barrier_rx \/ \E a \in Agents : ForwardControl(a)
<1> USE DEF workflowVars, writerVars, controllerVars
<1>1. state \in [Agents -> States]
  BY DEF TypeOK
<1>2. ASSUME NEW a \in Agents, Writer(a)
      PROVE  /\ UNCHANGED <<wf, stage, finished, barrier_rx>>
             /\ \A b \in Agents : state'[b] = "AtBarrier" => state[b] = "AtBarrier"
  BY <1>1, <1>2 DEF Writer, WriterPoll, WriterResend, WriterDone
<1>3. ASSUME NEW a \in Agents, StartRejected(a) \/ StreamLost(a)
      PROVE  /\ UNCHANGED <<wf, stage, finished, barrier_rx>>
             /\ \A b \in Agents : state'[b] = "AtBarrier" => state[b] = "AtBarrier"
  BY <1>1, <1>3 DEF StartRejected, StreamLost, TakenOff
<1>4. ASSUME NEW a \in Agents, ForwarderGivesUp(a) \/ Disconnect(a)
      PROVE  /\ UNCHANGED <<wf, stage, finished, barrier_rx>>
             /\ \A b \in Agents : state'[b] = "AtBarrier" => state[b] = "AtBarrier"
  BY <1>1, <1>4 DEF ForwarderGivesUp, Disconnect, TakenOff
<1>5. ASSUME NEW a \in Agents, CtlStartup(a) \/ CtlMain(a) \/ CtlRunning(a)
      PROVE  UNCHANGED <<wf, stage, finished, barrier_rx, state>>
  BY <1>5 DEF CtlStartup, CtlMain, CtlRunning
<1>6. ASSUME NEW a \in Agents, ForwardControl(a)
      PROVE  UNCHANGED <<wf, stage, finished, state>>
  BY <1>6 DEF ForwardControl
<1>7. ASSUME StartupTimeout \/ ShutdownSignal \/ CtlClosed
      PROVE  UNCHANGED <<wf, stage, finished, barrier_rx, state>>
  BY <1>7 DEF StartupTimeout, ShutdownSignal, CtlClosed
<1>8. QED
  BY <1>2, <1>3, <1>4, <1>5, <1>6, <1>7 DEF Next, AgentFault

\* Only the main loop tracks and releases barriers
LEMMA BarrierOwner ==
    ASSUME Next
    PROVE  \/ \E a \in Agents : CtlMain(a)
           \/ UNCHANGED <<ready_agents, released, bcast>>
<1> USE DEF workflowVars, writerVars, controllerVars
<1>1. ASSUME NEW a \in Agents, Start(a) \/ Writer(a) \/ AgentFault(a)
      PROVE  UNCHANGED <<ready_agents, released, bcast>>
  BY <1>1 DEF Start, Writer, WriterPoll, WriterResend, WriterDone, AgentFault, FailStage,
              StartRejected, StreamLost, AgentCrash
<1>2. ASSUME NEW a \in Agents, Workflow(a)
      PROVE  UNCHANGED <<ready_agents, released, bcast>>
  BY <1>2 DEF Workflow, StartStage, FinishStage, EnterBarrier, RecvRelease, BarrierTimeout,
              CompleteStages
<1>3. ASSUME NEW a \in Agents,
             \/ ForwardControl(a) \/ ForwarderGivesUp(a) \/ Disconnect(a)
             \/ CtlStartup(a) \/ CtlRunning(a)
      PROVE  UNCHANGED <<ready_agents, released, bcast>>
  BY <1>3 DEF ForwardControl, ForwarderGivesUp, Disconnect, CtlStartup, CtlRunning
<1>4. ASSUME StartupTimeout \/ ShutdownSignal \/ CtlClosed
      PROVE  UNCHANGED <<ready_agents, released, bcast>>
  BY <1>4 DEF StartupTimeout, ShutdownSignal, CtlClosed
<1>5. QED
  BY <1>1, <1>2, <1>3, <1>4 DEF Next

\* No step makes an agent un-finish a stage
LEMMA FinishedGrows ==
    ASSUME TypeOK, Next
    PROVE  \A b \in Agents : finished[b] <= finished'[b]
<1>1. ASSUME NEW a \in Agents, FinishStage(a)
      PROVE  finished' = [finished EXCEPT ![a] = @ + 1] \/ finished' = finished
  BY <1>1 DEF FinishStage
<1>2. ASSUME NEW a \in Agents, \/ Start(a) \/ StartStage(a) \/ EnterBarrier(a)
                               \/ RecvRelease(a) \/ BarrierTimeout(a)
                               \/ CompleteStages(a) \/ FailStage(a) \/ AgentCrash(a)
      PROVE  finished' = finished
  BY <1>2 DEF Start, StartStage, EnterBarrier, RecvRelease, BarrierTimeout, CompleteStages,
              FailStage, AgentCrash
<1>3. \/ finished' = finished
      \/ \E a \in Agents : finished' = [finished EXCEPT ![a] = @ + 1]
  BY <1>1, <1>2, WorkflowOwner DEF Workflow
<1>4. finished \in [Agents -> 0 .. NumStages]
  BY DEF TypeOK
<1>5. QED
  BY <1>3, <1>4
-----------------------------------------------------------------------------
(***************************************************************************)
(* The parts of the inductive invariant                                    *)
(***************************************************************************)

\* The workflow's counters follow its program counter
LEMMA WorkflowStep ==
    ASSUME TypeOK, WorkflowInv, Next
    PROVE  WorkflowInv'
<1> USE DEF WorkflowInv
<1>t. ASSUME NEW b \in Agents
      PROVE  /\ stage \in [Agents -> 0 .. NumStages]
             /\ finished \in [Agents -> 0 .. NumStages]
             /\ wf \in [Agents -> {"idle", "next", "exec", "ready", "wait", "done", "failed"}]
             /\ state \in [Agents -> States]
             /\ stage[b] \in 0 .. NumStages
             /\ finished[b] \in 0 .. NumStages
  BY <1>t, WorkflowTypes
<1>1. CASE /\ UNCHANGED <<wf, stage, finished>>
           /\ \A b \in Agents : state'[b] = "AtBarrier" => state[b] = "AtBarrier"
  BY <1>1
<1>2. ASSUME NEW a \in Agents, Start(a) PROVE WorkflowInv'
  BY <1>2, <1>t DEF Start, Moves
<1>3. ASSUME NEW a \in Agents, StartStage(a) PROVE WorkflowInv'
  BY <1>3, <1>t DEF StartStage, Moves
<1>4. ASSUME NEW a \in Agents, FinishStage(a) PROVE WorkflowInv'
  BY <1>4, <1>t DEF FinishStage, Moves
<1>5. ASSUME NEW a \in Agents, EnterBarrier(a) PROVE WorkflowInv'
  BY <1>5, <1>t DEF EnterBarrier, Moves
<1>6. ASSUME NEW a \in Agents, RecvRelease(a) PROVE WorkflowInv'
  BY <1>6, <1>t DEF RecvRelease
<1>7. ASSUME NEW a \in Agents, BarrierTimeout(a) PROVE WorkflowInv'
  <2>1. /\ wf[a] = "wait"
        /\ wf' = [wf EXCEPT ![a] = "wait"] \/ wf' = [wf EXCEPT ![a] = "failed"]
        /\ UNCHANGED <<stage, finished, state>>
    BY <1>7 DEF BarrierTimeout, Moves
  <2>2. QED
    BY <2>1, <1>t
<1>8. ASSUME NEW a \in Agents, CompleteStages(a) PROVE WorkflowInv'
  BY <1>8, <1>t DEF CompleteStages, Moves
<1>9. ASSUME NEW a \in Agents, FailStage(a) PROVE WorkflowInv'
  <2>1. /\ wf[a] = "exec" /\ wf' = [wf EXCEPT ![a] = "failed"]
        /\ UNCHANGED <<stage, finished, state>>
    BY <1>9 DEF FailStage, Moves
  <2>2. QED
    BY <2>1, <1>t
<1>10. ASSUME NEW a \in Agents, AgentCrash(a) PROVE WorkflowInv'
  BY <1>10, <1>t DEF AgentCrash
<1>11. QED
  BY <1>1, <1>2, <1>3, <1>4, <1>5, <1>6, <1>7, <1>8, <1>9, <1>10, WorkflowOwner
     DEF Workflow

\* Only an agent at its first barrier makes its writer send READY
LEMMA WriterStep ==
    ASSUME TypeOK, WorkflowInv, WriterInv, Next
    PROVE  WriterInv'
<1> USE DEF workflowVars, writerVars, controllerVars
<1>1. /\ writer \in [Agents -> {"poll", "ready", "run", "exit"}]
      /\ polls \in [Agents -> 0 .. MaxWaitPolls]
      /\ MaxWaitPolls \in Nat \ {0}
  BY ConstantsAssumption DEF TypeOK
<1>2. \A b \in Agents : finished[b] > 0 => finished'[b] > 0
  <2>1. TypeOK'
    BY TypeStep
  <2>2. QED
    <3>1. \A b \in Agents : finished[b] \in Nat /\ finished'[b] \in Nat
      BY <2>1, ConstantsAssumption DEF TypeOK
    <3>2. QED
      BY <3>1, FinishedGrows
<1>3. CASE UNCHANGED <<writer, polls>>
  BY <1>2, <1>3 DEF WriterInv
<1>4. ASSUME NEW a \in Agents, StartRejected(a) \/ AgentCrash(a) \/ WriterDone(a)
      PROVE  WriterInv'
  <2>1. writer' = [writer EXCEPT ![a] = "exit"] /\ polls' = polls
    BY <1>4 DEF StartRejected, AgentCrash, WriterDone, WriterTo
  <2>2. QED
    BY <1>1, <1>2, <2>1 DEF WriterInv
<1>5. ASSUME NEW a \in Agents, WriterPoll(a)
      PROVE  WriterInv'
  <2>1. CASE state[a] = "AtBarrier" /\ WriterTo(a, "poll", "ready")
    <3>1. finished[a] > 0
      BY <2>1 DEF WorkflowInv
    <3>2. polls' = polls /\ polls[a] < MaxWaitPolls
      BY <1>1, <1>5, <2>1 DEF WriterPoll, WriterTo, WriterInv
    <3>3. QED
      BY <1>1, <1>2, <2>1, <3>1, <3>2 DEF WriterInv, WriterTo
  <2>2. CASE WriterTo(a, "poll", "exit")
    <3>1. polls' = polls
      BY <1>5 DEF WriterPoll
    <3>2. QED
      BY <1>1, <1>2, <2>2, <3>1 DEF WriterInv, WriterTo
  <2>3. QED
    BY <1>5, <2>1, <2>2 DEF WriterPoll
<1>6. ASSUME NEW a \in Agents, WriterResend(a)
      PROVE  WriterInv'
  <2>1. writer[a] = "ready" /\ finished[a] > 0
    BY <1>6 DEF WriterResend, WriterTo, WriterInv
  <2>2. \A b \in Agents \ {a} : writer'[b] = writer[b] /\ polls'[b] = polls[b]
    BY <1>1, <1>6 DEF WriterResend, WriterTo
  <2>3. writer'[a] # "poll" /\ (writer'[a] = "ready" => polls'[a] < MaxWaitPolls)
    BY <1>1, <1>6 DEF WriterResend, WriterTo
  <2>4. QED
    BY <1>2, <2>1, <2>2, <2>3 DEF WriterInv
<1>7. ASSUME NEW a \in Agents, Start(a) \/ Workflow(a) \/ FailStage(a) \/ StreamLost(a)
      PROVE  UNCHANGED <<writer, polls>>
  BY <1>7 DEF Start, Workflow, StartStage, FinishStage, EnterBarrier, RecvRelease,
              BarrierTimeout, CompleteStages, FailStage, StreamLost
<1>8. ASSUME NEW a \in Agents, \/ ForwardControl(a) \/ ForwarderGivesUp(a) \/ Disconnect(a)
                               \/ CtlStartup(a) \/ CtlMain(a) \/ CtlRunning(a)
      PROVE  UNCHANGED <<writer, polls>>
  BY <1>8 DEF ForwardControl, ForwarderGivesUp, Disconnect, CtlStartup, CtlMain, CtlRunning
<1>9. ASSUME StartupTimeout \/ ShutdownSignal \/ CtlClosed
      PROVE  UNCHANGED <<writer, polls>>
  BY <1>9 DEF StartupTimeout, ShutdownSignal, CtlClosed
<1>10. QED
  BY <1>3, <1>4, <1>5, <1>6, <1>7, <1>8, <1>9 DEF Next, Writer, AgentFault

\* A message that is new on its way to the controller tells the truth
LEMMA ReportsStep ==
    ASSUME TypeOK, WorkflowInv, WriterInv, ReportsTrue, Next
    PROVE  ReportsTrue'
<1> USE DEF workflowVars, writerVars, controllerVars
<1> DEFINE Truth(a, m) == m.kind \in {"ready", "barrier"} => finished[a] > m.k
           Kept == \A b \in Agents : \A i \in 1 .. Len(up'[b]) :
                     \/ \E j \in 1 .. Len(up[b]) : up'[b][i] = up[b][j]
                     \/ Truth(b, up'[b][i])
<1>1. up \in [Agents -> Seq(Message)] /\ fwd \in [Agents -> {"wait", "run", "gone"}]
  BY DEF TypeOK
<1>2. ASSUME NEW a \in Agents, NEW m \in Message, Truth(a, m), Send(a, m)
      PROVE  Kept
  <2>1. \A b \in Agents : \A i \in 1 .. Len(up'[b]) :
           \/ i \in 1 .. Len(up[b]) /\ up'[b][i] = up[b][i]
           \/ b = a /\ up'[b][i] = m
    BY <1>1, <1>2, SendLemma
  <2>2. QED
    BY <1>2, <2>1, Zenon
<1>3. ASSUME NEW a \in Agents, LoseStream(a)
      PROVE  Kept
  <2>1. Error.kind = "error"
    BY DEF Error
  <2>2. QED
    BY <1>1, <1>3, <2>1, LoseStreamLemma
<1>4. ASSUME NEW a \in Agents, up[a] # <<>>, Receive(a, Head(up[a]))
      PROVE  Kept
  BY <1>1, <1>4, ReceiveLemma
<1>5. ASSUME up' = up
      PROVE  Kept
  BY <1>5
<1> HIDE DEF Kept
<1>6. ASSUME NEW a \in Agents, EnterBarrier(a) \/ BarrierTimeout(a)
      PROVE  Kept
  <2>1. wf[a] = "ready" \/ wf[a] = "wait"
    BY <1>6 DEF EnterBarrier, BarrierTimeout, Moves
  <2>2. stage[a] - 1 \in Barriers
    BY <2>1, BarrierIndex
  <2>3. finished[a] > stage[a] - 1
    <3>1. finished[a] = stage[a]
      BY <2>1 DEF WorkflowInv
    <3>2. QED
      BY <3>1, WorkflowTypes
  <2>4. \/ Send(a, AtBarrier(stage[a] - 1, TRUE))
        \/ Send(a, AtBarrier(stage[a] - 1, FALSE))
        \/ up' = up
    BY <1>6 DEF EnterBarrier, BarrierTimeout
  <2>5. \A b \in BOOLEAN : /\ AtBarrier(stage[a] - 1, b) \in Message
                           /\ AtBarrier(stage[a] - 1, b).k = stage[a] - 1
    BY <2>2, MessageType DEF AtBarrier
  <2>6. QED
    BY <1>2, <1>5, <2>3, <2>4, <2>5
<1>7. ASSUME NEW a \in Agents, Writer(a)
      PROVE  Kept
  <2>1. /\ Ready \in Message /\ Completed \in Message /\ Error \in Message
        /\ Ready.k = 0 /\ Completed.kind = "completed" /\ Error.kind = "error"
    BY MessageType DEF Ready, Completed, Error
  <2>2. CASE up' = up \/ Send(a, Completed) \/ Send(a, Error)
    BY <1>2, <1>5, <2>1, <2>2
  <2>3. CASE (WriterPoll(a) \/ WriterResend(a)) /\ Send(a, Ready) /\ up' # up
    <3>1. state[a] = "AtBarrier" \/ writer[a] = "ready"
      BY <2>3 DEF WriterPoll, WriterResend, WriterTo
    <3>2. finished[a] > 0
      BY <3>1 DEF WorkflowInv, WriterInv
    <3>3. QED
      BY <1>2, <2>1, <2>3, <3>2
  <2>4. QED
    BY <1>7, <2>2, <2>3 DEF Writer, WriterPoll, WriterResend, WriterDone
<1>8. ASSUME NEW a \in Agents, StreamLost(a) \/ AgentCrash(a)
      PROVE  Kept
  BY <1>3, <1>8 DEF StreamLost, AgentCrash
<1>9. ASSUME NEW a \in Agents, CtlStartup(a) \/ CtlMain(a)
      PROVE  Kept
  BY <1>4, <1>9 DEF CtlStartup, CtlMain
<1>10. ASSUME NEW a \in Agents, \/ Start(a) \/ StartStage(a) \/ FinishStage(a)
                                \/ RecvRelease(a) \/ CompleteStages(a)
       PROVE  Kept
  <2>1. up' = up
    BY <1>10 DEF Start, StartStage, FinishStage, RecvRelease, CompleteStages
  <2>2. QED
    BY <1>5, <2>1
<1>11. ASSUME NEW a \in Agents, \/ FailStage(a) \/ StartRejected(a) \/ ForwardControl(a)
                                \/ ForwarderGivesUp(a) \/ Disconnect(a) \/ CtlRunning(a)
       PROVE  Kept
  <2>1. up' = up
    BY <1>11 DEF FailStage, StartRejected, ForwardControl, ForwarderGivesUp, Disconnect,
                 CtlRunning
  <2>2. QED
    BY <1>5, <2>1
<1>12. ASSUME StartupTimeout \/ ShutdownSignal \/ CtlClosed
       PROVE  Kept
  <2>1. up' = up
    BY <1>12 DEF StartupTimeout, ShutdownSignal, CtlClosed
  <2>2. QED
    BY <1>5, <2>1
<1>13. Kept
  BY <1>6, <1>7, <1>8, <1>9, <1>10, <1>11, <1>12 DEF Next, Workflow, AgentFault
<1>14. ASSUME NEW b \in Agents, NEW i \in 1 .. Len(up'[b]),
              up'[b][i].kind \in {"ready", "barrier"}
       PROVE  finished'[b] > up'[b][i].k
  <2>1. TypeOK'
    BY TypeStep
  <2>2. /\ finished[b] \in Nat /\ finished'[b] \in Nat
        /\ finished[b] <= finished'[b]
    <3>1. finished[b] \in Nat /\ finished'[b] \in Nat
      BY <2>1, ConstantsAssumption DEF TypeOK
    <3>2. QED
      BY <3>1, FinishedGrows
  <2>3. up'[b][i].k \in Nat
    <3>1. up'[b] \in Seq(Message)
      BY <2>1 DEF TypeOK
    <3>2. up'[b][i] \in Message
      BY <1>14, <3>1, ElementOfSeq
    <3>3. QED
      BY <3>2, ConstantsAssumption DEF Message, Barriers
  <2>4. finished[b] > up'[b][i].k
    BY <1>13, <1>14 DEF Kept, ReportsTrue
  <2>5. QED
    BY <2>2, <2>3, <2>4
<1>15. QED
  BY <1>14 DEF ReportsTrue

\* What the main loop may do to the barriers, whatever message it handles
LEMMA MainLoopBarriers ==
    ASSUME TypeOK, ReportsTrue, Next
    PROVE  /\ released \subseteq released'
           /\ \A k \in Barriers : ready_agents'[k] \subseteq ready_agents[k] \cup FinishersOf(k)
           /\ \A j \in released' \ released :
                 CanRelease(BarrierType, Cardinality(ready_agents'[j]), Cardinality(Agents), 0)
           /\ \A i \in 1 .. Len(bcast') :
                 \/ i \in 1 .. Len(bcast) /\ bcast'[i] = bcast[i]
                 \/ bcast'[i].barrier \in released'
<1>1. CASE UNCHANGED <<ready_agents, released, bcast>>
  BY <1>1
<1>2. ASSUME NEW a \in Agents, CtlMain(a), ~ UNCHANGED <<ready_agents, released, bcast>>
      PROVE  /\ released \subseteq released'
             /\ \A k \in Barriers :
                   ready_agents'[k] \subseteq ready_agents[k] \cup FinishersOf(k)
             /\ \A j \in released' \ released :
                   CanRelease(BarrierType, Cardinality(ready_agents'[j]), Cardinality(Agents), 0)
             /\ \A i \in 1 .. Len(bcast') :
                   \/ i \in 1 .. Len(bcast) /\ bcast'[i] = bcast[i]
                   \/ bcast'[i].barrier \in released'
  <2> DEFINE m == Head(up[a])
  <2>1. up[a] \in Seq(Message) /\ up[a] # <<>>
    BY <1>2 DEF TypeOK, CtlMain
  <2>2. m \in Message /\ m = up[a][1] /\ 1 \in 1 .. Len(up[a])
    BY <2>1
  <2>3. NoteBarrier(a, m)
    BY <1>2 DEF CtlMain
  <2>4. m.kind \in {"ready", "barrier"} => finished[a] > m.k
    BY <2>2 DEF ReportsTrue
  <2> HIDE DEF m
  <2>5. \A k \in Barriers :
           \/ ready_agents'[k] = ready_agents[k]
           \/ finished[a] > k /\ ready_agents'[k] = ready_agents[k] \cup {a}
    BY <2>2, <2>3, <2>4, NoteBarrierLemma
  <2>6. \A k \in Barriers : ready_agents'[k] \subseteq ready_agents[k] \cup FinishersOf(k)
    BY <2>5 DEF FinishersOf
  <2>7. QED
    BY <2>2, <2>3, <2>6, NoteBarrierLemma
<1>3. QED
  BY <1>1, <1>2, BarrierOwner

\* Finishers only grow, so what was tracked and decided stays right
LEMMA FinishersGrow ==
    ASSUME TypeOK, WorkflowInv, WriterInv, Next, NEW k \in Barriers
    PROVE  FinishersOf(k) \subseteq FinishersOf(k)'
<1>1. TypeOK'
  BY TypeStep
<1>2. ASSUME NEW b \in Agents, finished[b] > k
      PROVE  finished'[b] > k
  <2>1. finished[b] \in Nat /\ finished'[b] \in Nat /\ k \in Nat
    BY <1>1, ConstantsAssumption DEF TypeOK, Barriers
  <2>2. QED
    BY <1>2, <2>1, FinishedGrows
<1>3. QED
  BY <1>2 DEF FinishersOf

\* The controller counts only agents that finished, and releases only on enough
LEMMA TrackedStep ==
    ASSUME IInv, Next
    PROVE  TrackedTrue' /\ ReleasedMet'
<1>1. TypeOK' /\ TypeOK
  BY TypeStep DEF IInv
<1>2. ASSUME NEW k \in Barriers
      PROVE  ready_agents'[k] \subseteq FinishersOf(k)'
  <2>1. ready_agents'[k] \subseteq ready_agents[k] \cup FinishersOf(k)
    BY MainLoopBarriers DEF IInv
  <2>2. ready_agents[k] \subseteq FinishersOf(k)
    BY DEF IInv, TrackedTrue
  <2>3. QED
    BY <2>1, <2>2, FinishersGrow DEF IInv
<1>3. ASSUME NEW k \in released'
      PROVE  PolicyMet(k)'
  <2>1. k \in Barriers
    BY <1>1 DEF TypeOK
  <2>2. /\ FinishersOf(k) \in SUBSET Agents
        /\ FinishersOf(k)' \in SUBSET Agents
    BY DEF FinishersOf
  <2>3. CASE k \in released
    <3>1. CanRelease(BarrierType, Cardinality(FinishersOf(k)), Cardinality(Agents), 0)
      BY <2>3 DEF IInv, ReleasedMet, PolicyMet
    <3>2. FinishersOf(k) \subseteq FinishersOf(k)'
      BY <2>1, FinishersGrow DEF IInv
    <3>3. CanRelease(BarrierType, Cardinality(FinishersOf(k)'), Cardinality(Agents), 0)
      BY <2>2, <3>1, <3>2, CanReleaseGrows
    <3>4. QED
      BY <3>3 DEF PolicyMet
  <2>4. CASE k \notin released
    <3>1. CanRelease(BarrierType, Cardinality(ready_agents'[k]), Cardinality(Agents), 0)
      BY <1>3, <2>4, MainLoopBarriers DEF IInv
    <3>2. ready_agents'[k] \subseteq FinishersOf(k)' /\ ready_agents'[k] \in SUBSET Agents
      BY <1>1, <1>2, <2>1 DEF TypeOK
    <3>3. CanRelease(BarrierType, Cardinality(FinishersOf(k)'), Cardinality(Agents), 0)
      BY <2>2, <3>1, <3>2, CanReleaseGrows
    <3>4. QED
      BY <3>3 DEF PolicyMet
  <2>5. QED
    BY <2>3, <2>4
<1>4. QED
  BY <1>2, <1>3 DEF TrackedTrue, ReleasedMet

\* A release reaches an agent's queue only from the broadcast
LEMMA ReleasesStep ==
    ASSUME IInv, Next
    PROVE  ReleasesTrue'
<1> USE DEF workflowVars, writerVars, controllerVars
<1>1. TypeOK /\ ReleasesTrue /\ released \subseteq released'
  BY MainLoopBarriers DEF IInv
<1>2. \A i \in 1 .. Len(bcast') : bcast'[i].barrier \in released'
  BY <1>1, MainLoopBarriers DEF IInv, ReleasesTrue
<1>3. barrier_rx \in [Agents -> Seq(Barriers)]
  BY <1>1 DEF TypeOK
<1> DEFINE Rx == \A a \in Agents : \A i \in 1 .. Len(barrier_rx'[a]) :
                    barrier_rx'[a][i] \in released
<1>4. ASSUME barrier_rx' = barrier_rx
      PROVE  Rx
  BY <1>1, <1>4 DEF ReleasesTrue
<1>5. ASSUME NEW a \in Agents, EnterBarrier(a) \/ AgentCrash(a)
      PROVE  Rx
  <2>1. barrier_rx' = [barrier_rx EXCEPT ![a] = <<>>]
    BY <1>5 DEF EnterBarrier, AgentCrash
  <2>2. QED
    BY <1>1, <1>3, <2>1 DEF ReleasesTrue
<1>6. ASSUME NEW a \in Agents, RecvRelease(a)
      PROVE  Rx
  <2>1. /\ barrier_rx[a] \in Seq(Barriers)
        /\ barrier_rx[a] # <<>>
        /\ barrier_rx' = [barrier_rx EXCEPT ![a] = Tail(@)]
    BY <1>3, <1>6 DEF RecvRelease
  <2>2. \A i \in 1 .. Len(Tail(barrier_rx[a])) :
           Tail(barrier_rx[a])[i] = barrier_rx[a][i + 1] /\ i + 1 \in 1 .. Len(barrier_rx[a])
    BY <2>1
  <2>3. QED
    BY <1>1, <1>3, <2>1, <2>2 DEF ReleasesTrue
<1>7. ASSUME NEW a \in Agents, ForwardControl(a)
      PROVE  Rx
  <2>1. cursor[a] + 1 \in 1 .. Len(bcast)
    <3>1. cursor[a] \in Nat /\ Len(bcast) \in Nat /\ cursor[a] < Len(bcast)
      BY <1>1, <1>7 DEF TypeOK, ForwardControl
    <3>2. QED
      BY <3>1
  <2> DEFINE k == bcast[cursor[a] + 1].barrier
  <2>2. k \in released
    BY <1>1, <2>1 DEF ReleasesTrue
  <2>3. barrier_rx' = barrier_rx \/ barrier_rx' = [barrier_rx EXCEPT ![a] = Append(@, k)]
    BY <1>7, Zenon DEF ForwardControl
  <2> HIDE DEF k
  <2>4. CASE barrier_rx' = [barrier_rx EXCEPT ![a] = Append(@, k)]
    <3>1. /\ barrier_rx[a] \in Seq(Barriers)
          /\ barrier_rx'[a] = Append(barrier_rx[a], k)
          /\ \A b \in Agents \ {a} : barrier_rx'[b] = barrier_rx[b]
      BY <1>3, <2>4
    <3>2. \A i \in 1 .. Len(barrier_rx'[a]) :
             \/ i \in 1 .. Len(barrier_rx[a]) /\ barrier_rx'[a][i] = barrier_rx[a][i]
             \/ barrier_rx'[a][i] = k
      BY <3>1
    <3>3. QED
      BY <1>1, <2>2, <3>1, <3>2 DEF ReleasesTrue
  <2>5. QED
    BY <1>4, <2>3, <2>4
<1>8. ASSUME NEW a \in Agents, \/ Start(a) \/ StartStage(a) \/ FinishStage(a)
                               \/ BarrierTimeout(a) \/ CompleteStages(a) \/ FailStage(a)
      PROVE  barrier_rx' = barrier_rx
  BY <1>8 DEF Start, StartStage, FinishStage, BarrierTimeout, CompleteStages, FailStage
<1> HIDE DEF Rx
<1>9. Rx
  BY <1>1, <1>4, <1>5, <1>6, <1>7, <1>8, WorkflowOwner DEF Workflow
<1>10. QED
  BY <1>1, <1>2, <1>9 DEF ReleasesTrue, Rx

\* An agent gets past a barrier by a release, and only by one for that barrier
LEMMA PassedStep ==
    ASSUME IInv, Next
    PROVE  PassedReleased'
<1> USE DEF Passed
<1>1. TypeOK /\ WorkflowInv /\ PassedReleased /\ released \subseteq released'
  BY MainLoopBarriers DEF IInv
<1>2. /\ stage \in [Agents -> 0 .. NumStages]
      /\ wf \in [Agents -> {"idle", "next", "exec", "ready", "wait", "done", "failed"}]
      /\ NumStages \in Nat
      /\ Barriers \subseteq Nat
  BY <1>1, ConstantsAssumption DEF TypeOK, Barriers
<1> DEFINE Kept == \A b \in Agents, k \in Barriers : Passed(b, k)' => Passed(b, k)
<1>3. CASE UNCHANGED <<wf, stage, finished>>
  BY <1>1, <1>3 DEF PassedReleased
<1>4. ASSUME NEW a \in Agents, Start(a) PROVE Kept
  <2>1. stage[a] = 0 /\ stage' = stage /\ wf' = [wf EXCEPT ![a] = "next"]
    BY <1>1, <1>4 DEF Start, Moves, WorkflowInv
  <2>2. QED
    BY <1>2, <2>1
<1>5. ASSUME NEW a \in Agents, StartStage(a) PROVE Kept
  BY <1>2, <1>5 DEF StartStage, Moves
<1>6. ASSUME NEW a \in Agents,
             FinishStage(a) \/ EnterBarrier(a) \/ BarrierTimeout(a) \/ FailStage(a)
      PROVE  Kept
  BY <1>2, <1>6 DEF FinishStage, EnterBarrier, BarrierTimeout, FailStage, Moves
<1>7. ASSUME NEW a \in Agents, CompleteStages(a) PROVE Kept
  BY <1>2, <1>7 DEF CompleteStages, Moves
<1>8. ASSUME NEW a \in Agents, AgentCrash(a) PROVE Kept
  BY <1>2, <1>8 DEF AgentCrash
<1>9. ASSUME Kept PROVE PassedReleased'
  BY <1>1, <1>9 DEF PassedReleased
<1>10. ASSUME NEW a \in Agents, RecvRelease(a) PROVE PassedReleased'
  <2> DEFINE k == Head(barrier_rx[a])
  <2>1. k \in released
    <3>1. barrier_rx[a] \in Seq(Barriers) /\ barrier_rx[a] # <<>>
      BY <1>1, <1>10 DEF TypeOK, RecvRelease
    <3>2. k = barrier_rx[a][1] /\ 1 \in 1 .. Len(barrier_rx[a])
      BY <3>1
    <3>3. QED
      BY <3>2 DEF IInv, ReleasesTrue
  <2>2. /\ stage' = stage
        /\ \/ wf' = wf
           \/ wf' = [wf EXCEPT ![a] = "next"] /\ k = stage[a] - 1
    <3>1. /\ stage' = stage
          /\ wf' = [wf EXCEPT ![a] = IF Accepts(a, k) THEN "next" ELSE @]
      BY <1>10 DEF RecvRelease
    <3>2. QED
      BY <1>2, <3>1 DEF Accepts
  <2> HIDE DEF k
  <2>3. ASSUME NEW b \in Agents, NEW j \in Barriers, Passed(b, j)'
        PROVE  j \in released'
    <3>1. Passed(b, j) \/ (b = a /\ stage[a] = j + 1 /\ k = stage[a] - 1)
      BY <1>2, <2>2, <2>3
    <3>2. CASE Passed(b, j)
      BY <1>1, <3>2 DEF PassedReleased
    <3>3. CASE b = a /\ stage[a] = j + 1 /\ k = stage[a] - 1
      BY <1>1, <1>2, <2>1, <3>3
    <3>4. QED
      BY <3>1, <3>2, <3>3
  <2>4. QED
    BY <2>3 DEF PassedReleased
<1> HIDE DEF Kept
<1>11. QED
  BY <1>1, <1>3, <1>4, <1>5, <1>6, <1>7, <1>8, <1>9, <1>10, WorkflowOwner DEF Workflow
-----------------------------------------------------------------------------
(***************************************************************************)
(* Theorems                                                                *)
(***************************************************************************)

\* The initial state, in which nobody has started, satisfies the invariant
LEMMA InitInvariant == Init => IInv
<1> SUFFICES ASSUME Init PROVE IInv
  OBVIOUS
<1> USE ConstantsAssumption DEF Init
<1>1. TypeOK
  <2>1. /\ stage \in [Agents -> 0 .. NumStages]
        /\ finished \in [Agents -> 0 .. NumStages]
        /\ timeouts \in [Agents -> 0 .. MaxBarrierRetries]
        /\ polls \in [Agents -> 0 .. MaxWaitPolls]
        /\ cursor \in [Agents -> Nat]
    OBVIOUS
  <2>2. /\ barrier_rx \in [Agents -> Seq(Barriers)]
        /\ up \in [Agents -> Seq(Message)]
        /\ bcast \in Seq([agent : Agents, barrier : Barriers])
        /\ summaries \in [Barriers -> Seq(Agents)]
    OBVIOUS
  <2>3. QED
    BY <2>1, <2>2 DEF TypeOK, States
<1>2. WorkflowInv /\ WriterInv
  BY DEF WorkflowInv, WriterInv
<1>3. ReportsTrue /\ TrackedTrue /\ ReleasedMet /\ ReleasesTrue
  BY DEF ReportsTrue, TrackedTrue, ReleasedMet, ReleasesTrue
<1>4. PassedReleased
  BY DEF PassedReleased, Passed, Barriers
<1>5. QED
  BY <1>1, <1>2, <1>3, <1>4 DEF IInv

\* The invariant survives every step and every stutter
LEMMA StepInvariant == IInv /\ [Next]_vars => IInv'
<1> SUFFICES ASSUME IInv, [Next]_vars PROVE IInv'
  OBVIOUS
<1>1. CASE Next
  <2>1. TypeOK' /\ WorkflowInv' /\ WriterInv' /\ ReportsTrue'
    BY <1>1, TypeStep, WorkflowStep, WriterStep, ReportsStep DEF IInv
  <2>2. TrackedTrue' /\ ReleasedMet' /\ ReleasesTrue' /\ PassedReleased'
    BY <1>1, TrackedStep, ReleasesStep, PassedStep
  <2>3. QED
    BY <2>1, <2>2 DEF IInv
<1>2. CASE UNCHANGED vars
  BY <1>2 DEF IInv, vars, TypeOK, WorkflowInv, WriterInv, ReportsTrue, TrackedTrue,
              ReleasedMet, PolicyMet, FinishersOf, ReleasesTrue, PassedReleased, Passed
<1>3. QED
  BY <1>1, <1>2

\* Every reachable state satisfies the inductive invariant
LEMMA Invariance == Spec => []IInv
  BY InitInvariant, StepInvariant, PTL DEF Spec

\* Type correctness, for any number of agents, stages and retries and under any
\* adversity: stage counters stay within NumStages, barrier_sequence within
\* max_barrier_retries and barrier indices within the configured stages.
THEOREM TypeCorrect == Spec => []TypeOK
<1>1. IInv => TypeOK
  BY DEF IInv
<1>2. QED
  BY <1>1, Invariance, PTL

\* Barrier safety for every configuration: no agent leaves a stage barrier of
\* execute_stages_workflow before the policy of check_barrier_ready is met by
\* agents that really finished the stage, whatever is lost, late or repeated.
THEOREM BarrierSafety == Spec => []Synchronised
<1>1. IInv => Synchronised
  <2> SUFFICES ASSUME IInv, NEW a \in Agents, NEW k \in Barriers, Passed(a, k)
               PROVE  PolicyMet(k)
    BY DEF Synchronised, PolicyMet
  <2>1. k \in released
    BY DEF IInv, PassedReleased
  <2>2. QED
    BY <2>1 DEF IInv, ReleasedMet
<1>2. QED
  BY <1>1, Invariance, PTL

\* The distributed protocol implements the abstract one: seen from outside,
\* agents start and finish stages in order, each start behind a met barrier.
THEOREM Implements == Spec => Refinement
<1> USE DEF workflowVars, writerVars, controllerVars
<1>1. Init => Sync!Init
  BY DEF Init, Sync!Init
<1>2. IInv /\ [Next]_vars => [Sync!Next]_(Sync!vars)
  <2> SUFFICES ASSUME IInv, [Next]_vars
               PROVE  Sync!Next \/ UNCHANGED <<stage, finished>>
    BY DEF Sync!vars
  <2>1. TypeOK /\ WorkflowInv /\ PassedReleased /\ ReleasedMet
    BY DEF IInv
  <2>2. ASSUME NEW a \in Agents, StartStage(a), ~ UNCHANGED <<stage, finished>>
        PROVE  Sync!StartStage(a)
    <3>1. /\ wf[a] = "next"
          /\ stage[a] < NumStages
          /\ stage' = [stage EXCEPT ![a] = @ + 1]
          /\ finished' = finished
      BY <2>2 DEF StartStage, Moves
    <3>2. finished[a] = stage[a]
      BY <2>1, <3>1 DEF WorkflowInv
    <3>3. ASSUME stage[a] > 0
          PROVE  CanRelease(BarrierType, Cardinality(Sync!Finishers(stage[a])),
                            Cardinality(Agents), 0)
      <4>1. /\ stage[a] - 1 \in Barriers
            /\ stage[a] \in 0 .. NumStages
        BY <2>1, <3>1, <3>3, WorkflowTypes, ConstantsAssumption DEF Barriers
      <4>2. Passed(a, stage[a] - 1)
        BY <3>1, <4>1 DEF Passed
      <4>3. PolicyMet(stage[a] - 1)
        BY <2>1, <4>1, <4>2 DEF PassedReleased, ReleasedMet
      <4>4. FinishersOf(stage[a] - 1) = Sync!Finishers(stage[a])
        <5>1. \A b \in Agents : finished[b] \in Nat
          BY <2>1, ConstantsAssumption DEF TypeOK
        <5>2. QED
          BY <4>1, <5>1, ConstantsAssumption DEF FinishersOf, Sync!Finishers
      <4>5. QED
        BY <4>3, <4>4 DEF PolicyMet
    <3>4. Sync!BarrierMet(stage[a])
      <4>1. ASSUME NEW S
            PROVE  Sync!Cardinality(S) = Cardinality(S)
        BY Zenon DEF Sync!Cardinality, Cardinality, Sync!IsFiniteSet, IsFiniteSet
      <4>2. QED
        BY <3>3, <4>1 DEF Sync!BarrierMet, Sync!CanRelease, CanRelease
    <3>5. QED
      BY <3>1, <3>2, <3>4 DEF Sync!StartStage
  <2>3. ASSUME NEW a \in Agents, FinishStage(a), ~ UNCHANGED <<stage, finished>>
        PROVE  Sync!FinishStage(a)
    <3>1. /\ wf[a] = "exec"
          /\ finished' = [finished EXCEPT ![a] = @ + 1]
          /\ stage' = stage
      BY <2>3 DEF FinishStage, Moves
    <3>2. stage[a] = finished[a] + 1
      BY <2>1, <3>1 DEF WorkflowInv
    <3>3. QED
      BY <3>1, <3>2 DEF Sync!FinishStage
  <2>4. ASSUME NEW a \in Agents, \/ Start(a) \/ EnterBarrier(a) \/ RecvRelease(a)
                                 \/ BarrierTimeout(a) \/ CompleteStages(a)
                                 \/ FailStage(a) \/ AgentCrash(a)
        PROVE  UNCHANGED <<stage, finished>>
    BY <2>4 DEF Start, EnterBarrier, RecvRelease, BarrierTimeout, CompleteStages, FailStage,
                AgentCrash
  <2>5. CASE UNCHANGED vars
    BY <2>5 DEF vars
  <2>6. CASE Next
    <3>1. ASSUME ~ UNCHANGED <<stage, finished>>
          PROVE  \E a \in Agents : Sync!StartStage(a) \/ Sync!FinishStage(a)
      <4>1. PICK a \in Agents : \/ Start(a) \/ Workflow(a) \/ FailStage(a)
                               \/ AgentCrash(a)
        BY <2>1, <2>6, <3>1, WorkflowOwner
      <4>2. StartStage(a) \/ FinishStage(a)
        BY <2>4, <3>1, <4>1 DEF Workflow
      <4>3. QED
        BY <2>2, <2>3, <3>1, <4>2
    <3>2. QED
      BY <3>1 DEF Sync!Next
  <2>7. QED
    BY <2>5, <2>6
<1>3. QED
  BY <1>1, <1>2, Invariance, PTL DEF Spec, Refinement, Sync!Spec

-----------------------------------------------------------------------------
(* What the controller of a staged run sends and reports: releases are     *)
(* sent once, stage summaries are counted once and all of them, and        *)
(* success means that every agent has finished every stage.                *)
(*                                                                         *)
(* The argument is about the FIFO from an agent to the controller.  The    *)
(* first report of a barrier carries the summary, a broken stream loses a  *)
(* suffix of what was under way, and the startup loop, which looks at      *)
(* nothing but READY, cannot receive a report of a later barrier: so no    *)
(* agent is ready at a barrier but the first without its summary.          *)

\* Agent a is among the summaries collected for barrier k
Summarised(a, k) == \E i \in 1 .. Len(summaries[k]) : summaries[k][i] = a

\* m is the first report of barrier k
Summ(m, k) == m.kind = "barrier" /\ m.k = k /\ m.sum = TRUE

\* At most one summary of an agent and a barrier is under way or collected
Once(a) ==
    /\ \A i, j \in 1 .. Len(up[a]) :
         up[a][i].sum = TRUE /\ up[a][j].sum = TRUE /\ up[a][i].k = up[a][j].k => i = j
    /\ \A i \in 1 .. Len(up[a]) : up[a][i].sum = TRUE => ~Summarised(a, up[a][i].k)

\* ... and none of a barrier that the workflow has not reported yet
Started(a, k) == k < stage[a] /\ (wf[a] \in {"exec", "ready"} => k + 1 < stage[a])
InTime(a) ==
    /\ \A i \in 1 .. Len(up[a]) : up[a][i].sum = TRUE => Started(a, up[a][i].k)
    /\ \A k \in Barriers : Summarised(a, k) => Started(a, k)

Collected(k) ==
    \A i, j \in 1 .. Len(summaries[k]) : summaries[k][i] = summaries[k][j] => i = j

SummaryInv == (\A a \in Agents : Once(a) /\ InTime(a)) /\ (\A k \in Barriers : Collected(k))

\* Later barriers exist for the main loop only
Later ==
    /\ released # {} => ctl # "startup"
    /\ \A a \in Agents : \A i \in 1 .. Len(up[a]) : up[a][i].k # 0 => released # {}

\* No report of a later barrier gets ahead of the summary
Ahead(a, k) ==
    /\ a \in ready_agents[k] => Summarised(a, k)
    /\ \A i \in 1 .. Len(up[a]) : up[a][i].k = k =>
         Summarised(a, k) \/ \E j \in 1 .. i : Summ(up[a][j], k)
    /\ wf[a] = "wait" /\ stage[a] = k + 1 /\ fwd[a] # "gone" /\ ctl \notin Terminal =>
         Summarised(a, k) \/ \E j \in 1 .. Len(up[a]) : Summ(up[a][j], k)

SummaryFirst == \A a \in Agents, k \in Barriers \ {0} : Ahead(a, k)

\* Unless a majority is enough, everyone reported a released barrier
Everyone == BarrierType # "Majority" => \A k \in released : ready_agents[k] = Agents

Last == NumStages - 1

\* COMPLETED comes from behind the last barrier
Endings ==
    /\ \A a \in Agents : \A i \in 1 .. Len(up[a]) :
         up[a][i].kind = "completed" => Last \in released
    /\ ctl # "aborted" /\ comp # {} => Last \in released
    /\ ctl = "finished" => Last \in released

RInv ==
    /\ ReleasedOnce
    /\ SummaryInv
    /\ Later
    /\ SummaryFirst
    /\ Everyone
    /\ Endings
-----------------------------------------------------------------------------
(***************************************************************************)
(* What a step may do to the channel and to the controller's books         *)
(***************************************************************************)

\* The workflow of b stays where it is or goes on
Advances(b) ==
    /\ stage'[b] >= stage[b]
    /\ wf'[b] \in {"exec", "ready"} =>
         (wf[b] \in {"exec", "ready"} /\ stage'[b] = stage[b]) \/ stage'[b] = stage[b] + 1
    /\ wf'[b] = "wait" => stage'[b] = stage[b] /\ (wf[b] = "wait" \/ EnterBarrier(b))

BooksKept == UNCHANGED <<ready_agents, released, bcast, summaries>>

\* Agent a's message m joins the queue
Joins(a, m) ==
    /\ up' = [up EXCEPT ![a] = Append(@, m)]
    /\ m \in Message
    /\ BooksKept /\ ctl' = ctl /\ comp' = comp
    /\ \/ EnterBarrier(a) /\ m = AtBarrier(stage[a] - 1, TRUE)
       \/ /\ m = AtBarrier(stage[a] - 1, FALSE) /\ wf[a] = "wait"
          /\ fwd[a] # "gone" /\ ctl \notin Terminal /\ stage' = stage
          /\ \A b \in Agents : wf'[b] = "wait" => wf[b] = "wait"
       \/ /\ m.k = 0 /\ m.sum = FALSE /\ (m.kind = "completed" => wf[a] = "done")
          /\ wf' = wf /\ stage' = stage

\* Nothing joins or leaves a queue
Still ==
    /\ up' = up /\ BooksKept /\ comp' \subseteq comp
    /\ ctl' = "finished" => ctl = "finished"
    /\ ctl' # "aborted" => ctl # "aborted"
    /\ \A b \in Agents : wf'[b] = "wait" =>
         wf[b] = "wait" \/ fwd'[b] = "gone" \/ ctl' \in Terminal

\* A queue is cut
Cut(a) ==
    /\ LoseStream(a)
    /\ BooksKept /\ ctl' = ctl /\ comp' = comp
    /\ \A b \in Agents : wf'[b] = "wait" => wf[b] = "wait"

LEMMA OneWay ==
    ASSUME TypeOK, Next
    PROVE  /\ \A b \in Agents : fwd'[b] # "gone" => fwd[b] # "gone"
           /\ ctl' \notin Terminal => ctl \notin Terminal
           /\ ctl' = "startup" => ctl = "startup"
<1> USE DEF workflowVars, writerVars, controllerVars
<1>1. fwd \in [Agents -> {"wait", "run", "gone"}] /\ ctl \in {"startup", "main"} \cup Terminal
  BY DEF TypeOK
<1>2. ASSUME NEW a \in Agents, Start(a) \/ Workflow(a) \/ Writer(a) \/ FailStage(a) \/ ForwardControl(a)
      PROVE  fwd' = fwd /\ ctl' = ctl
  BY <1>2 DEF Start, Workflow, StartStage, FinishStage, EnterBarrier, RecvRelease, BarrierTimeout,
     CompleteStages, Writer, WriterPoll, WriterResend, WriterDone, FailStage, ForwardControl
<1>3. ASSUME NEW a \in Agents, StartRejected(a) \/ StreamLost(a) \/ AgentCrash(a)
                               \/ ForwarderGivesUp(a) \/ Disconnect(a)
      PROVE  fwd' = [fwd EXCEPT ![a] = "gone"] /\ ctl' = ctl
  BY <1>3 DEF StartRejected, StreamLost, AgentCrash, LoseStream, ForwarderGivesUp, Disconnect
<1>4. ASSUME NEW a \in Agents, CtlStartup(a) \/ CtlMain(a)
      PROVE  \A b \in Agents : fwd'[b] # "gone" => fwd[b] # "gone"
  <2>1. Receive(a, Head(up[a]))
    BY <1>4 DEF CtlStartup, CtlMain
  <2>2. \A b \in Agents \ {a} : fwd'[b] = fwd[b]
    BY <1>1, <2>1 DEF Receive
  <2>3. fwd[a] = "gone" => fwd'[a] = "gone"
    BY <1>1, <2>1 DEF Receive, Swallowed
  <2>4. QED
    BY <2>2, <2>3
<1>5. ASSUME NEW a \in Agents, CtlStartup(a) \/ CtlMain(a) \/ CtlRunning(a)
      PROVE  ctl \notin Terminal /\ (ctl' = "startup" => ctl = "startup")
  <2>1. ctl = "startup" \/ ctl = "main"
    BY <1>5 DEF CtlStartup, CtlMain, CtlRunning
  <2>2. CASE ctl = "main"
    <3>1. CtlMain(a) \/ CtlRunning(a)
      BY <1>5, <2>2 DEF CtlStartup
    <3>2. ctl' \in {"aborted", "finished", ctl}
      BY <3>1 DEF CtlMain, CtlRunning, PhaseSwitch
    <3>3. QED
      BY <2>2, <3>2 DEF Terminal
  <2>3. QED
    BY <2>1, <2>2 DEF Terminal
<1>6. ASSUME StartupTimeout \/ ShutdownSignal \/ CtlClosed
      PROVE  fwd' = fwd /\ ctl' \in Terminal
  BY <1>6 DEF StartupTimeout, ShutdownSignal, CtlClosed, Terminal
<1>7. ASSUME NEW a \in Agents, CtlRunning(a)  PROVE fwd' = fwd
  BY <1>7 DEF CtlRunning
<1>8. "startup" \notin Terminal
  BY DEF Terminal
<1>9. QED
  BY <1>1, <1>2, <1>3, <1>4, <1>5, <1>6, <1>7, <1>8 DEF Next, AgentFault

LEMMA WorkflowsAdvance ==
    ASSUME TypeOK, Next
    PROVE  \A b \in Agents : Advances(b)
<1>1. /\ stage \in [Agents -> 0 .. NumStages]
      /\ wf \in [Agents -> {"idle", "next", "exec", "ready", "wait", "done", "failed"}]
      /\ \A b \in Agents : stage[b] \in Nat
  BY ConstantsAssumption DEF TypeOK
<1>2. CASE UNCHANGED <<wf, stage, finished>>
  BY <1>1, <1>2 DEF Advances
<1>3. ASSUME NEW a \in Agents, Start(a) \/ CompleteStages(a) \/ FailStage(a) \/ AgentCrash(a)
      PROVE  \A b \in Agents : Advances(b)
  <2>1. stage' = stage /\ \E x \in {"next", "done", "failed"} : wf' = [wf EXCEPT ![a] = x]
    BY <1>3 DEF Start, CompleteStages, FailStage, AgentCrash, Moves
  <2>2. QED
    BY <1>1, <2>1 DEF Advances
<1>4. ASSUME NEW a \in Agents, StartStage(a)  PROVE \A b \in Agents : Advances(b)
  BY <1>1, <1>4 DEF StartStage, Moves, Advances
<1>5. ASSUME NEW a \in Agents, FinishStage(a)  PROVE \A b \in Agents : Advances(b)
  BY <1>1, <1>5 DEF FinishStage, Moves, Advances
<1>6. ASSUME NEW a \in Agents, EnterBarrier(a)  PROVE \A b \in Agents : Advances(b)
  <2>1. wf' = [wf EXCEPT ![a] = "wait"] /\ stage' = stage
    BY <1>6 DEF EnterBarrier, Moves
  <2>2. QED
    BY <1>1, <1>6, <2>1 DEF Advances
<1>7. ASSUME NEW a \in Agents, RecvRelease(a) \/ BarrierTimeout(a)
      PROVE  \A b \in Agents : Advances(b)
  <2>1. /\ stage' = stage /\ wf[a] = "wait"
        /\ \E x \in {"next", "wait", "failed"} : wf' = [wf EXCEPT ![a] = x]
    BY <1>1, <1>7 DEF RecvRelease, BarrierTimeout, Moves
  <2>2. QED
    BY <1>1, <2>1 DEF Advances
<1>8. QED
  BY <1>2, <1>3, <1>4, <1>5, <1>6, <1>7, WorkflowOwner DEF Workflow

LEMMA Channels ==
    ASSUME TypeOK, WorkflowInv, Next
    PROVE  \/ Still
           \/ \E a \in Agents, m \in Message : Joins(a, m)
           \/ \E a \in Agents : Cut(a) \/ CtlStartup(a) \/ CtlMain(a)
<1> USE DEF workflowVars, writerVars, controllerVars
<1>1. /\ wf \in [Agents -> {"idle", "next", "exec", "ready", "wait", "done", "failed"}]
      /\ ctl \in {"startup", "main"} \cup Terminal
  BY DEF TypeOK
<1>2. ASSUME NEW a \in Agents, \/ Start(a) \/ StartStage(a) \/ FinishStage(a)
                               \/ RecvRelease(a) \/ CompleteStages(a) \/ FailStage(a)
      PROVE  Still
  <2>1. up' = up /\ BooksKept /\ comp' = comp /\ ctl' = ctl
    BY <1>2 DEF Start, StartStage, FinishStage, RecvRelease, CompleteStages, FailStage, BooksKept
  <2>2. \A b \in Agents : wf'[b] = "wait" => wf[b] = "wait"
    BY <1>1, <1>2 DEF Start, StartStage, FinishStage, RecvRelease, CompleteStages, FailStage, Moves
  <2>3. QED
    BY <2>1, <2>2 DEF Still
<1>3. ASSUME NEW a \in Agents, \/ StartRejected(a) \/ ForwardControl(a)
                               \/ ForwarderGivesUp(a) \/ Disconnect(a) \/ CtlRunning(a)
      PROVE  Still
  <2>1. up' = up /\ BooksKept /\ wf' = wf
    BY <1>3 DEF StartRejected, ForwardControl, ForwarderGivesUp, Disconnect, CtlRunning, BooksKept
  <2>2. comp' \subseteq comp
    BY <1>3 DEF StartRejected, ForwardControl, ForwarderGivesUp, Disconnect, CtlRunning, PhaseSwitch
  <2>3. ctl' = ctl \/ (ctl = "main" /\ ctl' = "aborted")
    BY <1>3 DEF StartRejected, ForwardControl, ForwarderGivesUp, Disconnect, CtlRunning, PhaseSwitch
  <2>4. QED
    BY <2>1, <2>2, <2>3 DEF Still
<1>4. ASSUME StartupTimeout \/ ShutdownSignal \/ CtlClosed
      PROVE  Still
  <2>1. up' = up /\ BooksKept /\ wf' = wf /\ comp' = comp
    BY <1>4 DEF StartupTimeout, ShutdownSignal, CtlClosed, BooksKept
  <2>2. ctl' \in {"aborted", "closed"} /\ (ctl' = "closed" => ctl = "main")
    BY <1>4 DEF StartupTimeout, ShutdownSignal, CtlClosed
  <2>3. QED
    BY <2>1, <2>2 DEF Still
<1>5. ASSUME NEW a \in Agents, NEW m \in Message, Send(a, m)
      PROVE  \/ up' = [up EXCEPT ![a] = Append(@, m)] /\ fwd[a] # "gone" /\ ctl \notin Terminal
             \/ up' = up /\ (fwd[a] = "gone" \/ ctl \in Terminal)
  BY <1>5 DEF Send
<1>6. ASSUME NEW a \in Agents, EnterBarrier(a)
      PROVE  Still \/ \E m \in Message : Joins(a, m)
  <2>1. stage[a] - 1 \in Barriers
    BY <1>6, BarrierIndex DEF EnterBarrier, Moves
  <2>2. AtBarrier(stage[a] - 1, TRUE) \in Message
    BY <2>1, MessageType
  <2>3. /\ BooksKept /\ comp' = comp /\ ctl' = ctl /\ fwd' = fwd
        /\ wf' = [wf EXCEPT ![a] = "wait"] /\ Send(a, AtBarrier(stage[a] - 1, TRUE))
    BY <1>6 DEF EnterBarrier, Moves, BooksKept
  <2>4. CASE up' = [up EXCEPT ![a] = Append(@, AtBarrier(stage[a] - 1, TRUE))]
    BY <1>6, <2>2, <2>3, <2>4 DEF Joins
  <2>5. CASE up' = up /\ (fwd[a] = "gone" \/ ctl \in Terminal)
    BY <1>1, <2>3, <2>5 DEF Still
  <2>6. QED
    BY <1>5, <2>2, <2>3, <2>4, <2>5
<1>7. ASSUME NEW a \in Agents, BarrierTimeout(a)
      PROVE  Still \/ \E m \in Message : Joins(a, m)
  <2>1. wf[a] = "wait" /\ stage[a] - 1 \in Barriers
    BY <1>7, BarrierIndex DEF BarrierTimeout, Moves
  <2>2. AtBarrier(stage[a] - 1, FALSE) \in Message
    BY <2>1, MessageType
  <2>3. /\ BooksKept /\ comp' = comp /\ ctl' = ctl /\ fwd' = fwd /\ stage' = stage
        /\ wf' = [wf EXCEPT ![a] = "wait"] \/ wf' = [wf EXCEPT ![a] = "failed"]
        /\ Send(a, AtBarrier(stage[a] - 1, FALSE)) \/ up' = up
    BY <1>7 DEF BarrierTimeout, Moves, BooksKept
  <2>4. \A b \in Agents : wf'[b] = "wait" => wf[b] = "wait"
    BY <1>1, <2>1, <2>3
  <2>5. CASE /\ up' = [up EXCEPT ![a] = Append(@, AtBarrier(stage[a] - 1, FALSE))]
             /\ fwd[a] # "gone" /\ ctl \notin Terminal
    BY <2>1, <2>2, <2>3, <2>4, <2>5 DEF Joins
  <2>6. CASE up' = up
    BY <2>3, <2>4, <2>6 DEF Still
  <2>7. QED
    BY <1>5, <2>2, <2>3, <2>5, <2>6
<1>8. ASSUME NEW a \in Agents, Writer(a)
      PROVE  Still \/ \E m \in Message : Joins(a, m)
  <2>1. BooksKept /\ comp' = comp /\ ctl' = ctl /\ stage' = stage /\ wf' = wf
    BY <1>8 DEF Writer, WriterPoll, WriterResend, WriterDone, BooksKept
  <2>2. \/ up' = up \/ Send(a, Ready) \/ Send(a, Error)
        \/ Send(a, Completed) /\ wf[a] = "done"
    BY <1>8 DEF Writer, WriterPoll, WriterResend, WriterDone
  <2>3. /\ Ready \in Message /\ Error \in Message /\ Completed \in Message
        /\ Ready.k = 0 /\ Ready.sum = FALSE /\ Ready.kind # "completed"
        /\ Error.k = 0 /\ Error.sum = FALSE /\ Error.kind # "completed"
        /\ Completed.k = 0 /\ Completed.sum = FALSE
    BY MessageType DEF Ready, Error, Completed
  <2>4. ASSUME NEW m \in Message, Send(a, m), m.k = 0, m.sum = FALSE,
               m.kind = "completed" => wf[a] = "done"
        PROVE  Still \/ Joins(a, m)
    BY <1>5, <2>1, <2>4 DEF Still, Joins
  <2>5. CASE up' = up
    BY <2>1, <2>5 DEF Still
  <2>6. QED
    BY <2>2, <2>3, <2>4, <2>5
<1>9. ASSUME NEW a \in Agents, StreamLost(a) \/ AgentCrash(a)
      PROVE  Cut(a)
  <2>1. LoseStream(a) /\ BooksKept /\ ctl' = ctl /\ comp' = comp
    BY <1>9 DEF StreamLost, AgentCrash, BooksKept
  <2>2. \A b \in Agents : wf'[b] = "wait" => wf[b] = "wait"
    BY <1>1, <1>9 DEF StreamLost, AgentCrash
  <2>3. QED
    BY <2>1, <2>2 DEF Cut
<1>10. QED
  BY <1>2, <1>3, <1>4, <1>6, <1>7, <1>8, <1>9 DEF Next, Workflow, AgentFault

\* The queue of b loses its head, its tail or nothing, and gains at most an ERROR
Slides(b) ==
    \E d \in {0, 1} : \A i \in 1 .. Len(up'[b]) :
        \/ i + d \in 1 .. Len(up[b]) /\ up'[b][i] = up[b][i + d]
        \/ up'[b][i] = Error

LEMMA TakeHead ==
    ASSUME TypeOK, NEW a \in Agents, CtlStartup(a) \/ CtlMain(a)
    PROVE  /\ up[a] # <<>> /\ up[a] \in Seq(Message)
           /\ Head(up[a]) = up[a][1] /\ 1 \in 1 .. Len(up[a]) /\ Head(up[a]) \in Message
           /\ \A b \in Agents \ {a} : up'[b] = up[b]
           /\ \A i \in 1 .. Len(up'[a]) : i + 1 \in 1 .. Len(up[a]) /\ up'[a][i] = up[a][i + 1]
           /\ fwd[a] = "gone" \/ fwd'[a] = "gone" \/ up'[a] = Tail(up[a])
<1>1. /\ up \in [Agents -> Seq(Message)] /\ fwd \in [Agents -> {"wait", "run", "gone"}]
      /\ up[a] # <<>> /\ up[a] \in Seq(Message) /\ Receive(a, Head(up[a]))
  BY DEF TypeOK, CtlStartup, CtlMain
<1>2. /\ Head(up[a]) = up[a][1] /\ 1 \in 1 .. Len(up[a]) /\ Head(up[a]) \in Message
      /\ \A i \in 1 .. Len(Tail(up[a])) : i + 1 \in 1 .. Len(up[a]) /\ Tail(up[a])[i] = up[a][i + 1]
  BY <1>1
<1>3. \/ up' = [up EXCEPT ![a] = <<>>] /\ fwd'[a] = "gone"
      \/ up' = [up EXCEPT ![a] = Tail(@)]
  <2> DEFINE m == Head(up[a])
  <2>1. CASE Swallowed(a, m)
    <3>1. up' = [up EXCEPT ![a] = <<>>]
      BY <1>1, <2>1 DEF Receive
    <3>2. fwd'[a] = "gone"
      BY <1>1, <2>1 DEF Receive, Swallowed
    <3>3. QED
      BY <3>1, <3>2
  <2>2. CASE ~Swallowed(a, m)
    BY <1>1, <2>2 DEF Receive
  <2>3. QED
    BY <2>1, <2>2
<1>4. /\ \A b \in Agents \ {a} : up'[b] = up[b]
      /\ up'[a] = Tail(up[a]) \/ (up'[a] = <<>> /\ fwd'[a] = "gone")
  BY <1>1, <1>3
<1>5. \A i \in 1 .. Len(up'[a]) : i + 1 \in 1 .. Len(up[a]) /\ up'[a][i] = up[a][i + 1]
  <2>1. CASE up'[a] = Tail(up[a])
    BY <1>2, <2>1
  <2>2. CASE up'[a] = <<>>
    BY <2>2
  <2>3. QED
    BY <1>4, <2>1, <2>2
<1>6. QED
  BY <1>1, <1>2, <1>4, <1>5

LEMMA JoinTail ==
    ASSUME TypeOK, NEW a \in Agents, NEW m \in Message, Joins(a, m)
    PROVE  /\ \A b \in Agents \ {a} : up'[b] = up[b]
           /\ Len(up[a]) \in Nat /\ Len(up'[a]) = Len(up[a]) + 1
           /\ up'[a][Len(up[a]) + 1] = m
           /\ \A i \in 1 .. Len(up[a]) : up'[a][i] = up[a][i]
<1>1. up \in [Agents -> Seq(Message)] /\ up[a] \in Seq(Message)
  BY DEF TypeOK
<1>2. up'[a] = Append(up[a], m) /\ \A b \in Agents \ {a} : up'[b] = up[b]
  BY <1>1 DEF Joins
<1>3. QED
  BY <1>1, <1>2

LEMMA AllSlide ==
    ASSUME TypeOK, \/ Still
                   \/ \E a \in Agents : Cut(a) \/ CtlStartup(a) \/ CtlMain(a)
    PROVE  \A b \in Agents : Slides(b)
<1>1. up \in [Agents -> Seq(Message)] /\ \A b \in Agents : Len(up[b]) \in Nat
  BY DEF TypeOK
<1>2. ASSUME NEW b \in Agents, up'[b] = up[b]  PROVE Slides(b)
  BY <1>1, <1>2 DEF Slides
<1>3. CASE Still
  BY <1>2, <1>3 DEF Still
<1>4. ASSUME NEW a \in Agents, Cut(a)  PROVE \A b \in Agents : Slides(b)
  <2>1. \A b \in Agents : \A i \in 1 .. Len(up'[b]) :
           (i \in 1 .. Len(up[b]) /\ up'[b][i] = up[b][i]) \/ up'[b][i] = Error
    BY <1>1, <1>4, LoseStreamLemma DEF Cut
  <2>2. ASSUME NEW b \in Agents, NEW i \in 1 .. Len(up'[b])
        PROVE  (i + 0 \in 1 .. Len(up[b]) /\ up'[b][i] = up[b][i + 0]) \/ up'[b][i] = Error
    <3>1. CASE i \in 1 .. Len(up[b])
      <4>1. i + 0 = i
        BY <3>1
      <4>2. QED
        BY <2>1, <4>1
    <3>2. QED
      BY <2>1, <3>1
  <2>3. QED
    BY <2>2 DEF Slides
<1>5. ASSUME NEW a \in Agents, CtlStartup(a) \/ CtlMain(a)  PROVE \A b \in Agents : Slides(b)
  <2>1. Slides(a)
    BY <1>5, TakeHead DEF Slides
  <2>2. QED
    BY <1>2, <1>5, <2>1, TakeHead
<1>6. QED
  BY <1>3, <1>4, <1>5
-----------------------------------------------------------------------------
(***************************************************************************)
(* Summaries are counted once                                              *)
(***************************************************************************)

LEMMA MessageIndex ==
    ASSUME TypeOK, NEW a \in Agents, NEW i \in 1 .. Len(up[a])
    PROVE  up[a][i] \in Message /\ up[a][i].k \in Barriers
<1>1. up[a] \in Seq(Message)
  BY DEF TypeOK
<1>2. up[a][i] \in Message
  BY <1>1
<1>3. QED
  BY <1>2 DEF Message

LEMMA StartedStays ==
    ASSUME TypeOK, TypeOK', NEW b \in Agents, NEW k \in Barriers, Advances(b), Started(b, k)
    PROVE  Started(b, k)'
<1>1. stage[b] \in Nat /\ stage'[b] \in Nat /\ k \in Nat
  BY ConstantsAssumption DEF TypeOK, Barriers
<1>2. QED
  BY <1>1 DEF Advances, Started

LEMMA SummarySlides ==
    ASSUME TypeOK, TypeOK', SummaryInv, summaries' = summaries,
           \A b \in Agents : Slides(b) /\ Advances(b)
    PROVE  SummaryInv'
<1>1. ASSUME NEW b \in Agents  PROVE Once(b)' /\ InTime(b)'
  <2>1. PICK d \in {0, 1} : \A i \in 1 .. Len(up'[b]) :
          \/ i + d \in 1 .. Len(up[b]) /\ up'[b][i] = up[b][i + d]
          \/ up'[b][i] = Error
    BY DEF Slides
  <2>2. Error.sum = FALSE
    BY DEF Error
  <2>3. Once(b) /\ InTime(b)
    BY DEF SummaryInv
  <2>4. ASSUME NEW i \in 1 .. Len(up'[b]), up'[b][i].sum = TRUE
        PROVE  i + d \in 1 .. Len(up[b]) /\ up'[b][i] = up[b][i + d]
    BY <2>1, <2>2, <2>4
  <2>5. ASSUME NEW i \in 1 .. Len(up'[b]), NEW j \in 1 .. Len(up'[b]),
               up'[b][i].sum = TRUE, up'[b][j].sum = TRUE, up'[b][i].k = up'[b][j].k
        PROVE  i = j
    <3>1. PICK x \in 1 .. Len(up[b]) : x = i + d /\ up'[b][i] = up[b][x]
      BY <2>4, <2>5
    <3>2. PICK y \in 1 .. Len(up[b]) : y = j + d /\ up'[b][j] = up[b][y]
      BY <2>4, <2>5
    <3>3. x = y
      BY <2>3, <2>5, <3>1, <3>2 DEF Once
    <3>4. i \in Int /\ j \in Int /\ d \in Int
      OBVIOUS
    <3>5. QED
      BY <3>1, <3>2, <3>3, <3>4
  <2>6. ASSUME NEW i \in 1 .. Len(up'[b]), up'[b][i].sum = TRUE
        PROVE  /\ up'[b][i].k \in Barriers
               /\ ~Summarised(b, up'[b][i].k)
               /\ Started(b, up'[b][i].k)
    <3>1. PICK x \in 1 .. Len(up[b]) : up'[b][i] = up[b][x]
      BY <2>4, <2>6
    <3>2. QED
      BY <2>3, <2>6, <3>1, MessageIndex DEF Once, InTime
  <2>7. Once(b)'
    BY <2>5, <2>6 DEF Once, Summarised
  <2>8. \A k \in Barriers : Started(b, k) =>
          k < stage'[b] /\ (wf'[b] \in {"exec", "ready"} => k + 1 < stage'[b])
    BY StartedStays DEF Started
  <2>9. InTime(b)'
    <3>1. ASSUME NEW i \in 1 .. Len(up'[b]), up'[b][i].sum = TRUE
          PROVE  /\ up'[b][i].k < stage'[b]
                 /\ wf'[b] \in {"exec", "ready"} => up'[b][i].k + 1 < stage'[b]
      BY <2>6, <2>8, <3>1
    <3>2. ASSUME NEW k \in Barriers, Summarised(b, k)'  PROVE Started(b, k)'
      BY <2>3, <2>8, <3>2 DEF InTime, Summarised, Started
    <3>3. QED
      BY <3>1, <3>2 DEF InTime, Started, Barriers
  <2>10. QED
    BY <2>7, <2>9
<1>2. ASSUME NEW k \in Barriers  PROVE Collected(k)'
  BY DEF SummaryInv, Collected
<1>3. QED
  BY <1>1, <1>2 DEF SummaryInv, Barriers

LEMMA SummaryJoins ==
    ASSUME TypeOK, TypeOK', WorkflowInv, SummaryInv, \A b \in Agents : Advances(b),
           NEW a \in Agents, NEW m \in Message, Joins(a, m)
    PROVE  SummaryInv'
<1> DEFINE n == Len(up[a]) + 1
<1>1. /\ \A b \in Agents \ {a} : up'[b] = up[b]
      /\ Len(up[a]) \in Nat /\ Len(up'[a]) = n
      /\ up'[a][n] = m
      /\ \A i \in 1 .. Len(up[a]) : up'[a][i] = up[a][i]
  BY JoinTail
<1>2. summaries' = summaries /\ m.k \in Barriers
  BY DEF Joins, BooksKept, Message
<1> HIDE DEF n
<1>3. \A b \in Agents : \A k : Summarised(b, k)' <=> Summarised(b, k)
  BY <1>2 DEF Summarised
<1>4. ASSUME m.sum = TRUE
      PROVE  /\ ~Started(a, m.k)
             /\ m.k < stage'[a] /\ wf'[a] = "wait"
  <2>1. EnterBarrier(a) /\ m.k = stage[a] - 1
    BY <1>4 DEF Joins, AtBarrier
  <2>2. wf[a] = "ready" /\ wf'[a] = "wait" /\ stage'[a] = stage[a]
    BY <2>1 DEF EnterBarrier, Moves, TypeOK
  <2>3. stage[a] \in Nat /\ stage[a] > 0
    BY <2>2, ConstantsAssumption DEF TypeOK, WorkflowInv
  <2>4. QED
    BY <2>1, <2>2, <2>3 DEF Started
<1>5. ASSUME NEW b \in Agents, NEW i \in 1 .. Len(up'[b]), up'[b][i].sum = TRUE
      PROVE  \/ i \in 1 .. Len(up[b]) /\ up'[b][i] = up[b][i]
             \/ b = a /\ i = n /\ m.sum = TRUE
  <2>1. CASE b # a
    BY <1>1, <2>1
  <2>2. CASE b = a
    <3>1. i \in 1 .. Len(up[a]) \/ i = n
      BY <1>1, <2>2 DEF n
    <3>2. QED
      BY <1>1, <1>5, <2>2, <3>1
  <2>3. QED
    BY <2>1, <2>2
<1>6. ASSUME NEW b \in Agents  PROVE Once(b) /\ InTime(b)
  BY DEF SummaryInv
<1>7. ASSUME NEW b \in Agents, NEW i \in 1 .. Len(up'[b]), up'[b][i].sum = TRUE
      PROVE  ~Summarised(b, up'[b][i].k)
  <2>1. CASE i \in 1 .. Len(up[b]) /\ up'[b][i] = up[b][i]
    BY <1>6, <1>7, <2>1 DEF Once
  <2>2. CASE b = a /\ i = n /\ m.sum = TRUE
    BY <1>1, <1>2, <1>4, <1>6, <2>2 DEF InTime
  <2>3. QED
    BY <1>5, <1>7, <2>1, <2>2
<1>8. ASSUME NEW b \in Agents, NEW i \in 1 .. Len(up'[b]), NEW j \in 1 .. Len(up'[b]),
             up'[b][i].sum = TRUE, up'[b][j].sum = TRUE, up'[b][i].k = up'[b][j].k
      PROVE  i = j
  <2>1. ASSUME NEW x \in 1 .. Len(up[b]), up[b][x].sum = TRUE, b = a, m.sum = TRUE
        PROVE  up[b][x].k # m.k
    BY <1>4, <1>6, <2>1 DEF InTime
  <2>2. CASE /\ i \in 1 .. Len(up[b]) /\ up'[b][i] = up[b][i]
             /\ j \in 1 .. Len(up[b]) /\ up'[b][j] = up[b][j]
    BY <1>6, <1>8, <2>2 DEF Once
  <2>3. CASE b = a /\ i = n /\ m.sum = TRUE
    BY <1>1, <1>5, <1>8, <2>1, <2>3
  <2>4. CASE b = a /\ j = n /\ m.sum = TRUE
    BY <1>1, <1>5, <1>8, <2>1, <2>4
  <2>5. QED
    BY <1>5, <1>8, <2>2, <2>3, <2>4
<1>9. \A b \in Agents, k \in Barriers : Started(b, k) =>
        k < stage'[b] /\ (wf'[b] \in {"exec", "ready"} => k + 1 < stage'[b])
  BY StartedStays DEF Started
<1>10. ASSUME NEW b \in Agents, NEW i \in 1 .. Len(up'[b]), up'[b][i].sum = TRUE
       PROVE  /\ up'[b][i].k < stage'[b]
              /\ wf'[b] \in {"exec", "ready"} => up'[b][i].k + 1 < stage'[b]
  <2>1. CASE i \in 1 .. Len(up[b]) /\ up'[b][i] = up[b][i]
    BY <1>6, <1>9, <1>10, <2>1, MessageIndex DEF InTime
  <2>2. CASE b = a /\ i = n /\ m.sum = TRUE
    BY <1>1, <1>4, <2>2
  <2>3. QED
    BY <1>5, <1>10, <2>1, <2>2
<1>11. ASSUME NEW b \in Agents  PROVE Once(b)'
  <2>1. ASSUME NEW i \in 1 .. Len(up'[b]), up'[b][i].sum = TRUE
        PROVE  ~Summarised(b, up[b][i].k)'
    BY <1>2, <1>7, <2>1 DEF Summarised
  <2>2. QED
    BY <1>8, <2>1 DEF Once
<1>12. ASSUME NEW b \in Agents  PROVE InTime(b)'
  <2>1. ASSUME NEW k \in Barriers, Summarised(b, k)'  PROVE Started(b, k)'
    BY <1>3, <1>6, <1>9, <2>1 DEF InTime, Started
  <2>2. QED
    BY <1>10, <2>1 DEF InTime, Started, Barriers
<1>13. ASSUME NEW k \in Barriers  PROVE Collected(k)'
  BY <1>2 DEF SummaryInv, Collected
<1>14. QED
  BY <1>11, <1>12, <1>13 DEF SummaryInv, Barriers

LEMMA MainTakes ==
    ASSUME TypeOK, NEW a \in Agents, CtlMain(a)
    PROVE  LET m == Head(up[a])
           IN  \/ /\ Swallowed(a, m) /\ up'[a] = <<>> /\ fwd'[a] = "gone"
                  /\ BooksKept /\ agg' = agg /\ comp' = comp /\ ctl' = ctl
               \/ /\ ~Swallowed(a, m) /\ up'[a] = Tail(up[a])
                  /\ NoteBarrier(a, m) /\ Aggregate(a, m)
<1> DEFINE m == Head(up[a])
<1>1. /\ up \in [Agents -> Seq(Message)] /\ fwd \in [Agents -> {"wait", "run", "gone"}]
      /\ Receive(a, m)
  BY DEF TypeOK, CtlMain
<1>2. CASE Swallowed(a, m)
  <2>1. up' = [up EXCEPT ![a] = <<>>]
    BY <1>1, <1>2 DEF Receive
  <2>2. up'[a] = <<>> /\ fwd'[a] = "gone"
    BY <1>1, <1>2, <2>1 DEF Receive, Swallowed
  <2>3. BooksKept /\ agg' = agg /\ comp' = comp /\ ctl' = ctl
    BY <1>2 DEF CtlMain, BooksKept
  <2>4. QED
    BY <1>2, <2>2, <2>3
<1>3. CASE ~Swallowed(a, m)
  <2>1. up' = [up EXCEPT ![a] = Tail(@)]
    BY <1>1, <1>3 DEF Receive
  <2>2. up'[a] = Tail(up[a])
    BY <1>1, <2>1
  <2>3. NoteBarrier(a, m) /\ Aggregate(a, m)
    BY <1>3 DEF CtlMain
  <2>4. QED
    BY <1>3, <2>2, <2>3
<1>4. QED
  BY <1>2, <1>3

LEMMA SummaryTaken ==
    ASSUME TypeOK, NEW a \in Agents, CtlMain(a)
    PROVE  LET m == Head(up[a])
           IN  /\ \/ summaries' = summaries
                  \/ m.sum = TRUE /\ summaries' = [summaries EXCEPT ![m.k] = Append(@, a)]
               /\ /\ ~Swallowed(a, m) /\ BarrierType # NoBarrierManager
                  /\ m.kind = "barrier" /\ m.sum = TRUE
                  => summaries' = [summaries EXCEPT ![m.k] = Append(@, a)]
<1> DEFINE m == Head(up[a])
<1>1. m \in Message
  BY TakeHead
<1>2. m.sum = TRUE \/ m.sum = FALSE
  BY <1>1, Zenon DEF Message
<1>3. CASE Swallowed(a, m)
  BY <1>3, MainTakes DEF BooksKept
<1>4. CASE ~Swallowed(a, m)
  <2>1. NoteBarrier(a, m)
    BY <1>4, MainTakes
  <2>2. CASE BarrierType # NoBarrierManager /\ m.kind \in {"ready", "barrier"}
    <3>1. summaries' = IF m.sum THEN [summaries EXCEPT ![m.k] = Append(@, a)] ELSE summaries
      BY <2>1, <2>2, Zenon DEF NoteBarrier
    <3>2. CASE m.sum = TRUE
      <4>1. summaries' = [summaries EXCEPT ![m.k] = Append(@, a)]
        BY <3>1, <3>2, Zenon
      <4>2. QED
        BY <3>2, <4>1
    <3>3. CASE m.sum = FALSE
      <4>1. summaries' = summaries
        BY <3>1, <3>3, Zenon
      <4>2. QED
        BY <3>3, <4>1
    <3>4. QED
      BY <1>2, <3>2, <3>3
  <2>3. CASE ~(BarrierType # NoBarrierManager /\ m.kind \in {"ready", "barrier"})
    BY <2>1, <2>3 DEF NoteBarrier
  <2>4. QED
    BY <2>2, <2>3
<1>5. QED
  BY <1>3, <1>4

LEMMA Collecting ==
    ASSUME TypeOK, NEW a \in Agents, NEW q \in Barriers,
           summaries' = [summaries EXCEPT ![q] = Append(@, a)]
    PROVE  /\ \A b \in Agents, k \in Barriers :
                Summarised(b, k)' <=> Summarised(b, k) \/ (b = a /\ k = q)
           /\ \A k \in Barriers \ {q} : summaries'[k] = summaries[k]
           /\ summaries[q] \in Seq(Agents)
           /\ summaries'[q] = Append(summaries[q], a)
<1>1. summaries \in [Barriers -> Seq(Agents)] /\ summaries[q] \in Seq(Agents)
  BY DEF TypeOK
<1>2. summaries'[q] = Append(summaries[q], a) /\ \A k \in Barriers \ {q} : summaries'[k] = summaries[k]
  BY <1>1
<1>3. /\ Len(summaries[q]) \in Nat /\ Len(summaries'[q]) = Len(summaries[q]) + 1
      /\ summaries'[q][Len(summaries[q]) + 1] = a
      /\ \A i \in 1 .. Len(summaries[q]) : summaries'[q][i] = summaries[q][i]
  BY <1>1, <1>2
<1>4. ASSUME NEW b \in Agents  PROVE Summarised(b, q)' <=> Summarised(b, q) \/ b = a
  <2>1. 1 .. Len(summaries'[q]) = (1 .. Len(summaries[q])) \cup {Len(summaries[q]) + 1}
    BY <1>3
  <2>2. QED
    BY <1>3, <2>1 DEF Summarised
<1>5. ASSUME NEW b \in Agents, NEW k \in Barriers \ {q}
      PROVE  Summarised(b, k)' <=> Summarised(b, k)
  BY <1>2 DEF Summarised
<1>6. QED
  BY <1>1, <1>2, <1>4, <1>5

LEMMA SummaryCollects ==
    ASSUME TypeOK, TypeOK', SummaryInv, NEW a \in Agents, CtlMain(a), Head(up[a]).sum = TRUE,
           summaries' = [summaries EXCEPT ![Head(up[a]).k] = Append(@, a)]
    PROVE  SummaryInv'
<1> DEFINE q == Head(up[a]).k
<1>1. /\ 1 \in 1 .. Len(up[a]) /\ Head(up[a]) = up[a][1] /\ up[a][1].sum = TRUE
      /\ \A b \in Agents \ {a} : up'[b] = up[b]
      /\ \A i \in 1 .. Len(up'[a]) : i + 1 \in 1 .. Len(up[a]) /\ up'[a][i] = up[a][i + 1]
  BY TakeHead
<1>2. q \in Barriers /\ q = up[a][1].k
  BY <1>1, MessageIndex
<1>3. wf' = wf /\ stage' = stage
  BY DEF CtlMain, workflowVars
<1> HIDE DEF q
<1>4. /\ \A b \in Agents, k \in Barriers :
           Summarised(b, k)' <=> Summarised(b, k) \/ (b = a /\ k = q)
      /\ \A k \in Barriers \ {q} : summaries'[k] = summaries[k]
      /\ summaries[q] \in Seq(Agents)
      /\ summaries'[q] = Append(summaries[q], a)
  BY <1>2, Collecting DEF q
<1>5. \A b \in Agents : Once(b) /\ InTime(b)
  BY DEF SummaryInv
<1>6. ASSUME NEW b \in Agents, NEW i \in 1 .. Len(up'[b]), up'[b][i].sum = TRUE
      PROVE  \E x \in 1 .. Len(up[b]) : /\ up'[b][i] = up[b][x]
                                        /\ x = IF b = a THEN i + 1 ELSE i
  BY <1>1
<1>7. ASSUME NEW b \in Agents, NEW i \in 1 .. Len(up'[b]), NEW j \in 1 .. Len(up'[b]),
             up'[b][i].sum = TRUE, up'[b][j].sum = TRUE, up'[b][i].k = up'[b][j].k
      PROVE  i = j
  <2>1. PICK x \in 1 .. Len(up[b]) : up'[b][i] = up[b][x] /\ x = IF b = a THEN i + 1 ELSE i
    BY <1>6, <1>7
  <2>2. PICK y \in 1 .. Len(up[b]) : up'[b][j] = up[b][y] /\ y = IF b = a THEN j + 1 ELSE j
    BY <1>6, <1>7
  <2>3. x = y
    BY <1>5, <1>7, <2>1, <2>2 DEF Once
  <2>4. QED
    BY <2>1, <2>2, <2>3
<1>8. ASSUME NEW b \in Agents, NEW i \in 1 .. Len(up'[b]), up'[b][i].sum = TRUE
      PROVE  /\ up'[b][i].k \in Barriers /\ Started(b, up'[b][i].k)
             /\ ~Summarised(b, up'[b][i].k) /\ ~(b = a /\ up'[b][i].k = q)
  <2>1. PICK x \in 1 .. Len(up[b]) : up'[b][i] = up[b][x] /\ x = IF b = a THEN i + 1 ELSE i
    BY <1>6, <1>8
  <2>2. up[b][x].k \in Barriers /\ Started(b, up[b][x].k) /\ ~Summarised(b, up[b][x].k)
    BY <1>5, <1>8, <2>1, MessageIndex DEF Once, InTime
  <2>3. b = a => up[b][x].k # q
    <3>1. b = a => x # 1
      BY <2>1
    <3>2. QED
      BY <1>1, <1>2, <1>5, <1>8, <2>1, <3>1 DEF Once
  <2>4. QED
    BY <2>1, <2>2, <2>3
<1>9. ASSUME NEW b \in Agents  PROVE Once(b)'
  <2>1. ASSUME NEW i \in 1 .. Len(up'[b]), up'[b][i].sum = TRUE
        PROVE  ~Summarised(b, up[b][i].k)'
    <3>1. \A k \in Barriers : (\E x \in 1 .. Len(summaries'[k]) : summaries'[k][x] = b)
                                 <=> Summarised(b, k) \/ (b = a /\ k = q)
      BY <1>4 DEF Summarised
    <3>2. PICK k \in Barriers : k = up'[b][i].k
      BY <1>8, <2>1
    <3>3. ~(\E x \in 1 .. Len(summaries'[k]) : summaries'[k][x] = b)
      BY <1>8, <2>1, <3>1, <3>2
    <3>4. QED
      BY <3>2, <3>3 DEF Summarised
  <2>2. QED
    BY <1>7, <2>1 DEF Once
<1>10. ASSUME NEW b \in Agents  PROVE InTime(b)'
  <2>1. Started(a, q)
    BY <1>1, <1>2, <1>5 DEF InTime
  <2>2. ASSUME NEW k \in Barriers, Summarised(b, k)'  PROVE Started(b, k)'
    BY <1>3, <1>4, <1>5, <2>1, <2>2 DEF InTime, Started
  <2>3. ASSUME NEW i \in 1 .. Len(up'[b]), up'[b][i].sum = TRUE
        PROVE  /\ up'[b][i].k < stage'[b]
               /\ wf'[b] \in {"exec", "ready"} => up'[b][i].k + 1 < stage'[b]
    BY <1>3, <1>8, <2>3 DEF Started
  <2>4. QED
    BY <2>2, <2>3 DEF InTime, Started, Barriers
<1>11. ASSUME NEW k \in Barriers  PROVE Collected(k)'
  <2>1. CASE k # q
    BY <1>4, <2>1 DEF SummaryInv, Collected
  <2>2. CASE k = q
    <3>1. /\ Len(summaries[q]) \in Nat /\ Len(summaries'[q]) = Len(summaries[q]) + 1
          /\ summaries'[q][Len(summaries[q]) + 1] = a
          /\ \A i \in 1 .. Len(summaries[q]) : summaries'[q][i] = summaries[q][i]
      BY <1>4
    <3>2. \A i \in 1 .. Len(summaries[q]) : summaries[q][i] # a
      <4>1. ~Summarised(a, q)
        BY <1>1, <1>2, <1>5 DEF Once
      <4>2. QED
        BY <4>1 DEF Summarised
    <3>3. ASSUME NEW i \in 1 .. Len(summaries'[q]), NEW j \in 1 .. Len(summaries'[q]),
                 summaries'[q][i] = summaries'[q][j]
          PROVE  i = j
      <4>1. /\ i \in 1 .. Len(summaries[q]) \/ i = Len(summaries[q]) + 1
            /\ j \in 1 .. Len(summaries[q]) \/ j = Len(summaries[q]) + 1
        BY <3>1
      <4>2. Collected(q)
        BY <1>2 DEF SummaryInv
      <4>3. QED
        BY <3>1, <3>2, <3>3, <4>1, <4>2 DEF Collected
    <3>4. QED
      BY <2>2, <3>3 DEF Collected
  <2>3. QED
    BY <2>1, <2>2
<1>12. QED
  BY <1>9, <1>10, <1>11 DEF SummaryInv, Barriers

LEMMA SummaryStep ==
    ASSUME IInv, SummaryInv, Next
    PROVE  SummaryInv'
<1>1. TypeOK /\ TypeOK' /\ WorkflowInv
  BY TypeStep DEF IInv
<1>2. \A b \in Agents : Advances(b)
  BY <1>1, WorkflowsAdvance
<1>3. ASSUME NEW a \in Agents, NEW m \in Message, Joins(a, m)  PROVE SummaryInv'
  BY <1>1, <1>2, <1>3, SummaryJoins
<1>4. ASSUME \/ Still
             \/ \E a \in Agents : Cut(a) \/ CtlStartup(a) \/ CtlMain(a),
             summaries' = summaries
      PROVE  SummaryInv'
  BY <1>1, <1>2, <1>4, AllSlide, SummarySlides
<1>5. ASSUME NEW a \in Agents, Cut(a) \/ CtlStartup(a)  PROVE summaries' = summaries
  BY <1>5 DEF Cut, BooksKept, CtlStartup
<1>6. Still => summaries' = summaries
  BY DEF Still, BooksKept
<1>7. ASSUME NEW a \in Agents, CtlMain(a)  PROVE SummaryInv'
  <2>1. \/ summaries' = summaries
        \/ /\ Head(up[a]).sum = TRUE
           /\ summaries' = [summaries EXCEPT ![Head(up[a]).k] = Append(@, a)]
    BY <1>1, <1>7, SummaryTaken
  <2>2. QED
    BY <1>1, <1>4, <1>7, <2>1, SummaryCollects
<1>8. QED
  BY <1>1, <1>3, <1>4, <1>5, <1>6, <1>7, Channels
-----------------------------------------------------------------------------
(***************************************************************************)
(* Releases are sent once, and to everyone                                 *)
(***************************************************************************)

LEMMA ReadyGrows ==
    ASSUME TypeOK, Next
    PROVE  \/ UNCHANGED <<ready_agents, released, bcast>>
           \/ \E a \in Agents :
                /\ CtlMain(a) /\ ~Swallowed(a, Head(up[a]))
                /\ NoteBarrier(a, Head(up[a])) /\ Head(up[a]) \in Message
<1>1. ASSUME NEW a \in Agents, CtlMain(a)
      PROVE  \/ UNCHANGED <<ready_agents, released, bcast>>
             \/ /\ ~Swallowed(a, Head(up[a]))
                /\ NoteBarrier(a, Head(up[a])) /\ Head(up[a]) \in Message
  BY <1>1, MainTakes, TakeHead DEF BooksKept
<1>2. QED
  BY <1>1, BarrierOwner

LEMMA FunctionIsSeq ==
    ASSUME NEW S, NEW n \in Nat, NEW f \in [1 .. n -> S]
    PROVE  f \in Seq(S) /\ Len(f) = n
  OBVIOUS

LEMMA OnceStep ==
    ASSUME IInv, ReleasedOnce, Next
    PROVE  ReleasedOnce'
<1>1. TypeOK /\ ReleasesTrue
  BY DEF IInv
<1>2. CASE UNCHANGED <<ready_agents, released, bcast>>
  BY <1>2 DEF ReleasedOnce
<1>3. ASSUME NEW a \in Agents, NEW m \in Message, NoteBarrier(a, m), bcast' # bcast
      PROVE  ReleasedOnce'
  <2> DEFINE k == m.k
             now == ready_agents[k] \cup {a}
             n == Cardinality(now)
             L == Len(bcast)
  <2>1. k \notin released /\ ReleaseTo(now, k)
    BY <1>3 DEF NoteBarrier, TrackBarrier
  <2>2. /\ bcast \in Seq(Releases) /\ L \in Nat /\ k \in Barriers
        /\ now \in SUBSET Agents
    BY <1>1 DEF TypeOK, Releases, Message
  <2>3. n \in Nat
    BY <2>2, FS_Subset, FS_CardinalityType, ConstantsAssumption
  <2>4. PICK s \in Orders(now) :
          bcast' = bcast \o [i \in 1 .. n |-> [agent |-> s[i], barrier |-> k]]
    BY <2>1 DEF ReleaseTo
  <2> DEFINE sent == [i \in 1 .. n |-> [agent |-> s[i], barrier |-> k]]
  <2>5. /\ s \in [1 .. n -> now]
        /\ \A i, j \in 1 .. n : s[i] = s[j] => i = j
    BY <2>4 DEF Orders
  <2>6. /\ sent \in Seq(Releases) /\ Len(sent) = n
        /\ \A i \in 1 .. n : sent[i].barrier = k
        /\ \A i, j \in 1 .. n : sent[i] = sent[j] => i = j
    <3>1. \A i \in 1 .. n : sent[i] = [agent |-> s[i], barrier |-> k] /\ sent[i] \in Releases
      BY <2>2, <2>5 DEF Releases
    <3>2. sent \in [1 .. n -> Releases]
      BY <3>1
    <3>3. sent \in Seq(Releases) /\ Len(sent) = n
      BY <2>3, <3>2, FunctionIsSeq, Zenon
    <3>4. \A i, j \in 1 .. n : sent[i] = sent[j] => s[i] = s[j]
      BY <3>1
    <3>5. QED
      BY <2>5, <3>1, <3>3, <3>4
  <2>7. bcast' = bcast \o sent
    BY <2>4
  <2> HIDE DEF sent, n, now
  <2>8. /\ Len(bcast') = L + n
        /\ \A i \in 1 .. L + n : bcast'[i] = IF i <= L THEN bcast[i] ELSE sent[i - L]
    BY <2>2, <2>6, <2>7, ConcatProperties
  <2>9. ASSUME NEW i \in 1 .. L + n
        PROVE  \/ i \in 1 .. L /\ bcast'[i] = bcast[i] /\ bcast'[i].barrier # k
               \/ i - L \in 1 .. n /\ bcast'[i] = sent[i - L] /\ bcast'[i].barrier = k
    <3>1. CASE i <= L
      <4>1. i \in 1 .. L /\ bcast'[i] = bcast[i]
        BY <2>2, <2>8, <3>1
      <4>2. bcast[i].barrier \in released
        BY <1>1, <4>1 DEF ReleasesTrue
      <4>3. QED
        BY <2>1, <4>1, <4>2
    <3>2. CASE i > L
      <4>1. i - L \in 1 .. n /\ bcast'[i] = sent[i - L]
        BY <2>2, <2>3, <2>8, <3>2
      <4>2. QED
        BY <2>6, <4>1
    <3>3. QED
      BY <2>2, <3>1, <3>2
  <2>10. ASSUME NEW i \in 1 .. L + n, NEW j \in 1 .. L + n, bcast'[i] = bcast'[j]
         PROVE  i = j
    <3>1. CASE bcast'[i].barrier # k
      BY <2>9, <2>10, <3>1 DEF ReleasedOnce
    <3>2. CASE bcast'[i].barrier = k
      <4>1. /\ i - L \in 1 .. n /\ j - L \in 1 .. n
            /\ bcast'[i] = sent[i - L] /\ bcast'[j] = sent[j - L]
        BY <2>9, <2>10, <3>2
      <4>2. i - L = j - L
        BY <2>6, <2>10, <4>1
      <4>3. QED
        BY <2>2, <4>2
    <3>3. QED
      BY <3>1, <3>2
  <2>11. QED
    BY <2>8, <2>10 DEF ReleasedOnce
<1>4. CASE bcast' = bcast
  BY <1>4 DEF ReleasedOnce
<1>5. QED
  BY <1>1, <1>2, <1>3, <1>4, ReadyGrows

LEMMA AllReady ==
    ASSUME NEW S \in SUBSET Agents, BarrierType # "Majority",
           CanRelease(BarrierType, Cardinality(S), Cardinality(Agents), 0)
    PROVE  S = Agents
<1>1. Cardinality(Agents) \in Nat
  BY FS_CardinalityType, ConstantsAssumption
<1>2. Cardinality(S) = Cardinality(Agents)
  BY <1>1 DEF CanRelease
<1>3. QED
  BY <1>2, FS_Subset, ConstantsAssumption

LEMMA EveryoneStep ==
    ASSUME IInv, Everyone, Next
    PROVE  Everyone'
<1> SUFFICES ASSUME BarrierType # "Majority", NEW k \in released'
             PROVE  ready_agents'[k] = Agents
  BY DEF Everyone
<1>1. TypeOK /\ TypeOK'
  BY TypeStep DEF IInv
<1>2. k \in Barriers /\ ready_agents'[k] \in SUBSET Agents
  BY <1>1 DEF TypeOK, Barriers
<1>3. CASE k \in released
  <2>1. ready_agents[k] = Agents
    BY <1>3 DEF Everyone
  <2>2. ready_agents[k] \subseteq ready_agents'[k]
    BY <1>1, <1>2, ReadyGrows, NoteBarrierLemma
  <2>3. QED
    BY <1>2, <2>1, <2>2
<1>4. CASE k \notin released
  <2>1. CanRelease(BarrierType, Cardinality(ready_agents'[k]), Cardinality(Agents), 0)
    BY <1>1, <1>4, MainLoopBarriers DEF IInv
  <2>2. QED
    BY <1>2, <2>1, AllReady
<1>5. QED
  BY <1>3, <1>4
-----------------------------------------------------------------------------
(***************************************************************************)
(* Later barriers, and how a run ends                                      *)
(***************************************************************************)

LEMMA ReleasedGrows ==
    ASSUME IInv, Next
    PROVE  released \subseteq released' /\ (released' # released => ctl = "main")
<1>1. TypeOK
  BY DEF IInv
<1>2. ASSUME NEW a \in Agents, CtlMain(a)  PROVE ctl = "main"
  BY <1>2 DEF CtlMain
<1>3. QED
  BY <1>1, <1>2, MainLoopBarriers, ReadyGrows DEF IInv

LEMMA LaterStep ==
    ASSUME IInv, Later, Next
    PROVE  Later'
<1>1. TypeOK /\ TypeOK' /\ WorkflowInv /\ PassedReleased
  BY TypeStep DEF IInv
<1>2. released \subseteq released' /\ (released' # released => ctl = "main")
  BY ReleasedGrows
<1>3. released' # {} => ctl' # "startup"
  BY <1>1, <1>2, OneWay DEF Later
<1>4. ASSUME NEW b \in Agents, Slides(b), NEW i \in 1 .. Len(up'[b]), up'[b][i].k # 0
      PROVE  released' # {}
  <2>1. \E x \in 1 .. Len(up[b]) : up'[b][i] = up[b][x]
    BY <1>4 DEF Slides, Error
  <2>2. QED
    BY <1>2, <1>4, <2>1 DEF Later
<1>5. ASSUME NEW a \in Agents, NEW m \in Message, Joins(a, m),
             NEW b \in Agents, NEW i \in 1 .. Len(up'[b]), up'[b][i].k # 0
      PROVE  released' # {}
  <2>1. CASE i \in 1 .. Len(up[b]) /\ up'[b][i] = up[b][i]
    BY <1>2, <1>5, <2>1 DEF Later
  <2>2. CASE b = a /\ up'[b][i] = m
    <3>1. stage[a] \in Nat /\ NumStages \in Nat \ {0}
      BY <1>1, ConstantsAssumption DEF TypeOK
    <3>2. m.k = stage[a] - 1 /\ wf[a] \in {"ready", "wait"}
      BY <1>5, <2>2 DEF Joins, AtBarrier, EnterBarrier, Moves
    <3>3. stage[a] > 1
      BY <1>1, <1>5, <2>2, <3>1, <3>2 DEF WorkflowInv
    <3>4. Passed(a, 0) /\ 0 \in Barriers
      BY <3>1, <3>3 DEF Passed, Barriers
    <3>5. 0 \in released
      BY <1>1, <3>4 DEF PassedReleased
    <3>6. QED
      BY <1>2, <3>5
  <2>3. QED
    BY <1>1, <1>5, <2>1, <2>2, JoinTail
<1>6. \A b \in Agents : \A i \in 1 .. Len(up'[b]) : up'[b][i].k # 0 => released' # {}
  BY <1>1, <1>4, <1>5, Channels, AllSlide
<1>7. QED
  BY <1>3, <1>6 DEF Later

LEMMA LastBarrier ==
    ASSUME IInv, NEW a \in Agents, wf[a] = "done"
    PROVE  Last \in released
<1>1. stage[a] = NumStages /\ NumStages \in Nat \ {0}
  BY ConstantsAssumption DEF IInv, WorkflowInv
<1>2. Passed(a, Last) /\ Last \in Barriers
  BY <1>1 DEF Passed, Last, Barriers
<1>3. QED
  BY <1>2 DEF IInv, PassedReleased

LEMMA EndingsStep ==
    ASSUME IInv, Endings, Next
    PROVE  Endings'
<1>1. TypeOK /\ TypeOK' /\ WorkflowInv /\ released \subseteq released'
  BY TypeStep, ReleasedGrows DEF IInv
<1>2. Last' = Last
  BY DEF Last
<1>3. ASSUME NEW b \in Agents, Slides(b), NEW i \in 1 .. Len(up'[b]), up'[b][i].kind = "completed"
      PROVE  Last \in released
  <2>1. \E x \in 1 .. Len(up[b]) : up'[b][i] = up[b][x]
    BY <1>3 DEF Slides, Error
  <2>2. QED
    BY <1>3, <2>1 DEF Endings
<1>4. ASSUME NEW a \in Agents, NEW m \in Message, Joins(a, m),
             NEW b \in Agents, NEW i \in 1 .. Len(up'[b]), up'[b][i].kind = "completed"
      PROVE  Last \in released
  <2>1. CASE i \in 1 .. Len(up[b]) /\ up'[b][i] = up[b][i]
    BY <1>4, <2>1 DEF Endings
  <2>2. CASE b = a /\ up'[b][i] = m
    <3>1. wf[a] = "done"
      BY <1>4, <2>2 DEF Joins, AtBarrier
    <3>2. QED
      BY <3>1, LastBarrier
  <2>3. QED
    BY <1>1, <1>4, <2>1, <2>2, JoinTail
<1>5. \A b \in Agents : \A i \in 1 .. Len(up'[b]) : up'[b][i].kind = "completed" => Last \in released'
  BY <1>1, <1>3, <1>4, Channels, AllSlide
<1>6. ASSUME Still \/ (\E a \in Agents : Cut(a) \/ \E m \in Message : Joins(a, m))
      PROVE  /\ ctl' # "aborted" /\ comp' # {} => Last \in released
             /\ ctl' = "finished" => Last \in released
  <2>1. /\ comp' \subseteq comp /\ (ctl' = "finished" => ctl = "finished")
        /\ ctl' # "aborted" => ctl # "aborted"
    BY <1>6 DEF Still, Cut, Joins
  <2>2. QED
    BY <2>1 DEF Endings
<1>7. ASSUME NEW a \in Agents, CtlStartup(a)
      PROVE  /\ ctl' # "aborted" /\ comp' # {} => Last \in released
             /\ ctl' # "finished"
  BY <1>7 DEF CtlStartup, Endings
<1>8. ASSUME NEW a \in Agents, CtlMain(a)
      PROVE  /\ ctl' # "aborted" /\ comp' # {} => Last \in released
             /\ ctl' = "finished" => Last \in released
  <2> DEFINE m == Head(up[a])
  <2>1. m = up[a][1] /\ 1 \in 1 .. Len(up[a]) /\ ctl = "main"
    BY <1>1, <1>8, TakeHead DEF CtlMain
  <2>2. CASE Swallowed(a, m)
    <3>1. comp' = comp /\ ctl' = ctl
      BY <1>1, <1>8, <2>2, MainTakes
    <3>2. QED
      BY <2>1, <3>1 DEF Endings
  <2>3. CASE ~Swallowed(a, m)
    <3>1. /\ Aggregate(a, m)
          /\ ctl' = CASE m.kind = "error" -> "aborted"
                      [] m.kind # "error" /\ agg' # {} /\ comp' = agg' -> "finished"
                      [] OTHER -> ctl
      BY <1>8, <2>3 DEF CtlMain
    <3>2. m.kind = "error" => ctl' = "aborted"
      BY <3>1
    <3>3. m.kind = "completed" => Last \in released
      BY <2>1 DEF Endings
    <3>4. m.kind \notin {"completed", "error"} => comp' \subseteq comp
      BY <3>1 DEF Aggregate
    <3>5. ctl' # "aborted" /\ comp' # {} => Last \in released
      BY <2>1, <3>2, <3>3, <3>4 DEF Endings
    <3>6. ctl' = "finished" => comp' # {}
      BY <2>1, <3>1
    <3>7. QED
      BY <3>5, <3>6
  <2>4. QED
    BY <2>2, <2>3
<1>9. /\ ctl' # "aborted" /\ comp' # {} => Last \in released
      /\ ctl' = "finished" => Last \in released
  BY <1>1, <1>6, <1>7, <1>8, Channels
<1>10. QED
  BY <1>1, <1>2, <1>5, <1>9 DEF Endings
-----------------------------------------------------------------------------
(***************************************************************************)
(* No report of a later barrier gets ahead of the summary                  *)
(***************************************************************************)

\* Agent b still waits at barrier k for a controller that hears it
Waits(b, k) == wf[b] = "wait" /\ stage[b] = k + 1 /\ fwd[b] # "gone" /\ ctl \notin Terminal

LEMMA AheadStays ==
    ASSUME NEW b \in Agents, NEW k \in Barriers, Ahead(b, k), up'[b] = up[b],
           b \in ready_agents'[k] => b \in ready_agents[k],
           Summarised(b, k) => Summarised(b, k)',
           Waits(b, k)' => Waits(b, k)
    PROVE  Ahead(b, k)'
  BY DEF Ahead, Summ, Waits

LEMMA StillWaits ==
    ASSUME TypeOK, Next, NEW b \in Agents, NEW k \in Barriers, Waits(b, k)'
    PROVE  /\ stage[b] = k + 1 /\ fwd[b] # "gone" /\ ctl \notin Terminal
           /\ wf[b] = "wait" \/ EnterBarrier(b)
<1>1. Advances(b)
  BY WorkflowsAdvance
<1>2. wf'[b] = "wait" /\ stage'[b] = k + 1
  BY DEF Waits
<1>3. fwd[b] # "gone" /\ ctl \notin Terminal
  BY OneWay DEF Waits
<1>4. QED
  BY <1>1, <1>2, <1>3 DEF Advances

LEMMA AheadJoins ==
    ASSUME TypeOK, SummaryFirst, Next, NEW a \in Agents, NEW m \in Message, Joins(a, m),
           NEW k \in Barriers \ {0}
    PROVE  Ahead(a, k)'
<1> DEFINE n == Len(up[a]) + 1
<1>1. /\ Len(up[a]) \in Nat /\ Len(up'[a]) = n /\ up'[a][n] = m
      /\ \A i \in 1 .. Len(up[a]) : up'[a][i] = up[a][i]
  BY JoinTail
<1>2. /\ Ahead(a, k) /\ k # 0 /\ k \in Barriers
      /\ summaries' = summaries /\ ready_agents' = ready_agents
  BY DEF SummaryFirst, Joins, BooksKept
<1> HIDE DEF n
<1>3. n \in 1 .. Len(up'[a]) /\ 1 .. Len(up'[a]) = (1 .. Len(up[a])) \cup {n}
  BY <1>1 DEF n
<1>4. Summarised(a, k)' <=> Summarised(a, k)
  BY <1>2 DEF Summarised
<1>5. ASSUME m.k = k
      PROVE  \/ Summarised(a, k)
             \/ \E j \in 1 .. n : Summ(up'[a][j], k)
  <2>1. CASE m = AtBarrier(stage[a] - 1, TRUE)
    <3>1. Summ(m, k)
      BY <1>5, <2>1 DEF Summ, AtBarrier
    <3>2. n \in 1 .. n
      BY <1>1 DEF n
    <3>3. QED
      BY <1>1, <3>1, <3>2
  <2>2. CASE /\ m = AtBarrier(stage[a] - 1, FALSE) /\ wf[a] = "wait"
             /\ fwd[a] # "gone" /\ ctl \notin Terminal
    <3>1. stage[a] = k + 1
      <4>1. k = stage[a] - 1 /\ stage[a] \in Nat /\ k \in Nat
        BY <1>2, <1>5, <2>2, ConstantsAssumption DEF AtBarrier, TypeOK, Barriers
      <4>2. QED
        BY <4>1
    <3>2. Summarised(a, k) \/ \E j \in 1 .. Len(up[a]) : Summ(up[a][j], k)
      BY <1>2, <2>2, <3>1 DEF Ahead
    <3>3. 1 .. Len(up[a]) \subseteq 1 .. n
      BY <1>1 DEF n
    <3>4. QED
      BY <1>1, <3>2, <3>3
  <2>3. QED
    BY <1>2, <1>5, <2>1, <2>2 DEF Joins
<1>6. ASSUME NEW i \in 1 .. Len(up'[a]), up'[a][i].k = k
      PROVE  Summarised(a, k) \/ \E j \in 1 .. i : Summ(up'[a][j], k)
  <2>1. CASE i \in 1 .. Len(up[a])
    <3>1. Summarised(a, k) \/ \E j \in 1 .. i : Summ(up[a][j], k)
      BY <1>1, <1>2, <1>6, <2>1 DEF Ahead
    <3>2. 1 .. i \subseteq 1 .. Len(up[a])
      BY <1>1, <2>1
    <3>3. QED
      BY <1>1, <3>1, <3>2
  <2>2. CASE i = n
    BY <1>1, <1>5, <1>6, <2>2
  <2>3. QED
    BY <1>3, <2>1, <2>2
<1>7. ASSUME Waits(a, k)'
      PROVE  Summarised(a, k) \/ \E j \in 1 .. Len(up'[a]) : Summ(up'[a][j], k)
  <2>1. /\ stage[a] = k + 1 /\ fwd[a] # "gone" /\ ctl \notin Terminal
        /\ wf[a] = "wait" \/ EnterBarrier(a)
    BY <1>2, <1>7, StillWaits
  <2>2. CASE wf[a] = "wait"
    BY <1>1, <1>2, <1>3, <2>1, <2>2 DEF Ahead
  <2>3. CASE EnterBarrier(a) /\ wf[a] # "wait"
    <3>1. m = AtBarrier(stage[a] - 1, TRUE)
      <4>1. wf[a] = "ready" /\ wf' # wf
        BY <2>3 DEF EnterBarrier, Moves, TypeOK
      <4>2. QED
        BY <2>3, <4>1 DEF Joins
    <3>2. m.k = k
      BY <1>2, <2>1, <3>1 DEF AtBarrier, Barriers
    <3>3. QED
      BY <1>1, <1>5, <3>2
  <2>4. QED
    BY <2>1, <2>2, <2>3
<1>8. a \in ready_agents'[k] => Summarised(a, k)
  BY <1>2 DEF Ahead
<1>9. QED
  BY <1>4, <1>6, <1>7, <1>8 DEF Ahead, Summ, Waits

LEMMA CutPrefix ==
    ASSUME TypeOK, NEW a \in Agents, Cut(a)
    PROVE  /\ \A b \in Agents \ {a} : up'[b] = up[b]
           /\ fwd'[a] = "gone"
           /\ \E n \in 0 .. Len(up[a]) :
                /\ \A i \in 1 .. n : up'[a][i] = up[a][i]
                /\ \A i \in 1 .. Len(up'[a]) : i \in 1 .. n \/ up'[a][i] = Error
<1>1. up \in [Agents -> Seq(Message)] /\ up[a] \in Seq(Message)
      /\ fwd \in [Agents -> {"wait", "run", "gone"}]
  BY DEF TypeOK
<1>2. fwd'[a] = "gone"
  BY <1>1 DEF Cut, LoseStream
<1>3. PICK n \in 0 .. Len(up[a]) :
        \/ up' = [up EXCEPT ![a] = Append(SubSeq(up[a], 1, n), Error)]
        \/ up' = [up EXCEPT ![a] = SubSeq(up[a], 1, n)]
  BY Zenon DEF Cut, LoseStream
<1> DEFINE through == SubSeq(up[a], 1, n)
<1>4. /\ through \in Seq(Message) /\ Len(through) = n /\ n \in Nat
      /\ \A i \in 1 .. n : through[i] = up[a][i]
  BY <1>1
<1>5. /\ \A b \in Agents \ {a} : up'[b] = up[b]
      /\ up'[a] = Append(through, Error) \/ up'[a] = through
  BY <1>1, <1>3
<1> HIDE DEF through
<1>6. CASE up'[a] = through
  BY <1>2, <1>4, <1>5, <1>6
<1>7. CASE up'[a] = Append(through, Error)
  <2>1. /\ Len(up'[a]) = n + 1 /\ up'[a][n + 1] = Error
        /\ \A i \in 1 .. n : up'[a][i] = up[a][i]
    BY <1>4, <1>7
  <2>2. \A i \in 1 .. Len(up'[a]) : i \in 1 .. n \/ up'[a][i] = Error
    BY <1>4, <2>1
  <2>3. QED
    BY <1>2, <1>5, <2>1, <2>2
<1>8. QED
  BY <1>5, <1>6, <1>7

LEMMA AheadCut ==
    ASSUME TypeOK, SummaryFirst, NEW a \in Agents, Cut(a), NEW k \in Barriers \ {0}
    PROVE  Ahead(a, k)'
<1>1. PICK n \in 0 .. Len(up[a]) :
        /\ \A i \in 1 .. n : up'[a][i] = up[a][i]
        /\ \A i \in 1 .. Len(up'[a]) : i \in 1 .. n \/ up'[a][i] = Error
  BY CutPrefix
<1>2. /\ Ahead(a, k) /\ k # 0 /\ fwd'[a] = "gone"
      /\ summaries' = summaries /\ ready_agents' = ready_agents
  BY CutPrefix DEF SummaryFirst, Cut, BooksKept
<1>3. Len(up[a]) \in Nat /\ Error.k = 0
  BY DEF TypeOK, Error
<1>4. ASSUME NEW i \in 1 .. Len(up'[a]), up'[a][i].k = k
      PROVE  Summarised(a, k) \/ \E j \in 1 .. i : Summ(up'[a][j], k)
  <2>1. i \in 1 .. n
    BY <1>1, <1>2, <1>3, <1>4
  <2>2. i \in 1 .. Len(up[a]) /\ up[a][i].k = k
    BY <1>1, <1>3, <1>4, <2>1
  <2>3. Summarised(a, k) \/ \E j \in 1 .. i : Summ(up[a][j], k)
    BY <1>2, <2>2 DEF Ahead
  <2>4. 1 .. i \subseteq 1 .. n
    BY <2>1
  <2>5. QED
    BY <1>1, <2>3, <2>4
<1>5. a \in ready_agents'[k] => Summarised(a, k)
  BY <1>2 DEF Ahead
<1>6. Summarised(a, k)' <=> Summarised(a, k)
  BY <1>2 DEF Summarised
<1>7. QED
  BY <1>2, <1>4, <1>5, <1>6 DEF Ahead, Summ

LEMMA AheadStartup ==
    ASSUME IInv, Later, Later', SummaryFirst, NEW a \in Agents, CtlStartup(a),
           NEW b \in Agents, NEW k \in Barriers \ {0}
    PROVE  Ahead(b, k)'
<1>1. /\ Ahead(b, k) /\ k # 0 /\ k \in Barriers /\ ctl = "startup"
      /\ summaries' = summaries /\ ready_agents' = ready_agents /\ released' = released
      /\ wf' = wf /\ stage' = stage
  BY DEF SummaryFirst, CtlStartup, workflowVars
<1>2. released = {}
  BY <1>1 DEF Later
<1>3. \A i \in 1 .. Len(up'[b]) : up'[b][i].k # k
  BY <1>1, <1>2 DEF Later
<1>4. ~(wf[b] = "wait" /\ stage[b] = k + 1)
  <2>1. SUFFICES ASSUME stage[b] = k + 1  PROVE FALSE
    OBVIOUS
  <2>2. k \in Nat /\ NumStages \in Nat \ {0}
    BY <1>1, ConstantsAssumption DEF Barriers
  <2>3. Passed(b, 0) /\ 0 \in Barriers
    BY <1>1, <2>1, <2>2 DEF Passed, Barriers
  <2>4. QED
    BY <1>2, <2>3 DEF IInv, PassedReleased
<1>5. b \in ready_agents'[k] => Summarised(b, k)
  BY <1>1 DEF Ahead
<1>6. Summarised(b, k)' <=> Summarised(b, k)
  BY <1>1 DEF Summarised
<1>7. QED
  BY <1>1, <1>3, <1>4, <1>5, <1>6 DEF Ahead

LEMMA SummariesKept ==
    ASSUME TypeOK, NEW a \in Agents, CtlMain(a), NEW b \in Agents, NEW k \in Barriers, Summarised(b, k)
    PROVE  Summarised(b, k)'
<1>1. Head(up[a]).k \in Barriers
  BY TakeHead DEF Message
<1>2. CASE summaries' = summaries
  BY <1>2 DEF Summarised
<1>3. CASE summaries' = [summaries EXCEPT ![Head(up[a]).k] = Append(@, a)]
  BY <1>1, <1>3, Collecting
<1>4. QED
  BY <1>2, <1>3, SummaryTaken

LEMMA HeadSummarised ==
    ASSUME IInv, Later, NEW a \in Agents, CtlMain(a), ~Swallowed(a, Head(up[a])),
           NEW k \in Barriers \ {0}, Summ(Head(up[a]), k)
    PROVE  Summarised(a, k)'
<1>1. TypeOK
  BY DEF IInv
<1>2. 1 \in 1 .. Len(up[a]) /\ Head(up[a]) = up[a][1]
  BY <1>1, TakeHead
<1>3. released # {}
  BY <1>2 DEF Later, Summ
<1>4. BarrierType # NoBarrierManager
  <2>1. \E j \in released : PolicyMet(j)
    BY <1>3 DEF IInv, ReleasedMet
  <2>2. QED
    BY <2>1 DEF PolicyMet, CanRelease, NoBarrierManager
<1>5. summaries' = [summaries EXCEPT ![k] = Append(@, a)]
  BY <1>1, <1>4, SummaryTaken DEF Summ
<1>6. QED
  BY <1>1, <1>5, Collecting

LEMMA AheadMain ==
    ASSUME IInv, Later, SummaryFirst, Next, NEW a \in Agents, CtlMain(a),
           NEW k \in Barriers \ {0}
    PROVE  Ahead(a, k)'
<1> DEFINE m == Head(up[a])
<1>1. TypeOK /\ Ahead(a, k) /\ k \in Barriers /\ wf' = wf /\ stage' = stage
  BY DEF IInv, SummaryFirst, CtlMain, workflowVars
<1>2. Summarised(a, k) => Summarised(a, k)'
  BY <1>1, SummariesKept
<1>3. CASE Swallowed(a, m)
  <2>1. up'[a] = <<>> /\ fwd'[a] = "gone" /\ ready_agents' = ready_agents
    BY <1>1, <1>3, MainTakes DEF BooksKept
  <2>2. a \in ready_agents'[k] => Summarised(a, k)
    BY <1>1, <2>1 DEF Ahead
  <2>3. \A i \in 1 .. Len(up'[a]) : FALSE
    BY <2>1
  <2>4. QED
    BY <1>2, <2>1, <2>2, <2>3 DEF Ahead
<1>4. CASE ~Swallowed(a, m)
  <2>1. /\ 1 \in 1 .. Len(up[a]) /\ m = up[a][1] /\ m \in Message
        /\ up[a] # <<>> /\ up[a] \in Seq(Message)
        /\ up'[a] = Tail(up[a]) /\ NoteBarrier(a, m)
    BY <1>1, <1>4, TakeHead, MainTakes
  <2>2. /\ Len(up[a]) \in Nat /\ Len(up'[a]) = Len(up[a]) - 1
        /\ \A i \in 1 .. Len(up[a]) - 1 : up'[a][i] = up[a][i + 1]
    BY <2>1
  <2>3. Summ(up[a][1], k) => Summarised(a, k)'
    BY <1>4, <2>1, HeadSummarised
  <2> HIDE DEF m
  <2>4. ASSUME NEW i \in Nat, i <= Len(up'[a]), NEW j \in 1 .. i + 1, Summ(up[a][j], k)
        PROVE  Summarised(a, k)' \/ \E x \in 1 .. i : Summ(up'[a][x], k)
    <3>1. CASE j = 1
      BY <2>3, <2>4, <3>1
    <3>2. CASE j # 1
      <4>1. j - 1 \in 1 .. i /\ j - 1 \in 1 .. Len(up[a]) - 1 /\ (j - 1) + 1 = j
        BY <2>2, <2>4, <3>2
      <4>2. up'[a][j - 1] = up[a][j]
        BY <2>2, <4>1
      <4>3. QED
        BY <2>4, <4>1, <4>2
    <3>3. QED
      BY <3>1, <3>2
  <2>5. a \in ready_agents'[k] => Summarised(a, k)'
    <3>1. CASE a \in ready_agents[k]
      BY <1>1, <1>2, <3>1 DEF Ahead
    <3>2. CASE m.k = k
      <4>1. Summarised(a, k) \/ \E j \in 1 .. 1 : Summ(up[a][j], k)
        BY <1>1, <2>1, <3>2 DEF Ahead
      <4>2. \A j \in 1 .. 1 : j = 1
        OBVIOUS
      <4>3. QED
        BY <1>2, <2>3, <4>1, <4>2
    <3>3. a \in ready_agents'[k] => a \in ready_agents[k] \/ m.k = k
      BY <1>1, <2>1, NoteBarrierLemma
    <3>4. QED
      BY <3>1, <3>2, <3>3
  <2>6. ASSUME NEW i \in 1 .. Len(up'[a]), up'[a][i].k = k
        PROVE  Summarised(a, k)' \/ \E x \in 1 .. i : Summ(up'[a][x], k)
    <3>1. i + 1 \in 1 .. Len(up[a]) /\ up'[a][i] = up[a][i + 1] /\ i \in Nat /\ i <= Len(up'[a])
      BY <2>2
    <3>2. Summarised(a, k) \/ \E j \in 1 .. i + 1 : Summ(up[a][j], k)
      BY <1>1, <2>6, <3>1 DEF Ahead
    <3>3. QED
      BY <1>2, <2>4, <3>1, <3>2
  <2>7. ASSUME Waits(a, k)'
        PROVE  Summarised(a, k)' \/ \E x \in 1 .. Len(up'[a]) : Summ(up'[a][x], k)
    <3>1. wf[a] = "wait" /\ stage[a] = k + 1 /\ fwd[a] # "gone" /\ ctl \notin Terminal
      BY <1>1, <2>7, OneWay DEF Waits
    <3>2. Summarised(a, k) \/ \E j \in 1 .. Len(up[a]) : Summ(up[a][j], k)
      BY <1>1, <3>1 DEF Ahead
    <3>3. Len(up'[a]) \in Nat /\ Len(up'[a]) + 1 = Len(up[a])
      BY <2>1, <2>2
    <3>4. QED
      BY <1>2, <2>4, <3>2, <3>3
  <2>8. QED
    BY <2>5, <2>6, <2>7 DEF Ahead, Summ, Waits
<1>5. QED
  BY <1>3, <1>4

LEMMA FirstStep ==
    ASSUME IInv, Later, SummaryFirst, Next
    PROVE  SummaryFirst'
<1>1. TypeOK /\ TypeOK' /\ WorkflowInv /\ Later'
  BY TypeStep, LaterStep DEF IInv
<1>2. \A b \in Agents, k \in Barriers \ {0} : Ahead(b, k)
  BY DEF SummaryFirst
<1>3. ASSUME Still, NEW b \in Agents, NEW k \in Barriers \ {0}  PROVE Ahead(b, k)'
  <2>1. up'[b] = up[b] /\ ready_agents' = ready_agents /\ summaries' = summaries
    BY <1>3 DEF Still, BooksKept
  <2>2. Summarised(b, k) => Summarised(b, k)'
    BY <2>1 DEF Summarised
  <2>3. Waits(b, k)' => Waits(b, k)
    <3>1. SUFFICES ASSUME Waits(b, k)'  PROVE Waits(b, k)
      OBVIOUS
    <3>2. wf[b] = "wait"
      BY <1>3, <3>1 DEF Still, Waits
    <3>3. QED
      BY <1>1, <3>1, <3>2, StillWaits DEF Waits
  <2>4. QED
    BY <1>2, <2>1, <2>2, <2>3, AheadStays
<1>4. ASSUME NEW a \in Agents, NEW m \in Message, Joins(a, m),
             NEW b \in Agents, NEW k \in Barriers \ {0}
      PROVE  Ahead(b, k)'
  <2>1. CASE b = a
    BY <1>1, <1>4, <2>1, AheadJoins
  <2>2. CASE b # a
    <3>1. up'[b] = up[b] /\ ready_agents' = ready_agents /\ summaries' = summaries
      BY <1>1, <1>4, <2>2, JoinTail DEF Joins, BooksKept
    <3>2. Summarised(b, k) => Summarised(b, k)'
      BY <3>1 DEF Summarised
    <3>3. wf'[b] = "wait" => wf[b] = "wait"
      BY <1>1, <1>4, <2>2 DEF Joins, EnterBarrier, Moves, TypeOK
    <3>4. Waits(b, k)' => Waits(b, k)
      BY <1>1, <3>3, StillWaits DEF Waits
    <3>5. QED
      BY <1>2, <3>1, <3>2, <3>4, AheadStays
  <2>3. QED
    BY <2>1, <2>2
<1>5. ASSUME NEW a \in Agents, Cut(a), NEW b \in Agents, NEW k \in Barriers \ {0}
      PROVE  Ahead(b, k)'
  <2>1. CASE b = a
    BY <1>1, <1>5, <2>1, AheadCut
  <2>2. CASE b # a
    <3>1. up'[b] = up[b] /\ ready_agents' = ready_agents /\ summaries' = summaries
      BY <1>1, <1>5, <2>2, CutPrefix DEF Cut, BooksKept
    <3>2. Summarised(b, k) => Summarised(b, k)'
      BY <3>1 DEF Summarised
    <3>3. wf'[b] = "wait" => wf[b] = "wait"
      BY <1>5 DEF Cut
    <3>4. Waits(b, k)' => Waits(b, k)
      BY <1>1, <3>3, StillWaits DEF Waits
    <3>5. QED
      BY <1>2, <3>1, <3>2, <3>4, AheadStays
  <2>3. QED
    BY <2>1, <2>2
<1>6. ASSUME NEW a \in Agents, CtlMain(a), NEW b \in Agents, NEW k \in Barriers \ {0}
      PROVE  Ahead(b, k)'
  <2>1. CASE b = a
    BY <1>6, <2>1, AheadMain
  <2>2. CASE b # a
    <3>1. up'[b] = up[b] /\ wf' = wf /\ k \in Barriers
      BY <1>1, <1>6, <2>2, TakeHead DEF CtlMain, workflowVars
    <3>2. Summarised(b, k) => Summarised(b, k)'
      BY <1>1, <1>6, SummariesKept
    <3>3. b \in ready_agents'[k] => b \in ready_agents[k]
      <4>1. CASE ready_agents' = ready_agents
        BY <4>1
      <4>2. CASE NoteBarrier(a, Head(up[a])) /\ Head(up[a]) \in Message
        BY <1>1, <2>2, <4>2, NoteBarrierLemma
      <4>3. QED
        BY <1>1, <1>6, <4>1, <4>2, MainTakes, TakeHead DEF BooksKept
    <3>4. Waits(b, k)' => Waits(b, k)
      BY <1>1, <3>1, StillWaits DEF Waits
    <3>5. QED
      BY <1>2, <3>1, <3>2, <3>3, <3>4, AheadStays
  <2>3. QED
    BY <2>1, <2>2
<1>7. ASSUME NEW a \in Agents, CtlStartup(a), NEW b \in Agents, NEW k \in Barriers \ {0}
      PROVE  Ahead(b, k)'
  BY <1>1, <1>7, AheadStartup
<1>8. ASSUME NEW b \in Agents, NEW k \in Barriers \ {0}  PROVE Ahead(b, k)'
  BY <1>1, <1>3, <1>4, <1>5, <1>6, <1>7, Channels
<1>9. QED
  BY <1>8 DEF SummaryFirst, Barriers
-----------------------------------------------------------------------------
(***************************************************************************)
(* Theorems                                                                *)
(***************************************************************************)

LEMMA InitReports == Init => RInv
<1> SUFFICES ASSUME Init PROVE RInv
  OBVIOUS
<1>1. /\ \A a \in Agents : up[a] = <<>> /\ wf[a] = "idle"
      /\ \A k \in Barriers : summaries[k] = <<>> /\ ready_agents[k] = {}
      /\ bcast = <<>> /\ released = {} /\ comp = {} /\ ctl = "startup"
  BY DEF Init
<1>2. ReleasedOnce
  BY <1>1 DEF ReleasedOnce
<1>3. \A a \in Agents, k \in Barriers : ~Summarised(a, k)
  BY <1>1 DEF Summarised
<1>4. SummaryInv
  BY <1>1, <1>3 DEF SummaryInv, Once, InTime, Collected
<1>5. Later
  BY <1>1 DEF Later
<1>6. SummaryFirst
  BY <1>1 DEF SummaryFirst, Ahead
<1>7. Everyone /\ Endings
  BY <1>1 DEF Everyone, Endings
<1>8. QED
  BY <1>2, <1>4, <1>5, <1>6, <1>7 DEF RInv

LEMMA StepReports == IInv /\ RInv /\ [Next]_vars => RInv'
<1> SUFFICES ASSUME IInv, RInv, [Next]_vars PROVE RInv'
  OBVIOUS
<1>1. CASE Next
  BY <1>1, OnceStep, SummaryStep, LaterStep, FirstStep, EveryoneStep, EndingsStep DEF RInv
<1>2. CASE UNCHANGED vars
  <2>1. ReleasedOnce' /\ Later' /\ Everyone' /\ Endings'
    BY <1>2 DEF vars, RInv, ReleasedOnce, Later, Everyone, Endings, Last
  <2>2. SummaryInv'
    BY <1>2 DEF vars, RInv, SummaryInv, Once, InTime, Collected, Started, Summarised, Barriers
  <2>3. SummaryFirst'
    BY <1>2 DEF vars, RInv, SummaryFirst, Ahead, Summarised, Summ, Barriers
  <2>4. QED
    BY <2>1, <2>2, <2>3 DEF RInv
<1>3. QED
  BY <1>1, <1>2

LEMMA ReportInvariance == Spec => [](IInv /\ RInv)
<1>1. Init => RInv
  BY InitReports
<1>2. IInv /\ RInv /\ [Next]_vars => RInv'
  BY StepReports
<1>3. Spec => []IInv
  BY Invariance
<1>4. QED
  BY <1>1, <1>2, <1>3, PTL DEF Spec

\* The controller's main loop (controller.rs, clear_barrier) puts the release of
\* a barrier for an agent on the control broadcast once, however often READY and
\* barrier reports are repeated after it.
THEOREM ReleasesSentOnce == Spec => []ReleasedOnce
<1>1. RInv => ReleasedOnce
  BY DEF RInv
<1>2. QED
  BY <1>1, ReportInvariance, PTL

\* A finished run under a policy other than Majority has seen every agent at
\* every barrier: all_completed() is never true of a part of the agents only.
LEMMA FinishedReleased ==
    ASSUME IInv, RInv, ctl = "finished", BarrierType # "Majority"
    PROVE  /\ FinishersOf(Last) = Agents
           /\ \A k \in Barriers : k \in released /\ ready_agents[k] = Agents
<1>1. Last \in released /\ Last \in Barriers /\ NumStages \in Nat \ {0}
  BY ConstantsAssumption DEF RInv, Endings, Last, Barriers
<1>2. ready_agents[Last] = Agents
  BY <1>1 DEF RInv, Everyone
<1>3. FinishersOf(Last) = Agents
  BY <1>1, <1>2 DEF IInv, TrackedTrue, FinishersOf
<1>4. PICK a \in Agents : TRUE
  BY ConstantsAssumption
<1>5. stage[a] = NumStages
  <2>1. finished[a] > Last
    BY <1>3 DEF FinishersOf
  <2>2. finished[a] <= stage[a] /\ stage[a] \in 0 .. NumStages /\ finished[a] \in 0 .. NumStages
    BY DEF IInv, WorkflowInv, TypeOK
  <2>3. QED
    BY <1>1, <2>1, <2>2 DEF Last
<1>6. ASSUME NEW k \in Barriers  PROVE k \in released
  <2>1. CASE k = Last
    BY <1>1, <2>1
  <2>2. CASE k # Last
    <3>1. Passed(a, k)
      BY <1>1, <1>5, <2>2 DEF Passed, Barriers, Last
    <3>2. QED
      BY <3>1 DEF IInv, PassedReleased
  <2>3. QED
    BY <2>1, <2>2
<1>7. QED
  BY <1>3, <1>6 DEF RInv, Everyone

\* run_distributed_workload reports success only when every agent has finished
\* every stage, although the aggregator compares the completed agents only with
\* those it has heard of; without a majority policy, for every Adversity.
THEOREM SuccessMeansAllDone == Spec => []FinishedMeansAllDone
<1>1. IInv /\ RInv => FinishedMeansAllDone
  <2> SUFFICES ASSUME IInv, RInv, ctl = "finished", BarrierType # "Majority", NEW a \in Agents
               PROVE  finished[a] = NumStages
    BY DEF FinishedMeansAllDone
  <2>1. finished[a] > Last
    BY FinishedReleased DEF FinishersOf
  <2>2. finished[a] \in 0 .. NumStages /\ NumStages \in Nat
    BY ConstantsAssumption DEF IInv, TypeOK
  <2>3. QED
    BY <2>1, <2>2 DEF Last
<1>2. QED
  BY <1>1, ReportInvariance, PTL

\* The stage summaries behind the TSV files: nobody twice, and after success
\* everybody in every stage but the first, whatever was repeated or lost.
THEOREM SummariesCounted == Spec => []SummariesExact
<1>1. IInv /\ RInv => SummariesExact
  <2> SUFFICES ASSUME IInv, RInv  PROVE SummariesExact
    OBVIOUS
  <2>1. \A k \in Barriers : Collected(k)
    BY DEF RInv, SummaryInv
  <2>2. ASSUME ctl = "finished", BarrierType # "Majority", NEW k \in Barriers \ {0}
        PROVE  Len(summaries[k]) = Cardinality(Agents)
    <3> DEFINE s == summaries[k]
               n == Len(s)
    <3>1. s \in Seq(Agents) /\ n \in Nat /\ s \in [1 .. n -> Agents]
      BY DEF IInv, TypeOK
    <3>2. \A a \in Agents : Summarised(a, k)
      BY <2>2, FinishedReleased DEF RInv, SummaryFirst, Ahead
    <3>3. \A a \in Agents : \E i \in 1 .. n : s[i] = a
      BY <3>2 DEF Summarised
    <3>4. \A i, j \in 1 .. n : s[i] = s[j] => i = j
      BY <2>1 DEF Collected
    <3> HIDE DEF s, n
    <3>5. s \in Bijection(1 .. n, Agents)
      BY <3>1, <3>3, <3>4 DEF Bijection, Injection, Surjection, IsInjective
    <3>6. ExistsBijection(1 .. n, Agents)
      BY <3>5 DEF ExistsBijection
    <3>7. Cardinality(Agents) = n
      BY <3>1, <3>6, FS_CountingElements
    <3>8. QED
      BY <3>7 DEF s, n
  <2>3. QED
    BY <2>1, <2>2 DEF SummariesExact, Collected
<1>2. QED
  BY <1>1, ReportInvariance, PTL
=============================================================================
