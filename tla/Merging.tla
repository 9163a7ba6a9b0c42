------------------------------- MODULE Merging -------------------------------
(***************************************************************************)
(* Where the results of several workers become one:                        *)
(* the op-log merge and sort (src/src/oplog_merge.rs), the summaries of    *)
(* child processes (src/src/multiprocess.rs) and of runtimes               *)
(* (src/src/multiruntime.rs).                                              *)
(*                                                                         *)
(* A histogram is the bag of the latencies recorded in it.  An operation   *)
(* that was executed is [op, bucket, lat, bytes]; what a worker reports is *)
(* computed from the sequence of its operations by SummaryOf.              *)
(***************************************************************************)
EXTENDS Naturals, Sequences, FiniteSets, Bags, SequencesExt, FiniteSetsExt

CONSTANTS Buckets,      \* the size buckets, 0 .. NUM_BUCKETS - 1
          RuntimeBound  \* the largest latency the runtimes' combined histogram holds

ASSUME MergingAssumption == Buckets # {} /\ Buckets \subseteq 0 .. 96 /\ RuntimeBound \in Nat

Ops == {"GET", "PUT", "META"}

Ascending(s) == \A i, j \in DOMAIN s : i < j => s[i] <= s[j]

SeqBag(s) == [x \in ToSet(s) |-> Cardinality({i \in DOMAIN s : s[i] = x})]

-----------------------------------------------------------------------------
(* merge_worker_oplogs.  A file is a sequence of start times, 0 being a    *)
(* line that does not parse; files[w] is {} when the file of w is missing. *)

Streams(files) == SetToSortSeq({w \in DOMAIN files : files[w] # {}}, <)

Lines(files, w) == CHOOSE f \in files[w] : TRUE

\* What the next read of a stream yields: its start time and its worker, or
\* nothing at the end and at a line that does not parse.
ReadEntry(files, w, pos) ==
  LET f == Lines(files, w)
  IN  IF pos <= Len(f) /\ f[pos] # 0 THEN {[start |-> f[pos], worker |-> w, at |-> pos]} ELSE {}

\* The stream read after entry e is the one at position e.worker of the list
\* of opened files.
Refill(files, streams, read, e) ==
  IF e.worker < Len(streams)
  THEN LET s == e.worker + 1
       IN  {[x EXCEPT !.worker = e.worker] : x \in ReadEntry(files, streams[s], read[s] + 1)}
  ELSE {}

MergedOplog(files) ==
  LET streams == Streams(files)
      lines   == MapThenSumSet(LAMBDA w : Len(Lines(files, w)), ToSet(streams))
      Step[i \in 0 .. lines] ==
        IF i = 0
        THEN [heap |-> UNION {ReadEntry(files, w, 1) : w \in ToSet(streams)},
              read |-> [s \in DOMAIN streams |-> 1], out |-> <<>>]
        ELSE LET p == Step[i - 1] IN
             IF p.heap = {} THEN p
             ELSE LET e == CHOOSE x \in p.heap : \A y \in p.heap : x.start <= y.start
                  IN  [heap |-> (p.heap \ {e}) \cup Refill(files, streams, p.read, e),
                       read |-> [s \in DOMAIN streams |->
                                   p.read[s] + (IF s = e.worker + 1 THEN 1 ELSE 0)],
                       out  |-> Append(p.out, e.start)]
  IN  Step[lines].out

(* sort_oplog_file: a window kept sorted, its first entry written whenever *)
(* it is over-full; and check_oplog_sorted.                                *)

Insert(window, x) ==
  LET before == Cardinality({i \in DOMAIN window : window[i] < x})
  IN  SubSeq(window, 1, before) \o <<x>> \o SubSeq(window, before + 1, Len(window))

WindowStep(size, acc, x) ==
  LET window == Insert(acc.window, x)
  IN  IF Len(window) > size
      THEN [window |-> Tail(window), out |-> Append(acc.out, Head(window))]
      ELSE [acc EXCEPT !.window = window]

SortedOplog(lines, size) ==
  LET end == FoldLeft(LAMBDA acc, x : WindowStep(size, acc, x), [window |-> <<>>, out |-> <<>>], lines)
  IN  end.out \o end.window

\* The number of the first line found out of order, 0 when there is none.
FirstOutOfOrder(lines, max) ==
  LET late == {i \in 2 .. Len(lines) : i <= max /\ lines[i] < lines[i - 1]}
  IN  IF late = {} THEN 0 ELSE Min(late)

\* The merge writes no line twice and none that is in no file.  If the missing
\* files are those of the last workers and all lines can be read, it writes every
\* line, in the order of the start times when every file is in it; after a gap
\* the first file that is there gives no more than its first line.
OplogMergedOn(files) ==
  LET streams == Streams(files)
      present == ToSet(streams)
      missing == DOMAIN files \ present
      all     == FlattenSeq([s \in DOMAIN streams |-> Lines(files, streams[s])])
      merged  == MergedOplog(files)
      gaps    == {g \in missing : \E w \in present : w > g}
  IN  /\ SeqBag(merged) \sqsubseteq SeqBag(all)
      /\ gaps = {} /\ 0 \notin ToSet(all) =>
           /\ SeqBag(merged) = SeqBag(all)
           /\ (\A w \in present : FirstOutOfOrder(Lines(files, w), Len(all)) = 0) => Ascending(merged)
      /\ gaps # {} =>
           LET next == Min({w \in present : w > Min(gaps)})
           IN  Len(merged) <= Len(all) - Len(Lines(files, next)) + 1

\* Sorting loses no line, and a window as large as the largest distance a line
\* is from its place gives a sorted file.
WindowSortedOn(lines, size) ==
  /\ SeqBag(SortedOplog(lines, size)) = SeqBag(lines)
  /\ (\A i, j \in DOMAIN lines : i < j /\ lines[i] > lines[j] => j - i <= size)
       => FirstOutOfOrder(SortedOplog(lines, size), Len(lines)) = 0

-----------------------------------------------------------------------------
(* What a worker reports of its operations.                                *)

With(done, op, b) == SelectSeq(done, LAMBDA x : x.op = op /\ x.bucket = b)

Bytes(s) == FoldLeft(LAMBDA n, x : n + x.bytes, 0, s)

HistOf(s) == SeqBag([i \in DOMAIN s |-> s[i].lat])

OfOp(done, op) == SelectSeq(done, LAMBDA x : x.op = op)

SummaryOf(done, errors, wall) ==
  [ops    |-> [op \in Ops |-> Len(OfOp(done, op))],
   bytes  |-> [op \in Ops |-> Bytes(OfOp(done, op))],
   hists  |-> [op \in Ops |-> [b \in Buckets |-> HistOf(With(done, op, b))]],
   bins   |-> [op \in Ops |-> [b \in Buckets |->
                 [ops |-> Len(With(done, op, b)), bytes |-> Bytes(With(done, op, b))]]],
   errors |-> errors,
   wall   |-> wall]

(* hdrhistogram (external): length, sum, quantile.                         *)

HistLen(h) == BagCardinality(h)

HistSum(h) == MapThenSumSet(LAMBDA v : v * h[v], BagToSet(h))

ValueAtQuantile(h, pct) ==
  Min({v \in BagToSet(h) :
         100 * MapThenSumSet(LAMBDA w : h[w], {w \in BagToSet(h) : w <= v}) >= pct * HistLen(h)})

\* Histogram::add of a histogram bounded at max: {} when a value does not fit.
AddBounded(h, g, max) == IF \A v \in BagToSet(g) : v <= max THEN {h (+) g} ELSE {}

Combined(hists) == FoldSet(LAMBDA b, h : h (+) hists[b], EmptyBag, Buckets)

SumOver(sums, value(_)) == FoldLeft(LAMBDA n, s : n + value(s), 0, sums)

-----------------------------------------------------------------------------
(* run_multiprocess and its merge_summaries.                               *)

ThreadsPerProcess(concurrency, n) == (concurrency + n - 1) \div n

\* calculate_percentile: the first bucket that is not empty decides.
ProcessPercentile(hists, pct) ==
  LET filled == {b \in Buckets : HistLen(hists[b]) > 0}
  IN  IF filled = {} THEN 0 ELSE ValueAtQuantile(hists[Min(filled)], pct)

ProcessMean(hists) ==
  LET total == MapThenSumSet(LAMBDA b : HistLen(hists[b]), Buckets)
  IN  IF total = 0 THEN 0
      ELSE MapThenSumSet(LAMBDA b : HistSum(hists[b]), Buckets) \div total

MergedHists(sums, op) ==
  [b \in Buckets |-> FoldLeft(LAMBDA h, s : h (+) s.hists[op][b], EmptyBag, sums)]

MergedBins(sums, op) ==
  [b \in Buckets |-> [ops   |-> SumOver(sums, LAMBDA s : s.bins[op][b].ops),
                      bytes |-> SumOver(sums, LAMBDA s : s.bins[op][b].bytes)]]

ProcessMerged(sums) ==
  LET hists == [op \in Ops |-> MergedHists(sums, op)]
  IN  [ops    |-> [op \in Ops |-> SumOver(sums, LAMBDA s : s.ops[op])],
       bytes  |-> [op \in Ops |-> SumOver(sums, LAMBDA s : s.bytes[op])],
       hists  |-> hists,
       bins   |-> [op \in Ops |-> MergedBins(sums, op)],
       mean   |-> [op \in Ops |-> ProcessMean(hists[op])],
       p95    |-> [op \in Ops |-> ProcessPercentile(hists[op], 95)],
       errors |-> SumOver(sums, LAMBDA s : s.errors),
       wall   |-> Max({s.wall : s \in ToSet(sums)})]

\* The children are collected in order; the first that printed no summary, or
\* exited with an error ({}), fails the run.
RunMultiprocess(children) ==
  IF \E i \in DOMAIN children : children[i] = {} THEN {}
  ELSE {ProcessMerged([i \in DOMAIN children |-> CHOOSE s \in children[i] : TRUE])}

-----------------------------------------------------------------------------
(* run_multiruntime, its merge_summaries and recalculate_percentiles.      *)

WorkerShare(concurrency, n, w) ==
  (concurrency \div n) + (IF w < concurrency % n THEN 1 ELSE 0)

SpawnedWorkers(concurrency, n) == {w \in 0 .. n - 1 : WorkerShare(concurrency, n, w) > 0}

\* Mutant: percentiles that are those of the first worker.
RecalculatedFirst(sums, merged, op) ==
  IF merged.ops[op] = 0 THEN {0}
  ELSE LET h == Combined(sums[1].hists[op])
       IN  IF HistLen(h) = 0 THEN {0} ELSE {ValueAtQuantile(h, 95)}

\* A single summary keeps its own percentiles, which no bound limits.
Recalculated(sums, merged, op) ==
  IF merged.ops[op] = 0 THEN {0}
  ELSE {ValueAtQuantile(h, 95) :
          h \in IF Len(sums) = 1 THEN {Combined(merged.hists[op])}
                ELSE AddBounded(EmptyBag, Combined(merged.hists[op]), RuntimeBound)}

\* The error counter and the META bytes of the first summary are the merged one's.
RuntimeMerged(sums) ==
  LET merged == [ProcessMerged(sums) EXCEPT !.errors = sums[1].errors, !.bytes["META"] = sums[1].bytes["META"]]
      p95(op) == Recalculated(sums, merged, op)
  IN  IF \E op \in Ops : p95(op) = {} THEN {}
      ELSE {[ops |-> merged.ops, bytes |-> merged.bytes, hists |-> merged.hists, bins |-> merged.bins,
             wall |-> merged.wall, errors |-> merged.errors,
             p95 |-> [op \in Ops |-> CHOOSE v \in p95(op) : TRUE]]}

\* results[w] is {} for a worker that failed or panicked.  The summaries come in
\* the order in which the workers finish: what the run may return.
RunMultiruntime(results, concurrency, n) ==
  LET spawned == SpawnedWorkers(concurrency, n)
  IN  IF n = 0 \/ spawned = {} \/ (\E w \in spawned : results[w] = {}) THEN {}
      ELSE UNION {RuntimeMerged([i \in DOMAIN order |-> CHOOSE s \in results[order[i]] : TRUE]) :
                    order \in SetToSeqs(spawned)}

\* The threads of the processes are enough for the configured concurrency and
\* those of the runtimes are exactly it, no two runtimes differing by more
\* than one.
SharesExactOn(concurrency, n) ==
  LET share == [w \in 0 .. n - 1 |-> WorkerShare(concurrency, n, w)] IN
  /\ ThreadsPerProcess(concurrency, n) * n \in concurrency .. concurrency + n - 1
  /\ MapThenSumSet(LAMBDA w : share[w], 0 .. n - 1) = concurrency
  /\ \A v, w \in 0 .. n - 1 : share[v] <= share[w] + 1

\* The merge of the child processes exists only when every child delivered, and
\* its counters, histograms, bins, errors and means are those of one process that
\* had executed all the operations.  The percentile of an operation is that
\* process's too if its sizes are in one bucket, and otherwise the percentile of
\* the smallest sizes alone.
ProcessesMergedOn(dones, failed) ==
  LET sums     == [i \in DOMAIN dones |-> SummaryOf(dones[i], i - 1, i)]
      children == [i \in DOMAIN dones |-> IF i \in failed THEN {} ELSE {sums[i]}]
      pooled   == SummaryOf(FlattenSeq(dones), SumOver(sums, LAMBDA s : s.errors), Len(dones))
  IN  /\ failed # {} => RunMultiprocess(children) = {}
      /\ \A m \in RunMultiprocess(children) :
           /\ <<m.ops, m.bytes, m.hists, m.bins, m.errors, m.wall>> =
                <<pooled.ops, pooled.bytes, pooled.hists, pooled.bins, pooled.errors, pooled.wall>>
           /\ \A op \in Ops : m.ops[op] > 0 =>
                /\ m.mean[op] = HistSum(Combined(pooled.hists[op])) \div pooled.ops[op]
                /\ LET filled == {b \in Buckets : pooled.bins[op][b].ops > 0}
                       part   == IF Cardinality(filled) = 1 THEN Combined(pooled.hists[op])
                                 ELSE HistOf(With(FlattenSeq(dones), op, Min(filled)))
                   IN  m.p95[op] = ValueAtQuantile(part, 95)

\* The merge of the runtimes has the counters, histograms, bins and percentiles of
\* all the operations together and the bytes of all the GETs and PUTs, in whatever
\* order they finish; its errors and META bytes are those of one of them, the
\* first to finish.  It exists exactly when every runtime delivered and, with
\* several of them, every latency is within the bound of the combined histogram.
RuntimesPooledOn(dones, failed) ==
  LET n       == Len(dones)
      results == [w \in 0 .. n - 1 |->
                    IF w + 1 \in failed THEN {} ELSE {SummaryOf(dones[w + 1], w + 1, w + 1)}]
      pooled  == SummaryOf(FlattenSeq(dones), 0, n)
      merged  == RunMultiruntime(results, n, n)
  IN  /\ (merged # {}) <=>
           /\ failed = {}
           /\ n > 1 => \A i \in DOMAIN dones : \A x \in ToSet(dones[i]) : x.lat <= RuntimeBound
      /\ \A m \in merged :
           /\ <<m.ops, m.hists, m.bins, m.wall>> = <<pooled.ops, pooled.hists, pooled.bins, pooled.wall>>
           /\ \A op \in Ops : m.ops[op] > 0 =>
                m.p95[op] = ValueAtQuantile(Combined(pooled.hists[op]), 95)
           /\ \A op \in {"GET", "PUT"} : m.bytes[op] = pooled.bytes[op]
      /\ {<<m.errors, m.bytes["META"]>> : m \in merged} =
           IF merged = {} THEN {} ELSE {<<i, Bytes(OfOp(dones[i], "META"))>> : i \in DOMAIN dones}
=============================================================================
