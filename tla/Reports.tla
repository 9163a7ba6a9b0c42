------------------------------- MODULE Reports -------------------------------
(***************************************************************************)
(* The controller's reports over all agents (src/src/bin/controller.rs):   *)
(* the rows of results.tsv, prepare_results.tsv and of a stage's TSV, and  *)
(* the windows of the live display.                                        *)
(*                                                                         *)
(* An agent's message carries, for each operation type, its histograms as  *)
(* a sequence of encoded buckets (shorter than NUM_BUCKETS when some are   *)
(* missing), its counters and its size bins.                               *)
(***************************************************************************)
EXTENDS Merging

AggregateIndex == [op \in Ops |-> CASE op = "META" -> 97 [] op = "GET" -> 98 [] op = "PUT" -> 99]

Encoded(hists) == LET order == SetToSortSeq(Buckets, <) IN [i \in DOMAIN order |-> hists[order[i]]]

Position(b) == Cardinality({c \in Buckets : c <= b})

MessageOf(done, wall, kept) ==
  LET s == SummaryOf(done, 0, wall)
  IN  [ops   |-> s.ops,
       bytes |-> s.bytes,
       bins  |-> s.bins,
       wall  |-> wall,
       hists |-> [op \in Ops |-> SubSeq(Encoded(s.hists[op]), 1, kept)]]

\* The accumulators after all the messages: what decodes is added bucket by bucket.
Accumulated(messages, op) ==
  [b \in Buckets |->
     FoldLeft(LAMBDA h, m : IF Position(b) <= Len(m.hists[op]) THEN h (+) m.hists[op][Position(b)] ELSE h,
              EmptyBag, messages)]

SizeBins(messages, op) == MergedBins(messages, op)

Row(op, idx, h, ops, bytes) ==
  [op |-> op, idx |-> idx, count |-> HistLen(h), p95 |-> ValueAtQuantile(h, 95),
   ops |-> ops, bytes |-> bytes]

\* collect_op_rows: a row for every bucket that is not empty.
OpRows(acc, bins, op) ==
  LET order == SetToSortSeq({b \in Buckets : HistLen(acc[b]) > 0}, <)
  IN  [i \in DOMAIN order |->
         Row(op, order[i], acc[order[i]], bins[order[i]].ops, bins[order[i]].bytes)]

\* collect_aggregate_row: the histograms of all the buckets in one row.
AggregateRow(acc, op, ops, bytes) ==
  IF HistLen(Combined(acc)) = 0 THEN <<>>
  ELSE <<Row(op, AggregateIndex[op], Combined(acc), ops, bytes)>>

SortedRows(rows) == SortSeq(rows, LAMBDA r, s : r.idx < s.idx)

Rows(messages, ops, bytes) ==
  LET acc(op) == Accumulated(messages, op)
      per(op) == OpRows(acc(op), SizeBins(messages, op), op)
      all(op) == AggregateRow(acc(op), op, ops[op], bytes[op])
  IN  SortedRows(per("GET") \o per("PUT") \o per("META") \o all("META") \o all("GET") \o all("PUT"))

\* create_consolidated_tsv: totals from the summaries; a bucket that does not
\* decode refuses the file ({}).
ConsolidatedTsv(messages) ==
  IF \E m \in ToSet(messages), op \in Ops : Len(m.hists[op]) < Cardinality(Buckets) THEN {}
  ELSE {Rows(messages, [op \in Ops |-> SumOver(messages, LAMBDA m : m.ops[op])],
                       [op \in Ops |-> SumOver(messages, LAMBDA m : m.bytes[op])])}

\* write_stage_summary_tsv: totals from the merged bins; what does not decode is
\* skipped.
StageTsv(messages) ==
  LET bins(op) == SizeBins(messages, op)
  IN  Rows(messages,
           [op \in Ops |-> MapThenSumSet(LAMBDA b : bins(op)[b].ops, Buckets)],
           [op \in Ops |-> MapThenSumSet(LAMBDA b : bins(op)[b].bytes, Buckets)])

\* create_consolidated_prepare_tsv: PUT only, and an agent's remaining buckets are
\* given up at the first that does not decode.
PrepareTsv(messages) ==
  LET acc == Accumulated(messages, "PUT")
      ops == SumOver(messages, LAMBDA m : m.ops["PUT"])
  IN  OpRows(acc, SizeBins(messages, "PUT"), "PUT")
        \o (IF ops > 0 THEN AggregateRow(acc, "PUT", ops, SumOver(messages, LAMBDA m : m.bytes["PUT"]))
            ELSE <<>>)

-----------------------------------------------------------------------------
(* LiveStatsAggregator: totals over the agents heard of, and the window    *)
(* since the previous aggregate.                                           *)

Total(counters) == MapThenSumSet(LAMBDA a : counters[a], DOMAIN counters)

\* Nothing for the first aggregate and for intervals of a tenth of a second or less.
Windowed(prev, counters, elapsed) ==
  IF prev = {} \/ elapsed <= 1 THEN 0
  ELSE LET p == CHOOSE x \in prev : TRUE
       IN  IF Total(counters) >= p THEN Total(counters) - p ELSE 0

-----------------------------------------------------------------------------
(* What the reports promise.                                               *)

OfIndex(rows, op, Index(_)) == SelectSeq(rows, LAMBDA r : r.op = op /\ Index(r.idx))

\* The rows of a report add up: for every operation type the counts and the
\* bytes of the bucket rows are those of its ALL row, which comes after them.
RowsAddUp(rows) ==
  /\ \A i, j \in DOMAIN rows : i < j => rows[i].idx <= rows[j].idx
  /\ \A op \in Ops :
       LET buckets == OfIndex(rows, op, LAMBDA i : i < 97)
           all     == OfIndex(rows, op, LAMBDA i : i >= 97)
       IN  /\ (all = <<>>) <=> (buckets = <<>>)
           /\ \A r \in ToSet(all) :
                /\ r.count = SumOver(buckets, LAMBDA b : b.count)
                /\ r.bytes = SumOver(buckets, LAMBDA b : b.bytes)

\* With complete messages the three reports agree with one another and with a
\* report of one agent that had executed everything; a message that lacks
\* buckets is refused by results.tsv and never makes a stage's report count
\* an operation that was not executed.
ReportsAgreeOn(dones, kept) ==
  LET messages == [i \in DOMAIN dones |->
                     MessageOf(dones[i], i, IF i = 1 THEN kept ELSE Cardinality(Buckets))]
      pooled   == MessageOf(FlattenSeq(dones), Len(dones), Cardinality(Buckets))
      put(rows) == SelectSeq(rows, LAMBDA r : r.op = "PUT")
  IN  IF kept = Cardinality(Buckets)
      THEN /\ ConsolidatedTsv(messages) = {StageTsv(messages)}
           /\ StageTsv(messages) = StageTsv(<<pooled>>)
           /\ PrepareTsv(messages) = put(StageTsv(messages))
           /\ RowsAddUp(StageTsv(messages))
      ELSE /\ ConsolidatedTsv(messages) = {}
           /\ \A r \in ToSet(StageTsv(messages)) :
                \E s \in ToSet(StageTsv(<<pooled>>)) :
                  s.op = r.op /\ s.idx = r.idx /\ r.count <= s.count

\* What a window shows was reported as done since the previous aggregate: an
\* agent whose counters fell back to zero in between can hide work but never
\* adds any.
WindowSoundOn(before, fresh, after, elapsed) ==
  LET counters == [a \in DOMAIN after |->
                     after[a] + (IF a \in DOMAIN before /\ a \notin fresh THEN before[a] ELSE 0)]
  IN  \A prev \in {{}, {Total(before)}} : Windowed(prev, counters, elapsed) <= Total(after)
=============================================================================
