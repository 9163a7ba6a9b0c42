-------------------------- MODULE AlgorithmsProofs --------------------------
(***************************************************************************)
(* What the pure code promises, for every input: the completion of a       *)
(* directory tree by several agents (DirectoryTree), the split of the      *)
(* concurrency (Merging), the conversion of legacy files and the prefix of *)
(* an agent (Stages), the probes of a directory and where prepare starts   *)
(* (Preflight).  The runs check the same definitions on small inputs.      *)
(*                                                                         *)
(* Whatever needs an induction over data is left to the runs: the listing  *)
(* of a tree, sorts, sums, merges of histograms and filtered sequences.    *)
(***************************************************************************)
EXTENDS DirectoryTree, Reports, Stages, SequenceTheorems, FiniteSetTheorems,
        WellFoundedInduction, TLAPS

P == INSTANCE Preflight

-----------------------------------------------------------------------------
(* Sequences and minima.                                                   *)

\* Two sequences of one element, joined.
LEMMA TwoLines ==
    ASSUME NEW a, NEW b
    PROVE  <<a>> \o <<b>> = <<a, b>>
<1> DEFINE S == {a, b}
<1>1. <<a>> \in Seq(S) /\ <<b>> \in Seq(S) /\ <<a, b>> \in Seq(S)
  OBVIOUS
<1> DEFINE s == <<a>> \o <<b>>
<1>2. s \in Seq(S) /\ Len(s) = 2 /\ s[1] = a /\ s[2] = b
  BY <1>1, ConcatProperties
<1> HIDE DEF s, S
<1>3. s = <<a, b>>
  BY <1>1, <1>2, SeqEqual
<1> QED
  BY <1>3 DEF s

\* The steps of a conversion that does not validate.
LEMMA ThreeSteps ==
    ASSUME NEW a, NEW b, NEW c
    PROVE  <<a, b>> \o <<c>> = <<a, b, c>>
<1> DEFINE S == {a, b, c}
<1>1. <<a, b>> \in Seq(S) /\ <<c>> \in Seq(S) /\ <<a, b, c>> \in Seq(S)
  OBVIOUS
<1> DEFINE s == <<a, b>> \o <<c>>
<1>2. s \in Seq(S) /\ Len(s) = 3 /\ s[1] = a /\ s[2] = b /\ s[3] = c
  BY <1>1, ConcatProperties
<1> HIDE DEF s, S
<1>3. s = <<a, b, c>>
  BY <1>1, <1>2, SeqEqual
<1> QED
  BY <1>3 DEF s

\* The steps of a conversion that validates.
LEMMA FourSteps ==
    ASSUME NEW a, NEW b, NEW c, NEW d
    PROVE  <<a, b>> \o <<c, d>> = <<a, b, c, d>>
<1> DEFINE S == {a, b, c, d}
<1>1. <<a, b>> \in Seq(S) /\ <<c, d>> \in Seq(S) /\ <<a, b, c, d>> \in Seq(S)
  OBVIOUS
<1> DEFINE s == <<a, b>> \o <<c, d>>
<1>2. s \in Seq(S) /\ Len(s) = 4 /\ s[1] = a /\ s[2] = b /\ s[3] = c /\ s[4] = d
  BY <1>1, ConcatProperties
<1> HIDE DEF s, S
<1>3. s = <<a, b, c, d>>
  BY <1>1, <1>2, SeqEqual
<1> QED
  BY <1>3 DEF s

\* Min is the least element of a set of naturals: Nat is well-founded.
LEMMA MinOf ==
    ASSUME NEW S \in SUBSET Nat, S # {}
    PROVE  Min(S) \in S /\ \A y \in S : Min(S) <= y
<1> DEFINE R == {ss \in Nat \X Nat : ss[1] < ss[2]}
<1>1. R = OpToRel(<, Nat)
  BY Zenon DEF OpToRel
<1>2. IsWellFoundedOn(R, Nat)
  BY <1>1, NatLessThanWellFounded
<1>3. \A x, y \in Nat : <<y, x>> \in R <=> y < x
  OBVIOUS
<1> HIDE DEF R
<1>4. \E x \in S : \A y \in S : ~(<<y, x>> \in R)
  BY <1>2, WFMin
<1>5. PICK x \in S : \A y \in S : ~(<<y, x>> \in R)
  BY <1>4
<1>6. \A y \in S : ~(y < x)
  BY <1>3, <1>5
<1>7. \A y \in S : x <= y
  BY <1>6
<1> QED
  BY <1>7 DEF Min

\* RemoveAt, spelled out.
LEMMA Removed ==
    ASSUME NEW s, NEW i
    PROVE  RemoveAt(s, i) = SubSeq(s, 1, i - 1) \o SubSeq(s, i + 1, Len(s))
BY DEF RemoveAt

\* The text with a line inserted after position b.
InsertedAt(text, line, b) == SubSeq(text, 1, b) \o <<line>> \o SubSeq(text, b + 1, Len(text))

\* A line inserted after position b moves the later ones by one, and removing
\* it gives the text back.
Splits(T, text, line, b) ==
    LET new == InsertedAt(text, line, b) IN
    /\ new \in Seq(T) /\ Len(new) = Len(text) + 1
    /\ new[b + 1] = line
    /\ \A k \in 1 .. b : new[k] = text[k]
    /\ \A k \in b + 1 .. Len(text) : new[k + 1] = text[k]
    /\ RemoveAt(new, b + 1) = text

LEMMA Inserted ==
    ASSUME NEW T, NEW text \in Seq(T), NEW line \in T, NEW b \in 0 .. Len(text)
    PROVE  Splits(T, text, line, b)
<1> DEFINE l == SubSeq(text, 1, b)
           r == SubSeq(text, b + 1, Len(text))
           h == l \o <<line>>
           new == InsertedAt(text, line, b)
<1>0. new = h \o r
  BY DEF InsertedAt
<1> HIDE DEF new
<1>1. l \in Seq(T) /\ Len(l) = b /\ \A k \in 1 .. b : l[k] = text[k]
  OBVIOUS
<1>2. r \in Seq(T) /\ Len(r) = Len(text) - b /\ \A k \in 1 .. Len(text) - b : r[k] = text[b + k]
  OBVIOUS
<1> HIDE DEF l, r
<1>3. <<line>> \in Seq(T) /\ Len(<<line>>) = 1 /\ <<line>>[1] = line
  OBVIOUS
<1>4. h \in Seq(T) /\ Len(h) = b + 1 /\ h[b + 1] = line /\ \A k \in 1 .. b : h[k] = text[k]
  <2>1. /\ h \in Seq(T) /\ Len(h) = Len(l) + 1
        /\ \A i \in 1 .. Len(l) + 1 : h[i] = IF i <= Len(l) THEN l[i] ELSE <<line>>[i - Len(l)]
    BY <1>1, <1>3, ConcatProperties
  <2> HIDE DEF h
  <2> QED
    BY <2>1, <1>1, <1>3
<1> HIDE DEF h
<1>5. /\ new \in Seq(T) /\ Len(new) = Len(text) + 1
      /\ \A k \in 1 .. Len(text) + 1 : new[k] = IF k <= b + 1 THEN h[k] ELSE r[k - (b + 1)]
  BY <1>0, <1>2, <1>4, ConcatProperties
<1>6. /\ new[b + 1] = line
      /\ \A k \in 1 .. b : new[k] = text[k]
      /\ \A k \in b + 1 .. Len(text) : new[k + 1] = text[k]
  <2>1. new[b + 1] = line /\ \A k \in 1 .. b : new[k] = text[k]
    BY <1>4, <1>5
  <2>2. ASSUME NEW k \in b + 1 .. Len(text)
        PROVE  new[k + 1] = text[k]
    <3>1. new[k + 1] = r[k - b]
      BY <1>5
    <3>2. r[k - b] = text[k]
      BY <1>2
    <3> QED
      BY <3>1, <3>2
  <2> QED
    BY <2>1, <2>2
<1>7. RemoveAt(new, b + 1) = text
  <2> DEFINE nl == SubSeq(new, 1, b)
             nr == SubSeq(new, b + 2, Len(new))
  <2>1. nl \in Seq(T) /\ Len(nl) = b /\ \A k \in 1 .. b : nl[k] = text[k]
    BY <1>5, <1>6
  <2>2. nr \in Seq(T) /\ Len(nr) = Len(text) - b /\ \A k \in 1 .. Len(text) - b : nr[k] = text[b + k]
    BY <1>5, <1>6
  <2>3. RemoveAt(new, b + 1) = nl \o nr
    <3> DEFINE p == b + 1
    <3>1. p - 1 = b /\ p + 1 = b + 2
      OBVIOUS
    <3> HIDE DEF p
    <3>2. RemoveAt(new, p) = SubSeq(new, 1, p - 1) \o SubSeq(new, p + 1, Len(new))
      BY Removed
    <3>3. RemoveAt(new, p) = nl \o nr
      BY <3>1, <3>2, Zenon
    <3> QED
      BY <3>3 DEF p
  <2> HIDE DEF nl, nr
  <2>4. /\ nl \o nr \in Seq(T) /\ Len(nl \o nr) = Len(text)
        /\ \A k \in 1 .. Len(text) : (nl \o nr)[k] = IF k <= b THEN nl[k] ELSE nr[k - b]
    <3>1. /\ nl \o nr \in Seq(T) /\ Len(nl \o nr) = Len(nl) + Len(nr)
          /\ \A k \in 1 .. Len(nl) + Len(nr) : (nl \o nr)[k] = IF k <= Len(nl) THEN nl[k] ELSE nr[k - Len(nl)]
      BY <2>1, <2>2, ConcatProperties
    <3>2. Len(nl) + Len(nr) = Len(text)
      BY <2>1, <2>2
    <3> QED
      BY <3>1, <3>2, <2>1, Zenon
  <2>5. \A k \in 1 .. Len(text) : (IF k <= b THEN nl[k] ELSE nr[k - b]) = text[k]
    BY <2>1, <2>2
  <2>6. \A k \in 1 .. Len(text) : (nl \o nr)[k] = text[k]
    BY <2>4, <2>5
  <2> QED
    BY <2>3, <2>4, <2>6, SeqEqual
<1> QED
  BY <1>5, <1>6, <1>7 DEF Splits, new

-----------------------------------------------------------------------------
(* Directory trees (directory_tree.rs).                                    *)

\* The index of a file of the tree is a number.
LEMMA ExpectedIndex ==
    ASSUME NEW c, NEW f \in Expected(c, FromTree(c))
    PROVE  f[2] \in Int
<1>1. PICK i \in 0 .. FromTree(c).total_files - 1 : f = GetFilePath(c, FromTree(c), i) /\ f # <<>>
  BY DEF Expected
<1>2. f[2] = i
  BY <1>1 DEF GetFilePath
<1> QED
  BY <1>1, <1>2

\* create_directory_tree, for every tree, every number of agents, whatever
\* existed before, whichever listings fail and however many files of the
\* others an agent already sees: the agents leave the whole tree between them,
\* no file is created by two of them, and an agent overwrites only what it could
\* not list.
THEOREM TreesCompleted ==
    ASSUME NEW c, NEW existing, NEW unlistable, NEW n \in Nat \ {0}
    PROVE  TreeCompletedOn(c, existing, unlistable, n)
<1> DEFINE m == FromTree(c)
           agents == 0 .. n - 1
           made(a, view) == CreatedBy(c, m, Listed(existing \cup view[a], unlistable), a, n)
<1> SUFFICES ASSUME NEW view \in [agents -> SUBSET (Expected(c, m) \ existing)],
                    \A a \in agents : view[a] \cap AgentFiles(c, m, a, n) = {}
             PROVE  /\ Expected(c, m) \subseteq existing \cup UNION {made(a, view) : a \in agents}
                    /\ \A a, b \in agents : a # b => made(a, view) \cap made(b, view) = {}
                    /\ \A a \in agents : \A f \in made(a, view) \cap existing : f[1] \in unlistable
  BY DEF TreeCompletedOn
<1>1. ASSUME NEW f \in Expected(c, m)
      PROVE  /\ f[2] % n \in agents /\ f \in AgentFiles(c, m, f[2] % n, n)
             /\ \A a \in agents : f \in AgentFiles(c, m, a, n) => a = f[2] % n
  <2>1. f[2] \in Int
    BY ExpectedIndex
  <2>2. f[2] % n \in agents
    BY <2>1
  <2>3. n <= 1 => \A a \in agents : a = 0
    OBVIOUS
  <2> HIDE DEF m
  <2> QED
    BY <2>1, <2>2, <2>3 DEF AgentFiles, ShouldAgentHandleFile
<1> HIDE DEF m
<1>2. Expected(c, m) \subseteq existing \cup UNION {made(a, view) : a \in agents}
  BY <1>1 DEF CreatedBy, Listed
<1>3. \A a, b \in agents : a # b => made(a, view) \cap made(b, view) = {}
  BY <1>1 DEF CreatedBy, AgentFiles
<1>4. \A a \in agents : \A f \in made(a, view) \cap existing : f[1] \in unlistable
  BY DEF CreatedBy, Listed
<1> QED
  BY <1>2, <1>3, <1>4

-----------------------------------------------------------------------------
(* Workers (multiprocess.rs, multiruntime.rs).                             *)

\* run_multiprocess and run_multiruntime, for every concurrency and number of
\* workers: the threads of the processes are enough and exceed it by less than
\* one per process; the runtimes' shares differ by at most one and are exactly
\* the concurrency: concurrency % n of them have one more than the others.
THEOREM SharesAreExact ==
    ASSUME NEW concurrency \in Nat, NEW n \in Nat \ {0}
    PROVE  /\ ThreadsPerProcess(concurrency, n) * n \in concurrency .. concurrency + n - 1
           /\ \A v, w \in 0 .. n - 1 : WorkerShare(concurrency, n, v) <= WorkerShare(concurrency, n, w) + 1
           /\ n * (concurrency \div n)
                + Cardinality({w \in 0 .. n - 1 : WorkerShare(concurrency, n, w) > concurrency \div n}) = concurrency
<1> DEFINE q == concurrency \div n
           r == concurrency % n
<1>1. q \in Nat /\ r \in 0 .. n - 1 /\ concurrency = n * q + r
  OBVIOUS
<1>2. ThreadsPerProcess(concurrency, n) * n \in concurrency .. concurrency + n - 1
  BY DEF ThreadsPerProcess
<1>3. \A v, w \in 0 .. n - 1 : WorkerShare(concurrency, n, v) <= WorkerShare(concurrency, n, w) + 1
  BY <1>1 DEF WorkerShare
<1>4. {w \in 0 .. n - 1 : WorkerShare(concurrency, n, w) > q} = 0 .. r - 1
  BY <1>1 DEF WorkerShare
<1>5. Cardinality(0 .. r - 1) = r
  BY <1>1, FS_Interval
<1> QED
  BY <1>1, <1>2, <1>3, <1>4, <1>5

-----------------------------------------------------------------------------
(* Configurations (config_converter.rs, config.rs).                        *)

\* The lines of a configuration file.
ConfigLines == [kind : {"distributed", "key", "stages", "comment", "blank"}, indent : Nat]

\* Stages inserted at the end b of the distributed section, which starts at first,
\* are the only ones YAML reads if the section is indented by two, and are not
\* read otherwise.
LEMMA Landed ==
    ASSUME NEW text \in Seq(ConfigLines), NEW b \in 0 .. Len(text), StagesIn(text) = {},
           NEW first \in 1 .. b, text[first].kind = "distributed", text[first].indent = 0,
           \A i \in DOMAIN text : text[i].kind = "distributed" => i = first,
           \A k \in first + 1 .. b : ~LeavesSection(text[k], 0),
           b < Len(text) => LeavesSection(text[b + 1], 0)
    PROVE  /\ StagesIn(InsertedAt(text, StagesLine, b)) = IF IndentedByTwo(text) THEN {b + 1} ELSE {}
           /\ RemoveAt(InsertedAt(text, StagesLine, b), b + 1) = text
<1> DEFINE new == InsertedAt(text, StagesLine, b)
<1>1. /\ StagesLine \in ConfigLines /\ StagesLine.kind = "stages" /\ StagesLine.indent = 2
      /\ ~LeavesSection(StagesLine, 0)
  BY DEF StagesLine, ConfigLines, LeavesSection
<1>2. /\ new \in Seq(ConfigLines) /\ Len(new) = Len(text) + 1 /\ new[b + 1] = StagesLine
      /\ \A k \in 1 .. b : new[k] = text[k]
      /\ \A k \in b + 1 .. Len(text) : new[k + 1] = text[k]
      /\ RemoveAt(new, b + 1) = text
  <2>1. Splits(ConfigLines, text, StagesLine, b)
    BY <1>1, Inserted
  <2> QED
    BY <2>1 DEF Splits
<1> HIDE DEF new
<1>3. DOMAIN new = 1 .. Len(text) + 1 /\ DOMAIN text = 1 .. Len(text) /\ Len(text) \in Nat
  BY <1>2
<1>4. \A i \in DOMAIN new : new[i].kind = "distributed" => i = first
  <2> SUFFICES ASSUME NEW i \in DOMAIN new, new[i].kind = "distributed" PROVE i = first
    OBVIOUS
  <2>1. CASE i <= b
    BY <1>2, <1>3, <2>1
  <2>2. CASE i > b + 1
    <3>1. i - 1 \in b + 1 .. Len(text) /\ (i - 1) + 1 = i
      BY <1>3, <2>2
    <3>2. text[i - 1].kind = "distributed" /\ i - 1 \in DOMAIN text
      BY <1>2, <1>3, <3>1
    <3> QED
      BY <3>1, <3>2
  <2>3. i # b + 1
    BY <1>1, <1>2
  <2> QED
    BY <1>3, <2>1, <2>2, <2>3
<1>5. IndentedByTwo(text) <=> \A k \in first + 1 .. b : FirstKey(text, first, k) => text[k].indent = 2
  <2>1. ASSUME NEW k \in DOMAIN text, FirstKey(text, first, k), ~LeavesSection(text[k], 0)
        PROVE  k \in first + 1 .. b
    <3>1. k \in 1 .. Len(text) /\ k > first /\ \A l \in first + 1 .. k - 1 : ~IsKey(text[l])
      BY <1>3, <2>1 DEF FirstKey
    <3>2. CASE k > b
      <4>1. LeavesSection(text[b + 1], 0) /\ IsKey(text[b + 1])
        BY <3>1, <3>2 DEF LeavesSection, IsKey
      <4>2. k # b + 1
        BY <2>1, <4>1
      <4>3. b + 1 \in first + 1 .. k - 1
        BY <3>1, <3>2, <4>2
      <4> QED
        BY <3>1, <4>1, <4>3
    <3> QED
      BY <3>1, <3>2
  <2>2. \A k \in first + 1 .. b : k \in DOMAIN text
    BY <1>3
  <2>3. first \in DOMAIN text
    BY <1>3
  <2> QED
    BY <2>1, <2>2, <2>3 DEF IndentedByTwo
<1>6. \A k \in first + 1 .. b : FirstKey(new, first, k) <=> FirstKey(text, first, k)
  <2> SUFFICES ASSUME NEW k \in first + 1 .. b
               PROVE  FirstKey(new, first, k) <=> FirstKey(text, first, k)
    OBVIOUS
  <2>1. new[k] = text[k] /\ \A l \in first + 1 .. k - 1 : new[l] = text[l]
    BY <1>2
  <2> QED
    BY <2>1 DEF FirstKey
<1>7. b + 1 \in StagesIn(new) <=> IndentedByTwo(text)
  <2>1. \A k \in first + 1 .. b + 1 : ~LeavesSection(new[k], 0)
    BY <1>1, <1>2
  <2>2. first \in 1 .. (b + 1) - 1 /\ new[first].kind = "distributed" /\ new[first].indent = 0
    BY <1>2, <1>3
  <2> DEFINE Same == \A k \in first + 1 .. b + 1 : FirstKey(new, first, k) => new[k].indent = 2
  <2>3. Same <=> IndentedByTwo(text)
    BY <1>1, <1>2, <1>5, <1>6
  <2>4. b + 1 \in DOMAIN new /\ new[b + 1].kind = "stages" /\ new[b + 1].indent = 2
    BY <1>1, <1>2, <1>3
  <2>5. \A i \in 1 .. (b + 1) - 1 : new[i].kind = "distributed" => i = first
    BY <1>3, <1>4
  <2>6. b + 1 \in StagesIn(new) <=> Same
    BY <2>1, <2>2, <2>4, <2>5 DEF StagesIn
  <2> QED
    BY <2>3, <2>6
<1>8. ASSUME NEW j \in StagesIn(new), j # b + 1
      PROVE  FALSE
  <2>1. /\ j \in 1 .. Len(text) + 1 /\ new[j].kind = "stages" /\ first < j
        /\ \A k \in first + 1 .. j : /\ ~LeavesSection(new[k], new[first].indent)
                                     /\ FirstKey(new, first, k) => new[k].indent = new[j].indent
    <3>1. PICK i \in 1 .. j - 1 :
            /\ new[i].kind = "distributed"
            /\ \A k \in i + 1 .. j : /\ ~LeavesSection(new[k], new[i].indent)
                                     /\ FirstKey(new, i, k) => new[k].indent = new[j].indent
      BY <1>8 DEF StagesIn
    <3>2. j \in 1 .. Len(text) + 1 /\ new[j].kind = "stages"
      BY <1>3, <1>8 DEF StagesIn
    <3>3. i = first
      BY <1>3, <1>4, <3>1, <3>2
    <3> QED
      BY <3>1, <3>2, <3>3
  <2>2. new[first] = text[first]
    BY <1>2
  <2>3. CASE j <= b
    <3>1. /\ text[j].kind = "stages" /\ first \in 1 .. j - 1 /\ j \in DOMAIN text
          /\ \A k \in first + 1 .. j : /\ ~LeavesSection(text[k], text[first].indent)
                                       /\ FirstKey(text, first, k) => text[k].indent = text[j].indent
      BY <1>2, <1>3, <1>6, <2>1, <2>2, <2>3
    <3>2. j \in StagesIn(text)
      BY <3>1 DEF StagesIn
    <3> QED
      BY <3>2
  <2>4. CASE j > b + 1
    <3>1. b + 2 \in first + 1 .. j /\ b < Len(text) /\ new[b + 2] = text[b + 1]
      BY <1>2, <2>1, <2>4
    <3> QED
      BY <2>1, <2>2, <3>1
  <2> QED
    BY <1>8, <2>1, <2>3, <2>4
<1> QED
  BY <1>2, <1>7, <1>8 DEF new

\* insert_stages_into_yaml, for every text with at most one distributed key, at the
\* top level: if the keys of its section are indented by two, the stages land
\* where YAML reads them, every other line stays as it is, and a second
\* conversion finds nothing to do; otherwise they are not read.
THEOREM StagesInserted ==
    ASSUME NEW text \in Seq(ConfigLines),
           \A i \in DOMAIN text : text[i].kind = "distributed" => text[i].indent = 0,
           \A i, j \in DOMAIN text : text[i].kind = "distributed" /\ text[j].kind = "distributed" => i = j
    PROVE  InsertedInsideOn(text)
<1> SUFFICES ASSUME StagesIn(text) = {}
             PROVE  LET new == InsertStages(text) IN
                    /\ Cardinality(StagesIn(new)) = IF IndentedByTwo(text) THEN 1 ELSE 0
                    /\ \A j \in StagesIn(new) :
                         RemoveAt(new, j) = text \o (IF \E k \in DOMAIN text : text[k].kind = "distributed" THEN <<>>
                                                     ELSE <<[kind |-> "distributed", indent |-> 0]>>)
                    /\ NeedsConversion(new, TRUE) <=> ~IndentedByTwo(text)
  BY DEF InsertedInsideOn
<1> DEFINE new == InsertStages(text)
           at == {i \in DOMAIN text : text[i].kind = "distributed"}
           end == {j \in DOMAIN text : \E i \in at : j > i /\ LeavesSection(text[j], text[i].indent)}
           key == [kind |-> "distributed", indent |-> 0]
           Host == text \o (IF \E k \in DOMAIN text : text[k].kind = "distributed" THEN <<>> ELSE <<key>>)
<1>1. DOMAIN text = 1 .. Len(text) /\ Len(text) \in Nat
  OBVIOUS
<1>2. \E p : StagesIn(new) = (IF IndentedByTwo(text) THEN {p} ELSE {}) /\ RemoveAt(new, p) = Host
  <2>1. CASE at # {}
    <3> DEFINE b == IF end = {} THEN Len(text) ELSE Min(end) - 1
    <3>1. new = InsertedAt(text, StagesLine, b)
      BY <2>1 DEF InsertStages, InsertedAt
    <3>2. Host = text
      BY <2>1, ConcatEmptySeq
    <3>3. end \in SUBSET Nat
      BY <1>1
    <3>4. PICK first \in at : TRUE
      BY <2>1
    <3>5. /\ first \in 1 .. Len(text) /\ text[first].kind = "distributed" /\ text[first].indent = 0
          /\ \A i \in at : i = first
      BY <1>1, <3>4
    <3>6. end # {} => Min(end) \in end /\ \A j \in end : Min(end) <= j
      BY <3>3, MinOf
    <3>7. \A j \in 1 .. Len(text) : j > first /\ LeavesSection(text[j], 0) => j \in end
      BY <1>1, <3>4, <3>5
    <3>8. \A j \in end : j > first /\ j \in 1 .. Len(text) /\ LeavesSection(text[j], 0)
      BY <1>1, <3>5
    <3>a. \A i \in DOMAIN text : text[i].kind = "distributed" => i = first
      BY <3>5
    <3> HIDE DEF end, at
    <3>9. /\ b \in 0 .. Len(text) /\ first \in 1 .. b
          /\ \A k \in first + 1 .. b : ~LeavesSection(text[k], 0)
          /\ b < Len(text) => LeavesSection(text[b + 1], 0)
      <4>1. CASE end = {}
        BY <4>1, <1>1, <3>5, <3>7
      <4>2. CASE end # {}
        <5> DEFINE e == Min(end)
        <5>1. b = e - 1 /\ e \in end /\ \A j \in end : e <= j
          BY <4>2, <3>6
        <5> HIDE DEF e, b
        <5>2. e > first /\ e \in 1 .. Len(text) /\ LeavesSection(text[e], 0) /\ first \in 1 .. Len(text)
          BY <5>1, <3>5, <3>8
        <5>3. \A k \in first + 1 .. b : k \notin end
          BY <5>1, <5>2
        <5> QED
          BY <1>1, <5>1, <5>2, <5>3, <3>7
      <4> QED
        BY <4>1, <4>2
    <3> HIDE DEF b, new
    <3>10. StagesIn(new) = (IF IndentedByTwo(text) THEN {b + 1} ELSE {}) /\ RemoveAt(new, b + 1) = text
      BY <3>1, <3>5, <3>9, <3>a, Landed
    <3> QED
      BY <3>2, <3>10
  <2>2. CASE at = {}
    <3> DEFINE host == text \o <<key>>
               b == Len(host)
    <3>1. key \in ConfigLines /\ StagesLine \in ConfigLines
      BY DEF ConfigLines, StagesLine
    <3>2. \A k \in DOMAIN text : text[k].kind # "distributed"
      BY <2>2
    <3>3. Host = host
      BY <3>2
    <3>4. <<key>> \in Seq(ConfigLines) /\ <<StagesLine>> \in Seq(ConfigLines)
      BY <3>1
    <3> HIDE DEF key
    <3>5. /\ host \in Seq(ConfigLines) /\ b = Len(text) + 1 /\ host[b] = key
          /\ \A k \in 1 .. Len(text) : host[k] = text[k]
      <4>1. /\ host \in Seq(ConfigLines) /\ Len(host) = Len(text) + 1
            /\ \A k \in 1 .. Len(text) + 1 : host[k] = IF k <= Len(text) THEN text[k] ELSE <<key>>[k - Len(text)]
        BY <3>4, ConcatProperties
      <4> HIDE DEF host
      <4> QED
        BY <4>1, <1>1
    <3>6. <<key>> \o <<StagesLine>> = <<key, StagesLine>>
      BY TwoLines
    <3>7. new = text \o <<key, StagesLine>>
      BY <2>2 DEF InsertStages, key
    <3>8. new = host \o <<StagesLine>>
      BY <3>4, <3>6, <3>7, ConcatAssociative
    <3> HIDE DEF host, new, Host
    <3>9. SubSeq(host, 1, b) = host /\ SubSeq(host, b + 1, Len(host)) = <<>>
      BY <3>5, SubSeqFull, SubSeqEmpty
    <3>10. host \o <<StagesLine>> \in Seq(ConfigLines)
      BY <3>4, <3>5, ConcatProperties
    <3>11. new = InsertedAt(host, StagesLine, b)
      BY <3>8, <3>9, <3>10, ConcatEmptySeq DEF InsertedAt
    <3>12. DOMAIN host = 1 .. b /\ b \in Nat \ {0}
      BY <1>1, <3>5
    <3>13. /\ key.kind = "distributed" /\ key.indent = 0
      BY DEF key
    <3>14. StagesIn(host) = {}
      <4> SUFFICES ASSUME NEW j \in StagesIn(host) PROVE FALSE
        OBVIOUS
      <4>1. PICK i \in 1 .. j - 1 : host[i].kind = "distributed"
        BY DEF StagesIn
      <4>2. j \in 1 .. b /\ host[j].kind = "stages"
        BY <3>12 DEF StagesIn
      <4>3. j # b
        BY <3>5, <3>13, <4>2
      <4>4. i \in 1 .. Len(text)
        BY <1>1, <3>5, <4>1, <4>2, <4>3
      <4> QED
        BY <1>1, <3>2, <3>5, <4>1, <4>4
    <3>15. \A i \in DOMAIN host : host[i].kind = "distributed" => i = b
      BY <1>1, <3>2, <3>5, <3>12
    <3>16. /\ b \in 1 .. b /\ b \in 0 .. Len(host) /\ host[b].kind = "distributed" /\ host[b].indent = 0
           /\ \A k \in b + 1 .. b : ~LeavesSection(host[k], 0)
           /\ ~(b < Len(host))
      BY <3>5, <3>12, <3>13
    <3> HIDE DEF b
    <3>17. IndentedByTwo(host) /\ IndentedByTwo(text)
      BY <3>2, <3>12, <3>15 DEF IndentedByTwo, FirstKey
    <3>18. StagesIn(new) = (IF IndentedByTwo(host) THEN {b + 1} ELSE {}) /\ RemoveAt(new, b + 1) = host
      BY <3>5, <3>11, <3>14, <3>15, <3>16, Landed
    <3> QED
      BY <3>3, <3>17, <3>18
  <2> QED
    BY <2>1, <2>2
<1> HIDE DEF new, Host
<1>3. PICK p : StagesIn(new) = (IF IndentedByTwo(text) THEN {p} ELSE {}) /\ RemoveAt(new, p) = Host
  BY <1>2
<1>4. Cardinality(StagesIn(new)) = IF IndentedByTwo(text) THEN 1 ELSE 0
  BY <1>3, FS_Singleton, FS_EmptySet
<1>5. NeedsConversion(new, TRUE) <=> ~IndentedByTwo(text)
  BY <1>3 DEF NeedsConversion
<1> QED
  BY <1>3, <1>4, <1>5 DEF new, Host, key

\* convert_yaml_file, for every text and outcome of the validation: the process
\* may stop after any step, the original is then in the file or in its backup,
\* the file is whole, and a file that does not validate is untouched; only a new
\* text that cannot be parsed leaves its temporary copy behind.
THEOREM OriginalsKept ==
    ASSUME NEW text, NEW outcome \in {"accepted", "refused", "unparsable"}
    PROVE  OriginalKeptOn(text, outcome)
<1> DEFINE fs == [yaml |-> {text}, tmp |-> {}, bak |-> {}]
           steps == ConversionSteps(fs, outcome)
           new == {InsertStages(text)}
           written == [fs EXCEPT !.tmp = new]
           backed == [written EXCEPT !.bak = {text}]
<1>1. (CHOOSE t \in fs.yaml : TRUE) = text
  OBVIOUS
<1>2. steps = IF ~NeedsConversion(text, TRUE) THEN <<fs>>
              ELSE <<fs, written>>
                     \o (CASE outcome = "accepted"   -> <<backed, [backed EXCEPT !.yaml = new, !.tmp = {}]>>
                           [] outcome = "refused"    -> <<[written EXCEPT !.tmp = {}]>>
                           [] outcome = "unparsable" -> <<>>)
  BY <1>1 DEF ConversionSteps
<1> DEFINE Kept(s) == /\ text \in s.yaml \cup s.bak
                      /\ s.yaml \in {{text}, {InsertStages(text)}}
                      /\ outcome # "accepted" => s.yaml = {text}
<1>3. Kept(fs) /\ Kept(written) /\ Kept([written EXCEPT !.tmp = {}])
  OBVIOUS
<1>4. outcome = "accepted" => Kept(backed) /\ Kept([backed EXCEPT !.yaml = new, !.tmp = {}])
  OBVIOUS
<1>a. /\ fs.tmp = {} /\ [written EXCEPT !.tmp = {}].tmp = {}
      /\ [backed EXCEPT !.yaml = new, !.tmp = {}].tmp = {}
  OBVIOUS
<1>5. /\ \A i \in DOMAIN steps : Kept(steps[i])
      /\ outcome # "unparsable" => steps[Len(steps)].tmp = {}
  <2>1. CASE ~NeedsConversion(text, TRUE)
    <3>1. steps = <<fs>>
      BY <2>1, <1>2
    <3> HIDE DEF steps, fs, Kept
    <3> QED
      BY <3>1, <1>3, <1>a
  <2>2. CASE NeedsConversion(text, TRUE) /\ outcome = "accepted"
    <3> DEFINE last == [backed EXCEPT !.yaml = new, !.tmp = {}]
    <3>1. steps = <<fs, written>> \o <<backed, last>>
      BY <2>2, <1>2
    <3>2. Kept(last) /\ Kept(backed) /\ last.tmp = {}
      BY <1>4, <1>a, <2>2
    <3> HIDE DEF steps, fs, written, backed, last, Kept
    <3>3. steps = <<fs, written, backed, last>>
      BY <3>1, FourSteps
    <3> QED
      BY <3>2, <3>3, <1>3
  <2>3. CASE NeedsConversion(text, TRUE) /\ outcome = "refused"
    <3> DEFINE last == [written EXCEPT !.tmp = {}]
    <3>1. steps = <<fs, written>> \o <<last>>
      BY <2>3, <1>2
    <3>2. Kept(last) /\ last.tmp = {}
      BY <1>3, <1>a
    <3> HIDE DEF steps, fs, written, last, Kept
    <3>3. steps = <<fs, written, last>>
      BY <3>1, ThreeSteps
    <3> QED
      BY <3>2, <3>3, <1>3
  <2>4. CASE NeedsConversion(text, TRUE) /\ outcome = "unparsable"
    <3>1. steps = <<fs, written>> \o <<>>
      BY <2>4, <1>2
    <3> HIDE DEF steps, fs, written, Kept
    <3>2. steps = <<fs, written>>
      BY <3>1
    <3> QED
      BY <2>4, <3>2, <1>3
  <2> QED
    BY <2>1, <2>2, <2>3, <2>4
<1> QED
  BY <1>5 DEF OriginalKeptOn

\* A prefix <<name, "/">> is appended to a base as it is, after a slash if the
\* base does not end in one.
LEMMA Joined ==
    ASSUME NEW Name, "/" \in Name, NEW target \in Seq(Name), target # <<>>, NEW z \in Name \ {"/"}
    PROVE  JoinUriPath(target, <<z, "/">>) =
             (IF EndsInSlash(target) THEN target ELSE Append(target, "/")) \o <<z, "/">>
<1> DEFINE s == <<z, "/">>
           names == {i \in DOMAIN s : s[i] # "/"}
<1>1. names = {1}
  OBVIOUS
<1>2. Min(names) = 1
  <2> HIDE DEF names
  <2>1. names \in SUBSET Nat /\ names # {}
    BY <1>1
  <2> QED
    BY <1>1, <2>1, MinOf
<1>3. SubSeq(s, 1, Len(s)) = s
  <2>1. s \in Seq(Name)
    OBVIOUS
  <2> HIDE DEF s
  <2> QED
    BY <2>1, SubSeqFull
<1>4. s # <<>> /\ names # {}
  BY <1>1
<1> HIDE DEF names, s
<1>5. JoinUriPath(target, s) = (IF EndsInSlash(target) THEN target ELSE Append(target, "/")) \o s
  BY <1>2, <1>3, <1>4 DEF JoinUriPath, names
<1> QED
  BY <1>5 DEF s

\* A base with a prefix is longer than the base.
LEMMA JoinedLonger ==
    ASSUME NEW Name, "/" \in Name, NEW base \in Seq(Name), base # <<>>, NEW z \in Name \ {"/"}
    PROVE  /\ JoinUriPath(base, <<z, "/">>) \in Seq(Name)
           /\ Len(JoinUriPath(base, <<z, "/">>)) > Len(base)
<1> DEFINE s == IF EndsInSlash(base) THEN base ELSE Append(base, "/")
           t == <<z, "/">>
           j == JoinUriPath(base, <<z, "/">>)
<1>1. j = s \o t
  BY Joined
<1>2. s \in Seq(Name) /\ Len(s) >= Len(base) /\ Len(s) \in Nat /\ Len(base) \in Nat
  OBVIOUS
<1>3. t \in Seq(Name) /\ Len(t) = 2
  OBVIOUS
<1> HIDE DEF s, t, j
<1>4. s \o t \in Seq(Name) /\ Len(s \o t) = Len(s) + 2
  BY <1>2, <1>3, ConcatProperties
<1>5. j \in Seq(Name) /\ Len(j) > Len(base)
  BY <1>1, <1>2, <1>4
<1> QED
  BY <1>5 DEF j

\* Prepare's base is moved away from a path that is a URI of its own.
LEMMA AbsoluteParts ==
    ASSUME NEW Name, "/" \in Name, NEW target \in Seq(Name), target # <<>>, NEW path \in Seq(Name), Absolute(path),
           NEW x \in Name \ {"/"}
    PROVE  PrefixedBase(target, path, <<x, "/">>, FALSE) # path
<1>1. path # <<>>
  BY DEF Absolute, ToSet
<1> DEFINE joined == JoinUriPath(target, <<x, "/">>)
<1>2. joined \in Seq(Name) /\ Len(joined) > Len(target)
  BY JoinedLonger
<1>3. JoinUriPath(path, <<x, "/">>) # path
  BY <1>1, JoinedLonger
<1>4. ASSUME IsPrefix(target, path)
      PROVE  joined \o SubSeq(path, Len(target) + 1, Len(path)) # path
  <2>1. Len(target) <= Len(path)
    BY <1>4 DEF IsPrefix
  <2> DEFINE rest == SubSeq(path, Len(target) + 1, Len(path))
  <2>2. rest \in Seq(Name) /\ Len(rest) = Len(path) - Len(target)
    BY <2>1
  <2> HIDE DEF joined, rest
  <2>3. Len(joined \o rest) > Len(path)
    BY <1>2, <2>1, <2>2
  <2> QED
    BY <2>3 DEF rest
<1> HIDE DEF joined
<1> QED
  BY <1>3, <1>4 DEF PrefixedBase, joined

\* apply_agent_prefix and resolve_uri, for every target, path and two agents'
\* prefixes of the form "name/": if the target ends in a slash and the path is
\* relative, prepared data and workload paths move together and agents with
\* different prefixes never prepare under each other's target; if the path is a
\* URI of its own, the prepared data moves and the path does not; shared storage
\* is left alone.
THEOREM PrefixesKeepPaths ==
    ASSUME NEW Name, "/" \in Name, NEW target \in Seq(Name) \ {<<>>}, NEW path \in Seq(Name),
           NEW x \in Name \ {"/"}, NEW y \in Name \ {"/"}
    PROVE  PrefixKeepsPathsOn(target, path, <<x, "/">>, <<y, "/">>)
<1>a. PrefixedBase(target, ResolveUri(target, path), <<x, "/">>, TRUE) = ResolveUri(target, path)
  BY DEF PrefixedBase
<1>b. ASSUME Absolute(path)
      PROVE  PrefixKeepsPathsOn(target, path, <<x, "/">>, <<y, "/">>)
  <2>1. \A t : ResolveUri(t, path) = path
    BY <1>b DEF ResolveUri
  <2>2. target \in Seq(Name) /\ target # <<>>
    OBVIOUS
  <2>3. PrefixedBase(target, path, <<x, "/">>, FALSE) # path
    BY <1>b, <2>2, AbsoluteParts
  <2> QED
    BY <1>a, <1>b, <2>1, <2>3 DEF PrefixKeepsPathsOn
<1> SUFFICES ASSUME EndsInSlash(target), ~Absolute(path)
             PROVE  LET base == ResolveUri(target, path) IN
                    /\ PrefixedBase(target, base, <<x, "/">>, FALSE) = ResolveUri(JoinUriPath(target, <<x, "/">>), path)
                    /\ <<x, "/">> # <<y, "/">> =>
                         ~Under(PrefixedBase(target, base, <<x, "/">>, FALSE), JoinUriPath(target, <<y, "/">>))
  BY <1>a, <1>b DEF PrefixKeepsPathsOn
<1> DEFINE base == target \o path
<1>1. ResolveUri(target, path) = base
  BY DEF ResolveUri
<1>2. ASSUME NEW z \in Name \ {"/"}
      PROVE  JoinUriPath(target, <<z, "/">>) = target \o <<z, "/">>
  BY Joined
<1>3. IsPrefix(target, base)
  BY SubSeqFull DEF IsPrefix
<1>4. SubSeq(base, Len(target) + 1, Len(base)) = path
  OBVIOUS
<1> DEFINE moved == (target \o <<x, "/">>) \o path
<1>5. PrefixedBase(target, base, <<x, "/">>, FALSE) = moved
  BY <1>2, <1>3, <1>4 DEF PrefixedBase
<1>6. ResolveUri(JoinUriPath(target, <<x, "/">>), path) = moved
  <2> DEFINE t == target \o <<x, "/">>
  <2>1. t # <<>> /\ EndsInSlash(t)
    BY DEF Last, EndsInSlash
  <2> HIDE DEF t
  <2>2. ResolveUri(t, path) = t \o path
    BY <2>1 DEF ResolveUri
  <2> QED
    BY <2>2, <1>2 DEF t
<1>7. ASSUME x # y, IsPrefix(target \o <<y, "/">>, moved)
      PROVE  FALSE
  <2> DEFINE t == target \o <<y, "/">>
             k == Len(target) + 1
  <2>1. t \in Seq(Name) /\ Len(t) = k + 1 /\ t[k] = y
    OBVIOUS
  <2>2. moved \in Seq(Name) /\ Len(moved) >= k + 1 /\ moved[k] = x
    OBVIOUS
  <2>3. SubSeq(t, 1, Len(t)) = SubSeq(moved, 1, Len(t)) /\ k \in Nat \ {0}
    BY <1>7 DEF IsPrefix
  <2> HIDE DEF t, moved, k
  <2>4. SubSeq(t, 1, k + 1)[k] = y
    BY <2>1, <2>3
  <2>5. SubSeq(moved, 1, k + 1)[k] = x
    BY <2>2, <2>3
  <2> QED
    BY <2>1, <2>3, <2>4, <2>5, <1>7
<1> HIDE DEF base, moved
<1> QED
  BY <1>1, <1>2, <1>5, <1>6, <1>7 DEF Under

-----------------------------------------------------------------------------
(* Pre-flight (preflight/filesystem.rs, preflight/distributed.rs).         *)

\* validate_filesystem, for everything the file system may grant or refuse and
\* whatever test entries an earlier validation left: one that passes has shown
\* that the run can write and delete, was not refused a read and not short of
\* space, where a failed check of either left a warning, and left nothing; one
\* that cannot read has changed nothing, and after a repair the next one passes
\* and cleans up.
THEOREM DirectoriesProbed ==
    ASSUME NEW env \in [safety : {"ok", "warned", "refused"}, stat : BOOLEAN, list : BOOLEAN,
                        create : BOOLEAN, write : BOOLEAN, mkdir : BOOLEAN, rmfile : BOOLEAN,
                        rmdir : BOOLEAN, space : {"ok", "low", "unknown"},
                        read : {"ok", "none", "denied", "error"}],
           NEW files \in SUBSET {"file", "dir"}, NEW checkWrite \in BOOLEAN
    PROVE  P!DirectoryProbedOn(env, files, checkWrite)
<1> DEFINE v     == P!ValidateFilesystem(env, files, checkWrite, TRUE)
           good  == [env EXCEPT !.safety = "ok", !.stat = TRUE, !.list = TRUE, !.read = "ok", !.create = TRUE,
                           !.write = TRUE, !.mkdir = TRUE, !.rmfile = TRUE, !.rmdir = TRUE, !.space = "ok"]
<1>1. ASSUME NEW fs \in SUBSET {"file", "dir"}, NEW e
      PROVE  /\ P!TestWriteAccess(e, fs).files \in SUBSET {"file", "dir"}
             /\ P!TestMkdirAccess(e, fs).files \in SUBSET {"file", "dir"}
             /\ P!TestDeleteAccess(e, fs).files \in SUBSET {"file", "dir"}
             /\ P!TestDeleteAccess(e, fs).level # "error" => P!TestDeleteAccess(e, fs).files = {}
  BY DEF P!TestWriteAccess, P!TestMkdirAccess, P!TestDeleteAccess, P!Level
<1>2. v.files \in SUBSET {"file", "dir"}
  BY <1>1 DEF P!ValidateFilesystem, P!WriteChecks
<1>3. ASSUME P!Passed(v.levels), checkWrite
      PROVE  /\ v.files = {}
             /\ env.safety # "refused" /\ env.stat /\ env.list /\ env.read # "denied"
             /\ env.create /\ env.write /\ env.rmfile /\ env.rmdir /\ (env.mkdir \/ "dir" \in files)
             /\ env.space # "low"
             /\ "warning" \notin v.levels => env.read \in {"ok", "none"} /\ env.space = "ok"
  <2>1. env.stat /\ env.list
    BY <1>3 DEF P!ValidateFilesystem, P!Passed, P!ReadChecks, P!Level
  <2> DEFINE w == P!TestWriteAccess(env, files)
             d == P!TestMkdirAccess(env, w.files)
             r == P!TestDeleteAccess(env, d.files)
  <2>2. "error" \notin P!WriteChecks(env, files, TRUE).levels /\ v.files = P!WriteChecks(env, files, TRUE).files
    BY <1>3, <2>1 DEF P!ValidateFilesystem, P!Passed
  <2>3. /\ w.level # "error" /\ d.level # "error" /\ r.level # "error" /\ v.files = r.files
        /\ P!CheckDiskSpace(env) # "error"
        /\ P!CheckDiskSpace(env) \in P!WriteChecks(env, files, TRUE).levels
    BY <2>2 DEF P!WriteChecks
  <2>4. /\ env.create /\ env.write /\ env.space # "low"
        /\ P!CheckDiskSpace(env) # "warning" => env.space = "ok"
    BY <2>3 DEF P!TestWriteAccess, P!CheckDiskSpace, P!Level
  <2>5. r.files = {}
    BY <2>3, <1>1
  <2>6. "file" \in d.files /\ "dir" \in d.files /\ (env.mkdir \/ "dir" \in files)
    BY <2>3, <2>4 DEF P!TestWriteAccess, P!TestMkdirAccess, P!Level
  <2>7. env.rmfile /\ env.rmdir
    BY <2>5, <2>6 DEF P!TestDeleteAccess
  <2>8. v.levels = P!ReadChecks(env) \cup P!WriteChecks(env, files, TRUE).levels
    BY <1>3, <2>1 DEF P!ValidateFilesystem
  <2>9. /\ "error" \notin P!ReadChecks(env) /\ P!TestReadAccess(env) \in P!ReadChecks(env)
        /\ P!CheckProtectedPaths(env) \subseteq P!ReadChecks(env)
    BY <1>3, <2>1, <2>8 DEF P!Passed, P!ReadChecks
  <2>10. /\ env.read # "denied" /\ env.safety # "refused"
         /\ P!TestReadAccess(env) # "warning" => env.read \in {"ok", "none"}
    BY <2>9 DEF P!TestReadAccess, P!CheckProtectedPaths
  <2> HIDE DEF v, w, d, r
  <2> QED
    BY <2>1, <2>3, <2>4, <2>5, <2>6, <2>7, <2>8, <2>9, <2>10
<1>4. (~env.stat \/ ~env.list \/ ~checkWrite) => v.files = files
  BY DEF P!ValidateFilesystem
<1>5. ASSUME NEW fs \in SUBSET {"file", "dir"}
      PROVE  LET again == P!ValidateFilesystem(good, fs, TRUE, TRUE)
             IN  P!Passed(again.levels) /\ again.files = {}
  <2>1. /\ good.safety = "ok" /\ good.stat = TRUE /\ good.list = TRUE /\ good.read = "ok"
        /\ good.create = TRUE /\ good.write = TRUE /\ good.mkdir = TRUE /\ good.rmfile = TRUE
        /\ good.rmdir = TRUE /\ good.space = "ok"
    OBVIOUS
  <2> HIDE DEF good
  <2> DEFINE w == P!TestWriteAccess(good, fs)
             d == P!TestMkdirAccess(good, w.files)
             r == P!TestDeleteAccess(good, d.files)
  <2>2. w.level = "success" /\ d.level = "success"
    BY <2>1 DEF P!TestWriteAccess, P!TestMkdirAccess, P!Level
  <2>3. r.files = {} /\ r.level = "success"
    BY <2>1 DEF P!TestDeleteAccess, P!Level
  <2>4. "error" \notin P!ReadChecks(good)
    BY <2>1 DEF P!ReadChecks, P!TestReadAccess, P!CheckProtectedPaths, P!Level
  <2>5. P!CheckDiskSpace(good) = "success"
    BY <2>1 DEF P!CheckDiskSpace
  <2> DEFINE checks == P!WriteChecks(good, fs, TRUE)
  <2>6. "error" \notin checks.levels /\ checks.files = {}
    <3> HIDE DEF w, d, r
    <3>1. checks = [levels |-> {w.level, d.level, r.level} \cup {P!CheckDiskSpace(good)}, files |-> r.files]
      BY <2>2 DEF P!WriteChecks, w, d, r
    <3> HIDE DEF checks
    <3> QED
      BY <3>1, <2>2, <2>3, <2>5
  <2> HIDE DEF checks
  <2> DEFINE again == P!ValidateFilesystem(good, fs, TRUE, TRUE)
  <2>7. again = [levels |-> P!ReadChecks(good) \cup checks.levels, files |-> checks.files]
    BY <2>1 DEF P!ValidateFilesystem, checks
  <2> HIDE DEF again
  <2>8. "error" \notin again.levels /\ again.files = {}
    BY <2>4, <2>6, <2>7
  <2> QED
    BY <2>8 DEF P!Passed, again
<1> HIDE DEF v, good
<1> QED
  BY <1>2, <1>3, <1>4, <1>5 DEF P!DirectoryProbedOn, v, good

\* The endpoints of a configuration that has some.
LEMMA HeadOfMulti ==
    ASSUME NEW s
    PROVE  P!Endpoints({s}) = s
BY DEF P!Endpoints

\* validate_distributed_config, for every number of agents and all endpoints,
\* an empty list of which is refused (create_multi_endpoint_store and
\* MultiEndpointConfig::validate): where agents either all or none have
\* endpoints of their own, what the dry run accepts gives every agent a place to
\* prepare in under both strategies, and on isolated storage both start in the
\* agent's first endpoint.
THEOREM PrepareIsLocated ==
    ASSUME NEW Endpoint, NEW config,
           NEW n \in Nat,
           config \in [target : SUBSET Endpoint, multi : {{}} \cup {{m} : m \in Seq(Endpoint) \ {<<>>}},
                       base : SUBSET Endpoint, shared : BOOLEAN, isolated : BOOLEAN,
                       agents : [1 .. n -> [target : SUBSET Endpoint,
                                            multi : {{}} \cup {{m} : m \in Seq(Endpoint) \ {<<>>}}]]]
    PROVE  P!PrepareLocatedOn(config)
<1> DEFINE own == {i \in DOMAIN config.agents : config.agents[i].multi # {}}
<1> SUFFICES ASSUME P!Passed(P!DistributedLevels(config)), own \in {{}, DOMAIN config.agents},
                    NEW i \in DOMAIN config.agents
             PROVE  LET c == P!AgentConfig(config, i) IN
                    /\ P!SequentialBase(c) # {} /\ P!ParallelBase(c) # {}
                    /\ ~config.shared /\ config.isolated /\ i \in own =>
                         /\ P!SequentialBase(c) = {Head(P!Endpoints(config.agents[i].multi))}
                         /\ P!ParallelBase(c) = P!SequentialBase(c)
  BY DEF P!PrepareLocatedOn
<1> DEFINE c == P!AgentConfig(config, i)
           a == config.agents[i]
<1>1. /\ c.base = config.base /\ c.multi = (IF a.multi # {} THEN a.multi ELSE config.multi)
      /\ c.multi \in {{}} \cup {{m} : m \in Seq(Endpoint) \ {<<>>}}
      /\ a.multi \in {{}} \cup {{m} : m \in Seq(Endpoint) \ {<<>>}}
  BY DEF P!AgentConfig
<1>2. c.multi # {} => P!Endpoints(c.multi) # <<>>
  BY <1>1, HeadOfMulti
<1>3. P!Endpoints({}) = <<>>
  BY DEF P!Endpoints
<1>4. c.multi # {} \/ c.base # {}
  <2>1. own # {} \/ config.multi # {} \/ config.base # {}
    BY DEF P!Passed, P!DistributedLevels
  <2>2. own # {} => a.multi # {}
    OBVIOUS
  <2> QED
    BY <2>1, <2>2, <1>1
<1>5. ~config.shared /\ config.isolated /\ i \in own => config.base = {}
  BY DEF P!Passed, P!DistributedLevels
<1>6. P!SequentialBase(c) # {} /\ P!ParallelBase(c) # {}
  BY <1>1, <1>2, <1>4 DEF P!SequentialBase, P!ParallelBase
<1>7. ~config.shared /\ config.isolated /\ i \in own =>
         /\ P!SequentialBase(c) = {Head(P!Endpoints(config.agents[i].multi))}
         /\ P!ParallelBase(c) = P!SequentialBase(c)
  <2> SUFFICES ASSUME ~config.shared /\ config.isolated /\ i \in own
               PROVE  /\ P!SequentialBase(c) = {Head(P!Endpoints(config.agents[i].multi))}
                      /\ P!ParallelBase(c) = P!SequentialBase(c)
    OBVIOUS
  <2>1. c.base = {} /\ c.multi = a.multi /\ c.multi # {}
    BY <1>1, <1>5
  <2> HIDE DEF c
  <2> QED
    BY <2>1, <1>2 DEF P!SequentialBase, P!ParallelBase
<1> QED
  BY <1>6, <1>7
=============================================================================
