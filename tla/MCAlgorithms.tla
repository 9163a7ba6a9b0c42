---------------------------- MODULE MCAlgorithms ----------------------------
(***************************************************************************)
(* One run over the inputs of the operators that model pure code.  Each    *)
(* step picks an input of one kind; the invariants compare what the code   *)
(* computes from it with what it promises.                                 *)
(***************************************************************************)
EXTENDS DirectoryTree, Reports, Stages

P == INSTANCE Preflight

VARIABLE case

UpTo(S, n) == UNION {[1 .. k -> S] : k \in 0 .. n}

-----------------------------------------------------------------------------
(* Trees, agents, what existed before and what cannot be listed.           *)

Tree(w, d, f, dist) == [width |-> w, depth |-> d, files_per_dir |-> f, distribution |-> dist]

TreeCase ==
  \E w, d \in 1 .. 3, f \in 0 .. 2, dist \in {"bottom", "all"}, n \in 1 .. 3 :
    case' = [kind |-> "tree", c |-> Tree(w, d, f, dist), n |-> n]

FillCase ==
  \E c \in {Tree(2, 2, 1, "bottom"), Tree(2, 1, 2, "all"), Tree(1, 2, 1, "all")}, n \in 1 .. 2 :
    \E existing \in SUBSET Expected(c, FromTree(c)),
       unlistable \in {{}} \cup {{d} : d \in ToSet(AllPaths(c))} :
      case' = [kind |-> "fill", c |-> c, n |-> n, existing |-> existing, unlistable |-> unlistable]

(* Worker op-logs, lines to sort, operations of workers and agents.        *)

OplogCase ==
  \E files \in [0 .. 2 -> {{}} \cup {{f} : f \in UpTo(0 .. 2, 2)}] :
    case' = [kind |-> "oplog", files |-> files]

WindowCase ==
  \E lines \in UpTo(1 .. 3, 4), size \in 0 .. 3 :
    case' = [kind |-> "lines", lines |-> lines, size |-> size]

Done(op, b, lat) == [op |-> op, bucket |-> b, lat |-> lat, bytes |-> 1 + 2 * b]

Operations == {Done(op, b, lat) : op \in {"GET", "PUT"}, b \in Buckets, lat \in 1 .. RuntimeBound + 1}
                \cup {Done("META", 0, 1)}

\* Up to two operations of the first worker, one of the others.
Workers == {<<a>> : a \in UpTo(Operations, 2)}
             \cup {<<a, b>> : a \in UpTo(Operations, 2), b \in UpTo(Operations, 1)}

MergeCase ==
  \E dones \in Workers : \E failed \in {{}, {1}, {Len(dones)}} :
    case' = [kind |-> "merge", dones |-> dones, failed |-> failed]

ReportCase ==
  \E dones \in Workers, kept \in 0 .. Cardinality(Buckets) :
    case' = [kind |-> "report", dones |-> dones, kept |-> kept]

ShareCase ==
  \E concurrency \in 0 .. 9, n \in 1 .. 5 :
    case' = [kind |-> "share", concurrency |-> concurrency, n |-> n]

LiveCase ==
  \E before \in UNION {[S -> 0 .. 2] : S \in SUBSET {1, 2}}, after \in [1 .. 2 -> 0 .. 2],
     fresh \in SUBSET {1, 2}, elapsed \in 1 .. 2 :
    case' = [kind |-> "live", before |-> before, after |-> after, fresh |-> fresh, elapsed |-> elapsed]

(* Configurations, texts and URIs.                                         *)

StageCase ==
  \E stages \in UpTo([name : {"a", "b", "c"}, order : 1 .. 3, type : {"prepare", "hybrid"},
                      completion : {"duration_or_tasks"}, barrier : {{}}, duration : {0}], 3),
     barriers \in BOOLEAN :
    case' = [kind |-> "stages", stages |-> stages, barriers |-> barriers]

LegacyCase ==
  \E prepare, cleanup \in BOOLEAN, duration \in 1 .. 4 :
    case' = [kind |-> "legacy", config |-> [prepare |-> prepare, cleanup |-> cleanup, duration |-> duration]]

Line(kind, indent) == [kind |-> kind, indent |-> indent]

TextCase ==
  \E text \in UpTo({Line("distributed", 0), Line("key", 0), Line("key", 2), Line("key", 4), Line("comment", 0),
                    Line("blank", 0), Line("stages", 2), Line("stages", 4)}, 4),
     outcome \in {"accepted", "refused", "unparsable"} :
    /\ Cardinality({i \in DOMAIN text : text[i].kind = "distributed"}) <= 1
    /\ case' = [kind |-> "text", text |-> text, outcome |-> outcome]

UriCase ==
  \E target \in {<<"u", "://", "a", "/">>, <<"u", "://", "a", "/", "b", "/">>, <<"u", "://", "a">>, <<"u", "://">>},
     relative \in UpTo({"a", "b", "/"}, 3), scheme \in {<<>>, <<"u", "://">>, <<"v", "://">>},
     first, second \in {<<"1", "/">>, <<"2", "/">>, <<"/", "/", "3", "/">>} :
    case' = [kind |-> "uri", target |-> target, path |-> scheme \o relative, first |-> first, second |-> second]

(* Directories, buckets and agents to probe.                               *)

DirectoryCase ==
  \E env \in [safety : {"ok", "warned", "refused"}, stat : BOOLEAN, list : BOOLEAN, create : BOOLEAN,
              write : BOOLEAN, mkdir : BOOLEAN, rmfile : BOOLEAN, rmdir : BOOLEAN,
              space : {"ok", "low", "unknown"}, read : {"ok", "none", "denied", "error"}],
     files \in SUBSET {"file", "dir"}, write \in BOOLEAN :
    /\ env.read = "none" => "file" \notin files
    /\ case' = [kind |-> "directory", env |-> env, files |-> files, write |-> write]

Uri(scheme, parts) == [scheme |-> scheme, parts |-> parts]

Uris == {Uri("s3", <<h, b>>) : h, b \in {"x", "y"}} \cup {Uri("gs", <<"x">>)}

Outcome == [list : {"ok", "error", "timeout"}, put : {"ok", "error", "late", "timeout"},
            get : {"ok", "error"}, delete : {"ok", "error", "late", "timeout"}]

BucketCase ==
  \E endpoints \in UpTo(Uris, 2) \cup [1 .. 3 -> {Uri("s3", <<"x", "x">>), Uri("s3", <<"y", "x">>)}] :
    \E bad \in ToSet(endpoints), o \in Outcome, write \in BOOLEAN :
      case' = [kind |-> "buckets", endpoints |-> endpoints, write |-> write,
               outcomes |-> [u \in Uris |-> IF u = bad THEN o
                               ELSE [list |-> "ok", put |-> "ok", get |-> "ok", delete |-> "ok"]]]

AgentCase ==
  \E target \in {{}, {Uri("s3", <<"x", "y">>)}, {Uri("file", <<"x">>)}},
     multi \in {{}, {<<Uri("s3", <<"x", "x">>)>>}},
     base \in {{}, {Uri("s3", <<"y", "y">>)}}, shared, isolated \in BOOLEAN,
     agents \in [1 .. 2 -> [target : {{}, {Uri("s3", <<"y", "x">>)}},
                            multi : {{}, {<<Uri("s3", <<"x", "y">>), Uri("s3", <<"y", "y">>)>>}}]] :
    case' = [kind |-> "agents",
             config |-> [target |-> target, multi |-> multi, base |-> base, shared |-> shared,
                         isolated |-> isolated, agents |-> agents]]

-----------------------------------------------------------------------------
Init == case = [kind |-> "none"]

Next ==
  /\ case.kind = "none"
  /\ \/ TreeCase \/ FillCase \/ OplogCase \/ WindowCase \/ MergeCase \/ ReportCase \/ ShareCase
     \/ LiveCase \/ StageCase \/ LegacyCase \/ TextCase \/ UriCase \/ DirectoryCase \/ BucketCase
     \/ AgentCase

Spec == Init /\ [][Next]_case

\* Trees (directory_tree.rs): the dry run's estimate, the generated tree and the
\* manifest's ranges agree, get_file_path follows the ranges, directories are
\* created parents first, every path selection strategy stays in the tree and
\* exclusive agents apart; and agents that each create their share of a tree
\* that partly exists, or cannot be listed, complete it between them.
TreesComplete ==
  /\ case.kind = "tree" => /\ TreeAgreesOn(case.c)
                           /\ ParentsFirstOn(case.c)
                           /\ SelectionSoundOn(case.c, case.n)
  /\ case.kind = "fill" => TreeCompletedOn(case.c, case.existing, case.unlistable, case.n)

\* Results of several workers (oplog_merge.rs, multiprocess.rs, multiruntime.rs,
\* controller.rs): the merge of the op-logs repeats and invents nothing, and is
\* complete and in order unless a file other than the last is missing or a line
\* cannot be read; the window sort sorts when the window is large enough; the
\* counts, histograms and means of child processes, the counts, histograms and
\* percentiles of runtimes, one of which may fail, and the controller's reports
\* are those of one worker that did everything, and the other fields those of the
\* part of the work the code takes them from; concurrency is split without loss,
\* and a live window shows no work that was not reported.
MergesExact ==
  /\ case.kind = "oplog" => OplogMergedOn(case.files)
  /\ case.kind = "lines" => WindowSortedOn(case.lines, case.size)
  /\ case.kind = "merge" => /\ ProcessesMergedOn(case.dones, case.failed)
                            /\ RuntimesPooledOn(case.dones, case.failed)
  /\ case.kind = "share" => SharesExactOn(case.concurrency, case.n)
  /\ case.kind = "report" => ReportsAgreeOn(case.dones, case.kept)
  /\ case.kind = "live" => WindowSoundOn(case.before, case.fresh, case.after, case.elapsed)

\* Configurations (config.rs, config_converter.rs): the stages that run are the
\* configured ones in their order; the stages a legacy file is converted to run
\* as it did, YAML reads them exactly when the file indents by two, and a
\* converter that stops after any step has not lost the original; an agent's
\* prefix moves prepared data and relative workload paths together, and parts
\* them where the path is a URI of its own.
ConfigurationsRun ==
  /\ case.kind = "stages" => StagesSortedOn(case.stages, case.barriers)
  /\ case.kind = "legacy" => ConvertedRunsOn(case.config)
  /\ case.kind = "text" => InsertedInsideOn(case.text) /\ OriginalKeptOn(case.text, case.outcome)
  /\ case.kind = "uri" => PrefixKeepsPathsOn(case.target, case.path, case.first, case.second)

\* Pre-flight (preflight/, validation.rs): a directory that passes can be written
\* in, and has not refused to be read nor run out of space, which without a
\* warning was shown too; a bucket that passes was listed; and no probe leaves
\* anything behind without a warning.  An agent with endpoints of its own probes
\* those, and what the dry run accepts can be prepared by every agent.
ProbesSound ==
  /\ case.kind = "directory" => P!DirectoryProbedOn(case.env, case.files, case.write)
  /\ case.kind = "buckets" => P!BucketsProbedOn(case.endpoints, case.outcomes, case.write)
  /\ case.kind = "agents" => P!PrepareLocatedOn(case.config) /\ P!OwnProbedOn(case.config)
=============================================================================
