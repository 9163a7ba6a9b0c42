-------------------------------- MODULE Stages --------------------------------
(***************************************************************************)
(* What a configuration becomes before it runs: the validation and order   *)
(* of its stages and the URIs of an agent (src/src/config.rs), and the     *)
(* conversion of a legacy file to explicit stages                          *)
(* (src/src/config_converter.rs).                                          *)
(*                                                                         *)
(* A stage is [name, order, type, completion, barrier, duration]; barrier  *)
(* is {} or {phase}, the phase whose settings it has.  A URI is a sequence *)
(* of names and the separators "://" and "/".                              *)
(***************************************************************************)
EXTENDS Naturals, Sequences, FiniteSets, SequencesExt, FiniteSetsExt

StageTypes == {"validation", "prepare", "execute", "cleanup", "custom", "hybrid"}

\* The completion criteria validate_stages accepts for a stage type.
Completions(type) ==
  CASE type = "execute"                -> {"duration", "duration_or_tasks"}
    [] type \in {"prepare", "cleanup"} -> {"tasks_done", "duration_or_tasks"}
    [] type = "custom"                 -> {"script_exit", "duration_or_tasks"}
    [] type = "hybrid"                 -> {"duration_or_tasks"}
    [] type = "validation"             -> {"validation_passed"}

ValidStages(stages) ==
  /\ stages # <<>>
  /\ \A i, j \in DOMAIN stages :
       i # j => stages[i].name # stages[j].name /\ stages[i].order # stages[j].order
  /\ \A i \in DOMAIN stages : stages[i].completion \in Completions(stages[i].type)

PhaseOf(type) == IF type \in {"custom", "hybrid"} THEN "execute" ELSE type

\* get_sorted_stages: {} when the stages are refused.
SortedStages(stages, barriers) ==
  IF ~ValidStages(stages) THEN {}
  ELSE LET default(s) == IF barriers /\ s.barrier = {} THEN [s EXCEPT !.barrier = {PhaseOf(s.type)}] ELSE s
           sorted     == SortSeq(stages, LAMBDA s, t : s.order < t.order)
       IN  {[i \in DOMAIN sorted |-> default(sorted[i])]}

\* What is sorted is what was configured, in strictly increasing order, no two
\* stages alike, and with barriers enabled no stage runs without one.
StagesSortedOn(stages, barriers) ==
  \A sorted \in SortedStages(stages, barriers) :
    /\ Len(sorted) = Len(stages)
    /\ {<<s.name, s.order, s.type>> : s \in ToSet(sorted)} = {<<s.name, s.order, s.type>> : s \in ToSet(stages)}
    /\ \A i, j \in DOMAIN sorted : i < j => sorted[i].order < sorted[j].order /\ sorted[i].name # sorted[j].name
    /\ barriers => \A s \in ToSet(sorted) : s.barrier # {}

-----------------------------------------------------------------------------
(* generate_stages and convert_yaml_file.  A legacy configuration is       *)
(* [prepare, cleanup, duration (half seconds)]; a text is a sequence of    *)
(* lines [kind, indent], kinds "distributed", "key", "stages", "comment"   *)
(* and "blank".                                                            *)

Stage(name, order, completion, duration) ==
  [name |-> name, order |-> order, type |-> (IF name = "preflight" THEN "validation" ELSE name),
   completion |-> completion, barrier |-> {}, duration |-> duration]

GenerateStages(config) ==
  LET next == IF config.prepare THEN 3 ELSE 2
  IN  <<Stage("preflight", 1, "validation_passed", 0)>>
        \o (IF config.prepare THEN <<Stage("prepare", 2, "tasks_done", 0)>> ELSE <<>>)
        \o <<Stage("execute", next, "duration", config.duration)>>
        \o (IF config.prepare /\ config.cleanup THEN <<Stage("cleanup", next + 1, "tasks_done", 0)>> ELSE <<>>)

\* format_duration, read back: whole seconds only.
WrittenDuration(halves) == (halves \div 2) * 2

\* generate_minimal_stages_yaml, read back by serde.
WrittenStages(stages) == [i \in DOMAIN stages |-> [stages[i] EXCEPT !.duration = WrittenDuration(@)]]

StagesLine == [kind |-> "stages", indent |-> 2]

LeavesSection(line, indent) == line.kind \notin {"blank", "comment"} /\ line.indent <= indent

\* insert_stages_into_yaml, for a text with at most one distributed line: at the
\* end of the distributed section, or in a new one; always indented by two.
InsertStages(text) ==
  LET at  == {i \in DOMAIN text : text[i].kind = "distributed"}
      end == {j \in DOMAIN text : \E i \in at : j > i /\ LeavesSection(text[j], text[i].indent)}
  IN  IF at = {} THEN text \o <<[kind |-> "distributed", indent |-> 0], StagesLine>>
      ELSE LET before == IF end = {} THEN Len(text) ELSE Min(end) - 1
           IN  SubSeq(text, 1, before) \o <<StagesLine>> \o SubSeq(text, before + 1, Len(text))

IsKey(line) == line.kind \notin {"blank", "comment"}

\* Line k is the first key after line i.
FirstKey(text, i, k) == IsKey(text[k]) /\ k > i /\ \A l \in i + 1 .. k - 1 : ~IsKey(text[l])

\* How YAML reads it (external): the stages of a text are those of its
\* distributed section, which indented lines continue and whose keys are
\* indented as the first of them is.
StagesIn(text) ==
  {j \in DOMAIN text :
     /\ text[j].kind = "stages"
     /\ \E i \in 1 .. j - 1 :
          /\ text[i].kind = "distributed"
          /\ \A k \in i + 1 .. j : /\ ~LeavesSection(text[k], text[i].indent)
                                   /\ FirstKey(text, i, k) => text[k].indent = text[j].indent}

\* The keys of the distributed section, if it has any, are indented by two.
IndentedByTwo(text) ==
  \A i, k \in DOMAIN text :
    text[i].kind = "distributed" /\ FirstKey(text, i, k) /\ ~LeavesSection(text[k], text[i].indent)
      => text[k].indent = 2

NeedsConversion(text, workload) == workload /\ StagesIn(text) = {}

\* Mutant: the converted text is written over the file.
ConversionStepsInPlace(fs, outcome) ==
  LET original == CHOOSE t \in fs.yaml : TRUE
      new      == {InsertStages(original)}
  IN  <<fs, [fs EXCEPT !.yaml = new]>>
        \o (IF outcome = "accepted" THEN <<[fs EXCEPT !.yaml = new, !.bak = {original}]>> ELSE <<>>)

\* The contents of the file, of its temporary copy and of its backup after
\* each step of convert_yaml_file; {} is a file that does not exist.  The
\* process may stop after any of them.  The outcome of the validation is
\* "accepted", also when none was asked for, "refused", or "unparsable": the new
\* text cannot be parsed, and the temporary copy stays.
ConversionSteps(fs, outcome) ==
  LET original == CHOOSE t \in fs.yaml : TRUE
      new      == {InsertStages(original)}
      written  == [fs EXCEPT !.tmp = new]
      backed   == [written EXCEPT !.bak = {original}]
  IN  IF ~NeedsConversion(original, TRUE) THEN <<fs>>
      ELSE <<fs, written>>
             \o (CASE outcome = "accepted"   -> <<backed, [backed EXCEPT !.yaml = new, !.tmp = {}]>>
                   [] outcome = "refused"    -> <<[written EXCEPT !.tmp = {}]>>
                   [] outcome = "unparsable" -> <<>>)

\* A converted configuration is accepted, keeps the order it was generated in,
\* has every stage of the legacy run exactly once and a duration of whole
\* seconds unchanged.
ConvertedRunsOn(config) ==
  LET stages == WrittenStages(GenerateStages(config)) IN
  /\ SortedStages(stages, FALSE) = {stages}
  /\ (config.duration % 2 = 0) => stages = GenerateStages(config)
  /\ {s.type : s \in ToSet(stages)} =
       {"validation", "execute"} \cup (IF config.prepare THEN {"prepare"} ELSE {})
                                 \cup (IF config.prepare /\ config.cleanup THEN {"cleanup"} ELSE {})

\* If the keys of the distributed section are indented by two, as the line the
\* converter writes, the stages land in it, the other lines stay as they are and
\* a second conversion finds nothing to do; beside keys indented otherwise the
\* stages are never read.
InsertedInsideOn(text) ==
  StagesIn(text) = {} =>
    LET new == InsertStages(text) IN
    /\ Cardinality(StagesIn(new)) = IF IndentedByTwo(text) THEN 1 ELSE 0
    /\ \A j \in StagesIn(new) :
         RemoveAt(new, j) = text \o (IF \E k \in DOMAIN text : text[k].kind = "distributed" THEN <<>>
                                     ELSE <<[kind |-> "distributed", indent |-> 0]>>)
    /\ NeedsConversion(new, TRUE) <=> ~IndentedByTwo(text)

\* Wherever the conversion stops, whether or not the new file validates, the
\* original text is still in the file or in its backup, and a file is never
\* half converted; only a new text that cannot be parsed leaves its copy.
OriginalKeptOn(text, outcome) ==
  LET steps == ConversionSteps([yaml |-> {text}, tmp |-> {}, bak |-> {}], outcome) IN
  /\ \A i \in DOMAIN steps :
       /\ text \in steps[i].yaml \cup steps[i].bak
       /\ steps[i].yaml \in {{text}, {InsertStages(text)}}
       /\ outcome # "accepted" => steps[i].yaml = {text}
  /\ outcome # "unparsable" => steps[Len(steps)].tmp = {}

-----------------------------------------------------------------------------
(* apply_agent_prefix, join_uri_path and resolve_uri.                      *)

EndsInSlash(uri) == Last(uri) \in {"/", "://"}

JoinUriPath(base, suffix) ==
  LET names == {i \in DOMAIN suffix : suffix[i] # "/"}
      tail  == IF names = {} THEN <<>> ELSE SubSeq(suffix, Min(names), Len(suffix))
  IN  IF suffix = <<>> THEN base
      ELSE (IF base = <<>> \/ EndsInSlash(base) THEN base ELSE Append(base, "/")) \o tail

Absolute(path) == "://" \in ToSet(path)

ResolveUri(target, path) ==
  IF target = <<>> \/ Absolute(path) THEN path
  ELSE IF EndsInSlash(target) THEN target \o path ELSE target \o <<"/">> \o path

\* The base URI of prepare after the prefix was applied.
PrefixedBase(target, base, prefix, shared) ==
  IF shared \/ target = <<>> THEN base
  ELSE IF IsPrefix(target, base)
       THEN JoinUriPath(target, prefix) \o SubSeq(base, Len(target) + 1, Len(base))
       ELSE JoinUriPath(base, prefix)

Under(uri, base) == IsPrefix(base, uri)

\* On storage that is not shared, data prepared where the workload's relative
\* path points is still prepared where it points once the agent's prefix is
\* applied, and two agents never prepare under each other's target.  A workload's
\* path that is a URI of its own stays where it is, while prepare's base is moved
\* away from it.  On shared storage prepare's base is not moved.
PrefixKeepsPathsOn(target, path, first, second) ==
  LET base  == ResolveUri(target, path)
      moved == PrefixedBase(target, base, first, FALSE)
      then  == ResolveUri(JoinUriPath(target, first), path)
  IN  /\ EndsInSlash(target) /\ ~Absolute(path) =>
           /\ moved = then
           /\ first # second => ~Under(moved, JoinUriPath(target, second))
      /\ Absolute(path) => then = path /\ moved # path
      /\ PrefixedBase(target, base, first, TRUE) = base
=============================================================================
