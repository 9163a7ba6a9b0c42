---------------------------- MODULE DirectoryTree ----------------------------
(***************************************************************************)
(* The directory tree (src/src/directory_tree.rs), its use in prepare      *)
(* (src/src/prepare/directory_tree.rs) and the estimate of the dry run     *)
(* (src/src/validation.rs).                                                *)
(*                                                                         *)
(* A tree configuration c is [width, depth, files_per_dir, distribution].  *)
(* A directory is the sequence of its local width indices, one per level   *)
(* ("d1_w2.dir/d2_w1.dir" is <<2, 1>>); a file is <<directory, global      *)
(* index>>.  Random choices are sets of possible results.                  *)
(***************************************************************************)
EXTENDS Naturals, Sequences, FiniteSets, SequencesExt, FiniteSetsExt

Strategies == {"random", "partitioned", "exclusive", "weighted"}

-----------------------------------------------------------------------------
(* DirectoryTree::generate and create_node.                                *)

LocalWidth(c, g) == ((g - 1) % c.width) + 1

ParentIndex(c, g) == ((g - 1) \div c.width) + 1

\* Level[l][g] is the path of the g-th directory of level l.
Levels(c) ==
  LET Level[l \in 1 .. c.depth] ==
        [g \in 1 .. c.width^l |->
           IF l = 1 THEN <<LocalWidth(c, g)>>
           ELSE Append(Level[l - 1][ParentIndex(c, g)], LocalWidth(c, g))]
  IN  Level

AllPaths(c) == FlattenSeq([l \in 1 .. c.depth |-> Levels(c)[l]])

TotalDirs(c) == MapThenSumSet(LAMBDA l : c.width^l, 1 .. c.depth)

TreeTotalFiles(c) ==
  c.files_per_dir * (IF c.distribution = "bottom" THEN c.width^c.depth ELSE TotalDirs(c))

\* estimate_directory_tree_totals: the dry run's running product and sum.
Estimate(c) ==
  LET Run[l \in 0 .. c.depth] ==
        IF l = 0 THEN [dirs |-> 0, atLevel |-> 1]
        ELSE LET w == Run[l - 1].atLevel * c.width
             IN  [dirs |-> Run[l - 1].dirs + w, atLevel |-> w]
      end == Run[c.depth]
  IN  [dirs |-> end.dirs,
       files |-> c.files_per_dir * (IF c.distribution = "bottom" THEN end.atLevel ELSE end.dirs)]

\* apply_directory_tree_counts: a count of zero is filled in, another one that
\* does not match is refused ({}).
AppliedCount(c, count) == IF count \in {0, Estimate(c).files} THEN {Estimate(c).files} ELSE {}

-----------------------------------------------------------------------------
(* TreeManifest.                                                           *)

HasFiles(c, dir) == c.distribution = "all" \/ Len(dir) = c.depth

\* compute_file_ranges: consecutive ranges in the order of all_directories.
FileRanges(c) ==
  LET dirs == IF c.files_per_dir = 0 THEN <<>>
              ELSE SelectSeq(AllPaths(c), LAMBDA d : HasFiles(c, d))
  IN  [i \in 1 .. Len(dirs) |->
         [dir |-> dirs[i], start |-> (i - 1) * c.files_per_dir, end |-> i * c.files_per_dir]]

LeafStartIndex(c) == MapThenSumSet(LAMBDA l : c.width^l, 1 .. c.depth - 1)

FromTree(c) ==
  LET ranges == FileRanges(c)
  IN  [all_directories  |-> AllPaths(c),
       file_ranges      |-> ranges,
       total_files      |-> IF ranges = <<>> THEN 0 ELSE Last(ranges).end,
       leaf_start_index |-> LeafStartIndex(c)]

FileRange(m, dir) == {r \in ToSet(m.file_ranges) : r.dir = dir}

\* get_file_path: the directory by index arithmetic, not by the ranges.
GetFilePath(c, m, i) ==
  LET d == (i \div c.files_per_dir)
             + (IF c.distribution = "bottom" THEN m.leaf_start_index ELSE 0)
  IN  IF d < Len(m.all_directories) THEN <<m.all_directories[d + 1], i>> ELSE <<>>

Expected(c, m) == {GetFilePath(c, m, i) : i \in 0 .. m.total_files - 1} \ {<<>>}

AgentDirs(m, agent, n) ==
  {m.all_directories[i] : i \in {j \in DOMAIN m.all_directories : (j - 1) % n = agent}}

ShouldAgentHandleFile(i, agent, n) == n <= 1 \/ (i % n = agent)

AgentFiles(c, m, agent, n) ==
  {f \in Expected(c, m) : ShouldAgentHandleFile(f[2], agent, n)}

-----------------------------------------------------------------------------
(* create_directory_tree: an agent lists every directory (a listing that   *)
(* fails counts as empty) and creates its share of the files it misses.    *)

Listed(present, unlistable) == {f \in present : f[1] \notin unlistable}

\* Mutant: the creation loop with an index that counts only the missing files.
CreatedByLocalIndex(c, m, listed, agent, n) ==
  LET missing == Expected(c, m) \ listed
  IN  {f \in missing : Cardinality({g \in missing : g[2] < f[2]}) % n = agent}

CreatedBy(c, m, listed, agent, n) == AgentFiles(c, m, agent, n) \ listed

-----------------------------------------------------------------------------
(* PathSelector: the sets of directories and files a strategy may return.  *)

WithFiles(m) == {r.dir : r \in ToSet(m.file_ranges)}

OrElse(S, T) == IF S = {} THEN T ELSE S

SelectExclusive(m, agent, n) == OrElse(AgentDirs(m, agent, n), ToSet(m.all_directories))

SelectWeighted(m, agent, n) ==
  AgentDirs(m, agent, n)
    \cup OrElse(ToSet(m.all_directories) \ AgentDirs(m, agent, n), SelectExclusive(m, agent, n))

SelectDirectory(m, strategy, agent, n) ==
  CASE strategy = "random"      -> ToSet(m.all_directories)
    [] strategy = "partitioned" -> ToSet(m.all_directories)
    [] strategy = "exclusive"   -> SelectExclusive(m, agent, n)
    [] strategy = "weighted"    -> SelectWeighted(m, agent, n)

SelectDirectoryWithFiles(m, strategy, agent, n) ==
  CASE WithFiles(m) = {}                                -> SelectDirectory(m, strategy, agent, n)
    [] WithFiles(m) # {} /\ strategy = "exclusive"      ->
         OrElse(AgentDirs(m, agent, n) \cap WithFiles(m), WithFiles(m))
    [] WithFiles(m) # {} /\ strategy # "exclusive"      -> WithFiles(m)

\* select_file: an index in the directory's range; <<dir>> (the fallback name) otherwise.
SelectFile(c, m, strategy, agent, n) ==
  UNION {LET r == FileRange(m, d)
         IN  IF r = {} THEN {<<d>>}
             ELSE {GetFilePath(c, m, i) : i \in UNION {x.start .. x.end - 1 : x \in r}}
         : d \in SelectDirectoryWithFiles(m, strategy, agent, n)}

-----------------------------------------------------------------------------
(* What the tree promises, for the configuration c and n agents.           *)

\* The three ways the code computes the tree agree (estimate, tree, ranges),
\* paths are distinct, and get_file_path puts file i in the directory whose
\* range holds i.
TreeAgreesOn(c) ==
  LET m == FromTree(c) IN
  /\ Len(m.all_directories) = TotalDirs(c)
  /\ IsInjective(m.all_directories)
  /\ Estimate(c) = [dirs |-> TotalDirs(c), files |-> TreeTotalFiles(c)]
  /\ m.total_files = TreeTotalFiles(c)
  /\ \A count \in 0 .. m.total_files + 1 : AppliedCount(c, count) \subseteq {m.total_files}
  /\ \A i \in 0 .. m.total_files - 1 :
       \E r \in ToSet(m.file_ranges) :
         r.start <= i /\ i < r.end /\ GetFilePath(c, m, i) = <<r.dir, i>>

\* finalize_tree_with_mkdir creates all_directories in order: every parent
\* is created before its children.
ParentsFirstOn(c) ==
  LET dirs == AllPaths(c) IN
  \A i \in DOMAIN dirs :
    Len(dirs[i]) > 1 => \E j \in 1 .. i - 1 : dirs[j] = Front(dirs[i])

\* Whatever existed before, whichever listings fail and however many files of
\* the others an agent already sees when it lists, the agents together leave
\* the whole tree, no file is created twice, and an agent overwrites only what
\* it could not list.
TreeCompletedOn(c, existing, unlistable, n) ==
  LET m == FromTree(c)
      agents == 0 .. n - 1
      views == [agents -> SUBSET (Expected(c, m) \ existing)]
      made(a, view) == CreatedBy(c, m, Listed(existing \cup view[a], unlistable), a, n)
  IN  \A view \in views :
        (\A a \in agents : view[a] \cap AgentFiles(c, m, a, n) = {}) =>
          /\ Expected(c, m) \subseteq existing \cup UNION {made(a, view) : a \in agents}
          /\ \A a, b \in agents : a # b => made(a, view) \cap made(b, view) = {}
          /\ \A a \in agents : \A f \in made(a, view) \cap existing : f[1] \in unlistable

\* Every strategy selects files of the tree only, and two agents that own
\* directories with files never share one under "exclusive".
SelectionSoundOn(c, n) ==
  LET m == FromTree(c)
      owns(a) == AgentDirs(m, a, n) \cap WithFiles(m) # {}
  IN  m.total_files > 0 =>
        /\ \A s \in Strategies, a \in 0 .. n - 1 : SelectFile(c, m, s, a, n) \subseteq Expected(c, m)
        /\ \A a, b \in 0 .. n - 1 :
             a # b /\ owns(a) /\ owns(b) =>
               SelectFile(c, m, "exclusive", a, n) \cap SelectFile(c, m, "exclusive", b, n) = {}
=============================================================================
