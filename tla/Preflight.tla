------------------------------ MODULE Preflight ------------------------------
(***************************************************************************)
(* Pre-flight validation: the probes of a directory                        *)
(* (src/src/preflight/filesystem.rs) and of object storage                 *)
(* (src/src/preflight/object_storage.rs), the dry run's check of a         *)
(* distributed configuration (src/src/preflight/distributed.rs) and what   *)
(* an agent and the controller make of them (src/src/bin/agent.rs,         *)
(* src/src/bin/controller.rs).                                             *)
(*                                                                         *)
(* A validation is the set of the levels it reported.  An optional value   *)
(* is a set of at most one element.                                        *)
(***************************************************************************)
EXTENDS Naturals, Sequences, FiniteSets, SequencesExt, FiniteSetsExt

Levels == {"success", "info", "warning", "error"}

Level(ok) == IF ok THEN "success" ELSE "error"

Passed(levels) == "error" \notin levels

-----------------------------------------------------------------------------
(* validate_filesystem.  env says which calls the file system grants:      *)
(* [stat, list, create, write, mkdir, rmfile, rmdir: BOOLEAN], what        *)
(* check_protected_paths says of the directory, safety: {"ok", "warned",   *)
(* "refused"}, what comes of opening its first file, read: {"ok", "none",  *)
(* "denied", "error"}, where "none" is a directory without files, and the  *)
(* space left, space: {"ok", "low", "unknown"}, where "unknown" is a       *)
(* failed check_disk_space.  files are the test entries present in the     *)
(* directory, a subset of {"file", "dir"}.                                 *)

TestWriteAccess(env, files) ==
  [level |-> Level(env.create /\ env.write),
   files |-> IF env.create THEN files \cup {"file"} ELSE files]

\* An existing test directory counts as success.
TestMkdirAccess(env, files) ==
  [level |-> Level("dir" \in files \/ env.mkdir),
   files |-> IF env.mkdir THEN files \cup {"dir"} ELSE files]

TestDeleteAccess(env, files) ==
  LET kept == {f \in files : (f = "file" /\ ~env.rmfile) \/ (f = "dir" /\ ~env.rmdir)}
  IN  [level |-> Level(kept = {}), files |-> kept]

\* A directory without files counts as success, a read that fails otherwise than
\* by a refusal as a warning.
TestReadAccess(env) ==
  CASE env.read \in {"ok", "none"} -> "success" [] env.read = "denied" -> "error" [] env.read = "error" -> "warning"

\* Too little space is an error, a check that itself fails only a warning.
CheckDiskSpace(env) ==
  CASE env.space = "ok" -> "success" [] env.space = "low" -> "error" [] env.space = "unknown" -> "warning"

CheckProtectedPaths(env) ==
  CASE env.safety = "ok" -> {} [] env.safety = "warned" -> {"warning"} [] env.safety = "refused" -> {"error"}

\* The checks before any write: identity, ownership and mount point are
\* informational; a directory that cannot be read or listed ends the validation.
ReadChecks(env) ==
  {"info"} \cup CheckProtectedPaths(env)
           \cup {Level(env.stat)}
           \cup (IF env.stat THEN {Level(env.list)} ELSE {})
           \cup (IF env.stat /\ env.list THEN {TestReadAccess(env)} ELSE {})

WriteChecks(env, files, space) ==
  LET w == TestWriteAccess(env, files)
      d == TestMkdirAccess(env, w.files)
      r == TestDeleteAccess(env, d.files)
  IN  IF w.level = "error" THEN [levels |-> {"error"}, files |-> w.files]
      ELSE [levels |-> {w.level, d.level, r.level} \cup (IF space THEN {CheckDiskSpace(env)} ELSE {}),
            files  |-> r.files]

ValidateFilesystem(env, files, checkWrite, space) ==
  IF ~checkWrite \/ ~env.stat \/ ~env.list THEN [levels |-> ReadChecks(env), files |-> files]
  ELSE LET w == WriteChecks(env, files, space)
       IN  [levels |-> ReadChecks(env) \cup w.levels, files |-> w.files]

\* A validation that passes has created, written and deleted a file and deleted
\* a directory, which it has made unless an earlier validation left it; it has
\* met no refusal to read and no lack of space; and it leaves neither test file
\* nor test directory.  That a file can be read, if there is one, and that there
\* is space it has shown only if it has no warning.  One that refuses a
\* directory it cannot read, or that tests no writing, has changed nothing; and
\* once the fault is repaired the next one passes and cleans up.
DirectoryProbedOn(env, files, checkWrite) ==
  LET v     == ValidateFilesystem(env, files, checkWrite, TRUE)
      good  == [env EXCEPT !.safety = "ok", !.stat = TRUE, !.list = TRUE, !.read = "ok", !.create = TRUE,
                           !.write = TRUE, !.mkdir = TRUE, !.rmfile = TRUE, !.rmdir = TRUE, !.space = "ok"]
      again == ValidateFilesystem(good, v.files, TRUE, TRUE)
  IN  /\ Passed(v.levels) /\ checkWrite =>
           /\ v.files = {}
           /\ env.safety # "refused" /\ env.stat /\ env.list /\ env.read # "denied"
           /\ env.create /\ env.write /\ env.rmfile /\ env.rmdir /\ (env.mkdir \/ "dir" \in files)
           /\ env.space # "low"
           /\ "warning" \notin v.levels => env.read \in {"ok", "none"} /\ env.space = "ok"
      /\ (~env.stat \/ ~env.list \/ ~checkWrite) => v.files = files
      /\ Passed(again.levels) /\ again.files = {}

-----------------------------------------------------------------------------
(* validate_object_storage.  A URI is [scheme, parts], parts being the     *)
(* names between its slashes; outcomes[uri] says what each call returns:   *)
(* list and get {"ok", "error", "timeout"}, put and delete {"ok", "error", *)
(* "late", "timeout"} where "late" is a time-out of a call that takes      *)
(* effect.                                                                 *)

\* bucket_label: the first name is dropped as the host; a URI without a second
\* one is its own label.
BucketLabel(uri) == IF Len(uri.parts) < 2 THEN <<uri.scheme, uri.parts[1]>> ELSE <<uri.parts[2]>>

\* The first endpoint of every bucket, in the order of the list.
Representatives(endpoints) ==
  SelectSeq([i \in DOMAIN endpoints |-> [uri |-> endpoints[i], at |-> i]],
            LAMBDA e : \A j \in 1 .. e.at - 1 : BucketLabel(endpoints[j]) # BucketLabel(e.uri))

\* Mutant: a probe that gives up after a failed read, before the delete.
WriteProbeGivesUp(o) ==
  CASE o.put \in {"error", "timeout"} -> [levels |-> {"warning"}, left |-> FALSE]
    [] o.put = "late"                 -> [levels |-> {"warning"}, left |-> TRUE]
    [] o.put = "ok"                   ->
         IF o.get # "ok" THEN [levels |-> {"success"}, left |-> TRUE]
         ELSE [levels |-> {"success"} \cup (IF o.delete # "ok" THEN {"warning"} ELSE {}),
               left   |-> o.delete \notin {"ok", "late"}]

\* write_probe: PUT, GET and DELETE of a probe object; a PUT that does not
\* return in time is not deleted.
WriteProbe(o) ==
  CASE o.put \in {"error", "timeout"} -> [levels |-> {"warning"}, left |-> FALSE]
    [] o.put = "late"                 -> [levels |-> {"warning"}, left |-> TRUE]
    [] o.put = "ok"                   ->
         [levels |-> {"success"} \cup (IF o.get # "ok" \/ o.delete # "ok" THEN {"warning"} ELSE {}),
          left   |-> o.delete \notin {"ok", "late"}]

ValidateObjectStorage(endpoints, outcomes, checkWrite) ==
  LET tested == {e.uri : e \in ToSet(Representatives(endpoints))}
      probed == IF checkWrite THEN tested ELSE {}
  IN  [levels |-> {"info"} \cup {Level(outcomes[u].list = "ok") : u \in tested}
                           \cup UNION {WriteProbe(outcomes[u]).levels : u \in probed},
       tested |-> tested,
       left   |-> {u \in probed : WriteProbe(outcomes[u]).left}]

\* For endpoints of the form host/bucket: one endpoint of every bucket is listed,
\* a bucket that cannot be listed fails the validation and a failing write probe
\* never does, and a probe object stays behind only with a warning.
BucketsProbedOn(endpoints, outcomes, checkWrite) ==
  LET v == ValidateObjectStorage(endpoints, outcomes, checkWrite) IN
  (\A e \in ToSet(endpoints) : Len(e.parts) >= 2) =>
    /\ \A e \in ToSet(endpoints) : Cardinality({u \in v.tested : u.parts[2] = e.parts[2]}) = 1
    /\ Passed(v.levels) <=> \A u \in v.tested : outcomes[u].list = "ok"
    /\ v.left # {} => "warning" \in v.levels

-----------------------------------------------------------------------------
(* The configuration of an agent.  config is [target, multi, base, shared, *)
(* isolated, agents]; target and base are {} or {uri}, multi is {} or {a   *)
(* sequence of URIs}, and agents[i] is [target, multi].                    *)

IsFilesystem(uri) == uri.scheme \in {"file", "direct"}

Endpoints(multi) == IF multi = {} THEN <<>> ELSE CHOOSE m \in multi : TRUE

ObjectUris(target, multi, base) ==
  {u \in target \cup ToSet(Endpoints(multi)) \cup base : ~IsFilesystem(u)}

\* extract_object_storage_endpoints_from_config for one agent: its own, or the
\* configuration's when it has none.
EndpointsToProbe(config, i) ==
  LET own == ObjectUris(config.agents[i].target, config.agents[i].multi, {})
  IN  IF own # {} THEN own ELSE ObjectUris(config.target, config.multi, config.base)

\* extract_filesystem_path_from_config: the first in this order, of any agent.
FilesystemPath(config) ==
  LET ofAgents == FlattenSeq([i \in DOMAIN config.agents |->
                    SetToSeq(config.agents[i].target) \o Endpoints(config.agents[i].multi)])
      all      == SetToSeq(config.target) \o Endpoints(config.multi) \o SetToSeq(config.base) \o ofAgents
      found    == SelectSeq(all, IsFilesystem)
  IN  IF found = <<>> THEN {} ELSE {Head(found)}

\* What pre_flight_validation of agent i probes: a directory, or buckets.
AgentProbes(config, i) ==
  IF FilesystemPath(config) # {} THEN FilesystemPath(config) ELSE EndpointsToProbe(config, i)

\* The configuration the controller sends to agent i for the run.
AgentConfig(config, i) ==
  LET a == config.agents[i]
  IN  [config EXCEPT !.target = IF a.target # {} THEN a.target ELSE @,
                     !.multi  = IF a.multi # {} THEN a.multi ELSE @]

\* validate_distributed_config: levels for a prepare with one object
\* specification.
DistributedLevels(config) ==
  LET own    == {i \in DOMAIN config.agents : config.agents[i].multi # {}}
      anyEp  == own # {} \/ config.multi # {}
  IN  (IF config.shared /\ anyEp /\ own # DOMAIN config.agents THEN {"warning"} ELSE {})
        \cup (IF ~config.shared /\ own # {} /\ config.base # {} /\ config.isolated THEN {"error"} ELSE {})
        \cup (IF ~anyEp /\ config.base = {} THEN {"error"} ELSE {})
        \cup (IF config.multi # {} /\ own = DOMAIN config.agents /\ Cardinality(own) > 1
              THEN {"warning"} ELSE {})

\* Where prepare looks for existing objects: get_base_uri for the sequential
\* strategy, the endpoints first for the parallel one.
SequentialBase(config) ==
  IF config.base # {} THEN config.base
  ELSE IF Endpoints(config.multi) # <<>> THEN {Head(Endpoints(config.multi))} ELSE {}

ParallelBase(config) ==
  IF config.multi # {} THEN {Head(Endpoints(config.multi))} ELSE config.base

\* Where agents either all or none have endpoints of their own, a configuration
\* the dry run accepts gives every agent a place to prepare in under both
\* strategies, and on isolated storage of their own both start in the agent's
\* first endpoint.
PrepareLocatedOn(config) ==
  LET own == {i \in DOMAIN config.agents : config.agents[i].multi # {}} IN
  Passed(DistributedLevels(config)) /\ own \in {{}, DOMAIN config.agents} =>
    \A i \in DOMAIN config.agents :
      LET c == AgentConfig(config, i) IN
      /\ SequentialBase(c) # {} /\ ParallelBase(c) # {}
      /\ ~config.shared /\ config.isolated /\ i \in own =>
           /\ SequentialBase(c) = {Head(Endpoints(config.agents[i].multi))}
           /\ ParallelBase(c) = SequentialBase(c)

\* Without a directory in the configuration an agent that has endpoints of its
\* own probes exactly what the run will use: its own target and endpoints.
OwnProbedOn(config) ==
  FilesystemPath(config) = {} =>
    \A i \in DOMAIN config.agents :
      LET a == config.agents[i] IN
      a.multi # {} => AgentProbes(config, i) = a.target \cup ToSet(Endpoints(a.multi))
=============================================================================
