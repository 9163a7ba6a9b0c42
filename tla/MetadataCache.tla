---------------------------- MODULE MetadataCache ----------------------------
(***************************************************************************)
(* The key-value caches of the prepare phase, one for every endpoint: the  *)
(* local database, its archive on the storage under test, and how both     *)
(* survive crashes.  Opening a cache downloads the archive, removes the    *)
(* local directory, unpacks and opens the database, and the process may    *)
(* die between any two of these steps.  Prepare takes the whole opening as *)
(* one step; here it is taken apart, for several endpoints.                *)
(*                                                                         *)
(* A cache holds the objects recorded as Created; no other state is ever   *)
(* recorded by the program.                                                *)
(***************************************************************************)
EXTENDS Integers, FiniteSets

CONSTANTS
    NumEndpoints,  \* endpoints of the configuration
    NumFiles,      \* objects to prepare
    Settings,      \* the set-ups considered, see SettingOK
    MaxRuns,       \* bound: openings of the cache
    MaxFaults      \* bound: failed reads and writes

\* shared: all endpoints lead to the same bucket.  kind: file archives are written in place
\* by a thread that cannot be cancelled, cloud archives by one PUT that can.  slash: the URIs of
\* the endpoints end in a slash.
SettingOK(s) ==
    /\ s.shared \in BOOLEAN /\ s.periodic \in BOOLEAN /\ s.slash \in BOOLEAN
    /\ s.kind \in {"file", "cloud"}

ASSUME CacheAssumption ==
    /\ NumEndpoints \in Nat \ {0} /\ NumFiles \in Nat \ {0}
    /\ MaxRuns \in Nat /\ MaxFaults \in Nat
    /\ \A s \in Settings : SettingOK(s)

VARIABLES
    conf,        \* the set-up
    phase,       \* down, fetch, remove, unpack, open, run, final
    purpose,     \* prepare, or query: the coverage query of a validation stage
    ep,          \* endpoint being opened or checkpointed
    got,         \* the archive downloaded
    up,          \* endpoints whose database is open
    mem,         \* mem[e]: objects recorded in the open database
    dir,         \* dir[e]: local directory: absent, whole or partial, and what is flushed to it
    archive,     \* archive[s]: archive where a restore looks for it: none, whole or torn
    writing,     \* periodic archives being written
    stored,      \* objects stored
    unrecorded,  \* objects stored and not yet recorded
    only,        \* shared storage: the endpoint this process checkpoints
    covered,     \* what the last coverage query said
    promised,    \* objects in the checkpoints prepare has reported, as long as no read failed
    runs, faults

diskVars == <<dir, archive, writing>>
procVars == <<purpose, ep, got, up, mem, only>>
dataVars == <<stored, unrecorded>>
cacheVars == <<conf, phase, procVars, diskVars, dataVars, covered, promised, runs, faults>>

Endpoints == 0..(NumEndpoints - 1)
Files == 0..(NumFiles - 1)

Absent == [is |-> "absent", files |-> {}]
Whole(F) == [is |-> "whole", files |-> F]
NoArchive == [is |-> "none", of |-> 0, files |-> {}]
Archive(e, F) == [is |-> "whole", of |-> e, files |-> F]

\* endpoint_for_file
Owner(f) == f % NumEndpoints

\* The archive's name does not depend on the endpoint: endpoints that share their storage
\* share the archive
Site(e) == IF conf.shared THEN 0 ELSE e

\* A restore reads the URI and the name with a slash between them; a path is written there
\* too, but the key of an upload is the URI and the name with nothing between: without a
\* slash at the end of the URI, the upload is where no restore looks.
Lands == conf.kind = "file" \/ conf.slash
Written(e, a) == IF Lands THEN [archive EXCEPT ![Site(e)] = a] ELSE archive

\* The endpoints that are checkpointed: with shared storage one, whichever comes first
Checkpointed == IF conf.shared THEN {only} ELSE Endpoints

Fault == faults < MaxFaults /\ faults' = faults + 1

CacheInit ==
    /\ conf \in Settings /\ phase = "down" /\ purpose = "prepare" /\ ep = 0 /\ got = NoArchive
    /\ up = {} /\ mem = [e \in Endpoints |-> {}] /\ dir = [e \in Endpoints |-> Absent]
    /\ archive = [e \in Endpoints |-> NoArchive] /\ writing = {}
    /\ stored = {} /\ unrecorded = {} /\ only = 0
    /\ covered = FALSE /\ promised = {} /\ runs = 0 /\ faults = 0

-----------------------------------------------------------------------------
\* ---- opening: try_restore_from_checkpoint, then Database::open

Start ==
    /\ phase = "down" /\ runs < MaxRuns
    /\ runs' = runs + 1 /\ phase' = "fetch" /\ ep' = 0
    /\ purpose' \in {"prepare", "query"}
    /\ only' \in IF conf.shared THEN Endpoints ELSE {0}
    /\ UNCHANGED <<conf, got, up, mem, diskVars, dataVars, covered, promised, faults>>

Here == archive[Site(ep)]
Without == IF purpose = "query" THEN "down" ELSE "open"

\* A prepare that could not read a checkpoint goes on with less, and will overwrite it
Forgotten == IF purpose = "prepare" THEN {} ELSE promised

\* Mutant: a local directory that exists is taken as it is
FetchKeepsLocal ==
    /\ phase = "fetch" /\ Here.is = "whole"
    /\ got' = Here
    /\ phase' = IF dir[ep] = Absent THEN "unpack" ELSE "open"
    /\ UNCHANGED <<conf, purpose, ep, up, mem, only, diskVars, dataVars, covered, promised, runs, faults>>

\* Downloaded, written to a temporary file and its contents listed
Fetch ==
    /\ phase = "fetch" /\ Here.is = "whole"
    /\ got' = Here
    /\ phase' = "remove"
    /\ UNCHANGED <<conf, purpose, ep, up, mem, only, diskVars, dataVars, covered, promised, runs, faults>>

\* No archive, or one that cannot be listed: the local directory stays
FetchNothing ==
    /\ phase = "fetch" /\ Here.is # "whole"
    /\ phase' = Without
    /\ UNCHANGED <<conf, procVars, diskVars, dataVars, covered, promised, runs, faults>>

\* The download fails: taken for a missing archive
FetchFails ==
    /\ phase = "fetch" /\ Here.is # "none" /\ Fault
    /\ phase' = Without
    /\ promised' = Forgotten
    /\ UNCHANGED <<conf, procVars, diskVars, dataVars, covered, runs>>

Remove ==
    /\ phase = "remove"
    /\ dir' = [dir EXCEPT ![ep] = Absent]
    /\ phase' = "unpack"
    /\ UNCHANGED <<conf, procVars, archive, writing, dataVars, covered, promised, runs, faults>>

\* The archive names the directory of the endpoint that was archived
Unpack ==
    /\ phase = "unpack"
    /\ dir' = [dir EXCEPT ![got.of] = Whole(got.files)]
    /\ phase' = IF purpose = "query" /\ got.of # ep THEN "down" ELSE "open"
    /\ UNCHANGED <<conf, procVars, archive, writing, dataVars, covered, promised, runs, faults>>

Partial == {[is |-> "partial", files |-> F] : F \in SUBSET got.files}

UnpackFails ==
    /\ phase = "unpack" /\ Fault
    /\ \E d \in Partial : dir' = [dir EXCEPT ![got.of] = d]
    /\ phase' = Without
    /\ promised' = Forgotten
    /\ UNCHANGED <<conf, procVars, archive, writing, dataVars, covered, runs>>

\* A missing directory is created empty; of a partial one the database reads some entries
Readable(d) == IF d.is = "partial" THEN SUBSET d.files ELSE {d.files}

\* count_and_bytes_by_state: how many objects are Created; aggregate_coverage: the entries of
\* all caches together, one that two caches hold counted twice
Count(F) == Cardinality(F)
Coverage == Count({r \in Endpoints \X Files : r[2] \in mem[r[1]]})

Open ==
    /\ phase = "open" /\ purpose = "prepare"
    /\ \E F \in Readable(dir[ep]) : /\ mem' = [mem EXCEPT ![ep] = F]
                                    /\ dir' = [dir EXCEPT ![ep] = Whole(F)]
    /\ up' = up \cup {ep}
    /\ IF ep + 1 \in Endpoints THEN ep' = ep + 1 /\ phase' = "fetch"
                               ELSE UNCHANGED ep /\ phase' = "run"
    /\ UNCHANGED <<conf, purpose, got, only, archive, writing, dataVars, covered, promised, runs, faults>>

\* One database that does not open: prepare goes on without any cache
OpenFails ==
    /\ phase = "open" /\ purpose = "prepare" /\ dir[ep].is = "partial"
    /\ up' = {} /\ mem' = [e \in Endpoints |-> {}] /\ promised' = {}
    /\ dir' = [e \in Endpoints |-> IF e \in up THEN Whole(mem[e]) ELSE dir[e]]
    /\ phase' = "run"
    /\ UNCHANGED <<conf, purpose, ep, got, only, archive, writing, dataVars, covered, runs, faults>>

\* query_checkpoint_coverage of a validation stage: opens, counts and closes
Query ==
    /\ phase = "open" /\ purpose = "query"
    /\ \E F \in Readable(dir[ep]) : /\ covered' = (Count(F) >= NumFiles)
                                    /\ dir' = [dir EXCEPT ![ep] = Whole(F)]
    /\ phase' = "down"
    /\ UNCHANGED <<conf, procVars, archive, writing, dataVars, promised, runs, faults>>

-----------------------------------------------------------------------------
\* ---- prepare

\* Mutant: recorded when the PUT is issued
PutRecordsFirst(f) ==
    /\ phase = "run" /\ f \notin stored
    /\ \/ /\ f \in mem[Owner(f)] \cup unrecorded
          /\ stored' = stored \cup {f}
          /\ UNCHANGED unrecorded
       \/ /\ f \notin mem[Owner(f)] \cup unrecorded
          /\ unrecorded' = unrecorded \cup {f}
          /\ UNCHANGED stored
    /\ UNCHANGED <<conf, phase, procVars, diskVars, covered, promised, runs, faults>>

Put(f) ==
    /\ phase = "run" /\ f \notin mem[Owner(f)] \cup unrecorded
    /\ stored' = stored \cup {f} /\ unrecorded' = unrecorded \cup {f}
    /\ UNCHANGED <<conf, phase, procVars, diskVars, covered, promised, runs, faults>>

\* record_created
Record(f) ==
    /\ phase = "run" /\ f \in unrecorded
    /\ unrecorded' = unrecorded \ {f}
    /\ mem' = IF Owner(f) \in up THEN [mem EXCEPT ![Owner(f)] = @ \cup {f}] ELSE mem
    /\ UNCHANGED <<conf, phase, purpose, ep, got, up, only, diskVars, stored, covered, promised, runs, faults>>

\* What the files of an open database may hold
OnDisk(e) == {F \in SUBSET mem[e] : dir[e].files \subseteq F}

\* The timer of the background task: the directory is archived as it is
Periodic(e) ==
    /\ phase = "run" /\ conf.periodic /\ e \in up \cap Checkpointed
    /\ \A w \in writing : w.of # e
    /\ \E F \in OnDisk(e) : writing' = writing \cup {Archive(e, F)}
    /\ UNCHANGED <<conf, phase, procVars, dir, archive, dataVars, covered, promised, runs, faults>>

PeriodicDone(w) ==
    /\ writing' = writing \ {w}
    /\ archive' = Written(w.of, w)
    /\ UNCHANGED <<conf, phase, procVars, dir, dataVars, covered, promised, runs, faults>>

\* fs::write has truncated the old archive; a PUT that fails leaves it
Damaged(a) == IF conf.kind = "file" THEN [a EXCEPT !.is = "torn"] ELSE a

PeriodicFails(w) ==
    /\ phase = "run" /\ Fault
    /\ writing' = writing \ {w}
    /\ archive' = [archive EXCEPT ![Site(w.of)] = Damaged(@)]
    /\ UNCHANGED <<conf, phase, procVars, dir, dataVars, covered, promised, runs>>

\* All objects are created: the periodic tasks are aborted, which stops an upload but not
\* a thread that writes a file
Prepared ==
    /\ phase = "run" /\ stored = Files /\ unrecorded = {}
    /\ \A f \in Files : f \in mem[Owner(f)] \/ up = {}
    /\ writing' = IF conf.kind = "file" THEN writing ELSE {}
    /\ phase' = "final"
    /\ ep' = IF conf.shared THEN only ELSE 0
    /\ UNCHANGED <<conf, purpose, got, up, mem, only, dir, archive, dataVars, covered, promised, runs, faults>>

\* Flushed, archived, written to the storage, and the local directory removed
Final ==
    /\ phase = "final" /\ ep \in up
    /\ archive' = Written(ep, Archive(ep, mem[ep]))
    /\ dir' = [dir EXCEPT ![ep] = Absent]
    /\ promised' = promised \cup (IF conf.shared THEN UNION {mem[e] : e \in Endpoints} ELSE mem[ep])
    /\ up' = up \ {ep}
    /\ ep' = IF ep + 1 \in Checkpointed THEN ep + 1 ELSE ep
    /\ UNCHANGED <<conf, phase, purpose, got, mem, only, writing, dataVars, covered, runs, faults>>

\* The last attempt failed: the cache stays in its directory
FinalFails ==
    /\ phase = "final" /\ ep \in up /\ Fault
    /\ dir' = [dir EXCEPT ![ep] = Whole(mem[ep])]
    /\ archive' = [archive EXCEPT ![Site(ep)] = Damaged(@)]
    /\ up' = up \ {ep}
    /\ ep' = IF ep + 1 \in Checkpointed THEN ep + 1 ELSE ep
    /\ UNCHANGED <<conf, phase, purpose, got, mem, only, writing, dataVars, covered, promised, runs>>

\* The process ends; the databases that were not checkpointed close
Leave ==
    /\ phase = "final" /\ ep \notin up /\ writing = {}
    /\ dir' = [e \in Endpoints |-> IF e \in up THEN Whole(mem[e]) ELSE dir[e]]
    /\ up' = {} /\ mem' = [e \in Endpoints |-> {}]
    /\ phase' = "down"
    /\ UNCHANGED <<conf, purpose, ep, got, only, archive, writing, dataVars, covered, promised, runs, faults>>

-----------------------------------------------------------------------------
\* ---- the process dies

\* What is left of the directory of endpoint e.  With shared storage the archive may be
\* unpacked over the directory of a database that is open.
Remains(e) ==
    (IF e \in up THEN {Whole(F) : F \in OnDisk(e)} ELSE {dir[e]})
    \cup (IF phase = "remove" /\ e = ep
             THEN {Absent} \cup {[is |-> "partial", files |-> F] : F \in SUBSET dir[e].files} ELSE {})
    \cup (IF phase = "unpack" /\ e = got.of THEN Partial ELSE {})

\* What is left of the archive at location s
Left(s) ==
    LET here == {w \in writing : Lands /\ Site(w.of) = s} IN
    {archive[s]} \cup here
    \cup (IF here # {} \/ (phase = "final" /\ ep \in up /\ Site(ep) = s) THEN {Damaged(archive[s])} ELSE {})

Crash ==
    /\ phase # "down"
    /\ dir' \in {d \in [Endpoints -> UNION {Remains(e) : e \in Endpoints}] :
                     \A e \in Endpoints : d[e] \in Remains(e)}
    /\ archive' \in {a \in [Endpoints -> UNION {Left(e) : e \in Endpoints}] :
                         \A e \in Endpoints : a[e] \in Left(e)}
    /\ up' = {} /\ mem' = [e \in Endpoints |-> {}] /\ writing' = {} /\ unrecorded' = {}
    /\ phase' = "down"
    /\ UNCHANGED <<conf, purpose, ep, got, only, stored, covered, promised, runs, faults>>

-----------------------------------------------------------------------------
CacheNext ==
    \/ Start \/ Fetch \/ FetchNothing \/ FetchFails \/ Remove \/ Unpack \/ UnpackFails
    \/ Open \/ OpenFails \/ Query
    \/ \E f \in Files : Put(f) \/ Record(f)
    \/ \E e \in Endpoints : Periodic(e)
    \/ \E w \in writing : PeriodicDone(w) \/ PeriodicFails(w)
    \/ Prepared \/ Final \/ FinalFails \/ Leave
    \/ Crash

CacheSpec == CacheInit /\ [][CacheNext]_cacheVars

-----------------------------------------------------------------------------
\* ---- properties

\* Every variable keeps its type, and the entries of an endpoint's cache, wherever they are,
\* are of objects that endpoint owns: an object is never counted by two caches.
CacheTypeOK ==
    /\ phase \in {"down", "fetch", "remove", "unpack", "open", "run", "final"}
    /\ up \subseteq Endpoints /\ ep \in Endpoints /\ only \in Endpoints
    /\ \A e \in Endpoints : \A f \in mem[e] \cup dir[e].files : Owner(f) = e
    /\ \A e \in Endpoints : \A f \in archive[e].files : Owner(f) = archive[e].of
    /\ stored \subseteq Files /\ unrecorded \subseteq Files

\* Skipping the LIST is safe: when the caches of all endpoints, or the query of a validation
\* stage, count as many Created objects as are to be prepared, every one of them is stored;
\* after any crash between PUT and record, in the middle of a restore, or while an
\* archive is written (check_listing_coverage, query_checkpoint_coverage).
CoverageTruthful ==
    /\ phase = "run" /\ Coverage >= NumFiles => stored = Files
    /\ covered => stored = Files

\* A checkpoint that was written where a restore looks is good for ever: if prepare has said
\* that an endpoint's checkpoint was created, every later opening has all its entries, until
\* one cannot read it, whatever crashed in between: an opening after the removal of the local
\* directory or half-way through the unpacking, or a later run while it overwrote the archive.
\* An upload to a URI without a slash at its end is not: it is never found again, and the
\* local directory is removed after it all the same.
Resumes ==
    phase = "run" /\ ~conf.shared /\ Lands => promised \subseteq UNION {mem[e] : e \in Endpoints}

=============================================================================
