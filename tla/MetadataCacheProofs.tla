------------------------ MODULE MetadataCacheProofs ------------------------
(***************************************************************************)
(* Theorems about MetadataCache, for every number of endpoints, objects,   *)
(* runs and faults: what the caches count as created is stored, whatever   *)
(* crashed on the way, and a checkpoint that was reported is found again.  *)
(***************************************************************************)
EXTENDS MetadataCache, FiniteSetTheorems, TLAPS

Phases == {"down", "fetch", "remove", "unpack", "open", "run", "final"}
Opening == {"fetch", "remove", "unpack", "open"}

(***************************************************************************)
(* The inductive invariant                                                 *)
(***************************************************************************)

\* A cache's entries, wherever they are, are stored objects of the endpoint that owns them.
Entries(F, e) == F \subseteq stored /\ \A f \in F : Owner(f) = e

Directory == [is : {"absent", "whole", "partial"}, files : SUBSET Files]
ArchiveFile == [is : {"none", "whole", "torn"}, of : Endpoints, files : SUBSET Files]

CacheTypes ==
    /\ conf \in Settings /\ phase \in Phases /\ purpose \in {"prepare", "query"}
    /\ ep \in Endpoints /\ only \in Endpoints /\ up \subseteq Endpoints
    /\ mem \in [Endpoints -> SUBSET Files]
    /\ dir \in [Endpoints -> Directory] /\ archive \in [Endpoints -> ArchiveFile]
    /\ got \in ArchiveFile
    /\ writing \subseteq ArchiveFile /\ \A w \in writing : w.is = "whole"
    /\ stored \subseteq Files /\ unrecorded \subseteq stored
    /\ covered \in BOOLEAN

\* Nothing is recorded that is not stored, and every entry is with its owner.
Truthful ==
    /\ \A e \in Endpoints : /\ Entries(mem[e], e)
                            /\ Entries(dir[e].files, e)
                            /\ Entries(archive[e].files, archive[e].of)
    /\ Entries(got.files, got.of)
    /\ \A w \in writing : Entries(w.files, w.of)
    /\ covered => stored = Files

\* While the databases are opened, those before ep are open; they stay open through the run,
\* or none is.
OpenOnes ==
    /\ phase = "down" => up = {}
    /\ phase \in Opening => up = IF purpose = "query" THEN {} ELSE 0 .. (ep - 1)
    /\ phase = "run" => up = Endpoints \/ (up = {} /\ promised = {})
    /\ phase \in {"run", "final"} => purpose = "prepare"

\* What was promised of endpoint e
PromisedOf(e) == {f \in promised : Owner(f) = e}

\* Uploads cannot outlive the run that began them: an upload is one PUT that can be
\* cancelled, or nothing is archived in the background.
Cancellable == conf.kind = "cloud" \/ ~conf.periodic

\* Where the promise is kept.  The archive, if it is whole, has everything; if it is not, the
\* local directory has.
ArchiveKeeps(e) ==
    /\ archive[e].is = "whole" => archive[e].of = e /\ PromisedOf(e) \subseteq archive[e].files
    /\ archive[e].is # "whole" => PromisedOf(e) \subseteq dir[e].files /\ dir[e].is # "partial"

\* An open database has it on disk,
OpenKeeps(e) ==
    e \in up => /\ PromisedOf(e) \subseteq dir[e].files /\ dir[e].is = "whole"
                /\ dir[e].files \subseteq mem[e]

\* and an archive being written has it as well.
WritingKeeps ==
    \A w \in writing : phase = "run" /\ conf.kind = "cloud" /\ PromisedOf(w.of) \subseteq w.files

\* What is being restored is the archive that has it, and a restored directory has it.
RestoringKeeps == phase \in {"remove", "unpack"} => got = archive[ep] /\ got.is = "whole"
OpeningKeeps ==
    phase = "open" /\ purpose = "prepare" =>
        PromisedOf(ep) \subseteq dir[ep].files /\ (dir[ep].is = "partial" => promised = {})

Kept ==
    /\ promised \subseteq Files
    /\ \A e \in Endpoints : ArchiveKeeps(e) /\ OpenKeeps(e)
    /\ WritingKeeps /\ RestoringKeeps /\ OpeningKeeps

CacheInv == CacheTypes /\ Truthful /\ OpenOnes
KeptInv == ~conf.shared /\ Cancellable /\ Lands => Kept

(***************************************************************************)
(* Constants, and what a crash leaves                                      *)
(***************************************************************************)

LEMMA Numbers ==
    /\ Endpoints \subseteq Nat /\ 0 \in Endpoints
    /\ \A f \in Files : Owner(f) \in Endpoints
    /\ IsFiniteSet(Files) /\ Cardinality(Files) = NumFiles
<1>1. NumEndpoints \in Nat /\ NumEndpoints >= 1 /\ NumFiles \in Nat /\ NumFiles >= 1
  BY CacheAssumption
<1>2. Endpoints \subseteq Nat /\ 0 \in Endpoints
  BY <1>1 DEF Endpoints
<1>3. \A f \in Files : Owner(f) \in Endpoints
  BY <1>1 DEF Files, Owner, Endpoints
<1>4. 0 \in Int /\ NumFiles - 1 \in Int /\ ~(0 > NumFiles - 1)
  BY <1>1
<1>5. IsFiniteSet(0 .. (NumFiles - 1)) /\ Cardinality(0 .. (NumFiles - 1)) = (NumFiles - 1) - 0 + 1
  BY <1>4, FS_Interval
<1> QED
  BY <1>1, <1>2, <1>3, <1>5 DEF Files

LEMMA SiteType ==
    ASSUME CacheTypes, NEW e \in Endpoints
    PROVE  Site(e) \in Endpoints
BY Numbers DEF Site

\* The stored objects only grow, and the set-up stays.
LEMMA StoredGrows ==
    ASSUME CacheTypes, [CacheNext]_cacheVars
    PROVE  stored \subseteq stored' /\ conf' = conf
BY DEF CacheNext, cacheVars, dataVars, procVars, diskVars, Start, Fetch, FetchNothing, FetchFails,
       Remove, Unpack, UnpackFails, Open, OpenFails, Query, Put, Record, Periodic, PeriodicDone,
       PeriodicFails, Prepared, Final, FinalFails, Leave, Crash

\* Less of a cache is as truthful, later.
LEMMA EntriesKept ==
    ASSUME NEW F, NEW G, NEW e, Entries(F, e), G \subseteq F, stored \subseteq stored'
    PROVE  Entries(G, e)'
BY DEF Entries

\* What is left of a directory is a directory, with entries of its endpoint.
LEMMA RemainsFacts ==
    ASSUME CacheTypes, Truthful, NEW e \in Endpoints, NEW d \in Remains(e)
    PROVE  d \in Directory /\ Entries(d.files, e)
<1>0. got.files \subseteq Files /\ mem[e] \subseteq Files /\ dir[e] \in Directory
  BY DEF CacheTypes, ArchiveFile
<1>1. \/ \E F \in OnDisk(e) : d = Whole(F)
      \/ d = dir[e] \/ d = Absent
      \/ \E F \in SUBSET dir[e].files : d = [is |-> "partial", files |-> F]
      \/ e = got.of /\ \E F \in SUBSET got.files : d = [is |-> "partial", files |-> F]
  BY DEF Remains, Partial
<1>2. CASE \E F \in OnDisk(e) : d = Whole(F)
  BY <1>0, <1>2 DEF OnDisk, Whole, Directory, Truthful, Entries
<1>3. CASE d = dir[e] \/ d = Absent
  BY <1>0, <1>3 DEF Absent, Directory, Truthful, Entries
<1>4. CASE \E F \in SUBSET dir[e].files : d = [is |-> "partial", files |-> F]
  BY <1>0, <1>4 DEF Directory, Truthful, Entries
<1>5. CASE e = got.of /\ \E F \in SUBSET got.files : d = [is |-> "partial", files |-> F]
  BY <1>0, <1>5 DEF Directory, Truthful, Entries
<1> QED
  BY <1>1, <1>2, <1>3, <1>4, <1>5

\* A damaged archive is one, with the same name and entries.
LEMMA DamagedFacts ==
    ASSUME NEW a \in ArchiveFile
    PROVE  /\ Damaged(a) \in ArchiveFile /\ Damaged(a).files = a.files /\ Damaged(a).of = a.of
           /\ conf.kind # "file" => Damaged(a) = a
           /\ Damaged(a).is = "whole" => Damaged(a) = a
BY DEF Damaged, ArchiveFile

\* What is left of an archive is one, with entries of the endpoint it names.
LEMMA LeftFacts ==
    ASSUME CacheTypes, Truthful, NEW s \in Endpoints, NEW a \in Left(s)
    PROVE  a \in ArchiveFile /\ Entries(a.files, a.of)
<1>1. a = archive[s] \/ a \in writing \/ a = Damaged(archive[s])
  BY DEF Left
<1>2. archive[s] \in ArchiveFile /\ Entries(archive[s].files, archive[s].of)
  BY DEF CacheTypes, Truthful
<1>3. CASE a = Damaged(archive[s])
  BY <1>2, <1>3, DamagedFacts DEF Entries
<1> QED
  BY <1>1, <1>2, <1>3 DEF CacheTypes, Truthful

(***************************************************************************)
(* Types                                                                   *)
(***************************************************************************)

LEMMA TypesStep ==
    ASSUME CacheTypes, Truthful, [CacheNext]_cacheVars
    PROVE  CacheTypes'
<1> USE DEF Phases
<1>0. conf' = conf
  BY StoredGrows
<1>a. 0 \in Endpoints /\ \A e \in Endpoints : Site(e) \in Endpoints
  BY Numbers, SiteType
<1>1. CASE Start
  BY <1>a, <1>1 DEF CacheTypes, Start, diskVars, dataVars
<1>2. CASE Fetch
  BY <1>a, <1>2 DEF CacheTypes, Fetch, Here, diskVars, dataVars
<1>3. CASE FetchNothing \/ FetchFails
  BY <1>3 DEF CacheTypes, FetchNothing, FetchFails, Without, procVars, diskVars, dataVars
<1>4. CASE Remove
  <2>1. Absent \in Directory
    BY DEF Absent, Directory
  <2> QED
    BY <1>4, <2>1 DEF CacheTypes, Remove, procVars, dataVars
<1>5. CASE Unpack
  <2>1. Whole(got.files) \in Directory /\ got.of \in Endpoints
    BY DEF Whole, Directory, ArchiveFile, CacheTypes
  <2> QED
    BY <1>5, <2>1 DEF CacheTypes, Unpack, procVars, dataVars
<1>6. CASE UnpackFails
  <2>1. Partial \subseteq Directory /\ got.of \in Endpoints
    BY DEF Partial, Directory, ArchiveFile, CacheTypes
  <2> QED
    BY <1>6, <2>1 DEF CacheTypes, UnpackFails, Without, procVars, dataVars
<1>7. CASE Open
  <2>1. PICK F \in Readable(dir[ep]) : /\ mem' = [mem EXCEPT ![ep] = F]
                                        /\ dir' = [dir EXCEPT ![ep] = Whole(F)]
    BY <1>7 DEF Open
  <2>2. F \in SUBSET Files /\ Whole(F) \in Directory
    BY DEF Readable, CacheTypes, Directory, Whole
  <2>3. mem' \in [Endpoints -> SUBSET Files] /\ dir' \in [Endpoints -> Directory]
    BY <2>1, <2>2 DEF CacheTypes
  <2> QED
    BY <1>7, <2>3 DEF CacheTypes, Open, dataVars
<1>8. CASE OpenFails
  <2>1. \A e \in Endpoints : Whole(mem[e]) \in Directory
    BY DEF CacheTypes, Directory, Whole
  <2> QED
    BY <1>8, <2>1 DEF CacheTypes, OpenFails, dataVars
<1>9. CASE Query
  <2>1. PICK F \in Readable(dir[ep]) : /\ covered' = (Count(F) >= NumFiles)
                                        /\ dir' = [dir EXCEPT ![ep] = Whole(F)]
    BY <1>9 DEF Query
  <2>2. Whole(F) \in Directory
    BY DEF Readable, CacheTypes, Directory, Whole
  <2>3. dir' \in [Endpoints -> Directory] /\ covered' \in BOOLEAN
    BY <2>1, <2>2 DEF CacheTypes
  <2> QED
    BY <1>9, <2>3 DEF CacheTypes, Query, procVars, dataVars
<1>10. CASE \E f \in Files : Put(f) \/ Record(f)
  <2>1. PICK f \in Files : Put(f) \/ Record(f)
    BY <1>10
  <2>2. CASE Put(f)
    BY <2>2 DEF CacheTypes, Put, procVars, diskVars
  <2>3. CASE Record(f)
    BY <2>3 DEF CacheTypes, Record, diskVars
  <2> QED
    BY <2>1, <2>2, <2>3
<1>11. CASE \E e \in Endpoints : Periodic(e)
  <2>0. PICK e \in Endpoints : Periodic(e)
    BY <1>11
  <2>1. PICK F \in OnDisk(e) : writing' = writing \cup {Archive(e, F)}
    BY <2>0 DEF Periodic
  <2>2. Archive(e, F) \in ArchiveFile /\ Archive(e, F).is = "whole"
    BY DEF Archive, ArchiveFile, OnDisk, CacheTypes
  <2> QED
    BY <2>0, <2>1, <2>2 DEF CacheTypes, Periodic, procVars, dataVars
<1>12. CASE \E w \in writing : PeriodicDone(w) \/ PeriodicFails(w)
  <2>1. PICK w \in writing : PeriodicDone(w) \/ PeriodicFails(w)
    BY <1>12
  <2>2. w \in ArchiveFile /\ Site(w.of) \in Endpoints
    BY <1>a DEF CacheTypes, ArchiveFile
  <2>3. Damaged(archive[Site(w.of)]) \in ArchiveFile
    BY <2>2, DamagedFacts DEF CacheTypes
  <2> QED
    BY <2>1, <2>2, <2>3 DEF CacheTypes, PeriodicDone, PeriodicFails, Written, procVars, dataVars
<1>13. CASE Prepared
  BY <1>a, <1>13 DEF CacheTypes, Prepared, dataVars
<1>14. CASE Final
  <2>1. Archive(ep, mem[ep]) \in ArchiveFile /\ Absent \in Directory
    BY DEF CacheTypes, Archive, ArchiveFile, Absent, Directory
  <2>2. ep' \in Endpoints
    BY <1>14 DEF CacheTypes, Final, Checkpointed
  <2> QED
    BY <1>a, <1>14, <2>1, <2>2 DEF CacheTypes, Final, Written, dataVars
<1>15. CASE FinalFails
  <2>1. Whole(mem[ep]) \in Directory
    BY DEF CacheTypes, Whole, Directory
  <2>2. Damaged(archive[Site(ep)]) \in ArchiveFile
    BY <1>a, DamagedFacts DEF CacheTypes
  <2>3. ep' \in Endpoints
    BY <1>15 DEF CacheTypes, FinalFails, Checkpointed
  <2> QED
    BY <1>a, <1>15, <2>1, <2>2, <2>3 DEF CacheTypes, FinalFails, dataVars
<1>16. CASE Leave
  <2>1. \A e \in Endpoints : Whole(mem[e]) \in Directory
    BY DEF CacheTypes, Directory, Whole
  <2> QED
    BY <1>16, <2>1 DEF CacheTypes, Leave, dataVars
<1>17. CASE Crash
  <2>1. dir' \in [Endpoints -> Directory]
    BY <1>17, RemainsFacts DEF Crash
  <2>2. archive' \in [Endpoints -> ArchiveFile]
    BY <1>17, LeftFacts DEF Crash
  <2> QED
    BY <1>17, <2>1, <2>2 DEF CacheTypes, Crash
<1>18. CASE UNCHANGED cacheVars
  BY <1>18 DEF CacheTypes, cacheVars, procVars, diskVars, dataVars
<1> QED
  BY <1>1, <1>2, <1>3, <1>4, <1>5, <1>6, <1>7, <1>8, <1>9, <1>10, <1>11, <1>12, <1>13, <1>14, <1>15,
     <1>16, <1>17, <1>18 DEF CacheNext

(***************************************************************************)
(* Nothing is recorded that is not stored                                  *)
(***************************************************************************)

LEMMA TruthfulStep ==
    ASSUME CacheTypes, Truthful, [CacheNext]_cacheVars
    PROVE  Truthful'
<1>0. stored \subseteq stored' /\ CacheTypes' /\ stored' \subseteq Files
  BY StoredGrows, TypesStep DEF CacheTypes
<1>a. \A e \in Endpoints : Site(e) \in Endpoints
  BY SiteType
<1> DEFINE
      TM(e) == Entries(mem[e], e)
      TD(e) == Entries(dir[e].files, e)
      TA(e) == Entries(archive[e].files, archive[e].of)
      TG == Entries(got.files, got.of)
      TW == \A w \in writing : Entries(w.files, w.of)
      Later(F, e) == F \subseteq stored' /\ \A f \in F : Owner(f) = e
<1>b. UNCHANGED mem => \A e \in Endpoints : TM(e)'
  BY <1>0 DEF Truthful, Entries
<1>c. UNCHANGED dir => \A e \in Endpoints : TD(e)'
  BY <1>0 DEF Truthful, Entries
<1>d. UNCHANGED archive => \A e \in Endpoints : TA(e)'
  BY <1>0 DEF Truthful, Entries
<1>e. UNCHANGED got => TG'
  BY <1>0 DEF Truthful, Entries
<1>f. writing' \subseteq writing => TW'
  BY <1>0 DEF Truthful, Entries
<1>g. \A e \in Endpoints : \A F \in Readable(dir[e]) : Later(F, e)
  BY <1>0 DEF Readable, Truthful, Entries
<1>h. mem' = [e \in Endpoints |-> {}] => \A e \in Endpoints : TM(e)'
  BY DEF Entries
<1>i. dir' = [e \in Endpoints |-> IF e \in up THEN Whole(mem[e]) ELSE dir[e]]
        => \A e \in Endpoints : TD(e)'
  BY <1>0 DEF Truthful, Entries, Whole
<1> SUFFICES ASSUME TRUE
             PROVE  /\ (\A e \in Endpoints : TM(e)') /\ (\A e \in Endpoints : TD(e)')
                    /\ (\A e \in Endpoints : TA(e)') /\ TG' /\ TW'
                    /\ covered' => covered \/ stored = Files
  BY <1>0 DEF Truthful
<1> HIDE DEF TM, TD, TA, TG, TW
<1>1. CASE Start \/ FetchNothing \/ FetchFails
  BY <1>1, <1>b, <1>c, <1>d, <1>e, <1>f
     DEF Start, FetchNothing, FetchFails, procVars, diskVars, dataVars
<1>2. CASE Fetch
  <2>1. TG'
    BY <1>2, <1>0, <1>a DEF Fetch, Here, TG, Entries, Truthful, CacheTypes, dataVars
  <2> QED
    BY <1>2, <2>1, <1>b, <1>c, <1>d, <1>f DEF Fetch, diskVars, dataVars
<1>4. CASE Remove
  <2>1. \A e \in Endpoints : TD(e)'
    BY <1>4, <1>0 DEF Remove, TD, Absent, Entries, Truthful, CacheTypes
  <2> QED
    BY <1>4, <2>1, <1>b, <1>d, <1>e, <1>f DEF Remove, procVars
<1>5. CASE Unpack
  <2>1. \A e \in Endpoints : TD(e)'
    BY <1>5, <1>0 DEF Unpack, TD, Whole, Entries, Truthful, CacheTypes
  <2> QED
    BY <1>5, <2>1, <1>b, <1>d, <1>e, <1>f DEF Unpack, procVars
<1>6. CASE UnpackFails
  <2>1. PICK d \in Partial : dir' = [dir EXCEPT ![got.of] = d]
    BY <1>6 DEF UnpackFails
  <2>2. Later(d.files, got.of)
    BY <1>0 DEF Partial, Truthful, Entries
  <2>3. \A e \in Endpoints : TD(e)'
    BY <2>1, <2>2, <1>0 DEF TD, Entries, Truthful, CacheTypes
  <2> QED
    BY <1>6, <2>3, <1>b, <1>d, <1>e, <1>f DEF UnpackFails, procVars
<1>7. CASE Open
  <2>1. PICK F \in Readable(dir[ep]) : /\ mem' = [mem EXCEPT ![ep] = F]
                                        /\ dir' = [dir EXCEPT ![ep] = Whole(F)]
    BY <1>7 DEF Open
  <2>2. Later(F, ep)
    BY <1>g DEF CacheTypes, Entries
  <2>3. \A e \in Endpoints : TM(e)'
    BY <2>1, <2>2, <1>0 DEF TM, Entries, Truthful, CacheTypes
  <2>4. \A e \in Endpoints : TD(e)'
    BY <2>1, <2>2, <1>0 DEF TD, Whole, Entries, Truthful, CacheTypes
  <2> QED
    BY <1>7, <2>3, <2>4, <1>d, <1>e, <1>f DEF Open
<1>8. CASE OpenFails
  BY <1>8, <1>h, <1>i, <1>d, <1>e, <1>f DEF OpenFails
<1>9. CASE Query
  <2>1. PICK F \in Readable(dir[ep]) : /\ covered' = (Count(F) >= NumFiles)
                                        /\ dir' = [dir EXCEPT ![ep] = Whole(F)]
    BY <1>9 DEF Query
  <2>2. Later(F, ep) /\ stored' = stored
    BY <1>9, <1>g DEF CacheTypes, Entries, Query, dataVars
  <2>3. \A e \in Endpoints : TD(e)'
    BY <2>1, <2>2, <1>0 DEF TD, Whole, Entries, Truthful, CacheTypes
  <2>4. covered' => stored = Files
    <3> SUFFICES ASSUME covered' PROVE stored = Files
      OBVIOUS
    <3>1. F \subseteq stored /\ F \subseteq Files
      BY <2>2, <1>0 DEF Entries
    <3>2. Cardinality(F) >= NumFiles
      BY <2>1 DEF Count
    <3>3. Cardinality(F) = Cardinality(Files) => F = Files
      BY <3>1, Numbers, FS_Subset
    <3>4. Cardinality(F) <= Cardinality(Files) /\ Cardinality(F) \in Nat
      BY <3>1, Numbers, FS_Subset, FS_CardinalityType
    <3> QED
      BY <3>1, <3>2, <3>3, <3>4, <1>0, <2>2, Numbers, CacheAssumption
  <2> QED
    BY <1>9, <2>3, <2>4, <1>b, <1>d, <1>e, <1>f DEF Query, procVars
<1>10. CASE \E f \in Files : Put(f) \/ Record(f)
  <2>1. PICK f \in Files : Put(f) \/ Record(f)
    BY <1>10
  <2>2. CASE Put(f)
    BY <2>2, <1>b, <1>c, <1>d, <1>e, <1>f DEF Put, procVars, diskVars
  <2>3. CASE Record(f)
    <3>1. \A e \in Endpoints : TM(e)'
      BY <2>3, <1>0 DEF Record, TM, Entries, Truthful, CacheTypes
    <3> QED
      BY <2>3, <3>1, <1>c, <1>d, <1>e, <1>f DEF Record, diskVars
  <2> QED
    BY <2>1, <2>2, <2>3
<1>11. CASE \E e \in Endpoints : Periodic(e)
  <2>0. PICK e \in Endpoints : Periodic(e)
    BY <1>11
  <2>1. PICK F \in OnDisk(e) : writing' = writing \cup {Archive(e, F)}
    BY <2>0 DEF Periodic
  <2>2. TW'
    BY <2>1, <1>0 DEF TW, OnDisk, Archive, Entries, Truthful
  <2> QED
    BY <2>0, <2>2, <1>b, <1>c, <1>d, <1>e DEF Periodic, procVars, dataVars
<1>12. CASE \E w \in writing : PeriodicDone(w) \/ PeriodicFails(w)
  <2>1. PICK w \in writing : PeriodicDone(w) \/ PeriodicFails(w)
    BY <1>12
  <2>2. w \in ArchiveFile /\ Site(w.of) \in Endpoints /\ Later(w.files, w.of)
    BY <1>a, <1>0 DEF CacheTypes, ArchiveFile, Truthful, Entries
  <2>3. Later(Damaged(archive[Site(w.of)]).files, Damaged(archive[Site(w.of)]).of)
    <3>1. archive[Site(w.of)] \in ArchiveFile
      BY <2>2 DEF CacheTypes
    <3>2. /\ Damaged(archive[Site(w.of)]).files = archive[Site(w.of)].files
          /\ Damaged(archive[Site(w.of)]).of = archive[Site(w.of)].of
      BY <3>1, DamagedFacts
    <3> QED
      BY <3>2, <2>2, <1>0 DEF Truthful, Entries
  <2>4. \A e \in Endpoints : TA(e)'
    BY <2>1, <2>2, <2>3, <1>0
       DEF TA, PeriodicDone, PeriodicFails, Written, Entries, Truthful, CacheTypes
  <2> QED
    BY <2>1, <2>4, <1>b, <1>c, <1>e, <1>f DEF PeriodicDone, PeriodicFails, procVars, dataVars
<1>13. CASE Prepared
  BY <1>13, <1>b, <1>c, <1>d, <1>e, <1>f DEF Prepared
<1>14. CASE Final
  <2>1. \A e \in Endpoints : TD(e)'
    BY <1>14, <1>0 DEF Final, TD, Absent, Entries, Truthful, CacheTypes
  <2>2. \A e \in Endpoints : TA(e)'
    BY <1>14, <1>0, <1>a DEF Final, TA, Written, Archive, Entries, Truthful, CacheTypes
  <2> QED
    BY <1>14, <2>1, <2>2, <1>b, <1>e, <1>f DEF Final
<1>15. CASE FinalFails
  <2>1. \A e \in Endpoints : TD(e)'
    BY <1>15, <1>0 DEF FinalFails, TD, Whole, Entries, Truthful, CacheTypes
  <2>2. archive[Site(ep)] \in ArchiveFile
    BY <1>a DEF CacheTypes
  <2>3. /\ Damaged(archive[Site(ep)]).files = archive[Site(ep)].files
        /\ Damaged(archive[Site(ep)]).of = archive[Site(ep)].of
    BY <2>2, DamagedFacts
  <2>4. \A e \in Endpoints : TA(e)'
    BY <1>15, <2>3, <1>0, <1>a DEF FinalFails, TA, Entries, Truthful, CacheTypes
  <2> QED
    BY <1>15, <2>1, <2>4, <1>b, <1>e, <1>f DEF FinalFails
<1>16. CASE Leave
  BY <1>16, <1>h, <1>i, <1>d, <1>e, <1>f DEF Leave
<1>17. CASE Crash
  <2>1. \A e \in Endpoints : TD(e)'
    <3> SUFFICES ASSUME NEW e \in Endpoints PROVE TD(e)'
      OBVIOUS
    <3>1. dir'[e] \in Remains(e)
      BY <1>17 DEF Crash
    <3>2. Entries(dir'[e].files, e)
      BY <3>1, RemainsFacts
    <3> QED
      BY <3>2, <1>0 DEF TD, Entries
  <2>2. \A e \in Endpoints : TA(e)'
    <3> SUFFICES ASSUME NEW e \in Endpoints PROVE TA(e)'
      OBVIOUS
    <3>1. archive'[e] \in Left(e)
      BY <1>17 DEF Crash
    <3>2. Entries(archive'[e].files, archive'[e].of)
      BY <3>1, LeftFacts
    <3> QED
      BY <3>2, <1>0 DEF TA, Entries
  <2> QED
    BY <1>17, <2>1, <2>2, <1>h, <1>e, <1>f DEF Crash
<1>18. CASE UNCHANGED cacheVars
  BY <1>18, <1>b, <1>c, <1>d, <1>e, <1>f DEF cacheVars, procVars, diskVars, dataVars
<1> QED
  BY <1>1, <1>2, <1>4, <1>5, <1>6, <1>7, <1>8, <1>9, <1>10, <1>11, <1>12, <1>13, <1>14, <1>15,
     <1>16, <1>17, <1>18 DEF CacheNext

(***************************************************************************)
(* Which databases are open                                                *)
(***************************************************************************)

LEMMA OpenStep ==
    ASSUME CacheTypes, OpenOnes, [CacheNext]_cacheVars
    PROVE  OpenOnes'
<1> USE DEF Opening
<1>0. ep \in Nat /\ NumEndpoints \in Nat /\ Endpoints = 0 .. (NumEndpoints - 1) /\ ep \in Endpoints
  BY Numbers, CacheAssumption DEF CacheTypes, Endpoints
<1>1. CASE Start
  BY <1>0, <1>1 DEF OpenOnes, Start
<1>2. CASE Fetch
  BY <1>2 DEF OpenOnes, Fetch
<1>3. CASE FetchNothing \/ FetchFails
  BY <1>3 DEF OpenOnes, CacheTypes, FetchNothing, FetchFails, Without, procVars
<1>4. CASE Remove
  BY <1>4 DEF OpenOnes, Remove, procVars
<1>5. CASE Unpack
  BY <1>5 DEF OpenOnes, Unpack, procVars
<1>6. CASE UnpackFails
  BY <1>6 DEF OpenOnes, CacheTypes, UnpackFails, Without, procVars
<1>7. CASE Open
  <2>1. up' = 0 .. ep /\ purpose' = "prepare"
    BY <1>0, <1>7 DEF OpenOnes, Open
  <2>2. CASE ep + 1 \in Endpoints
    BY <1>0, <1>7, <2>1, <2>2 DEF OpenOnes, Open
  <2>3. CASE ep + 1 \notin Endpoints
    <3>1. up' = Endpoints /\ phase' = "run"
      BY <1>0, <1>7, <2>1, <2>3 DEF Open
    <3> QED
      BY <2>1, <3>1 DEF OpenOnes
  <2> QED
    BY <2>2, <2>3
<1>8. CASE OpenFails
  BY <1>8 DEF OpenOnes, OpenFails
<1>9. CASE Query
  BY <1>9 DEF OpenOnes, Query, procVars
<1>10. CASE \E f \in Files : Put(f) \/ Record(f)
  BY <1>10 DEF OpenOnes, Put, Record, procVars
<1>11. CASE \E e \in Endpoints : Periodic(e)
  BY <1>11 DEF OpenOnes, Periodic, procVars
<1>12. CASE \E w \in writing : PeriodicDone(w) \/ PeriodicFails(w)
  BY <1>12 DEF OpenOnes, PeriodicDone, PeriodicFails, procVars
<1>13. CASE Prepared
  BY <1>13 DEF OpenOnes, Prepared
<1>14. CASE Final \/ FinalFails
  BY <1>14 DEF OpenOnes, Final, FinalFails
<1>16. CASE Leave \/ Crash
  BY <1>16 DEF OpenOnes, Leave, Crash
<1>18. CASE UNCHANGED cacheVars
  BY <1>18 DEF OpenOnes, cacheVars, procVars
<1> QED
  BY <1>1, <1>2, <1>3, <1>4, <1>5, <1>6, <1>7, <1>8, <1>9, <1>10, <1>11, <1>12, <1>13, <1>14,
     <1>16, <1>18 DEF CacheNext

(***************************************************************************)
(* A promise is kept                                                       *)
(***************************************************************************)

\* A crash leaves what was promised in the directory, unless it was being restored.
LEMMA RemainsKeeps ==
    ASSUME CacheTypes, Kept, NEW e \in Endpoints, NEW d \in Remains(e),
           ~(phase = "remove" /\ e = ep), ~(phase = "unpack" /\ e = got.of),
           archive[e].is # "whole" \/ e \in up
    PROVE  PromisedOf(e) \subseteq d.files /\ d.is # "partial"
<1>1. (\E F \in OnDisk(e) : e \in up /\ d = Whole(F)) \/ (e \notin up /\ d = dir[e])
  BY DEF Remains
<1>2. CASE e \notin up /\ d = dir[e]
  BY <1>2 DEF Kept, ArchiveKeeps
<1>3. CASE \E F \in OnDisk(e) : e \in up /\ d = Whole(F)
  BY <1>3 DEF Kept, OpenKeeps, OnDisk, Whole
<1> QED
  BY <1>1, <1>2, <1>3

\* A step that touches neither the archives, the directories, the promise nor what is open.
LEMMA KeptSame ==
    ASSUME Kept, UNCHANGED <<conf, promised, up, mem, dir, archive>>, writing' \subseteq writing
    PROVE  /\ (promised \subseteq Files)' /\ \A e \in Endpoints : (ArchiveKeeps(e) /\ OpenKeeps(e))'
           /\ phase' = phase => WritingKeeps'
BY DEF Kept, ArchiveKeeps, OpenKeeps, PromisedOf, WritingKeeps

LEMMA KeptStep ==
    ASSUME CacheInv, ~conf.shared, Lands, Cancellable, Kept, [CacheNext]_cacheVars
    PROVE  Kept'
<1>0. /\ CacheTypes /\ Truthful /\ OpenOnes /\ CacheTypes' /\ conf' = conf
      /\ \A e \in Endpoints : Site(e) = e
  BY TypesStep, StoredGrows DEF CacheInv, Site
<1>a. writing # {} => phase = "run" /\ conf.kind = "cloud"
  BY DEF Kept, WritingKeeps
<1>b. phase \in Opening => ep \notin up /\ writing = {}
  BY <1>0, <1>a, Numbers DEF OpenOnes, CacheTypes, Opening
<1>c. \A e \in Endpoints : dir[e] \in Directory /\ archive[e] \in ArchiveFile
  BY <1>0 DEF CacheTypes
<1>1. CASE Start \/ FetchNothing
  <2>1. UNCHANGED <<conf, promised, up, mem, dir, archive, writing>>
    BY <1>1 DEF Start, FetchNothing, procVars, diskVars
  <2>2. OpeningKeeps' /\ RestoringKeeps'
    BY <1>0, <1>1, <2>1 DEF Start, FetchNothing, Here, Without, OpeningKeeps, RestoringKeeps,
          procVars, Kept, ArchiveKeeps, PromisedOf, CacheTypes
  <2>3. writing' = {}
    BY <1>1, <1>a, <2>1 DEF Start, FetchNothing
  <2> QED
    BY <2>1, <2>2, <2>3, KeptSame DEF Kept, WritingKeeps
<1>2. CASE Fetch
  <2>1. UNCHANGED <<conf, promised, up, mem, dir, archive, writing, ep>>
    BY <1>2 DEF Fetch, diskVars
  <2>2. OpeningKeeps' /\ RestoringKeeps' /\ writing' = {}
    BY <1>0, <1>2, <1>a, <2>1 DEF Fetch, Here, OpeningKeeps, RestoringKeeps, CacheTypes
  <2> QED
    BY <2>1, <2>2, KeptSame DEF Kept, WritingKeeps
<1>3. CASE FetchFails
  <2>1. /\ UNCHANGED <<conf, up, mem, dir, archive, writing, ep, purpose>> /\ writing = {}
        /\ promised' = Forgotten /\ phase' = Without
    BY <1>3, <1>a DEF FetchFails, procVars, diskVars
  <2>2. promised' \subseteq promised /\ \A e \in Endpoints : PromisedOf(e)' \subseteq PromisedOf(e)
    BY <2>1 DEF Forgotten, PromisedOf
  <2>3. OpeningKeeps' /\ RestoringKeeps'
    BY <1>0, <2>1 DEF OpeningKeeps, RestoringKeeps, Without, Forgotten, PromisedOf, CacheTypes
  <2> QED
    BY <2>1, <2>2, <2>3 DEF Kept, WritingKeeps, ArchiveKeeps, OpenKeeps
<1>4. CASE Remove
  <2>1. /\ UNCHANGED <<conf, promised, up, mem, archive, writing, ep, got>> /\ writing = {}
        /\ dir' = [dir EXCEPT ![ep] = Absent] /\ phase' = "unpack" /\ archive[ep].is = "whole"
        /\ got = archive[ep] /\ ep \notin up
    BY <1>4, <1>a, <1>b DEF Remove, procVars, Kept, RestoringKeeps, Opening
  <2>2. \A e \in Endpoints : PromisedOf(e)' = PromisedOf(e)
    BY <2>1 DEF PromisedOf
  <2>3. \A e \in Endpoints : ArchiveKeeps(e)' /\ OpenKeeps(e)'
    BY <1>0, <2>1, <2>2 DEF Kept, ArchiveKeeps, OpenKeeps, CacheTypes
  <2> QED
    BY <2>1, <2>3 DEF Kept, WritingKeeps, RestoringKeeps, OpeningKeeps
<1>5. CASE Unpack
  <2>1. /\ UNCHANGED <<conf, promised, up, mem, archive, writing, ep, got, purpose>> /\ writing = {}
        /\ archive[ep].is = "whole" /\ got = archive[ep] /\ ep \notin up
        /\ dir' = [dir EXCEPT ![got.of] = Whole(got.files)]
    BY <1>5, <1>a, <1>b DEF Unpack, procVars, Kept, RestoringKeeps, Opening
  <2>2. ep \in Endpoints /\ got.of = ep /\ PromisedOf(ep) \subseteq got.files
    BY <1>0, <2>1 DEF Kept, ArchiveKeeps, CacheTypes
  <2>3. \A e \in Endpoints : PromisedOf(e)' = PromisedOf(e)
    BY <2>1 DEF PromisedOf
  <2>4. \A e \in Endpoints : ArchiveKeeps(e)' /\ OpenKeeps(e)'
    BY <1>0, <2>1, <2>2, <2>3 DEF Kept, ArchiveKeeps, OpenKeeps, CacheTypes
  <2>5. dir'[ep] = Whole(got.files) /\ phase' = "open"
    BY <1>0, <1>5, <2>1, <2>2 DEF CacheTypes, Unpack
  <2>6. OpeningKeeps'
    BY <2>1, <2>2, <2>3, <2>5 DEF OpeningKeeps, Whole
  <2> QED
    BY <2>1, <2>4, <2>5, <2>6 DEF Kept, WritingKeeps, RestoringKeeps
<1>6. CASE UnpackFails
  <2>1. /\ UNCHANGED <<conf, up, mem, archive, writing, ep, got, purpose>> /\ writing = {}
        /\ archive[ep].is = "whole" /\ got = archive[ep] /\ ep \notin up
        /\ promised' = Forgotten /\ phase' = Without
    BY <1>6, <1>a, <1>b DEF UnpackFails, procVars, Kept, RestoringKeeps, Opening
  <2>2. PICK d \in Partial : dir' = [dir EXCEPT ![got.of] = d]
    BY <1>6 DEF UnpackFails
  <2>3. ep \in Endpoints /\ got.of = ep
    BY <1>0, <2>1 DEF Kept, ArchiveKeeps, CacheTypes
  <2>4. promised' \subseteq promised /\ \A e \in Endpoints : PromisedOf(e)' \subseteq PromisedOf(e)
    BY <2>1 DEF Forgotten, PromisedOf
  <2>5. \A e \in Endpoints : ArchiveKeeps(e)' /\ OpenKeeps(e)'
    BY <1>0, <2>1, <2>2, <2>3, <2>4 DEF Kept, ArchiveKeeps, OpenKeeps, CacheTypes
  <2>6. OpeningKeeps' /\ RestoringKeeps'
    BY <1>0, <2>1 DEF OpeningKeeps, RestoringKeeps, Without, Forgotten, PromisedOf, CacheTypes
  <2> QED
    BY <2>1, <2>4, <2>5, <2>6 DEF Kept, WritingKeeps
<1>7. CASE Open
  <2>1. PICK F \in Readable(dir[ep]) : /\ mem' = [mem EXCEPT ![ep] = F]
                                        /\ dir' = [dir EXCEPT ![ep] = Whole(F)]
    BY <1>7 DEF Open
  <2>2. /\ UNCHANGED <<conf, promised, archive, writing>> /\ writing = {} /\ ep \in Endpoints
        /\ up' = up \cup {ep} /\ phase' \in {"fetch", "run"}
    BY <1>0, <1>7, <1>a DEF Open, CacheTypes
  <2>3. PromisedOf(ep) \subseteq F /\ \A e \in Endpoints : PromisedOf(e)' = PromisedOf(e)
    <3>1. PromisedOf(ep) \subseteq dir[ep].files /\ (dir[ep].is = "partial" => promised = {})
      BY <1>7 DEF Kept, OpeningKeeps, Open
    <3>2. PromisedOf(ep) \subseteq F
      BY <3>1 DEF Readable, PromisedOf
    <3> QED
      BY <2>2, <3>2 DEF PromisedOf
  <2>4. \A e \in Endpoints : ArchiveKeeps(e)' /\ OpenKeeps(e)'
    BY <1>0, <2>1, <2>2, <2>3 DEF Kept, ArchiveKeeps, OpenKeeps, CacheTypes, Whole
  <2> QED
    BY <2>2, <2>4 DEF Kept, WritingKeeps, RestoringKeeps, OpeningKeeps
<1>8. CASE OpenFails
  <2>1. /\ promised' = {} /\ up' = {} /\ phase' = "run" /\ UNCHANGED archive /\ writing' = {}
        /\ dir' = [e \in Endpoints |-> IF e \in up THEN Whole(mem[e]) ELSE dir[e]]
    BY <1>8, <1>a DEF OpenFails
  <2>2. \A e \in Endpoints : ArchiveKeeps(e)' /\ OpenKeeps(e)'
    BY <2>1 DEF Kept, ArchiveKeeps, OpenKeeps, Whole, PromisedOf
  <2> QED
    BY <2>1, <2>2 DEF Kept, WritingKeeps, RestoringKeeps, OpeningKeeps
<1>9. CASE Query
  <2>1. PICK F \in Readable(dir[ep]) : dir' = [dir EXCEPT ![ep] = Whole(F)]
    BY <1>9 DEF Query
  <2>2. /\ UNCHANGED <<conf, promised, archive, up, mem>> /\ writing' = {} /\ ep \in Endpoints
        /\ up = {} /\ phase' = "down"
    BY <1>0, <1>9, <1>a DEF Query, CacheTypes, OpenOnes, Opening, procVars
  <2>3. \A e \in Endpoints : PromisedOf(e)' = PromisedOf(e)
    BY <2>2 DEF PromisedOf
  <2>4. \A e \in Endpoints : ArchiveKeeps(e)' /\ OpenKeeps(e)'
    BY <1>0, <2>1, <2>2, <2>3 DEF Kept, ArchiveKeeps, OpenKeeps, CacheTypes, Whole, Readable
  <2> QED
    BY <2>2, <2>4 DEF Kept, WritingKeeps, RestoringKeeps, OpeningKeeps
<1>10. CASE \E f \in Files : Put(f) \/ Record(f)
  <2>1. PICK f \in Files : Put(f) \/ Record(f)
    BY <1>10
  <2>2. /\ UNCHANGED <<conf, promised, archive, dir, up, writing, phase>> /\ phase = "run"
        /\ \A e \in Endpoints : mem[e] \subseteq mem'[e]
    BY <1>0, <2>1 DEF Put, Record, procVars, diskVars, CacheTypes
  <2>3. \A e \in Endpoints : PromisedOf(e)' = PromisedOf(e)
    BY <2>2 DEF PromisedOf
  <2>4. (\A e \in Endpoints : ArchiveKeeps(e)' /\ OpenKeeps(e)')
    BY <2>2, <2>3 DEF Kept, ArchiveKeeps, OpenKeeps
  <2>5. WritingKeeps'
    BY <2>2 DEF Kept, WritingKeeps, PromisedOf
  <2> QED
    BY <2>2, <2>4, <2>5 DEF Kept, RestoringKeeps, OpeningKeeps
<1>11. CASE \E e \in Endpoints : Periodic(e)
  <2>1. PICK e \in Endpoints : Periodic(e)
    BY <1>11
  <2>2. PICK F \in OnDisk(e) : writing' = writing \cup {Archive(e, F)}
    BY <2>1 DEF Periodic
  <2>3. /\ UNCHANGED <<conf, promised, archive, dir, up, mem, phase>> /\ phase = "run"
        /\ conf.kind = "cloud" /\ e \in up
    BY <2>1 DEF Periodic, procVars, Cancellable
  <2>4. PromisedOf(e) \subseteq F
    BY <2>3 DEF Kept, OpenKeeps, OnDisk
  <2>5. WritingKeeps'
    BY <2>2, <2>3, <2>4 DEF Kept, WritingKeeps, PromisedOf, Archive
  <2>6. promised' \subseteq Files /\ \A x \in Endpoints : (ArchiveKeeps(x) /\ OpenKeeps(x))'
    BY <2>3 DEF Kept, ArchiveKeeps, OpenKeeps, PromisedOf
  <2> QED
    BY <2>3, <2>5, <2>6 DEF Kept, RestoringKeeps, OpeningKeeps
<1>12. CASE \E w \in writing : PeriodicDone(w) \/ PeriodicFails(w)
  <2>1. PICK w \in writing : PeriodicDone(w) \/ PeriodicFails(w)
    BY <1>12
  <2>2. /\ UNCHANGED <<conf, promised, dir, up, mem, phase>> /\ phase = "run"
        /\ conf.kind = "cloud" /\ writing' \subseteq writing
    BY <2>1, <1>a DEF PeriodicDone, PeriodicFails, procVars
  <2>3. w \in ArchiveFile /\ w.is = "whole" /\ w.of \in Endpoints /\ Site(w.of) = w.of
        /\ PromisedOf(w.of) \subseteq w.files
    BY <1>0 DEF CacheTypes, ArchiveFile, Kept, WritingKeeps
  <2>4. archive' = archive \/ archive' = [archive EXCEPT ![w.of] = w]
    <3>1. Damaged(archive[w.of]) = archive[w.of]
      BY <2>2 DEF Damaged
    <3> QED
      BY <1>0, <2>1, <2>3, <3>1 DEF PeriodicDone, PeriodicFails, Written, CacheTypes
  <2>5. \A e \in Endpoints : PromisedOf(e)' = PromisedOf(e)
    BY <2>2 DEF PromisedOf
  <2>6. \A e \in Endpoints : ArchiveKeeps(e)' /\ OpenKeeps(e)'
    BY <1>0, <2>2, <2>3, <2>4, <2>5 DEF Kept, ArchiveKeeps, OpenKeeps, CacheTypes
  <2>7. WritingKeeps'
    BY <2>2 DEF Kept, WritingKeeps, PromisedOf
  <2> QED
    BY <2>2, <2>6, <2>7 DEF Kept, RestoringKeeps, OpeningKeeps
<1>13. CASE Prepared
  <2>1. UNCHANGED <<conf, promised, up, mem, dir, archive>> /\ writing' = {} /\ phase' = "final"
    BY <1>13, <1>a DEF Prepared
  <2>2. \A e \in Endpoints : (ArchiveKeeps(e) /\ OpenKeeps(e))'
    BY <2>1 DEF Kept, ArchiveKeeps, OpenKeeps, PromisedOf
  <2> QED
    BY <2>1, <2>2 DEF Kept, WritingKeeps, RestoringKeeps, OpeningKeeps
<1>14. CASE Final
  <2>1. /\ ep \in Endpoints /\ ep \in up /\ writing' = {} /\ phase' = "final" /\ UNCHANGED mem
        /\ archive' = [archive EXCEPT ![ep] = Archive(ep, mem[ep])]
        /\ dir' = [dir EXCEPT ![ep] = Absent] /\ up' = up \ {ep}
        /\ promised' = promised \cup mem[ep]
    BY <1>0, <1>14, <1>a DEF Final, Written, CacheTypes
  <2>2. mem[ep] \subseteq Files /\ \A f \in mem[ep] : Owner(f) = ep
    BY <1>0, <2>1 DEF CacheTypes, Truthful, Entries
  <2>3. /\ \A e \in Endpoints : e # ep => PromisedOf(e)' = PromisedOf(e)
        /\ PromisedOf(ep) \subseteq mem[ep]
    BY <2>1, <2>2 DEF PromisedOf, Kept, OpenKeeps
  <2>4. \A f \in promised' : Owner(f) = ep => f \in mem[ep]
    BY <2>1, <2>3 DEF PromisedOf
  <2>5. ASSUME NEW e \in Endpoints PROVE ArchiveKeeps(e)' /\ OpenKeeps(e)'
    <3>1. CASE e = ep
      BY <1>0, <2>1, <2>4, <3>1 DEF ArchiveKeeps, OpenKeeps, PromisedOf, Archive, CacheTypes
    <3>2. CASE e # ep
      BY <1>0, <2>1, <2>3, <3>2 DEF Kept, ArchiveKeeps, OpenKeeps, CacheTypes
    <3> QED
      BY <3>1, <3>2
  <2> QED
    BY <2>1, <2>2, <2>5 DEF Kept, WritingKeeps, RestoringKeeps, OpeningKeeps
<1>15. CASE FinalFails
  <2>1. /\ ep \in Endpoints /\ ep \in up /\ writing' = {} /\ phase' = "final"
        /\ archive' = [archive EXCEPT ![ep] = Damaged(archive[ep])]
        /\ dir' = [dir EXCEPT ![ep] = Whole(mem[ep])] /\ up' = up \ {ep} /\ UNCHANGED <<promised, mem>>
    BY <1>0, <1>15, <1>a DEF FinalFails, CacheTypes
  <2>2. \A e \in Endpoints : PromisedOf(e)' = PromisedOf(e)
    BY <2>1 DEF PromisedOf
  <2>3. PromisedOf(ep) \subseteq mem[ep]
    BY <2>1 DEF Kept, OpenKeeps
  <2>4. archive[ep] \in ArchiveFile
    BY <1>c, <2>1
  <2>5. Damaged(archive[ep]).is = "whole" => Damaged(archive[ep]) = archive[ep]
    BY <2>4, DamagedFacts
  <2>6. ASSUME NEW e \in Endpoints PROVE ArchiveKeeps(e)' /\ OpenKeeps(e)'
    <3>1. CASE e = ep
      <4>1. archive'[ep] = Damaged(archive[ep]) /\ dir'[ep] = Whole(mem[ep]) /\ ep \notin up'
        BY <1>0, <2>1 DEF CacheTypes
      <4> QED
        BY <2>1, <2>2, <2>3, <2>5, <3>1, <4>1 DEF Kept, ArchiveKeeps, OpenKeeps, Whole
    <3>2. CASE e # ep
      BY <1>0, <2>1, <2>2, <3>2 DEF Kept, ArchiveKeeps, OpenKeeps, CacheTypes
    <3> QED
      BY <3>1, <3>2
  <2> QED
    BY <2>1, <2>6 DEF Kept, WritingKeeps, RestoringKeeps, OpeningKeeps
<1>16. CASE Leave
  <2>1. /\ UNCHANGED <<promised, archive>> /\ writing' = {} /\ up' = {} /\ phase' = "down"
        /\ dir' = [e \in Endpoints |-> IF e \in up THEN Whole(mem[e]) ELSE dir[e]]
    BY <1>16 DEF Leave
  <2>2. \A e \in Endpoints : PromisedOf(e)' = PromisedOf(e)
    BY <2>1 DEF PromisedOf
  <2>3. \A e \in Endpoints : e \in up => PromisedOf(e) \subseteq mem[e]
    BY DEF Kept, OpenKeeps
  <2>4. \A e \in Endpoints : ArchiveKeeps(e)' /\ OpenKeeps(e)'
    BY <2>1, <2>2, <2>3 DEF Kept, ArchiveKeeps, OpenKeeps, Whole
  <2> QED
    BY <2>1, <2>4 DEF Kept, WritingKeeps, RestoringKeeps, OpeningKeeps
<1>17. CASE Crash
  <2>1. UNCHANGED promised /\ writing' = {} /\ up' = {} /\ phase' = "down"
    BY <1>17 DEF Crash
  <2>2. \A e \in Endpoints : PromisedOf(e)' = PromisedOf(e)
    BY <2>1 DEF PromisedOf
  <2>3. ASSUME NEW e \in Endpoints PROVE ArchiveKeeps(e)'
    <3>1. dir'[e] \in Remains(e) /\ archive'[e] \in Left(e)
      BY <1>17 DEF Crash
    <3>2. \/ archive'[e] = archive[e]
          \/ \E w \in writing : w.of = e /\ archive'[e] = w
          \/ /\ writing # {} \/ (phase = "final" /\ e \in up)
             /\ archive'[e] = Damaged(archive[e])
      <4>1. \A w \in writing : Site(w.of) = w.of
        BY <1>0 DEF CacheTypes, ArchiveFile
      <4> QED
        BY <1>0, <3>1, <4>1 DEF Left, CacheTypes
    <3>3. CASE \E w \in writing : w.of = e /\ archive'[e] = w
      BY <1>0, <2>2, <3>3 DEF ArchiveKeeps, Kept, WritingKeeps, CacheTypes
    <3>4. CASE archive'[e] = archive[e]
      <4>1. CASE archive[e].is = "whole"
        BY <2>2, <3>4, <4>1 DEF ArchiveKeeps, Kept
      <4>2. CASE archive[e].is # "whole"
        <5>1. ~(phase = "remove" /\ e = ep)
          BY <4>2 DEF Kept, RestoringKeeps
        <5>2. ~(phase = "unpack" /\ e = got.of)
          BY <1>0, <4>2 DEF Kept, RestoringKeeps, ArchiveKeeps, CacheTypes
        <5>3. PromisedOf(e) \subseteq dir'[e].files /\ dir'[e].is # "partial"
          BY <1>0, <3>1, <4>2, <5>1, <5>2, RemainsKeeps
        <5> QED
          BY <2>2, <3>4, <4>2, <5>3 DEF ArchiveKeeps
      <4> QED
        BY <4>1, <4>2
    <3>5. CASE archive'[e] = Damaged(archive[e]) /\ archive'[e] # archive[e]
      <4>1. conf.kind = "file" /\ archive'[e].is # "whole"
        BY <1>c, <3>5, DamagedFacts
      <4>2. phase = "final" /\ e \in up
        BY <1>0, <1>a, <3>2, <3>5, <4>1 DEF Kept, WritingKeeps
      <4>3. PromisedOf(e) \subseteq dir'[e].files /\ dir'[e].is # "partial"
        BY <1>0, <3>1, <4>2, RemainsKeeps
      <4> QED
        BY <2>2, <4>1, <4>3 DEF ArchiveKeeps
    <3> QED
      BY <3>2, <3>3, <3>4, <3>5
  <2> QED
    BY <2>1, <2>3 DEF Kept, OpenKeeps, WritingKeeps, RestoringKeeps, OpeningKeeps
<1>18. CASE UNCHANGED cacheVars
  BY <1>18 DEF cacheVars, procVars, diskVars, Kept, ArchiveKeeps, OpenKeeps, WritingKeeps,
               RestoringKeeps, OpeningKeeps, PromisedOf
<1> QED
  BY <1>1, <1>2, <1>3, <1>4, <1>5, <1>6, <1>7, <1>8, <1>9, <1>10, <1>11, <1>12, <1>13, <1>14, <1>15,
     <1>16, <1>17, <1>18 DEF CacheNext

(***************************************************************************)
(* The theorems                                                            *)
(***************************************************************************)

LEMMA InitEstablishes == CacheInit => CacheInv /\ KeptInv
<1> SUFFICES ASSUME CacheInit PROVE CacheInv /\ Kept
  BY DEF KeptInv
<1>1. CacheTypes
  BY Numbers DEF CacheInit, CacheTypes, Phases, Absent, Directory, NoArchive, ArchiveFile
<1>2. Truthful /\ OpenOnes
  BY DEF CacheInit, Truthful, OpenOnes, Opening, Entries, Absent, NoArchive
<1>3. Kept
  BY DEF CacheInit, Kept, ArchiveKeeps, OpenKeeps, WritingKeeps, RestoringKeeps, OpeningKeeps,
         PromisedOf, Absent, NoArchive
<1> QED
  BY <1>1, <1>2, <1>3 DEF CacheInv

LEMMA Preserved == CacheInv /\ KeptInv /\ [CacheNext]_cacheVars => (CacheInv /\ KeptInv)'
<1> SUFFICES ASSUME CacheInv, KeptInv, [CacheNext]_cacheVars PROVE CacheInv' /\ KeptInv'
  OBVIOUS
<1>1. CacheInv'
  BY TypesStep, TruthfulStep, OpenStep DEF CacheInv
<1>2. conf' = conf
  BY StoredGrows DEF CacheInv
<1>3. (~conf.shared /\ Cancellable /\ Lands)' => ~conf.shared /\ Cancellable /\ Lands
  BY <1>2 DEF Cancellable, Lands
<1>4. ASSUME ~conf.shared, Cancellable, Lands PROVE Kept'
  BY <1>4, KeptStep DEF KeptInv
<1> QED
  BY <1>1, <1>3, <1>4 DEF KeptInv

LEMMA CacheInvariance == CacheSpec => [](CacheInv /\ KeptInv)
BY InitEstablishes, Preserved, PTL DEF CacheSpec

\* Every variable keeps its type, and every entry, in memory, on disk or in an archive, is of
\* an object its endpoint owns, after any sequence of restores, faults and crashes.
THEOREM EntriesStayWithTheirOwner == CacheSpec => []CacheTypeOK
<1>1. CacheInv => CacheTypeOK
  BY DEF CacheInv, CacheTypes, Truthful, Entries, CacheTypeOK, Phases
<1> QED
  BY <1>1, CacheInvariance, PTL

\* Skipping the LIST is safe for every number of endpoints and objects: when the caches
\* together, or a coverage query, count as many objects as are to be prepared
\* (aggregate_coverage, query_checkpoint_coverage), all of them are stored.
THEOREM CountsOnlyWhatIsStored == CacheSpec => []CoverageTruthful
<1>1. ASSUME CacheInv, Coverage >= NumFiles PROVE stored = Files
  <2> DEFINE S == {r \in Endpoints \X Files : r[2] \in mem[r[1]]}
             h == [r \in S |-> r[2]]
  <2>1. IsFiniteSet(Files) /\ Cardinality(Files) = NumFiles /\ NumFiles \in Nat
    BY Numbers, CacheAssumption
  <2>2. stored \subseteq Files /\ \A e \in Endpoints : Entries(mem[e], e)
    BY <1>1 DEF CacheInv, CacheTypes, Truthful
  <2>3. IsFiniteSet(stored) /\ Cardinality(stored) <= NumFiles
        /\ (Cardinality(stored) = NumFiles => stored = Files)
    BY <2>1, <2>2, FS_Subset
  <2>4. \A r \in S : r[2] \in stored /\ r[1] = Owner(r[2])
    BY <2>2 DEF Entries
  <2>5. \A r, t \in S : r[2] = t[2] => r = t
    BY <2>4
  <2>6. h \in Injection(S, stored)
    BY <2>4, <2>5 DEF Injection, IsInjective
  <2>7. Cardinality(S) <= Cardinality(stored) /\ IsFiniteSet(S)
    BY <2>3, <2>6, FS_Injection
  <2>8. Cardinality(S) >= NumFiles
    BY <1>1 DEF Coverage, Count
  <2>9. Cardinality(S) \in Nat /\ Cardinality(stored) \in Nat
    BY <2>3, <2>7, FS_CardinalityType
  <2> HIDE DEF S, h
  <2> QED
    BY <2>1, <2>3, <2>7, <2>8, <2>9
<1>2. CacheInv => CoverageTruthful
  BY <1>1 DEF CoverageTruthful, CacheInv, Truthful
<1> QED
  BY <1>2, CacheInvariance, PTL

\* A checkpoint that was reported is good for ever, whatever crashes and fails later, on
\* storage of the endpoint's own whose archive is written where a restore looks (Lands), unless
\* a periodic archive is written by a thread that cannot be cancelled
\* (create_and_write_checkpoint_static to file storage), which outlives the abort.
THEOREM CheckpointsAreKept == CacheSpec => [](Cancellable => Resumes)
<1>1. CacheInv /\ KeptInv => (Cancellable => Resumes)
  <2> SUFFICES ASSUME CacheInv, KeptInv, Cancellable, phase = "run", ~conf.shared, Lands,
                      NEW f \in promised
               PROVE  \E e \in Endpoints : f \in mem[e]
    BY DEF Resumes
  <2>1. Kept /\ (up = Endpoints \/ promised = {})
    BY DEF KeptInv, CacheInv, OpenOnes
  <2>2. Owner(f) \in Endpoints /\ Owner(f) \in up
    BY <2>1, Numbers DEF Kept
  <2>3. f \in PromisedOf(Owner(f))
    BY DEF PromisedOf
  <2> QED
    BY <2>1, <2>2, <2>3 DEF Kept, OpenKeeps
<1> QED
  BY <1>1, CacheInvariance, PTL

=============================================================================
