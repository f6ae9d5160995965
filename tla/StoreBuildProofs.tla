-------------------------- MODULE StoreBuildProofs --------------------------
(***************************************************************************)
(* Of StoreBuild: as long as no two builds run at the same time, what is   *)
(* in place is complete, whatever fails and whoever crashes when.          *)
(***************************************************************************)
EXTENDS StoreBuild, FiniteSetTheorems, TLAPS

Building(p) == pc[p] \notin {"idle", "opening"}

(* What nothing in the code ensures: the temporary names are not locked.    *)
OneBuilder == \A p, q \in Processes : Building(p) /\ Building(q) => p = q

-----------------------------------------------------------------------------
(* The inductive invariant *)

(* A temporary name never shares its inode with what is in place, or in use *)
NamesApart ==
  /\ dir.partial # None => dir.partial # dir.zip
  /\ dir.building # None =>
       /\ dir.building # dir.db
       /\ \A p \in Processes : dir.building \notin conns[p]

(* Who has a connection has it to a file that was in place; none is taken   *)
(* out again.  A pool is never larger than allowed.                         *)
HandlesNamed ==
  \A p \in Processes :
    /\ conns[p] # {} => dir.db # None
    /\ Cardinality(conns[p]) <= MaxConns

(* The archive being written has the chunks written so far; the database    *)
(* being loaded has the parts loaded so far, and unless it is a leftover    *)
(* that stayed, each row of these once and none of the others.              *)
Loaded(d, n) ==
  \A i \in 1 .. Parts :
    /\ i <= n => database[d].rows[i] >= 1
    /\ d \notin stuck => database[d].rows[i] = IF i <= n THEN 1 ELSE 0

Stage(p) ==
  /\ ~ Building(p) => fd[p] = None /\ progress[p] = 0
  /\ pc[p] = "downloading" => fd[p] = None /\ progress[p] = 0
  /\ pc[p] = "writing" =>
       /\ fd[p] \in Archives /\ dir.partial = fd[p]
       /\ progress[p] \in 0 .. Chunks /\ archive[fd[p]] = 1 .. progress[p]
  /\ pc[p] \in {"extracting", "clearing", "creating", "cleaning"} =>
       fd[p] = None /\ progress[p] = 0 /\ dir.partial = None
  /\ pc[p] = "creating" => dir.building \in stuck \cup {None}
  /\ pc[p] = "cleaning" => dir.building = None
  /\ pc[p] \in {"loading", "dating", "installing"} =>
       /\ fd[p] \in Databases /\ dir.building = fd[p]
       /\ progress[p] \in 0 .. Parts /\ dir.partial = None
       /\ Loaded(fd[p], progress[p])
  /\ pc[p] \in {"dating", "installing"} =>
       progress[p] = Parts /\ database[fd[p]].builtAt
  /\ pc[p] = "installing" => database[fd[p]].range
  /\ pc[p] = "cleaning" => dir.db # None

BuildInv ==
  /\ TypeOK
  /\ InstalledComplete /\ ArchiveComplete /\ HandlesComplete
  /\ NamesApart /\ HandlesNamed
  /\ \A p \in Processes : Stage(p)

-----------------------------------------------------------------------------
LEMMA InitBuild == Init => BuildInv
  <1> SUFFICES ASSUME Init PROVE BuildInv
    OBVIOUS
  <1> USE SizeAssumption, InodeAssumption DEF Init
  <1>1. TypeOK
    BY DEF TypeOK, NewFile, Steps
  <1>2. InstalledComplete /\ ArchiveComplete /\ HandlesComplete /\ NamesApart
    BY DEF InstalledComplete, ArchiveComplete, HandlesComplete, NamesApart
  <1>3. HandlesNamed
    BY FS_EmptySet DEF HandlesNamed
  <1>4. \A p \in Processes : Stage(p)
    BY DEF Stage, Building
  <1> QED BY <1>1, <1>2, <1>3, <1>4 DEF BuildInv

(* A new file gets an inode of its own.                                     *)
LEMMA FreshArchive ==
  ASSUME BuildInv, dir.partial = None
  PROVE  /\ NewArchive \in Archives /\ NewArchive # dir.zip /\ NewArchive # None
         /\ \A p \in Processes : fd[p] # NewArchive
  <1> DEFINE written == [p \in Processes |-> IF fd[p] \in Archives THEN fd[p] ELSE None]
  <1>1. written \in [Processes -> Archives \cup {None}] /\ dir.zip \in Archives \cup {None}
    BY DEF BuildInv, TypeOK
  <1>2. \A p \in Processes : fd[p] \in Archives => written[p] = fd[p]
    OBVIOUS
  <1> HIDE DEF written
  <1>3. PICK a \in Archives : a # dir.zip /\ \A p \in Processes : written[p] # a
    BY <1>1, InodeAssumption
  <1>4. a \notin {dir.partial, dir.zip} /\ \A p \in Processes : fd[p] # a
    BY <1>2, <1>3, InodeAssumption
  <1> QED BY <1>4, InodeAssumption DEF NewArchive

LEMMA FreshDatabase ==
  ASSUME BuildInv, dir.building = None
  PROVE  /\ NewDatabase \in Databases /\ NewDatabase # dir.db
         /\ \A p \in Processes : NewDatabase \notin conns[p]
  <1> DEFINE written == [p \in Processes |-> IF fd[p] \in Databases THEN fd[p] ELSE None]
  <1>1. /\ written \in [Processes -> Databases \cup {None}]
        /\ dir.db \in Databases \cup {None}
    BY DEF BuildInv, TypeOK
  <1>2. conns \in [Processes -> {s \in SUBSET Databases : Cardinality(s) <= MaxConns}]
    BY DEF BuildInv, TypeOK, HandlesNamed
  <1>3. \A p \in Processes : fd[p] \in Databases => written[p] = fd[p]
    OBVIOUS
  <1> HIDE DEF written
  <1>4. PICK d \in Databases :
          d # dir.db /\ \A p \in Processes : written[p] # d /\ d \notin conns[p]
    BY <1>1, <1>2, InodeAssumption
  <1>5. /\ d \notin {dir.building, dir.db}
        /\ \A p \in Processes : fd[p] # d /\ d \notin conns[p]
    BY <1>3, <1>4, InodeAssumption
  <1> QED BY <1>5, InodeAssumption DEF NewDatabase

(* While one server builds, the others' builders are at rest.               *)
LEMMA OthersRest ==
  ASSUME BuildInv, OneBuilder, NEW p \in Processes, Building(p),
         \A q \in Processes \ {p} :
           pc'[q] = pc[q] /\ fd'[q] = fd[q] /\ progress'[q] = progress[q]
  PROVE  \A q \in Processes \ {p} : Stage(q)'
  <1> SUFFICES ASSUME NEW q \in Processes, q # p PROVE Stage(q)'
    OBVIOUS
  <1>1. ~ Building(q)
    BY DEF OneBuilder
  <1>2. fd'[q] = None /\ progress'[q] = 0 /\ pc'[q] \in {"idle", "opening"}
    BY <1>1 DEF BuildInv, Stage, Building
  <1> QED BY <1>2 DEF Stage

(* A step that touches no file, and starts no builder but p's.              *)
LEMMA FilesAlone ==
  ASSUME BuildInv, NEW p \in Processes, UNCHANGED <<files, fd, progress>>,
         NEW l \in Steps, Goto(p, l), ~ Building(p),
         l \in {"idle", "opening", "downloading"},
         goal' \in [Processes -> {"open", "rebuild"}],
         UNCHANGED conns,
         crashes' \in 0 .. MaxCrashes, failures' \in 0 .. MaxFailures,
         rebuilds' \in 0 .. MaxRebuilds
  PROVE  BuildInv'
  <1>1. TypeOK'
    BY DEF BuildInv, TypeOK, Goto, files
  <1>2. InstalledComplete' /\ ArchiveComplete' /\ HandlesComplete'
    BY DEF BuildInv, InstalledComplete, ArchiveComplete, HandlesComplete, Complete, files
  <1>3. NamesApart' /\ HandlesNamed'
    BY DEF BuildInv, NamesApart, HandlesNamed, files
  <1>4. ASSUME NEW q \in Processes PROVE Stage(q)'
    <2>1. CASE q = p
      <3>1. fd[q] = None /\ progress[q] = 0 /\ pc'[q] \in {"idle", "opening", "downloading"}
        BY <2>1 DEF BuildInv, TypeOK, Stage, Goto, files
      <3> QED BY <3>1 DEF Stage
    <2>2. CASE q # p
      <3>1. pc'[q] = pc[q]
        BY <2>2 DEF BuildInv, TypeOK, Goto
      <3> QED BY <3>1 DEF BuildInv, Stage, Building, Loaded, files
    <2> QED BY <2>1, <2>2
  <1> QED BY <1>1, <1>2, <1>3, <1>4 DEF BuildInv

LEMMA EnsureKeeps ==
  ASSUME BuildInv, NEW p \in Processes,
         Ensure(p) \/ EnsureUnread(p) \/ Rebuild(p)
  PROVE  BuildInv'
  <1>0. ~ Building(p) /\ goal \in [Processes -> {"open", "rebuild"}]
        /\ crashes \in 0 .. MaxCrashes /\ failures \in 0 .. MaxFailures
        /\ rebuilds \in 0 .. MaxRebuilds
    BY DEF BuildInv, TypeOK, Building, Ensure, EnsureMissing, EnsureUsable, EnsureUnread,
       Rebuild
  <1>1. CASE EnsureMissing(p)
    BY <1>0, <1>1, FilesAlone DEF EnsureMissing, StartBuild, Steps, bounded, faults
  <1>2. CASE EnsureUsable(p)
    BY <1>0, <1>2, FilesAlone DEF EnsureUsable, Steps, bounded, faults
  <1>3. CASE EnsureUnread(p)
    <2>1. failures' \in 0 .. MaxFailures
      BY <1>0, <1>3, SizeAssumption DEF EnsureUnread, Unlucky
    <2> QED BY <1>0, <1>3, <2>1, FilesAlone DEF EnsureUnread, StartBuild, Steps
  <1>4. CASE Rebuild(p)
    <2>1. rebuilds' \in 0 .. MaxRebuilds
      BY <1>0, <1>4, SizeAssumption DEF Rebuild
    <2> QED BY <1>0, <1>4, <2>1, FilesAlone DEF Rebuild, StartBuild, Steps, faults
  <1> QED BY <1>1, <1>2, <1>3, <1>4 DEF Ensure

LEMMA HandleKeeps ==
  ASSUME BuildInv, NEW p \in Processes, OpenHandle(p) \/ Query(p)
  PROVE  BuildInv'
  <1>1. PICK c \in SUBSET Databases :
          /\ conns' = [conns EXCEPT ![p] = c]
          /\ \A d \in c : d \in conns[p] \/ d = dir.db
          /\ Cardinality(c) <= MaxConns /\ dir.db # None
    <2>0. /\ dir.db \in Databases /\ conns[p] \in SUBSET Databases
          /\ Cardinality(conns[p]) <= MaxConns
      BY DEF OpenHandle, Query, BuildInv, TypeOK, HandlesNamed
    <2>1. CASE OpenHandle(p)
      <3>1. Cardinality({dir.db}) = 1
        BY FS_Singleton
      <3>2. conns' = [conns EXCEPT ![p] = {dir.db}] /\ Cardinality({dir.db}) <= MaxConns
        BY <2>1, <3>1, SizeAssumption DEF OpenHandle
      <3>3. {dir.db} \in SUBSET Databases
        BY <2>0
      <3> QED BY <3>3, <2>0, <3>2, InodeAssumption
    <2>2. CASE Query(p) /\ UNCHANGED conns
      <3>1. conns' = [conns EXCEPT ![p] = conns[p]]
        BY <2>2 DEF BuildInv, TypeOK
      <3>2. conns[p] \in SUBSET Databases
        BY <2>0
      <3> QED BY <3>2, <2>0, <3>1, InodeAssumption
    <2>3. CASE /\ Cardinality(conns[p]) < MaxConns
               /\ conns' = [conns EXCEPT ![p] = @ \cup {dir.db}]
      <3>1. IsFiniteSet(conns[p])
        BY <2>0, InodeAssumption, FS_Subset
      <3>2. Cardinality(conns[p]) \in Nat
        BY <3>1, FS_CardinalityType
      <3>3. Cardinality(conns[p] \cup {dir.db}) =
              IF dir.db \in conns[p] THEN Cardinality(conns[p]) ELSE Cardinality(conns[p]) + 1
        BY <3>1, FS_AddElement
      <3>4. Cardinality(conns[p] \cup {dir.db}) <= MaxConns
        BY <2>3, <3>2, <3>3, SizeAssumption
      <3>5. conns' = [conns EXCEPT ![p] = conns[p] \cup {dir.db}]
        BY <2>3
      <3>6. conns[p] \cup {dir.db} \in SUBSET Databases
        BY <2>0
      <3> QED BY <3>6, <2>0, <3>4, <3>5, InodeAssumption
    <2> QED BY <2>1, <2>2, <2>3 DEF Query
  <1>2. /\ UNCHANGED <<files, goal, fd, progress, crashes, failures, rebuilds>>
        /\ pc[p] \in {"idle", "opening"}
        /\ pc' \in [Processes -> Steps]
        /\ pc'[p] = "idle" /\ \A q \in Processes \ {p} : pc'[q] = pc[q]
    BY DEF BuildInv, TypeOK, OpenHandle, Query, Goto, Steps, builder, bounded,
       faults
  <1>3. conns' \in [Processes -> SUBSET Databases] /\ conns'[p] = c
        /\ \A q \in Processes \ {p} : conns'[q] = conns[q]
    BY <1>1 DEF BuildInv, TypeOK
  <1>4. TypeOK'
    BY <1>2, <1>3 DEF BuildInv, TypeOK, files
  <1>5. InstalledComplete' /\ ArchiveComplete'
    BY <1>2 DEF BuildInv, InstalledComplete, ArchiveComplete, Complete, files
  <1>6. HandlesComplete'
    BY <1>1, <1>2, <1>3 DEF BuildInv, HandlesComplete, InstalledComplete, Complete, files
  <1>7. NamesApart' /\ HandlesNamed'
    BY <1>1, <1>2, <1>3 DEF BuildInv, NamesApart, HandlesNamed, files
  <1>8. \A q \in Processes : Stage(q)'
    BY <1>2 DEF BuildInv, Stage, Building, Loaded, files
  <1> QED BY <1>4, <1>5, <1>6, <1>7, <1>8 DEF BuildInv

(* A step of a builder: who reads, and which database is in place, are as   *)
(* they were.  What is left to show of it is about its own files.           *)
LEMMA BuilderAlone ==
  ASSUME BuildInv, OneBuilder, NEW p \in Processes, Building(p), TypeOK',
         UNCHANGED conns, dir'.db = dir.db,
         \A q \in Processes \ {p} :
           pc'[q] = pc[q] /\ fd'[q] = fd[q] /\ progress'[q] = progress[q],
         \A d \in Databases : d = dir.db \/ (\E q \in Processes : d \in conns[q]) =>
           database'[d] = database[d] /\ (d \in stuck' <=> d \in stuck),
         NamesApart', ArchiveComplete', Stage(p)'
  PROVE  BuildInv'
  <1>1. \A q \in Processes : conns[q] \subseteq Databases
    BY DEF BuildInv, TypeOK
  <1>2. dir.db \in Databases \cup {None}
    BY DEF BuildInv, TypeOK
  <1>3. InstalledComplete'
    BY <1>2 DEF BuildInv, InstalledComplete, Complete
  <1>4. HandlesComplete'
    BY <1>1 DEF BuildInv, HandlesComplete, Complete
  <1>5. HandlesNamed'
    BY DEF BuildInv, HandlesNamed
  <1>6. \A q \in Processes : Stage(q)'
    BY OthersRest
  <1> QED BY <1>3, <1>4, <1>5, <1>6 DEF BuildInv

(* A build that ends, with an error or with its process, leaves the files   *)
(* as they are or takes the temporary name away.                            *)
LEMMA StopKeeps ==
  ASSUME BuildInv, OneBuilder, NEW p \in Processes,
         UNCHANGED <<archive, database, stuck, rebuilds>>,
         crashes' \in 0 .. MaxCrashes, failures' \in 0 .. MaxFailures,
         dir' = dir \/ (Building(p) /\ dir' = [dir EXCEPT !.building = None]),
         Goto(p, "idle"), fd' = [fd EXCEPT ![p] = None],
         progress' = [progress EXCEPT ![p] = 0], goal' = [goal EXCEPT ![p] = "open"],
         conns' = conns \/ conns' = [conns EXCEPT ![p] = {}]
  PROVE  BuildInv'
  <1>1. /\ pc' \in [Processes -> Steps] /\ fd' \in [Processes -> Archives \cup Databases \cup {None}]
        /\ progress' \in [Processes -> Nat] /\ goal' \in [Processes -> {"open", "rebuild"}]
        /\ pc'[p] = "idle" /\ fd'[p] = None /\ progress'[p] = 0
        /\ \A q \in Processes \ {p} :
             pc'[q] = pc[q] /\ fd'[q] = fd[q] /\ progress'[q] = progress[q]
    BY DEF BuildInv, TypeOK, Goto, Steps
  <1>2. /\ conns' \in [Processes -> SUBSET Databases]
        /\ \A q \in Processes : conns'[q] = conns[q] \/ conns'[q] = {}
    <2>1. conns \in [Processes -> SUBSET Databases]
      BY DEF BuildInv, TypeOK
    <2>2. CASE conns' = conns
      BY <2>1, <2>2
    <2>3. CASE conns' = [conns EXCEPT ![p] = {}]
      BY <2>1, <2>3
    <2> QED
      BY <2>2, <2>3
  <1>3. /\ dir'.db = dir.db /\ dir'.zip = dir.zip /\ dir'.partial = dir.partial
        /\ dir'.building \in {dir.building, None}
        /\ dir' \in [partial : Archives \cup {None}, zip : Archives \cup {None},
                     building : Databases \cup {None}, db : Databases \cup {None}]
    BY DEF BuildInv, TypeOK
  <1>4. TypeOK'
    BY <1>1, <1>2, <1>3 DEF BuildInv, TypeOK
  <1>5. InstalledComplete' /\ ArchiveComplete' /\ HandlesComplete'
    BY <1>2, <1>3 DEF BuildInv, InstalledComplete, ArchiveComplete, HandlesComplete, Complete
  <1>6. NamesApart'
    BY <1>2, <1>3 DEF BuildInv, NamesApart
  <1>7. HandlesNamed'
    <2>1. Cardinality({}) <= MaxConns
      BY FS_EmptySet, SizeAssumption
    <2> QED BY <1>2, <1>3, <2>1 DEF BuildInv, HandlesNamed
  <1>8. Stage(p)'
    BY <1>1 DEF Stage, Building
  <1>9. \A q \in Processes \ {p} : Stage(q)'
    <2>1. CASE Building(p)
      BY <1>1, <2>1, OthersRest
    <2>2. CASE dir' = dir
      BY <1>1, <2>2 DEF BuildInv, Stage, Building, Loaded
    <2> QED BY <2>1, <2>2
  <1> QED BY <1>4, <1>5, <1>6, <1>7, <1>8, <1>9 DEF BuildInv

LEMMA FaultKeeps ==
  ASSUME BuildInv, OneBuilder, NEW p \in Processes,
         DownloadFail(p) \/ LoadFail(p) \/ CloseFail(p) \/ Crash(p)
  PROVE  BuildInv'
  <1>1. crashes \in 0 .. MaxCrashes /\ failures \in 0 .. MaxFailures
    BY DEF BuildInv, TypeOK
  <1>2. CASE DownloadFail(p) \/ CloseFail(p)
    <2>1. failures' \in 0 .. MaxFailures
      BY <1>1, <1>2, SizeAssumption DEF DownloadFail, CloseFail, Unlucky
    <2> QED BY <1>1, <1>2, <2>1, StopKeeps DEF DownloadFail, CloseFail, Fail, files
  <1>3. CASE LoadFail(p)
    <2>1. failures' \in 0 .. MaxFailures
      BY <1>1, <1>3, SizeAssumption DEF LoadFail, Unlucky
    <2>2. Building(p)
      BY <1>3 DEF LoadFail, Building
    <2> QED BY <1>1, <1>3, <2>1, <2>2, StopKeeps DEF LoadFail, Fail
  <1>4. CASE Crash(p)
    <2>1. crashes' \in 0 .. MaxCrashes
      BY <1>1, <1>4, SizeAssumption DEF Crash
    <2> QED BY <1>1, <1>4, <2>1, StopKeeps DEF Crash, files
  <1> QED BY <1>2, <1>3, <1>4

-----------------------------------------------------------------------------
(* Download *)

LEMMA CreatePartialKeeps ==
  ASSUME BuildInv, OneBuilder, NEW p \in Processes, CreatePartial(p)
  PROVE  BuildInv'
  <1> DEFINE a == IF dir.partial = None THEN NewArchive ELSE dir.partial
  <1>1. a \in Archives /\ a # None /\ a # dir.zip
    BY FreshArchive DEF BuildInv, TypeOK, NamesApart
  <1>2. /\ dir' = [dir EXCEPT !.partial = a] /\ archive' = [archive EXCEPT ![a] = {}]
        /\ fd' = [fd EXCEPT ![p] = a] /\ progress' = [progress EXCEPT ![p] = 0]
        /\ pc' = [pc EXCEPT ![p] = "writing"] /\ pc[p] = "downloading"
        /\ UNCHANGED <<database, stuck, goal, conns, crashes, failures, rebuilds>>
    BY DEF CreatePartial, Goto, bounded, faults
  <1> HIDE DEF a
  <1>3. TypeOK'
    <2>1. archive' \in [Archives -> SUBSET Bundle]
      BY <1>1, <1>2 DEF BuildInv, TypeOK
    <2>2. dir' \in [partial : Archives \cup {None}, zip : Archives \cup {None},
                    building : Databases \cup {None}, db : Databases \cup {None}]
      BY <1>1, <1>2 DEF BuildInv, TypeOK
    <2> QED BY <1>1, <1>2, <2>1, <2>2 DEF BuildInv, TypeOK, Steps
  <1>4. dir'.partial = a /\ dir'.zip = dir.zip /\ dir'.building = dir.building /\ dir'.db = dir.db
    BY <1>2 DEF BuildInv, TypeOK
  <1>5. /\ fd'[p] = a /\ progress'[p] = 0 /\ pc'[p] = "writing" /\ archive'[a] = {}
        /\ \A q \in Processes \ {p} :
             pc'[q] = pc[q] /\ fd'[q] = fd[q] /\ progress'[q] = progress[q]
        /\ \A b \in Archives \ {a} : archive'[b] = archive[b]
    BY <1>1, <1>2 DEF BuildInv, TypeOK
  <1>6. NamesApart'
    BY <1>1, <1>2, <1>4 DEF BuildInv, NamesApart
  <1>7. ArchiveComplete'
    BY <1>1, <1>4, <1>5 DEF BuildInv, TypeOK, ArchiveComplete
  <1>8. Stage(p)'
    BY <1>1, <1>4, <1>5, SizeAssumption DEF Stage, Building
  <1>9. Building(p)
    BY <1>2 DEF Building
  <1> QED BY <1>2, <1>3, <1>4, <1>5, <1>6, <1>7, <1>8, <1>9, BuilderAlone

LEMMA WriteChunkKeeps ==
  ASSUME BuildInv, OneBuilder, NEW p \in Processes, WriteChunk(p)
  PROVE  BuildInv'
  <1>1. /\ pc[p] = "writing" /\ progress[p] < Chunks /\ Building(p)
        /\ archive' = [archive EXCEPT ![fd[p]] = @ \cup {progress[p] + 1}]
        /\ progress' = [progress EXCEPT ![p] = progress[p] + 1]
        /\ UNCHANGED <<dir, database, stuck, pc, goal, fd, conns, crashes, failures, rebuilds>>
    BY DEF WriteChunk, Building, bounded, faults
  <1>2. /\ fd[p] \in Archives /\ dir.partial = fd[p] /\ dir.zip # fd[p]
        /\ progress[p] \in 0 .. Chunks /\ archive[fd[p]] = 1 .. progress[p]
    BY <1>1, InodeAssumption DEF BuildInv, Stage, NamesApart
  <1>3. progress'[p] = progress[p] + 1 /\ progress'[p] \in 0 .. Chunks
        /\ progress' \in [Processes -> Nat]
        /\ \A q \in Processes \ {p} : progress'[q] = progress[q]
    BY <1>1, <1>2, SizeAssumption DEF BuildInv, TypeOK
  <1>4. archive'[fd[p]] = 1 .. progress'[p]
    <2>1. (1 .. progress[p]) \cup {progress[p] + 1} = 1 .. progress[p] + 1
      BY <1>2
    <2> QED BY <1>1, <1>2, <1>3, <2>1 DEF BuildInv, TypeOK
  <1>5. archive' \in [Archives -> SUBSET Bundle]
    BY <1>1, <1>2, <1>3, SizeAssumption DEF BuildInv, TypeOK, Bundle
  <1>6. TypeOK'
    BY <1>1, <1>3, <1>5 DEF BuildInv, TypeOK
  <1>7. ArchiveComplete'
    BY <1>1, <1>2 DEF BuildInv, TypeOK, ArchiveComplete
  <1>8. NamesApart'
    BY <1>1 DEF BuildInv, NamesApart
  <1>9. Stage(p)'
    BY <1>1, <1>2, <1>3, <1>4 DEF Stage, Building
  <1> QED BY <1>1, <1>3, <1>6, <1>7, <1>8, <1>9, BuilderAlone

LEMMA InstallArchiveKeeps ==
  ASSUME BuildInv, OneBuilder, NEW p \in Processes, InstallArchive(p)
  PROVE  BuildInv'
  <1>1. /\ fd[p] \in Archives /\ dir.partial = fd[p] /\ dir.partial # None
        /\ archive[fd[p]] = Bundle /\ pc[p] = "writing"
    BY InodeAssumption DEF BuildInv, Stage, InstallArchive, Bundle
  <1>2. /\ dir' = [dir EXCEPT !.zip = dir.partial, !.partial = None]
        /\ fd' = [fd EXCEPT ![p] = None] /\ progress' = [progress EXCEPT ![p] = 0]
        /\ pc' = [pc EXCEPT ![p] = "extracting"]
        /\ UNCHANGED <<archive, database, stuck, goal, conns, crashes, failures, rebuilds>>
    BY <1>1 DEF InstallArchive, Goto
  <1>3. /\ dir'.partial = None /\ dir'.zip = fd[p]
        /\ dir'.building = dir.building /\ dir'.db = dir.db
        /\ dir' \in [partial : Archives \cup {None}, zip : Archives \cup {None},
                     building : Databases \cup {None}, db : Databases \cup {None}]
    BY <1>1, <1>2 DEF BuildInv, TypeOK
  <1>4. /\ fd'[p] = None /\ progress'[p] = 0 /\ pc'[p] = "extracting"
        /\ \A q \in Processes \ {p} :
             pc'[q] = pc[q] /\ fd'[q] = fd[q] /\ progress'[q] = progress[q]
    BY <1>2 DEF BuildInv, TypeOK
  <1>5. TypeOK'
    BY <1>2, <1>3 DEF BuildInv, TypeOK, Steps
  <1>6. ArchiveComplete' /\ NamesApart'
    BY <1>1, <1>2, <1>3 DEF BuildInv, ArchiveComplete, NamesApart
  <1>7. Stage(p)' /\ Building(p)
    BY <1>1, <1>3, <1>4 DEF Stage, Building
  <1> QED BY <1>2, <1>3, <1>4, <1>5, <1>6, <1>7, BuilderAlone

-----------------------------------------------------------------------------
(* Build after the download *)

(* Reading the bundle and removing the temporary name write to nothing, and *)
(* what stays under that name is neither in place nor read.                 *)
LEMMA PrepareKeeps ==
  ASSUME BuildInv, OneBuilder, NEW p \in Processes,
         OpenBundle(p) \/ ClearTmp(p) \/ ClearTmpFails(p)
  PROVE  BuildInv'
  <1>1. CASE OpenBundle(p) /\ Fail(p)
    <2>1. crashes \in 0 .. MaxCrashes /\ failures \in 0 .. MaxFailures
      BY DEF BuildInv, TypeOK
    <2> QED BY <1>1, <2>1, StopKeeps DEF OpenBundle, Fail, files
  <1>2. CASE ClearTmp(p) \/ ClearTmpFails(p) \/ (OpenBundle(p) /\ ~ Fail(p))
    <2>1. /\ pc[p] \in {"extracting", "clearing"}
          /\ UNCHANGED <<archive, database, goal, fd, progress, conns, crashes, rebuilds>>
          /\ \/ /\ UNCHANGED <<dir, stuck, failures>>
                /\ pc' = [pc EXCEPT ![p] = "clearing"]
             \/ /\ dir' = [dir EXCEPT !.building = None] /\ UNCHANGED <<stuck, failures>>
                /\ pc' = [pc EXCEPT ![p] = "creating"]
             \/ /\ dir' = dir /\ dir.building # None /\ stuck' = stuck \cup {dir.building}
                /\ failures < MaxFailures /\ failures' = failures + 1
                /\ pc' = [pc EXCEPT ![p] = "creating"]
      BY <1>2 DEF ClearTmp, ClearTmpFails, Unlucky, OpenBundle, Goto, bounded, faults, files
    <2>2. fd[p] = None /\ progress[p] = 0 /\ dir.partial = None
      BY <2>1 DEF BuildInv, Stage
    <2>3. /\ dir'.partial = dir.partial /\ dir'.zip = dir.zip /\ dir'.db = dir.db
          /\ dir'.building \in {dir.building, None}
          /\ dir' \in [partial : Archives \cup {None}, zip : Archives \cup {None},
                       building : Databases \cup {None}, db : Databases \cup {None}]
          /\ \/ pc'[p] = "clearing"
             \/ pc'[p] = "creating" /\ dir'.building \in stuck' \cup {None}
          /\ \A q \in Processes \ {p} : pc'[q] = pc[q]
          /\ stuck' \subseteq Databases
          /\ \A d \in Databases : d # dir.building => (d \in stuck' <=> d \in stuck)
      BY <2>1 DEF BuildInv, TypeOK
    <2>4. TypeOK'
      <3>1. pc' \in [Processes -> Steps]
        BY <2>1 DEF BuildInv, TypeOK, Steps
      <3>2. failures' \in 0 .. MaxFailures
        BY <2>1, SizeAssumption DEF BuildInv, TypeOK
      <3> QED BY <2>1, <2>3, <3>1, <3>2 DEF BuildInv, TypeOK
    <2>5. ArchiveComplete' /\ NamesApart'
      BY <2>1, <2>3 DEF BuildInv, ArchiveComplete, NamesApart
    <2>6. Stage(p)' /\ Building(p)
      BY <2>1, <2>2, <2>3 DEF Stage, Building
    <2>7. \A d \in Databases : d = dir.db \/ (\E q \in Processes : d \in conns[q]) =>
            d # dir.building
      BY InodeAssumption DEF BuildInv, NamesApart
    <2> QED BY <2>1, <2>3, <2>4, <2>5, <2>6, <2>7, BuilderAlone
  <1> QED BY <1>1, <1>2

LEMMA OpenTmpKeeps ==
  ASSUME BuildInv, OneBuilder, NEW p \in Processes, OpenTmp(p)
  PROVE  BuildInv'
  <1> DEFINE d == IF dir.building = None THEN NewDatabase ELSE dir.building
  <1>1. /\ pc[p] = "creating" /\ Building(p) /\ dir.building \in stuck \cup {None}
        /\ fd[p] = None /\ progress[p] = 0 /\ dir.partial = None
    BY DEF OpenTmp, Building, BuildInv, Stage
  <1>2. d \in Databases /\ d # dir.db /\ d # None /\ \A q \in Processes : d \notin conns[q]
    BY FreshDatabase, InodeAssumption DEF BuildInv, TypeOK, NamesApart
  <1>3. /\ dir' = [dir EXCEPT !.building = d]
        /\ \/ d \in stuck /\ UNCHANGED <<database, stuck>>
           \/ database' = [database EXCEPT ![d] = NewFile] /\ stuck' = stuck \ {d}
        /\ fd' = [fd EXCEPT ![p] = d] /\ pc' = [pc EXCEPT ![p] = "loading"]
        /\ UNCHANGED <<archive, goal, progress, conns, crashes, failures, rebuilds>>
    BY <1>1 DEF OpenTmp, Goto, bounded, faults, BuildInv, TypeOK
  <1> HIDE DEF d
  <1>4. /\ dir'.building = d /\ dir'.partial = dir.partial
        /\ dir'.zip = dir.zip /\ dir'.db = dir.db
        /\ dir' \in [partial : Archives \cup {None}, zip : Archives \cup {None},
                     building : Databases \cup {None}, db : Databases \cup {None}]
    BY <1>2, <1>3 DEF BuildInv, TypeOK
  <1>5. /\ fd'[p] = d /\ pc'[p] = "loading"
        /\ \A q \in Processes \ {p} : pc'[q] = pc[q] /\ fd'[q] = fd[q]
    BY <1>3 DEF BuildInv, TypeOK
  <1>6. /\ database' \in [Databases -> [rows : [1 .. Parts -> 0 .. 2],
                                        builtAt : BOOLEAN, range : BOOLEAN]]
        /\ stuck' \subseteq Databases
        /\ d \in stuck' \/ database'[d] = NewFile
        /\ \A e \in Databases \ {d} : database'[e] = database[e] /\ (e \in stuck' <=> e \in stuck)
    <2>1. NewFile \in [rows : [1 .. Parts -> 0 .. 2], builtAt : BOOLEAN, range : BOOLEAN]
      BY DEF NewFile
    <2>2. /\ database \in [Databases -> [rows : [1 .. Parts -> 0 .. 2],
                                        builtAt : BOOLEAN, range : BOOLEAN]]
          /\ stuck \subseteq Databases
      BY DEF BuildInv, TypeOK
    <2>3. CASE d \in stuck /\ UNCHANGED <<database, stuck>>
      BY <2>2, <2>3
    <2>4. CASE database' = [database EXCEPT ![d] = NewFile] /\ stuck' = stuck \ {d}
      BY <1>2, <2>1, <2>2, <2>4
    <2> QED BY <1>3, <2>3, <2>4
  <1>7. TypeOK'
    BY <1>2, <1>3, <1>4, <1>6 DEF BuildInv, TypeOK, Steps
  <1>8. ArchiveComplete' /\ NamesApart'
    BY <1>1, <1>2, <1>3, <1>4 DEF BuildInv, ArchiveComplete, NamesApart
  <1>9. Stage(p)'
    <2>1. \A i \in 1 .. Parts : d \notin stuck' => database'[d].rows[i] = 0
      <3>1. \A i \in 1 .. Parts : NewFile.rows[i] = 0
        BY DEF NewFile
      <3> QED BY <1>6, <3>1
    <2> QED BY <1>1, <1>2, <1>3, <1>4, <1>5, <2>1, SizeAssumption DEF Stage, Building, Loaded
  <1> QED BY <1>1, <1>2, <1>3, <1>4, <1>5, <1>6, <1>7, <1>8, <1>9, BuilderAlone

(* The statements of a load write to the database under the temporary name, *)
(* which is neither in place nor read.                                      *)
LEMMA WriteKeeps ==
  ASSUME BuildInv, OneBuilder, NEW p \in Processes, NEW f, NEW l \in Steps, NEW n \in Nat,
         pc[p] \in {"loading", "dating"}, pc' = [pc EXCEPT ![p] = l],
         f \in [rows : [1 .. Parts -> 0 .. 2], builtAt : BOOLEAN, range : BOOLEAN],
         database' = [database EXCEPT ![fd[p]] = f],
         progress' = [progress EXCEPT ![p] = n],
         UNCHANGED <<dir, archive, stuck, goal, fd, conns, bounded>>,
         Stage(p)'
  PROVE  BuildInv'
  <1>1. /\ Building(p) /\ fd[p] \in Databases /\ fd[p] # dir.db
        /\ \A q \in Processes : fd[p] \notin conns[q]
    BY InodeAssumption DEF BuildInv, Stage, Building, NamesApart
  <1>2. TypeOK'
    BY <1>1 DEF BuildInv, TypeOK, bounded, faults
  <1>3. \A e \in Databases \ {fd[p]} : database'[e] = database[e]
    BY DEF BuildInv, TypeOK
  <1>4. \A q \in Processes \ {p} :
          pc'[q] = pc[q] /\ fd'[q] = fd[q] /\ progress'[q] = progress[q]
    BY DEF BuildInv, TypeOK
  <1>5. ArchiveComplete' /\ NamesApart'
    BY DEF BuildInv, ArchiveComplete, NamesApart
  <1> QED BY <1>1, <1>2, <1>3, <1>4, <1>5, BuilderAlone

LEMMA LoadKeeps ==
  ASSUME BuildInv, OneBuilder, NEW p \in Processes,
         LoadPart(p) \/ StampBuilt(p) \/ StampRange(p)
  PROVE  BuildInv'
  <1> DEFINE File == [rows : [1 .. Parts -> 0 .. 2], builtAt : BOOLEAN, range : BOOLEAN]
             d == fd[p]
  <1>1. /\ pc[p] \in {"loading", "dating"} /\ d \in Databases /\ dir.building = d
        /\ progress[p] \in 0 .. Parts /\ dir.partial = None /\ Loaded(d, progress[p])
        /\ database[d] \in File /\ progress = [progress EXCEPT ![p] = progress[p]]
        /\ pc = [pc EXCEPT ![p] = pc[p]]
    BY DEF LoadPart, StampBuilt, StampRange, BuildInv, TypeOK, Stage
  <1>2. CASE LoadPart(p)
    <2> DEFINE i == progress[p] + 1
               f == [database[d] EXCEPT !.rows[i] =
                       IF i \in Keyed \/ database[d].rows[i] = 0 THEN 1 ELSE 2]
    <2>1. /\ pc[p] = "loading" /\ i \in 1 .. Parts /\ i \in Nat
          /\ database' = [database EXCEPT ![d] = f]
          /\ progress' = [progress EXCEPT ![p] = i]
          /\ UNCHANGED <<dir, archive, stuck, pc, goal, fd, conns, bounded>>
      BY <1>1, <1>2, SizeAssumption DEF LoadPart
    <2> DEFINE x == IF i \in Keyed \/ database[d].rows[i] = 0 THEN 1 ELSE 2
    <2>2. x \in 1 .. 2 /\ (d \notin stuck => x = 1)
      BY <1>1, <2>1 DEF Loaded
    <2>3. f \in File /\ \A k \in 1 .. Parts :
                       /\ k <= i => f.rows[k] >= 1
                       /\ d \notin stuck => f.rows[k] = IF k <= i THEN 1 ELSE 0
      <3>1. f = [database[d] EXCEPT !.rows = [database[d].rows EXCEPT ![i] = x]]
        BY <1>1
      <3> HIDE DEF x
      <3>2. [database[d].rows EXCEPT ![i] = x] \in [1 .. Parts -> 0 .. 2]
        BY <1>1, <2>1, <2>2
      <3>3. ASSUME NEW k \in 1 .. Parts
            PROVE  /\ k <= i => [database[d].rows EXCEPT ![i] = x][k] >= 1
                   /\ d \notin stuck =>
                        [database[d].rows EXCEPT ![i] = x][k] = IF k <= i THEN 1 ELSE 0
        <4>1. /\ k <= progress[p] => database[d].rows[k] >= 1
              /\ d \notin stuck => database[d].rows[k] = IF k <= progress[p] THEN 1 ELSE 0
          BY <1>1 DEF Loaded
        <4>2. k <= i <=> k <= progress[p] \/ k = i
          BY <1>1
        <4>3. k = i => ~ (k <= progress[p])
          BY <1>1
        <4>4. database[d].rows \in [1 .. Parts -> 0 .. 2] /\ i \in 1 .. Parts
          BY <1>1, <2>1
        <4>5. /\ k = i => [database[d].rows EXCEPT ![i] = x][k] = x
              /\ k # i => [database[d].rows EXCEPT ![i] = x][k] = database[d].rows[k]
          BY <1>1, <4>4
        <4> DEFINE y == [database[d].rows EXCEPT ![i] = x][k]
        <4> HIDE DEF i, y
        <4>6. CASE k = i
          BY <2>2, <4>2, <4>5, <4>6 DEF y
        <4>7. CASE k # i
          BY <4>1, <4>2, <4>5, <4>7 DEF y
        <4> QED BY <4>6, <4>7 DEF y
      <3> HIDE DEF f
      <3> QED BY <1>1, <3>1, <3>2, <3>3
    <2> HIDE DEF f
    <2>4. progress'[p] = i /\ database'[d] = f /\ pc'[p] = "loading" /\ fd'[p] = d
      BY <1>1, <2>1 DEF BuildInv, TypeOK
    <2>5. Stage(p)'
      BY <1>1, <2>1, <2>3, <2>4, SizeAssumption DEF Stage, Building, Loaded
    <2> QED BY <1>1, <2>1, <2>3, <2>5, WriteKeeps DEF Steps
  <1>3. CASE StampBuilt(p)
    <2> DEFINE f == [database[d] EXCEPT !.builtAt = TRUE]
    <2>1. /\ progress[p] = Parts
          /\ database' = [database EXCEPT ![d] = f] /\ pc' = [pc EXCEPT ![p] = "dating"]
          /\ progress' = [progress EXCEPT ![p] = Parts]
          /\ UNCHANGED <<dir, archive, stuck, goal, fd, conns, bounded>>
      BY <1>1, <1>3 DEF StampBuilt, Goto
    <2>2. f \in File /\ f.rows = database[d].rows /\ f.builtAt
      BY <1>1
    <2> HIDE DEF f
    <2>3. database'[d] = f /\ pc'[p] = "dating" /\ fd'[p] = d /\ progress'[p] = progress[p]
      BY <1>1, <2>1 DEF BuildInv, TypeOK
    <2>4. Stage(p)'
      BY <1>1, <2>1, <2>2, <2>3, SizeAssumption DEF Stage, Building, Loaded
    <2> QED BY <1>1, <2>1, <2>2, <2>4, SizeAssumption, WriteKeeps DEF Steps
  <1>4. CASE StampRange(p)
    <2> DEFINE f == [database[d] EXCEPT !.range = TRUE]
    <2>1. /\ progress[p] = Parts /\ database[d].builtAt
          /\ database' = [database EXCEPT ![d] = f] /\ pc' = [pc EXCEPT ![p] = "installing"]
          /\ progress' = [progress EXCEPT ![p] = Parts]
          /\ UNCHANGED <<dir, archive, stuck, goal, fd, conns, bounded>>
      BY <1>1, <1>4 DEF StampRange, Goto, BuildInv, Stage
    <2>2. f \in File /\ f.rows = database[d].rows /\ f.builtAt /\ f.range
      BY <1>1, <2>1
    <2> HIDE DEF f
    <2>3. database'[d] = f /\ pc'[p] = "installing" /\ fd'[p] = d /\ progress'[p] = progress[p]
      BY <1>1, <2>1 DEF BuildInv, TypeOK
    <2>4. Stage(p)'
      BY <1>1, <2>1, <2>2, <2>3, SizeAssumption DEF Stage, Building, Loaded
    <2> QED BY <1>1, <2>1, <2>2, <2>4, SizeAssumption, WriteKeeps DEF Steps
  <1> QED BY <1>2, <1>3, <1>4

(* The rename: what is put in place is what p has loaded, and nothing else. *)
LEMMA InstallKeeps ==
  ASSUME BuildInv, OneBuilder, NEW p \in Processes, Install(p)
  PROVE  BuildInv'
  <1>1. /\ pc[p] = "installing" /\ Building(p) /\ dir.building \in Databases
        /\ dir.building # None /\ dir.partial = None
        /\ \A i \in 1 .. Parts :
             /\ database[dir.building].rows[i] >= 1
             /\ dir.building \notin stuck => database[dir.building].rows[i] = 1
        /\ database[dir.building].builtAt /\ database[dir.building].range
    BY SizeAssumption, InodeAssumption DEF Install, Building, BuildInv, Stage, Loaded
  <1>2. /\ dir' = [dir EXCEPT !.db = dir.building, !.building = None]
        /\ fd' = [fd EXCEPT ![p] = None] /\ progress' = [progress EXCEPT ![p] = 0]
        /\ pc' = [pc EXCEPT ![p] = "cleaning"]
        /\ UNCHANGED <<archive, database, stuck, goal, conns, crashes, failures, rebuilds>>
    BY <1>1 DEF Install, Goto
  <1>3. /\ dir'.db = dir.building /\ dir'.building = None
        /\ dir'.partial = dir.partial /\ dir'.zip = dir.zip
        /\ dir' \in [partial : Archives \cup {None}, zip : Archives \cup {None},
                     building : Databases \cup {None}, db : Databases \cup {None}]
    BY <1>1, <1>2 DEF BuildInv, TypeOK
  <1>4. /\ fd'[p] = None /\ progress'[p] = 0 /\ pc'[p] = "cleaning"
        /\ \A q \in Processes \ {p} :
             pc'[q] = pc[q] /\ fd'[q] = fd[q] /\ progress'[q] = progress[q]
    BY <1>2 DEF BuildInv, TypeOK
  <1>5. TypeOK'
    BY <1>2, <1>3 DEF BuildInv, TypeOK, Steps
  <1>6. InstalledComplete' /\ ArchiveComplete' /\ HandlesComplete'
    BY <1>1, <1>2, <1>3 DEF BuildInv, InstalledComplete, ArchiveComplete, HandlesComplete,
       Complete
  <1>7. NamesApart' /\ HandlesNamed'
    BY <1>1, <1>2, <1>3 DEF BuildInv, NamesApart, HandlesNamed
  <1>8. Stage(p)'
    BY <1>1, <1>3, <1>4 DEF Stage, Building
  <1>9. \A q \in Processes : Stage(q)'
    BY <1>1, <1>4, <1>8, OthersRest
  <1> QED BY <1>5, <1>6, <1>7, <1>9 DEF BuildInv

LEMMA CleanUpKeeps ==
  ASSUME BuildInv, OneBuilder, NEW p \in Processes, CleanUp(p) \/ CleanUpFails(p)
  PROVE  BuildInv'
  <1>1. /\ pc[p] = "cleaning" /\ Building(p) /\ fd[p] = None /\ progress[p] = 0
        /\ dir' = [dir EXCEPT !.zip = None] \/ dir' = dir
        /\ goal' = [goal EXCEPT ![p] = "open"]
        /\ pc' = [pc EXCEPT ![p] = IF goal[p] = "open" THEN "opening" ELSE "idle"]
        /\ failures' = failures \/ (failures < MaxFailures /\ failures' = failures + 1)
        /\ UNCHANGED <<archive, database, stuck, fd, progress, conns, crashes, rebuilds>>
    BY DEF CleanUp, CleanUpFails, Succeed, Unlucky, Goto, Building, BuildInv, Stage
  <1>2. /\ dir'.db = dir.db /\ dir'.building = dir.building
        /\ dir'.partial = dir.partial /\ dir'.zip \in {None, dir.zip}
        /\ dir' \in [partial : Archives \cup {None}, zip : Archives \cup {None},
                     building : Databases \cup {None}, db : Databases \cup {None}]
        /\ pc'[p] \in {"opening", "idle"} /\ pc' \in [Processes -> Steps]
        /\ goal' \in [Processes -> {"open", "rebuild"}]
        /\ \A q \in Processes \ {p} : pc'[q] = pc[q]
    BY <1>1 DEF BuildInv, TypeOK, Steps
  <1>3. TypeOK'
    <2>1. failures' \in 0 .. MaxFailures
      BY <1>1, SizeAssumption DEF BuildInv, TypeOK
    <2> QED BY <1>1, <1>2, <2>1 DEF BuildInv, TypeOK
  <1>4. ArchiveComplete' /\ NamesApart'
    BY <1>1, <1>2 DEF BuildInv, ArchiveComplete, NamesApart
  <1>5. Stage(p)'
    BY <1>1, <1>2 DEF Stage, Building
  <1> QED BY <1>1, <1>2, <1>3, <1>4, <1>5, BuilderAlone

-----------------------------------------------------------------------------

LEMMA NextKeeps == BuildInv /\ OneBuilder /\ [Next]_vars => BuildInv'
  <1> SUFFICES ASSUME BuildInv, OneBuilder, [Next]_vars PROVE BuildInv'
    OBVIOUS
  <1>1. ASSUME NEW p \in Processes, BuildStep(p) PROVE BuildInv'
    BY <1>1, CreatePartialKeeps, WriteChunkKeeps, InstallArchiveKeeps, PrepareKeeps,
       OpenTmpKeeps, LoadKeeps, InstallKeeps, CleanUpKeeps, HandleKeeps DEF BuildStep
  <1>2. ASSUME NEW p \in Processes,
               Ensure(p) \/ EnsureUnread(p) \/ Rebuild(p) \/ Query(p)
        PROVE  BuildInv'
    BY <1>2, EnsureKeeps, HandleKeeps
  <1>3. ASSUME NEW p \in Processes,
               \/ DownloadFail(p) \/ ClearTmpFails(p) \/ LoadFail(p) \/ CloseFail(p)
               \/ CleanUpFails(p) \/ Crash(p)
        PROVE  BuildInv'
    BY <1>3, FaultKeeps, PrepareKeeps, CleanUpKeeps
  <1>4. CASE UNCHANGED vars
    BY <1>4 DEF vars, files, builder, bounded, faults, BuildInv, TypeOK, InstalledComplete,
       ArchiveComplete, HandlesComplete, Complete, NamesApart, HandlesNamed, Stage,
       Building, Loaded
  <1> QED BY <1>1, <1>2, <1>3, <1>4 DEF Next

LEMMA BuildInvariant == Spec /\ []OneBuilder => []BuildInv
  BY InitBuild, NextKeeps, PTL DEF Spec

(***************************************************************************)
(* store/store.go:108: as long as no two builds run at once, what is in    *)
(* place is complete, after any failures and crashes, and so is every      *)
(* database that any server's handle reads, however many rebuilds went by. *)
(* Where os.Remove could not remove a leftover the next build loads into   *)
(* it: then, too, nothing is missing, and only rows may be there twice.    *)
(***************************************************************************)
THEOREM BuildsAreComplete ==
  Spec /\ []OneBuilder => [](InstalledComplete /\ HandlesComplete)
  <1>1. BuildInv => InstalledComplete /\ HandlesComplete
    BY DEF BuildInv
  <1> QED BY <1>1, BuildInvariant, PTL

(***************************************************************************)
(* feed.go:106: and so is every archive with the name of a complete one,   *)
(* whichever download was broken off where.                                *)
(***************************************************************************)
THEOREM ArchivesAreComplete == Spec /\ []OneBuilder => []ArchiveComplete
  <1>1. BuildInv => ArchiveComplete
    BY DEF BuildInv
  <1> QED BY <1>1, BuildInvariant, PTL

(***************************************************************************)
(* The same of a directory that one caller uses, of which nothing else is  *)
(* assumed: its calls, failures and crashes may come in any order.  A      *)
(* second server is a second caller, and so is a second goroutine that     *)
(* calls Build or EnsureBuilt, for a Manager has no lock.                  *)
(***************************************************************************)
THEOREM OneCallerIsEnough ==
  ASSUME NEW p, Processes = {p}
  PROVE  Spec => [](InstalledComplete /\ ArchiveComplete /\ HandlesComplete)
  <1>1. OneBuilder
    BY DEF OneBuilder
  <1> QED BY <1>1, BuildsAreComplete, ArchivesAreComplete, PTL

-----------------------------------------------------------------------------
(* No step takes the database out of its place.                             *)
LEMMA NeverTaken ==
  ASSUME TypeOK, [Next]_vars, dir.db # None
  PROVE  dir'.db # None
  <1>1. ASSUME NEW p \in Processes, CreatePartial(p) PROVE dir'.db = dir.db
    BY <1>1 DEF CreatePartial, TypeOK
  <1>2. ASSUME NEW p \in Processes, InstallArchive(p) PROVE dir'.db = dir.db
    BY <1>2 DEF InstallArchive, TypeOK
  <1>3. ASSUME NEW p \in Processes, ClearTmp(p) \/ LoadFail(p) \/ CleanUp(p)
        PROVE  dir'.db = dir.db
    BY <1>3 DEF ClearTmp, LoadFail, CleanUp, Succeed, TypeOK
  <1>4. ASSUME NEW p \in Processes, OpenTmp(p) PROVE dir'.db = dir.db
    BY <1>4 DEF OpenTmp, TypeOK
  <1>5. ASSUME NEW p \in Processes, Install(p) PROVE dir'.db # None
    BY <1>5 DEF Install, TypeOK
  <1>6. ASSUME NEW p \in Processes,
               \/ Ensure(p) \/ EnsureUnread(p) \/ Rebuild(p) \/ Query(p) \/ OpenHandle(p)
               \/ WriteChunk(p) \/ OpenBundle(p) \/ LoadPart(p) \/ StampBuilt(p)
               \/ StampRange(p) \/ DownloadFail(p) \/ ClearTmpFails(p) \/ CloseFail(p)
               \/ CleanUpFails(p) \/ Crash(p)
        PROVE  dir' = dir
    BY <1>6 DEF Ensure, EnsureMissing, EnsureUsable, EnsureUnread, Rebuild, StartBuild,
       Query, OpenHandle, WriteChunk, OpenBundle, LoadPart, StampBuilt, StampRange,
       DownloadFail, ClearTmpFails, CloseFail, CleanUpFails, Crash, files
  <1>7. CASE UNCHANGED vars
    BY <1>7 DEF vars, files
  <1> QED BY <1>1, <1>2, <1>3, <1>4, <1>5, <1>6, <1>7 DEF Next, BuildStep

(***************************************************************************)
(* Rebuilding never takes the schedule away: a rename replaces the file in *)
(* place by one that lacks nothing, even where a removal failed before it, *)
(* and nothing else touches its name.                                      *)
(***************************************************************************)
THEOREM RebuildsKeepAvailable == Spec /\ []OneBuilder => StaysAvailable
  <1>1. BuildInv /\ BuildInv' /\ [Next]_vars => [Available => Available']_vars
    <2> SUFFICES ASSUME BuildInv, BuildInv', [Next]_vars, Available PROVE Available'
      OBVIOUS
    <2>1. dir'.db # None
      BY NeverTaken DEF Available, BuildInv
    <2> QED BY <2>1 DEF BuildInv, InstalledComplete, Available
  <1> QED BY <1>1, BuildInvariant, PTL DEF Spec, StaysAvailable

(* Who is cleaning up stays at it, unless it is done, or crashes.           *)
LEMMA OnlyCleanUp ==
  ASSUME TypeOK, [Next]_vars, NEW p \in Processes,
         pc[p] = "cleaning", pc'[p] # "cleaning", UNCHANGED crashes
  PROVE  CleanUp(p) \/ CleanUpFails(p)
  <1>1. ASSUME NEW q \in Processes, \/ Ensure(q) \/ EnsureUnread(q) \/ Rebuild(q) \/ Query(q)
        PROVE  FALSE
    BY <1>1 DEF Ensure, EnsureMissing, EnsureUsable, EnsureUnread, Rebuild, StartBuild,
       Query, Goto, TypeOK, builder
  <1>2. ASSUME NEW q \in Processes, BuildStep(q), ~ CleanUp(q) PROVE FALSE
    BY <1>2 DEF BuildStep, CreatePartial, WriteChunk, InstallArchive, OpenBundle, ClearTmp,
       OpenTmp, LoadPart, StampBuilt, StampRange, Install, OpenHandle, Goto, Fail, TypeOK
  <1>3. ASSUME NEW q \in Processes, CleanUp(q) \/ CleanUpFails(q) PROVE q = p
    BY <1>3 DEF CleanUp, CleanUpFails, Succeed, Goto, TypeOK
  <1>4. ASSUME NEW q \in Processes,
               DownloadFail(q) \/ ClearTmpFails(q) \/ LoadFail(q) \/ CloseFail(q)
        PROVE  FALSE
    BY <1>4 DEF DownloadFail, ClearTmpFails, LoadFail, CloseFail, Fail, Goto, TypeOK
  <1>5. ASSUME NEW q \in Processes, Crash(q) PROVE FALSE
    BY <1>5 DEF Crash, TypeOK
  <1>6. ~ UNCHANGED vars
    BY DEF vars, builder
  <1> QED BY <1>1, <1>2, <1>3, <1>4, <1>5, <1>6 DEF Next

(***************************************************************************)
(* A build that reports success leaves a database and no file of a         *)
(* temporary name, and unless its own removal failed no bundle: whatever   *)
(* builds before it could not remove is gone.                              *)
(***************************************************************************)
THEOREM BuildsLeaveNothing == Spec /\ []OneBuilder => SuccessIsClean
  <1> DEFINE Ended(p) == pc[p] = "cleaning" /\ pc'[p] # "cleaning" /\ UNCHANGED crashes
             Clean == /\ dir'.building = None /\ dir'.partial = None /\ Available'
                      /\ UNCHANGED failures => dir'.zip = None
  <1>1. BuildInv /\ BuildInv' /\ [Next]_vars => [\A p \in Processes : Ended(p) => Clean]_vars
    <2> SUFFICES ASSUME BuildInv, BuildInv', [Next]_vars, NEW p \in Processes, Ended(p)
                 PROVE  Clean
      OBVIOUS
    <2>1. CleanUp(p) \/ CleanUpFails(p)
      BY OnlyCleanUp DEF BuildInv
    <2>2. dir.building = None /\ dir.partial = None /\ dir.db # None
      BY DEF BuildInv, Stage
    <2>3. failures \in Nat
      BY SizeAssumption DEF BuildInv, TypeOK
    <2>4. /\ dir'.building = None /\ dir'.partial = None /\ dir'.db # None
          /\ UNCHANGED failures => dir'.zip = None
      BY <2>1, <2>2, <2>3 DEF CleanUp, CleanUpFails, Succeed, Unlucky, BuildInv, TypeOK
    <2> QED BY <2>4 DEF BuildInv, InstalledComplete, Available
  <1> QED BY <1>1, BuildInvariant, PTL DEF Spec, SuccessIsClean
=============================================================================
