------------------------------ MODULE StoreBuild ------------------------------
(***************************************************************************)
(* The lifecycle of the schedule database (store/store.go): server         *)
(* processes that share one cache directory download the feed, index it    *)
(* into a database under a temporary name, move it into place and open a   *)
(* pool of connections on it.  They may crash between any two steps.       *)
(*                                                                         *)
(* The directory maps names to inodes, because every hazard here is about  *)
(* the difference: a file keeps its inode while it is renamed, unlinked or *)
(* opened, and os.Create and sqlite both reuse the inode a name has.       *)
(***************************************************************************)
EXTENDS Naturals, FiniteSets

CONSTANTS
  Processes,   (* Servers sharing Manager.Dir; a Manager locks nothing, so *)
               (* goroutines of one server count each for itself.          *)
  Archives,    (* Inodes of downloaded bundles.                            *)
  Databases,   (* Inodes of SQLite files.                                  *)
  Chunks,      (* Reads of the response body, each followed by a write.    *)
  Parts,       (* Number of feed files loaded, in loading order.           *)
  Keyed,       (* Parts whose table has a primary key: transfers.txt and   *)
               (* pathways.txt load into tables without one.               *)
  MaxConns,    (* Connections a pool opens (8 in the code).                *)
  MaxCrashes,  (* Bound on crashes; a bound of the model only.             *)
  MaxFailures, (* Bound on failing calls; a bound of the model only.       *)
  MaxRebuilds, (* Bound on explicit rebuilds; a bound of the model only.   *)
  None         (* No inode.                                                *)

ASSUME SizeAssumption ==
  /\ Chunks \in Nat \ {0} /\ Parts \in Nat \ {0} /\ Keyed \subseteq 1 .. Parts
  /\ MaxConns \in Nat \ {0} /\ MaxCrashes \in Nat /\ MaxFailures \in Nat
  /\ MaxRebuilds \in Nat

(* There are more inodes than all servers together can hold on to, one for  *)
(* the file in place, one per builder and one per connection.               *)
ASSUME InodeAssumption ==
  /\ IsFiniteSet(Databases)
  /\ None \notin Archives /\ None \notin Databases
  /\ \A named \in Archives \cup {None}, written \in [Processes -> Archives \cup {None}] :
       \E a \in Archives : a # named /\ \A p \in Processes : written[p] # a
  /\ \A named \in Databases \cup {None}, written \in [Processes -> Databases \cup {None}],
        held \in [Processes -> {s \in SUBSET Databases : Cardinality(s) <= MaxConns}] :
       \E d \in Databases :
         d # named /\ \A p \in Processes : written[p] # d /\ d \notin held[p]

VARIABLES
  dir,       (* The shared directory: the inode each name has.             *)
  archive,   (* Which chunks of the bundle an archive holds.               *)
  database,  (* What has been loaded into a database.                      *)
  stuck,     (* History: the databases os.Remove failed to remove before a *)
             (* build that then loaded into what it found.                 *)
  pc,        (* Where each process is in EnsureBuilt and Build.            *)
  goal,      (* Whether a running build was asked for by EnsureBuilt.      *)
  fd,        (* The inode the builder of a process writes to.              *)
  progress,  (* Chunks written, then parts loaded, by that builder.        *)
  conns,     (* The databases the process's open handle has connections to *)
  crashes,   (* Crashes so far.                                            *)
  failures,  (* Failed calls so far.                                       *)
  rebuilds   (* Explicit rebuilds so far.                                  *)

builder == <<pc, goal, fd, progress>>
faults  == <<crashes, failures>>
bounded == <<faults, rebuilds>>
files   == <<dir, archive, database, stuck>>
vars    == <<files, builder, conns, bounded>>

Bundle   == 1 .. Chunks
NewFile  == [rows |-> [i \in 1 .. Parts |-> 0], builtAt |-> FALSE, range |-> FALSE]

(* Every table loaded, and both facts of the meta table.  Each row is there *)
(* once, unless the database was built on a leftover that stayed.           *)
Complete(d) ==
  /\ \A i \in 1 .. Parts :
       database[d].rows[i] >= 1 /\ (d \notin stuck => database[d].rows[i] = 1)
  /\ database[d].builtAt /\ database[d].range

Available == dir.db # None /\ Complete(dir.db)

(***************************************************************************)
(* An inode with no name and no descriptor is gone, and its number may be  *)
(* given to a new file.  Which free inode a file gets tells nothing apart. *)
(***************************************************************************)
NewArchive ==
  CHOOSE a \in Archives :
    a \notin {dir.partial, dir.zip} /\ \A p \in Processes : fd[p] # a
NewDatabase ==
  CHOOSE d \in Databases :
    /\ d \notin {dir.building, dir.db}
    /\ \A p \in Processes : fd[p] # d /\ d \notin conns[p]

Init ==
  /\ dir = [partial |-> None, zip |-> None, building |-> None, db |-> None]
  /\ archive = [a \in Archives |-> {}]
  /\ database = [d \in Databases |-> NewFile]
  /\ stuck = {}
  /\ pc = [p \in Processes |-> "idle"]
  /\ goal = [p \in Processes |-> "open"]
  /\ fd = [p \in Processes |-> None]
  /\ progress = [p \in Processes |-> 0]
  /\ conns = [p \in Processes |-> {}]
  /\ crashes = 0
  /\ failures = 0
  /\ rebuilds = 0

Goto(p, l) == pc' = [pc EXCEPT ![p] = l]

(* Build returns an error: descriptors are closed, files stay as they are.  *)
Fail(p) ==
  /\ Goto(p, "idle")
  /\ fd' = [fd EXCEPT ![p] = None]
  /\ progress' = [progress EXCEPT ![p] = 0]
  /\ goal' = [goal EXCEPT ![p] = "open"]
  /\ UNCHANGED <<conns, crashes, rebuilds>>

(* A call the process could not have prevented failing.                     *)
Unlucky == failures < MaxFailures /\ failures' = failures + 1

-----------------------------------------------------------------------------
(* Manager.EnsureBuilt and Manager.Status *)

StartBuild(p, g) ==
  /\ Goto(p, "downloading")
  /\ goal' = [goal EXCEPT ![p] = g]
  /\ UNCHANGED <<files, fd, progress, conns>>

(* Status finds no file, or a file whose meta table says no built_at.       *)
EnsureMissing(p) ==
  /\ pc[p] = "idle" /\ conns[p] = {}
  /\ dir.db # None => ~database[dir.db].builtAt
  /\ StartBuild(p, "open")
  /\ UNCHANGED bounded

(* Reading built_at fails for another reason; Status reports it the same.   *)
EnsureUnread(p) ==
  /\ pc[p] = "idle" /\ conns[p] = {}
  /\ dir.db # None
  /\ Unlucky
  /\ StartBuild(p, "open")
  /\ UNCHANGED <<crashes, rebuilds>>

(* Status finds built_at: the database is used however old it is.           *)
EnsureUsable(p) ==
  /\ pc[p] = "idle" /\ conns[p] = {}
  /\ dir.db # None /\ database[dir.db].builtAt
  /\ Goto(p, "opening")
  /\ UNCHANGED <<files, goal, fd, progress, conns, bounded>>

(* EnsureBuilt opens the file and sets its pragmas over a first connection. *)
OpenHandle(p) ==
  /\ pc[p] = "opening"
  /\ dir.db # None
  /\ conns' = [conns EXCEPT ![p] = {dir.db}]
  /\ Goto(p, "idle")
  /\ UNCHANGED <<files, goal, fd, progress, bounded>>

(* A query runs on an idle connection, or the pool opens another by name.  *)
Query(p) ==
  /\ pc[p] = "idle" /\ conns[p] # {}
  /\ \/ UNCHANGED conns
     \/ /\ Cardinality(conns[p]) < MaxConns
        /\ conns' = [conns EXCEPT ![p] = @ \cup {dir.db}]
  /\ UNCHANGED <<files, builder, bounded>>

(* A caller rebuilds explicitly, with or without a handle open.             *)
Rebuild(p) ==
  /\ pc[p] = "idle"
  /\ rebuilds < MaxRebuilds
  /\ rebuilds' = rebuilds + 1
  /\ StartBuild(p, "rebuild")
  /\ UNCHANGED faults

-----------------------------------------------------------------------------
(* Download, as Build calls it *)

(* Mutant of CreatePartial: insist on creating the file, so never reuse it. *)
CreatePartialExclusive(p) ==
  /\ pc[p] = "downloading"
  /\ IF dir.partial # None
       THEN Fail(p) /\ UNCHANGED <<dir, archive>>
       ELSE /\ dir' = [dir EXCEPT !.partial = NewArchive]
            /\ archive' = [archive EXCEPT ![NewArchive] = {}]
            /\ fd' = [fd EXCEPT ![p] = NewArchive]
            /\ progress' = [progress EXCEPT ![p] = 0]
            /\ Goto(p, "writing")
            /\ UNCHANGED <<goal, conns, crashes, rebuilds>>
  /\ UNCHANGED <<database, stuck, failures>>

(* os.Create truncates the inode the name has, whoever else is writing it.  *)
CreatePartial(p) ==
  /\ pc[p] = "downloading"
  /\ LET a == IF dir.partial = None THEN NewArchive ELSE dir.partial IN
       /\ dir' = [dir EXCEPT !.partial = a]
       /\ archive' = [archive EXCEPT ![a] = {}]
       /\ fd' = [fd EXCEPT ![p] = a]
  /\ progress' = [progress EXCEPT ![p] = 0]
  /\ Goto(p, "writing")
  /\ UNCHANGED <<database, stuck, goal, conns, bounded>>

(* Each builder writes at its own offset of the file it has open.           *)
WriteChunk(p) ==
  /\ pc[p] = "writing" /\ progress[p] < Chunks
  /\ archive' = [archive EXCEPT ![fd[p]] = @ \cup {progress[p] + 1}]
  /\ progress' = [progress EXCEPT ![p] = @ + 1]
  /\ UNCHANGED <<dir, database, stuck, pc, goal, fd, conns, bounded>>

(* The request, the body, a write, a rename or reading it back fails; what  *)
(* was written is left behind.                                              *)
DownloadFail(p) ==
  /\ pc[p] \in {"downloading", "writing", "extracting"}
  /\ Unlucky
  /\ Fail(p)
  /\ UNCHANGED files

(* Mutant of InstallArchive: a body cut short ends the loop like a whole one *)
InstallArchiveEarly(p) ==
  /\ pc[p] = "writing" /\ dir.partial # None
  /\ dir' = [dir EXCEPT !.zip = dir.partial, !.partial = None]
  /\ fd' = [fd EXCEPT ![p] = None]
  /\ progress' = [progress EXCEPT ![p] = 0]
  /\ Goto(p, "extracting")
  /\ UNCHANGED <<archive, database, stuck, goal, conns, bounded>>

(* The body ended: close and rename, which fails if the name has gone.      *)
InstallArchive(p) ==
  /\ pc[p] = "writing" /\ progress[p] = Chunks
  /\ IF dir.partial = None
       THEN Fail(p) /\ UNCHANGED dir
       ELSE /\ dir' = [dir EXCEPT !.zip = dir.partial, !.partial = None]
            /\ fd' = [fd EXCEPT ![p] = None]
            /\ progress' = [progress EXCEPT ![p] = 0]
            /\ Goto(p, "extracting")
            /\ UNCHANGED <<goal, conns, crashes, rebuilds>>
  /\ UNCHANGED <<archive, database, stuck, failures>>

-----------------------------------------------------------------------------
(* Build after the download *)

(* OpenBundle reads the whole archive, and fails on one with a hole in it.  *)
OpenBundle(p) ==
  /\ pc[p] = "extracting"
  /\ IF dir.zip # None /\ archive[dir.zip] = Bundle
       THEN Goto(p, "clearing") /\ UNCHANGED <<goal, fd, progress, conns, crashes, rebuilds>>
       ELSE Fail(p)
  /\ UNCHANGED <<files, failures>>

(* Mutants of ClearTmp: leave the leftovers; remove the database to replace. *)
ClearTmpNot(p) ==
  /\ pc[p] = "clearing"
  /\ Goto(p, "creating")
  /\ UNCHANGED <<files, goal, fd, progress, conns, bounded>>
ClearTmpAndOld(p) ==
  /\ pc[p] = "clearing"
  /\ dir' = [dir EXCEPT !.building = None, !.db = None]
  /\ Goto(p, "creating")
  /\ UNCHANGED <<archive, database, stuck, goal, fd, progress, conns, bounded>>

(* os.Remove(tmp) removes what is there ...                                 *)
ClearTmp(p) ==
  /\ pc[p] = "clearing"
  /\ dir' = [dir EXCEPT !.building = None]
  /\ Goto(p, "creating")
  /\ UNCHANGED <<archive, database, stuck, goal, fd, progress, conns, bounded>>

(* ... or fails to, and Build goes on all the same: its error is ignored.   *)
ClearTmpFails(p) ==
  /\ pc[p] = "clearing" /\ dir.building # None
  /\ Unlucky
  /\ stuck' = stuck \cup {dir.building}
  /\ Goto(p, "creating")
  /\ UNCHANGED <<dir, archive, database, goal, fd, progress, conns, crashes, rebuilds>>

(* The schema statement opens the temporary name, creating it if it is not  *)
(* there: CREATE TABLE IF NOT EXISTS is content with what it finds.         *)
OpenTmp(p) ==
  /\ pc[p] = "creating"
  /\ IF dir.building # None
       THEN fd' = [fd EXCEPT ![p] = dir.building] /\ UNCHANGED <<dir, database, stuck>>
       ELSE LET d == NewDatabase IN
              /\ dir' = [dir EXCEPT !.building = d]
              /\ database' = [database EXCEPT ![d] = NewFile]
              /\ stuck' = stuck \ {d}
              /\ fd' = [fd EXCEPT ![p] = d]
  /\ Goto(p, "loading")
  /\ UNCHANGED <<archive, goal, progress, conns, bounded>>

(* One file in one transaction: INSERT OR REPLACE into a table with a key   *)
(* leaves each row once, INSERT into one without adds it again.             *)
LoadPart(p) ==
  /\ pc[p] = "loading" /\ progress[p] < Parts
  /\ LET i == progress[p] + 1 IN
       database' = [database EXCEPT ![fd[p]].rows[i] =
                      IF i \in Keyed \/ @ = 0 THEN 1 ELSE 2]
  /\ progress' = [progress EXCEPT ![p] = @ + 1]
  /\ UNCHANGED <<dir, archive, stuck, pc, goal, fd, conns, bounded>>

(* built_at is written once everything is loaded ...                        *)
StampBuilt(p) ==
  /\ pc[p] = "loading" /\ progress[p] = Parts
  /\ database' = [database EXCEPT ![fd[p]].builtAt = TRUE]
  /\ Goto(p, "dating")
  /\ UNCHANGED <<dir, archive, stuck, goal, fd, progress, conns, bounded>>

(* ... and the period the feed describes in statements of their own.        *)
StampRange(p) ==
  /\ pc[p] = "dating"
  /\ database' = [database EXCEPT ![fd[p]].range = TRUE]
  /\ Goto(p, "installing")
  /\ UNCHANGED <<dir, archive, stuck, goal, fd, progress, conns, bounded>>

(* Mutant of LoadFail: the error is dropped and what there is is installed. *)
LoadFailIgnored(p) ==
  /\ pc[p] \in {"creating", "loading", "dating"}
  /\ Unlucky
  /\ Goto(p, "installing")
  /\ UNCHANGED <<files, goal, fd, progress, conns, crashes, rebuilds>>

(* A statement fails, the schema's included: the temporary name is removed, *)
(* unless that fails as well, for which nobody looks.                       *)
LoadFail(p) ==
  /\ pc[p] \in {"creating", "loading", "dating"}
  /\ Unlucky
  /\ dir' \in {dir, [dir EXCEPT !.building = None]}
  /\ Fail(p)
  /\ UNCHANGED <<archive, database, stuck>>

(* Closing the database or renaming it fails, and the temporary name stays; *)
(* or opening the finished database does, and EnsureBuilt returns an error. *)
CloseFail(p) ==
  /\ pc[p] \in {"installing", "opening"}
  /\ Unlucky
  /\ Fail(p)
  /\ UNCHANGED files

(* Close, then rename whatever the temporary name is by now into place.     *)
Install(p) ==
  /\ pc[p] = "installing"
  /\ IF dir.building = None
       THEN Fail(p) /\ UNCHANGED dir
       ELSE /\ dir' = [dir EXCEPT !.db = dir.building, !.building = None]
            /\ fd' = [fd EXCEPT ![p] = None]
            /\ progress' = [progress EXCEPT ![p] = 0]
            /\ Goto(p, "cleaning")
            /\ UNCHANGED <<goal, conns, crashes, rebuilds>>
  /\ UNCHANGED <<archive, database, stuck, failures>>

(* Build has succeeded, and EnsureBuilt goes on to open ...                 *)
Succeed(p) ==
  /\ pc[p] = "cleaning"
  /\ Goto(p, IF goal[p] = "open" THEN "opening" ELSE "idle")
  /\ goal' = [goal EXCEPT ![p] = "open"]
  /\ UNCHANGED <<archive, database, stuck, fd, progress, conns, crashes, rebuilds>>

(* Mutant of CleanUp: the bundle is kept.                                   *)
CleanUpNot(p) == Succeed(p) /\ UNCHANGED <<dir, failures>>

(* ... whether os.Remove(zipPath) removes the bundle ...                    *)
CleanUp(p) ==
  /\ Succeed(p)
  /\ dir' = [dir EXCEPT !.zip = None]
  /\ UNCHANGED failures

(* ... or fails to.                                                         *)
CleanUpFails(p) == Succeed(p) /\ Unlucky /\ UNCHANGED dir

(* The process dies and is started again: only the files are left.          *)
Crash(p) ==
  /\ pc[p] # "idle" \/ conns[p] # {}
  /\ crashes < MaxCrashes
  /\ crashes' = crashes + 1
  /\ Goto(p, "idle")
  /\ fd' = [fd EXCEPT ![p] = None]
  /\ progress' = [progress EXCEPT ![p] = 0]
  /\ goal' = [goal EXCEPT ![p] = "open"]
  /\ conns' = [conns EXCEPT ![p] = {}]
  /\ UNCHANGED <<files, failures, rebuilds>>

-----------------------------------------------------------------------------

Ensure(p) == EnsureMissing(p) \/ EnsureUsable(p)

BuildStep(p) ==
  \/ CreatePartial(p) \/ WriteChunk(p) \/ InstallArchive(p)
  \/ OpenBundle(p) \/ ClearTmp(p) \/ OpenTmp(p) \/ LoadPart(p)
  \/ StampBuilt(p) \/ StampRange(p) \/ Install(p) \/ CleanUp(p)
  \/ OpenHandle(p)

Next ==
  \E p \in Processes :
    \/ Ensure(p) \/ BuildStep(p)
    \/ EnsureUnread(p) \/ Rebuild(p) \/ Query(p)
    \/ DownloadFail(p) \/ ClearTmpFails(p) \/ LoadFail(p) \/ CloseFail(p)
    \/ CleanUpFails(p) \/ Crash(p)

Spec == Init /\ [][Next]_vars

(***************************************************************************)
(* A process goes on with the call it is in, and one without a handle gets *)
(* round to asking for it, even if it keeps rebuilding explicitly: it has  *)
(* nothing else to answer questions from.  Explicit rebuilds, pool growth, *)
(* failures and crashes need not happen.                                   *)
(***************************************************************************)
FairSpec ==
  Spec /\ \A p \in Processes : WF_vars(BuildStep(p)) /\ SF_vars(Ensure(p))

-----------------------------------------------------------------------------

Steps == {"idle", "opening", "downloading", "writing", "extracting", "clearing",
          "creating", "loading", "dating", "installing", "cleaning"}

TypeOK ==
  /\ dir \in [partial : Archives \cup {None}, zip : Archives \cup {None},
              building : Databases \cup {None}, db : Databases \cup {None}]
  /\ archive \in [Archives -> SUBSET Bundle]
  /\ database \in [Databases -> [rows : [1 .. Parts -> 0 .. 2],
                                 builtAt : BOOLEAN, range : BOOLEAN]]
  /\ stuck \subseteq Databases
  /\ pc \in [Processes -> Steps]
  /\ goal \in [Processes -> {"open", "rebuild"}]
  /\ fd \in [Processes -> Archives \cup Databases \cup {None}]
  /\ progress \in [Processes -> Nat]
  /\ conns \in [Processes -> SUBSET Databases]
  /\ crashes \in 0 .. MaxCrashes /\ failures \in 0 .. MaxFailures
  /\ rebuilds \in 0 .. MaxRebuilds

(***************************************************************************)
(* store/store.go:108: the database is moved into place only on success,   *)
(* so an interrupted build never leaves a partial one.  Nor does it leave  *)
(* rows in the next one, unless what it left could not be removed.         *)
(***************************************************************************)
InstalledComplete == dir.db # None => Complete(dir.db)

(***************************************************************************)
(* feed.go:106: an interrupted download never leaves a truncated archive   *)
(* under the name of a complete one.                                       *)
(***************************************************************************)
ArchiveComplete == dir.zip # None => archive[dir.zip] = Bundle

(***************************************************************************)
(* Whoever holds a handle reads complete databases over every connection,  *)
(* through crashes and rebuilds.                                           *)
(***************************************************************************)
HandlesComplete == \A p \in Processes : \A d \in conns[p] : Complete(d)

(***************************************************************************)
(* Rebuilding never takes the schedule away: once a database is in place   *)
(* that lacks nothing, one is after every step, a crash, or a removal that *)
(* fails, included.                                                        *)
(***************************************************************************)
StaysAvailable == [][Available => Available']_vars

(***************************************************************************)
(* A build that reports success leaves a database and no temporary file,   *)
(* whatever builds before it left; and no third-of-a-gigabyte bundle       *)
(* either, its own or an earlier one, unless the very removal failed.      *)
(***************************************************************************)
SuccessIsClean ==
  [][\A p \in Processes :
       (pc[p] = "cleaning" /\ pc'[p] # "cleaning" /\ UNCHANGED crashes) =>
         /\ dir'.building = None /\ dir'.partial = None /\ Available'
         /\ UNCHANGED failures => dir'.zip = None]_vars

(***************************************************************************)
(* No leftover of a crash or failure wedges the build: a process that      *)
(* keeps asking ends up with a handle.                                     *)
(***************************************************************************)
EventuallyServed == \A p \in Processes : []<>(conns[p] # {})

-----------------------------------------------------------------------------
(* What comments of store.go say, and the code does not do: the first does *)
(* not hold once a rebuild runs while a handle is open, the second once    *)
(* os.Remove fails.                                                        *)

(***************************************************************************)
(* store/store.go:185: reads run concurrently against an immutable file,   *)
(* so the connections of one handle read the same one.                     *)
(***************************************************************************)
OneFilePerHandle == \A p \in Processes : Cardinality(conns[p]) <= 1

(***************************************************************************)
(* store/store.go:106: Build loads the feed, replacing any existing        *)
(* database, so what is in place has what one load put into a new file.    *)
(***************************************************************************)
LoadedAfresh == dir.db # None => \A i \in 1 .. Parts : database[dir.db].rows[i] = 1
=============================================================================
