------------------------------ MODULE Pipeline ------------------------------
(***************************************************************************)
(* main.sh: one invocation `main.sh <scale> <test> ...` generates the      *)
(* TPC-H data set (or finds it cached), prepares the Unikraft and OSv      *)
(* images and runs the three unikernels.  The files it leaves behind are   *)
(* found by the next invocation, which may ask for another scale factor;   *)
(* the model keeps every file a later command reads, and lets the user     *)
(* start any number of invocations one after the other.                    *)
(*                                                                         *)
(* A file is represented by the data it holds: a scale factor, Torn (only  *)
(* part of it was written), Shipped (the tables checked in with the OSv    *)
(* application) or Absent.  SQLite opens an absent database as an empty    *)
(* one, so a report whose data is Absent holds rows timed on no tables.    *)
(*                                                                         *)
(* No script stops at a failing command, so each failure is one more       *)
(* outcome of the command, allowed when its name is in `faults`:           *)
(*   clone  git clone fails               make   dbgen or sqlite3 fails    *)
(*   build  kraft/OSv build fails         kill   Ctrl-C between commands   *)
(*   torn   a copy or a load is cut short                                  *)
(***************************************************************************)
CONSTANTS Scales,       \* the scale factors users ask for
          Absent, Torn, Shipped, NoRows,
          FaultModels   \* the sets of faults to consider

FaultNames == {"clone", "make", "build", "kill", "torn"}

ASSUME ScalesAssumption ==
  /\ {Absent, Torn, Shipped, NoRows} \cap Scales = {}
  /\ Absent # Torn /\ Absent # Shipped /\ Absent # NoRows
  /\ Torn # Shipped /\ Torn # NoRows /\ Shipped # NoRows
ASSUME FaultModelsAssumption == FaultModels \subseteq SUBSET FaultNames

VARIABLES
  pc, scale, test,  \* the next command of main.sh, and its $1 and $2
  faults,           \* the faults this environment shows
  cloned,           \* TPCH-sqlite/ exists
  workdb,           \* TPCH-sqlite/TPC-H.db, make's target
  sized,            \* TPCH-sqlite/TPC-H-<scale>.db
  tbl,              \* TPCH-sqlite/tpch-dbgen/*.tbl
  rootdb,           \* TPC-H.db beside main.sh, the one Nanos is given
  rootfs,           \* the database in unikraft/rootfs and the scale in its name
  queries,          \* how much of queries/ is in unikraft/rootfs
  ukimage,          \* the Unikraft image last built
  osvdata,          \* osv/unikernel/apps/sqlite/tpch-data/*.tbl
  osvimage,         \* the OSv image last built, and its test.db
  ukcsv, osvcsv,    \* power/*_<scale>_*.csv of the two legs that name the scale
  nanoscsv,         \* nanos/power/result.csv
  ukboot, osvboot   \* what the image of the last boot measurement carried

script   == <<pc, scale, test, faults>>
dataset  == <<cloned, workdb, sized, tbl, rootdb>>
unikraft == <<rootfs, queries, ukimage>>
osv      == <<osvdata, osvimage>>
reports  == <<ukcsv, osvcsv, nanoscsv, ukboot, osvboot>>
vars     == <<script, dataset, unikraft, osv, reports>>

Tests   == {"power", "boot"}
Content == Scales \cup {Absent, Torn, Shipped}
Report  == Content \cup {NoRows}
Labels  == {"idle", "dataset", "make1", "cproot", "mv", "rmtbl", "make2",
            "ukfs", "ukqueries", "ukbuild", "osvcopy", "osvbuild", "runuk",
            "runnanos", "osvload", "osvquery", "bootuk", "bootosv"}

(* The values the files and the script position of main.sh range over.        *)
TypeOK ==
  /\ pc \in Labels /\ scale \in Scales /\ test \in Tests
  /\ faults \in SUBSET FaultNames
  /\ cloned \in BOOLEAN
  /\ workdb \in Content /\ tbl \in Content /\ rootdb \in Content
  /\ sized \in [Scales -> Content]
  /\ rootfs \in [name : Scales \cup {Absent}, data : Content]
  /\ queries \in {"none", "some", "all"}
  /\ ukimage \in [test : Tests \cup {"none"}, data : Content, queries : {"none", "some", "all"}]
  /\ osvdata \in Content
  /\ osvimage \in [test : Tests \cup {"none"}, data : Content, db : Content]
  /\ ukcsv \in [Scales -> Report] /\ osvcsv \in [Scales -> Report]
  /\ nanoscsv \in Report /\ ukboot \in Report /\ osvboot \in Report

(* A fresh checkout: no generated file, the OSv tables that are checked in. *)
Init ==
  /\ pc = "idle" /\ scale \in Scales /\ test \in Tests
  /\ faults \in FaultModels
  /\ cloned = FALSE
  /\ workdb = Absent /\ tbl = Absent /\ rootdb = Absent
  /\ sized = [s \in Scales |-> Absent]
  /\ rootfs = [name |-> Absent, data |-> Absent]
  /\ queries = "none"
  /\ ukimage = [test |-> "none", data |-> Absent, queries |-> "none"]
  /\ osvdata = Shipped
  /\ osvimage = [test |-> "none", data |-> Absent, db |-> Absent]
  /\ ukcsv = [s \in Scales |-> NoRows] /\ osvcsv = [s \in Scales |-> NoRows]
  /\ nanoscsv = NoRows /\ ukboot = NoRows /\ osvboot = NoRows

At(l)   == pc = l
Goto(l) == pc' = l /\ UNCHANGED <<scale, test, faults>>

(* What `cp src dst` may leave in dst, which held old. *)
Copied(src, old) ==
  IF src = Absent THEN {old}
  ELSE {src} \cup (IF "torn" \in faults THEN {Torn} ELSE {})

-----------------------------------------------------------------------------
(* The user starts an invocation. *)
Start(s, t) ==
  /\ At("idle")
  /\ pc' = "dataset" /\ scale' = s /\ test' = t
  /\ UNCHANGED <<faults, dataset, unikraft, osv, reports>>

Clone ==
  /\ At("dataset") /\ ~cloned
  /\ cloned' = TRUE
  /\ Goto("make1")
  /\ UNCHANGED <<workdb, sized, tbl, rootdb, unikraft, osv, reports>>

(* The `cd TPCH-sqlite` after a failed clone fails too, the `cd ..` then      *)
(* leaves the repository and no later command finds its directory.            *)
CloneFails ==
  /\ At("dataset") /\ ~cloned /\ "clone" \in faults
  /\ Goto("idle")
  /\ UNCHANGED <<dataset, unikraft, osv, reports>>

(* Bug: the second call site of make also refreshes the root TPC-H.db.        *)
BugMakeAlwaysCopies ==
  /\ At("make1") \/ At("make2")
  /\ tbl' = scale /\ workdb' = scale
  /\ Goto("cproot")
  /\ UNCHANGED <<cloned, sized, rootdb, unikraft, osv, reports>>

(* make in TPCH-sqlite/: dbgen writes the .tbl files when there are none, and *)
(* TPC-H.db is rebuilt when it is older than they are.                        *)
MakeTables == IF tbl = Absent THEN scale ELSE tbl
MakeDb     == IF tbl = Absent \/ workdb = Absent THEN MakeTables ELSE workdb
Make ==
  /\ At("make1") \/ At("make2")
  /\ \/ tbl' = MakeTables /\ workdb' = MakeDb
     \/ "make" \in faults /\ tbl' \in {tbl, MakeTables} /\ UNCHANGED workdb
     \/ "torn" \in faults /\ tbl' = MakeTables /\ workdb' = Torn
  /\ Goto(IF pc = "make1" THEN "cproot" ELSE "mv")
  /\ UNCHANGED <<cloned, sized, rootdb, unikraft, osv, reports>>

CopyRoot ==
  /\ At("cproot")
  /\ rootdb' \in Copied(workdb, rootdb)
  /\ Goto("mv")
  /\ UNCHANGED <<cloned, workdb, sized, tbl, unikraft, osv, reports>>

MoveSized ==
  /\ At("mv")
  /\ sized' = IF workdb = Absent THEN sized ELSE [sized EXCEPT ![scale] = workdb]
  /\ workdb' = Absent
  /\ Goto("ukfs")
  /\ UNCHANGED <<cloned, tbl, rootdb, unikraft, osv, reports>>

NotCached ==
  /\ At("dataset") /\ cloned /\ sized[scale] = Absent
  /\ Goto("rmtbl")
  /\ UNCHANGED <<dataset, unikraft, osv, reports>>

RemoveTables ==
  /\ At("rmtbl")
  /\ tbl' = Absent
  /\ Goto("make2")
  /\ UNCHANGED <<cloned, workdb, sized, rootdb, unikraft, osv, reports>>

Cached ==
  /\ At("dataset") /\ cloned /\ sized[scale] # Absent
  /\ Goto("ukfs")
  /\ UNCHANGED <<dataset, unikraft, osv, reports>>
-----------------------------------------------------------------------------
(* Bug: any database in rootfs/ passes for the wanted one.                    *)
BugKeepAnyDb ==
  /\ At("ukfs")
  /\ IF test = "power" /\ rootfs.name = Absent /\ sized[scale] # Absent
     THEN rootfs' = [name |-> scale, data |-> sized[scale]]
     ELSE UNCHANGED rootfs
  /\ Goto("ukqueries")
  /\ UNCHANGED <<dataset, queries, ukimage, osv, reports>>

(* Bug: the copy names every TPC-H-*.db of TPCH-sqlite/.                      *)
BugCopyEveryDb ==
  /\ At("ukfs")
  /\ rootfs' = [name |-> scale, data |-> sized]
  /\ Goto("ukqueries")
  /\ UNCHANGED <<dataset, queries, ukimage, osv, reports>>

(* unikraft/generate-kernel.sh.  The database of rootfs/ is kept when its     *)
(* name is the wanted one, else replaced; a boot build leaves it alone.       *)
UkFilesystem ==
  /\ At("ukfs")
  /\ \/ /\ test = "power" /\ rootfs.name # scale /\ sized[scale] # Absent
        /\ \E c \in Copied(sized[scale], Absent) : rootfs' = [name |-> scale, data |-> c]
     \/ /\ test = "power" /\ rootfs.name # scale /\ sized[scale] = Absent
        /\ rootfs' = [name |-> Absent, data |-> Absent]
     \/ /\ test = "boot" \/ rootfs.name = scale
        /\ UNCHANGED rootfs
  /\ Goto("ukqueries")
  /\ UNCHANGED <<dataset, queries, ukimage, osv, reports>>

(* query1.sql stands for all of them in the test that skips the copy.         *)
UkQueries ==
  /\ At("ukqueries")
  /\ \/ test = "power" /\ queries = "none"
        /\ queries' \in {"all"} \cup (IF "torn" \in faults THEN {"some"} ELSE {})
     \/ test = "power" /\ queries # "none" /\ UNCHANGED queries
     \/ test = "boot" /\ queries' = "none"
  /\ Goto("ukbuild")
  /\ UNCHANGED <<dataset, rootfs, ukimage, osv, reports>>

(* The Kraftfile embeds rootfs/ whatever the test.                            *)
UkBuild ==
  /\ At("ukbuild")
  /\ \/ ukimage' = [test |-> test, data |-> rootfs.data, queries |-> queries]
     \/ "build" \in faults /\ UNCHANGED ukimage
  /\ Goto(IF test = "power" THEN "osvcopy" ELSE "osvbuild")
  /\ UNCHANGED <<dataset, rootfs, queries, osv, reports>>

(* osv/generate-kernel.sh.  The tables are those of the last dbgen run.       *)
OsvCopy ==
  /\ At("osvcopy")
  /\ osvdata' \in Copied(tbl, osvdata)
  /\ Goto("osvbuild")
  /\ UNCHANGED <<dataset, unikraft, osvimage, reports>>

(* Bug: the manifest of the power test is kept for the boot test.             *)
BugKeepManifest ==
  /\ At("osvbuild")
  /\ osvimage' = [test |-> test, db |-> Absent, data |-> osvdata]
  /\ Goto(IF test = "power" THEN "runuk" ELSE "bootuk")
  /\ UNCHANGED <<dataset, unikraft, osvdata, reports>>

(* usr.manifest lists the tables for the power test only; a build makes a new *)
(* file system, without a test.db.                                            *)
OsvBuild ==
  /\ At("osvbuild")
  /\ \/ osvimage' = [test |-> test, db |-> Absent,
                     data |-> IF test = "power" THEN osvdata ELSE Absent]
     \/ "build" \in faults /\ UNCHANGED osvimage
  /\ Goto(IF test = "power" THEN "runuk" ELSE "bootuk")
  /\ UNCHANGED <<dataset, unikraft, osvdata, reports>>
-----------------------------------------------------------------------------
(* unikraft/benchmark.py: without a power image there is no "Run Time" line   *)
(* and the script dies after the header; with query files missing the times   *)
(* are those of other queries.                                                *)
RunUnikraft ==
  /\ At("runuk")
  /\ ukcsv' = [ukcsv EXCEPT ![scale] =
                 CASE ukimage.test # "power"   -> NoRows
                   [] ukimage.queries = "some" -> Torn
                   [] OTHER                    -> ukimage.data]
  /\ Goto("runnanos")
  /\ UNCHANGED <<dataset, unikraft, osv, osvcsv, nanoscsv, ukboot, osvboot>>

(* nanos/benchmark.sh: ops refuses a configuration whose file is missing.     *)
RunNanos ==
  /\ At("runnanos")
  /\ nanoscsv' = IF rootdb = Absent THEN NoRows ELSE rootdb
  /\ Goto("osvload")
  /\ UNCHANGED <<dataset, unikraft, osv, ukcsv, osvcsv, ukboot, osvboot>>

(* osv/benchmark.sh imports the image's tables; the primary keys of the DDL   *)
(* refuse rows a test.db already has.                                         *)
OsvLoad ==
  /\ At("osvload")
  /\ osvimage' = IF osvimage.db = Absent
                 THEN [osvimage EXCEPT !.db = osvimage.data] ELSE osvimage
  /\ Goto("osvquery")
  /\ UNCHANGED <<dataset, unikraft, osvdata, reports>>

(* An image without query files prints no times: the report has no rows.      *)
OsvQuery ==
  /\ At("osvquery")
  /\ osvcsv' = [osvcsv EXCEPT ![scale] =
                  IF osvimage.test = "power" THEN osvimage.db ELSE NoRows]
  /\ Goto("idle")
  /\ UNCHANGED <<dataset, unikraft, osv, ukcsv, nanoscsv, ukboot, osvboot>>

(* The boot test; its Nanos leg neither reads nor writes a database.          *)
BootUnikraft ==
  /\ At("bootuk")
  /\ ukboot' = IF ukimage.test = "none" THEN NoRows ELSE ukimage.data
  /\ Goto("bootosv")
  /\ UNCHANGED <<dataset, unikraft, osv, ukcsv, osvcsv, nanoscsv, osvboot>>

BootOsv ==
  /\ At("bootosv")
  /\ osvboot' = IF osvimage.test = "none" THEN NoRows ELSE osvimage.data
  /\ Goto("idle")
  /\ UNCHANGED <<dataset, unikraft, osv, ukcsv, osvcsv, nanoscsv, ukboot>>

(* Ctrl-C ends main.sh and the script it is waiting for.                      *)
Kill ==
  /\ ~At("idle") /\ "kill" \in faults
  /\ Goto("idle")
  /\ UNCHANGED <<dataset, unikraft, osv, reports>>

Next ==
  \/ \E s \in Scales, t \in Tests : Start(s, t)
  \/ Clone \/ CloneFails \/ Make \/ CopyRoot \/ MoveSized
  \/ NotCached \/ RemoveTables \/ Cached
  \/ UkFilesystem \/ UkQueries \/ UkBuild \/ OsvCopy \/ OsvBuild
  \/ RunUnikraft \/ RunNanos \/ OsvLoad \/ OsvQuery
  \/ BootUnikraft \/ BootOsv
  \/ Kill

Spec == Init /\ [][Next]_vars
-----------------------------------------------------------------------------
(* The faults main.sh absorbs as far as the Unikraft leg is concerned: any    *)
(* but a torn file or a failed build, and not an interruption of one run      *)
(* followed by a failing make in another.                                     *)
Tolerated ==
  /\ "torn" \notin faults /\ "build" \notin faults
  /\ ~({"kill", "make"} \subseteq faults)

(* The rows of power/unikraft_<s>_*.csv were never timed on another scale's   *)
(* database, whatever scales were asked for before and wherever earlier       *)
(* invocations stopped (main.sh:18-39, unikraft/generate-kernel.sh:14-17:     *)
(* every cached file on the way is found by a name that carries the scale).   *)
UnikraftLabel ==
  Tolerated => \A s \in Scales : ukcsv[s] \in {NoRows, Absent, s}

(* Nanos measures the TPC-H.db beside main.sh, and no later invocation        *)
(* replaces that file: the rows of result.csv are those of the database that  *)
(* is there now, however many scales were asked for in between (main.sh:23 is *)
(* reached only by the invocation that clones, nanos/benchmark.sh:15).        *)
NanosPinned == nanoscsv \in {NoRows, rootdb}

(* A boot measurement of OSv never runs an image with tables in it, whatever  *)
(* power test came before it (osv/generate-kernel.sh:100: "build the image    *)
(* without including any data files").                                        *)
OsvBootClean == "build" \notin faults => osvboot \in {NoRows, Absent}

(* What osv/README.md:47 promises of every run: the data files of the asked   *)
(* scale are available, so that OSv's rows are of that scale.                 *)
OsvLabel == \A s \in Scales : osvcsv[s] \in {NoRows, s}
=============================================================================
