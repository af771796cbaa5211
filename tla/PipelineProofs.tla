--------------------------- MODULE PipelineProofs ---------------------------
(***************************************************************************)
(* Proofs about module Pipeline, for any set of scale factors and any      *)
(* combination of faults.                                                  *)
(***************************************************************************)
EXTENDS Pipeline, TLAPS

USE DEF At, Goto

(* Nothing is there but what the repository ships.                            *)
LEMMA TypeInit == Init => TypeOK
<1> SUFFICES ASSUME Init PROVE TypeOK
    OBVIOUS
<1>1. faults \in SUBSET FaultNames
      BY FaultModelsAssumption DEF Init
<1>2. Absent \in Content /\ Shipped \in Content /\ NoRows \in Report /\ Content \subseteq Report
      BY DEF Content, Report
<1>3. /\ pc \in Labels /\ cloned \in BOOLEAN
      /\ workdb \in Content /\ tbl \in Content /\ rootdb \in Content /\ osvdata \in Content
      /\ scale \in Scales /\ test \in Tests
      BY <1>2 DEF Init, Labels
<1>4. sized \in [Scales -> Content]
      BY <1>2 DEF Init
<1>5. /\ rootfs \in [name : Scales \cup {Absent}, data : Content]
      /\ queries \in {"none", "some", "all"}
      /\ ukimage \in [test : Tests \cup {"none"}, data : Content, queries : {"none", "some", "all"}]
      /\ osvimage \in [test : Tests \cup {"none"}, data : Content, db : Content]
      BY <1>2 DEF Init
<1>6. /\ ukcsv \in [Scales -> Report] /\ osvcsv \in [Scales -> Report]
      /\ nanoscsv \in Report /\ ukboot \in Report /\ osvboot \in Report
      BY <1>2 DEF Init
<1> QED BY <1>1, <1>3, <1>4, <1>5, <1>6 DEF TypeOK

(* A copy is a file.                                                          *)
LEMMA CopiedType ==
  ASSUME TypeOK, NEW src \in Content, NEW old \in Content
  PROVE  Copied(src, old) \subseteq Content
BY DEF Copied, Content

(* Every command leaves files and positions of the declared kinds.            *)
LEMMA TypeNext == TypeOK /\ [Next]_vars => TypeOK'
<1> SUFFICES ASSUME TypeOK, [Next]_vars PROVE TypeOK'
    OBVIOUS
<1> USE DEF TypeOK, Labels, Tests, Report, vars, script, dataset, unikraft, osv, reports
<1>1. ASSUME NEW s \in Scales, NEW t \in Tests, Start(s, t) PROVE TypeOK'
      BY <1>1 DEF Start
<1>2. CASE Clone
      BY <1>2 DEF Clone
<1>3. CASE CloneFails
      BY <1>3 DEF CloneFails
<1>4. CASE Make
      BY <1>4 DEF Make, MakeTables, MakeDb, Content
<1>5. CASE CopyRoot
      BY <1>5, CopiedType DEF CopyRoot
<1>6. CASE MoveSized
      BY <1>6 DEF MoveSized, Content
<1>7. CASE NotCached
      BY <1>7 DEF NotCached
<1>8. CASE RemoveTables
      BY <1>8 DEF RemoveTables, Content
<1>9. CASE Cached
      BY <1>9 DEF Cached
<1>10. CASE UkFilesystem
  <2>1. rootfs' \in [name : Scales \cup {Absent}, data : Content]
    <3>1. CASE test = "power" /\ rootfs.name # scale /\ sized[scale] # Absent
      <4>1. PICK c \in Copied(sized[scale], Absent) : rootfs' = [name |-> scale, data |-> c]
            BY <1>10, <3>1 DEF UkFilesystem
      <4>2. c \in Content
            BY CopiedType, <4>1, sized[scale] \in Content, Absent \in Content DEF Content
      <4> QED BY <4>1, <4>2
    <3>2. CASE rootfs' = [name |-> Absent, data |-> Absent]
          BY <3>2 DEF Content
    <3>3. CASE UNCHANGED rootfs
          BY <3>3
    <3> QED BY <1>10, <3>1, <3>2, <3>3 DEF UkFilesystem
  <2> QED BY <1>10, <2>1 DEF UkFilesystem
<1>11. CASE UkQueries
       BY <1>11 DEF UkQueries
<1>12. CASE UkBuild
       BY <1>12 DEF UkBuild
<1>13. CASE OsvCopy
       BY <1>13, CopiedType DEF OsvCopy
<1>14. CASE OsvBuild
       BY <1>14 DEF OsvBuild, Content
<1>15. CASE RunUnikraft
       BY <1>15 DEF RunUnikraft, Content
<1>16. CASE RunNanos
       BY <1>16 DEF RunNanos
<1>17. CASE OsvLoad
       BY <1>17 DEF OsvLoad
<1>18. CASE OsvQuery
       BY <1>18 DEF OsvQuery
<1>19. CASE BootUnikraft
       BY <1>19 DEF BootUnikraft
<1>20. CASE BootOsv
       BY <1>20 DEF BootOsv
<1>21. CASE Kill
       BY <1>21 DEF Kill
<1>22. CASE UNCHANGED vars
       BY <1>22
<1> QED
    BY <1>1, <1>2, <1>3, <1>4, <1>5, <1>6, <1>7, <1>8, <1>9, <1>10, <1>11, <1>12,
       <1>13, <1>14, <1>15, <1>16, <1>17, <1>18, <1>19, <1>20, <1>21, <1>22 DEF Next

(* Type correctness of the pipeline: whatever scales are asked for and        *)
(* whatever fails, every file of main.sh holds data of one of its kinds.      *)
THEOREM TypeCorrect == Spec => []TypeOK
BY TypeInit, TypeNext, PTL DEF Spec
-----------------------------------------------------------------------------
(***************************************************************************)
(* Why the Unikraft rows have the scale of their name.  Every file on the  *)
(* way from dbgen to the report is found by a name with the scale in it,   *)
(* except TPCH-sqlite/TPC-H.db: an interrupted invocation leaves it for    *)
(* the next one, of another scale.  UkInv follows the data along the way.  *)
(***************************************************************************)
(* make's own files: the tables are gone before each make, and a TPC-H.db     *)
(* that is still there is either this invocation's or will be rebuilt.        *)
MakeInv ==
  /\ pc \in {"make1", "cproot", "mv", "rmtbl", "make2"} => cloned
  /\ ~cloned => tbl = Absent /\ workdb = Absent
  /\ pc \in {"make1", "make2"} => tbl = Absent
  /\ pc \in {"cproot", "mv"} => workdb \in {Absent, scale}
  /\ "kill" \notin faults /\ pc \notin {"cproot", "mv"} => workdb = Absent

(* The files named after a scale hold that scale's data or are not there.     *)
NamedInv ==
  /\ \A s \in Scales : sized[s] \in {Absent, s}
  /\ rootfs.data = rootfs.name
  /\ queries # "some"

(* From unikraft/generate-kernel.sh on, the image is being made, then is, the *)
(* one of this invocation.                                                    *)
ImageInv ==
  /\ pc \in {"ukqueries", "ukbuild"} /\ test = "power" => rootfs.name \in {Absent, scale}
  /\ pc \in {"osvcopy", "runuk"} => test = "power"
  /\ pc \in {"osvcopy", "osvbuild", "runuk"} /\ test = "power" =>
       ukimage.test = "power" /\ ukimage.queries # "some" /\ ukimage.data \in {Absent, scale}

ReportInv == \A s \in Scales : ukcsv[s] \in {NoRows, Absent, s}

UkInv == Tolerated => MakeInv /\ NamedInv /\ ImageInv /\ ReportInv

(* There is no report yet.                                                    *)
LEMMA UkInit == Init => UkInv
BY ScalesAssumption DEF Init, UkInv, MakeInv, NamedInv, ImageInv, ReportInv

(* Every command keeps UkInv.                                                 *)
LEMMA UkNext == TypeOK /\ UkInv /\ [Next]_vars => UkInv'
<1> SUFFICES ASSUME TypeOK, UkInv, [Next]_vars PROVE UkInv'
    OBVIOUS
<1> USE ScalesAssumption DEF UkInv, MakeInv, NamedInv, ImageInv, ReportInv, Tolerated,
        TypeOK, vars, script, dataset, unikraft, osv, reports
<1>1. ASSUME NEW s \in Scales, NEW t \in Tests, Start(s, t) PROVE UkInv'
      BY <1>1 DEF Start
<1>2. CASE Clone
      BY <1>2 DEF Clone
<1>3. CASE CloneFails
      BY <1>3 DEF CloneFails
<1>4. CASE Make
      BY <1>4 DEF Make, MakeTables, MakeDb
<1>5. CASE CopyRoot
      BY <1>5 DEF CopyRoot
<1>6. CASE MoveSized
      BY <1>6 DEF MoveSized
<1>7. CASE NotCached
      BY <1>7 DEF NotCached
<1>8. CASE RemoveTables
      BY <1>8 DEF RemoveTables
<1>9. CASE Cached
      BY <1>9 DEF Cached
<1>10. CASE UkFilesystem
       BY <1>10 DEF UkFilesystem, Copied
<1>11. CASE UkQueries
       BY <1>11 DEF UkQueries
<1>12. CASE UkBuild
       BY <1>12 DEF UkBuild
<1>13. CASE OsvCopy
       BY <1>13 DEF OsvCopy
<1>14. CASE OsvBuild
       BY <1>14 DEF OsvBuild
<1>15. CASE RunUnikraft
       BY <1>15 DEF RunUnikraft
<1>16. CASE RunNanos
       BY <1>16 DEF RunNanos
<1>17. CASE OsvLoad
       BY <1>17 DEF OsvLoad
<1>18. CASE OsvQuery
       BY <1>18 DEF OsvQuery
<1>19. CASE BootUnikraft
       BY <1>19 DEF BootUnikraft
<1>20. CASE BootOsv
       BY <1>20 DEF BootOsv
<1>21. CASE Kill
       BY <1>21 DEF Kill
<1>22. CASE UNCHANGED vars
       BY <1>22
<1> QED
    BY <1>1, <1>2, <1>3, <1>4, <1>5, <1>6, <1>7, <1>8, <1>9, <1>10, <1>11, <1>12,
       <1>13, <1>14, <1>15, <1>16, <1>17, <1>18, <1>19, <1>20, <1>21, <1>22 DEF Next

(* For any scales and any order of invocations, tolerated failures and        *)
(* interruptions included, the rows of power/unikraft_<s>_*.csv were timed on *)
(* the database of scale s or on none (main.sh:18-39 and                      *)
(* unikraft/generate-kernel.sh:14-17).                                        *)
THEOREM UnikraftLabelled == Spec => []UnikraftLabel
<1>1. UkInv => UnikraftLabel
      BY DEF UkInv, ReportInv, UnikraftLabel
<1> QED BY <1>1, TypeCorrect, UkInit, UkNext, PTL DEF Spec
-----------------------------------------------------------------------------
(* TPC-H.db beside main.sh is written once, before Nanos has ever run: only   *)
(* Clone, CopyRoot and RunNanos touch what this says.                         *)
NanosInv ==
  /\ ~cloned => pc \in {"idle", "dataset"}
  /\ ~cloned \/ pc \in {"make1", "cproot"} => nanoscsv = NoRows
  /\ NanosPinned

(* Nanos has not run.                                                         *)
LEMMA NanosInit == Init => NanosInv
BY DEF Init, NanosInv, NanosPinned

(* Every command keeps NanosInv.                                              *)
LEMMA NanosNext == NanosInv /\ [Next]_vars => NanosInv'
<1> SUFFICES ASSUME NanosInv, [Next]_vars PROVE NanosInv'
    OBVIOUS
<1> USE DEF NanosInv, NanosPinned, vars, script, dataset, unikraft, osv, reports
<1>1. ASSUME NEW s \in Scales, NEW t \in Tests, Start(s, t) PROVE NanosInv'
      BY <1>1 DEF Start
<1>2. CASE Clone
      BY <1>2 DEF Clone
<1>3. CASE CopyRoot
      BY <1>3 DEF CopyRoot
<1>4. CASE RunNanos
      BY <1>4 DEF RunNanos
<1>5. CASE CloneFails \/ Make \/ MoveSized \/ NotCached \/ RemoveTables
      BY <1>5 DEF CloneFails, Make, MoveSized, NotCached, RemoveTables
<1>6. CASE Cached \/ UkFilesystem \/ UkQueries \/ UkBuild \/ OsvCopy
      BY <1>6 DEF Cached, UkFilesystem, UkQueries, UkBuild, OsvCopy
<1>7. CASE OsvBuild \/ RunUnikraft \/ OsvLoad \/ OsvQuery \/ BootUnikraft
      BY <1>7 DEF OsvBuild, RunUnikraft, OsvLoad, OsvQuery, BootUnikraft
<1>8. CASE BootOsv \/ Kill
      BY <1>8 DEF BootOsv, Kill
<1>9. CASE UNCHANGED vars
      BY <1>9
<1> QED
    BY <1>1, <1>2, <1>3, <1>4, <1>5, <1>6, <1>7, <1>8, <1>9 DEF Next

(* For any scales and any faults, Nanos's rows are those of the TPC-H.db that *)
(* is beside main.sh now: no invocation after the first one that clones       *)
(* replaces it (main.sh:23, nanos/benchmark.sh:15).                           *)
THEOREM NanosStaysPinned == Spec => []NanosPinned
<1>1. NanosInv => NanosPinned
      BY DEF NanosInv
<1> QED BY <1>1, NanosInit, NanosNext, PTL DEF Spec
-----------------------------------------------------------------------------
(* A boot measurement is preceded, in its own invocation, by a boot build.    *)
BootInv ==
  "build" \notin faults =>
    /\ pc \in {"bootuk", "bootosv"} => osvimage.data = Absent
    /\ osvboot \in {NoRows, Absent}

(* There was no boot measurement yet.                                         *)
LEMMA BootInit == Init => BootInv
BY DEF Init, BootInv

(* Every command keeps BootInv.                                               *)
LEMMA BootNext == TypeOK /\ BootInv /\ [Next]_vars => BootInv'
<1> SUFFICES ASSUME TypeOK, BootInv, [Next]_vars PROVE BootInv'
    OBVIOUS
<1> USE DEF BootInv, TypeOK, Tests, vars, script, dataset, unikraft, osv, reports
<1>1. ASSUME NEW s \in Scales, NEW t \in Tests, Start(s, t) PROVE BootInv'
      BY <1>1 DEF Start
<1>2. CASE OsvBuild
      BY <1>2 DEF OsvBuild
<1>3. CASE OsvLoad
      BY <1>3 DEF OsvLoad
<1>4. CASE BootUnikraft
      BY <1>4 DEF BootUnikraft
<1>5. CASE BootOsv
      BY <1>5 DEF BootOsv
<1>6. CASE Clone \/ CloneFails \/ Make \/ CopyRoot \/ MoveSized
      BY <1>6 DEF Clone, CloneFails, Make, CopyRoot, MoveSized
<1>7. CASE NotCached \/ RemoveTables \/ Cached \/ UkFilesystem \/ UkQueries
      BY <1>7 DEF NotCached, RemoveTables, Cached, UkFilesystem, UkQueries
<1>8. CASE UkBuild \/ OsvCopy \/ RunUnikraft \/ RunNanos \/ OsvQuery
      BY <1>8 DEF UkBuild, OsvCopy, RunUnikraft, RunNanos, OsvQuery
<1>9. CASE Kill
      BY <1>9 DEF Kill
<1>10. CASE UNCHANGED vars
      BY <1>10
<1> QED
    BY <1>1, <1>2, <1>3, <1>4, <1>5, <1>6, <1>7, <1>8, <1>9, <1>10 DEF Next

(* For any scales and any history of power tests, a boot measurement of OSv   *)
(* whose builds succeed ran an image without tables                           *)
(* (osv/generate-kernel.sh:100).                                              *)
THEOREM OsvBootsClean == Spec => []OsvBootClean
<1>1. BootInv => OsvBootClean
      BY DEF BootInv, OsvBootClean
<1> QED BY <1>1, TypeCorrect, BootInit, BootNext, PTL DEF Spec
=============================================================================
