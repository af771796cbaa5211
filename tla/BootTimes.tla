----------------------------- MODULE BootTimes ------------------------------
(***************************************************************************)
(* osv/boot/: the two boot measurements of OSv.  Both boot the image two   *)
(* times to warm up and then once per iteration, append what is printed to *)
(* temporary.txt, let clean-boot-time.py turn the file into boot-times.csv *)
(* without the warm-up boots, remove the file and copy the report.         *)
(*                                                                         *)
(*   "builtin"  built-in-timer/: the kernel prints "Booted up in", and the *)
(*              script numbers these lines                                 *)
(*   "sqlite"   bash-sqlite-timer/: the script writes a "Current Time"     *)
(*              line before each boot, the guest prints its own clock, and *)
(*              the Python script numbers the former                       *)
(*                                                                         *)
(* A line is its kind and the boot it belongs to.  Faults: "crash" - a     *)
(* boot dies before its line is printed; "kill" - Ctrl-C.                  *)
(***************************************************************************)
EXTENDS Naturals, Sequences

CONSTANTS Iterations, MaxRuns,
          FaultModels  \* the sets of faults to consider

WarmUps == 2

FaultNames == {"crash", "kill"}

ASSUME BootTimesAssumption ==
  /\ Iterations \in Nat \ {0} /\ MaxRuns \in Nat
  /\ FaultModels \subseteq SUBSET FaultNames

VARIABLES
  timer,       \* which of the two measurements is used
  faults,      \* the faults this environment shows
  pc, run,
  boot,        \* boots of this invocation so far, warm-up boots included
  tmp,         \* temporary.txt
  pos,         \* lines of tmp that clean-boot-time.py has read
  iteration,   \* its counter
  current,     \* the boots of its current_time_list ("sqlite")
  bootcsv,     \* boot-times.csv
  result       \* ../osv_boot-time.csv

python == <<pos, iteration, current>>
vars   == <<timer, faults, pc, run, boot, tmp, python, bootcsv, result>>

Boot(r, b)      == [run |-> r, boot |-> b]
Line(kind, b)   == [kind |-> kind, of |-> Boot(run, b)]
Boots           == [run : Nat, boot : Nat]
(* A row: its number, the boot that ended and the boot whose start was taken. *)
Row(nr, to, at) == [itr |-> nr, end |-> to, start |-> at]

(* The scripts' positions and counters, the temporary file and the reports.   *)
TypeOK ==
  /\ timer \in {"builtin", "sqlite"} /\ faults \in SUBSET FaultNames
  /\ pc \in {"idle", "boot", "running", "clean", "rm", "cp"} /\ run \in Nat /\ boot \in Nat
  /\ tmp \in Seq([kind : {"start", "booted"}, of : Boots])
  /\ pos \in Nat /\ iteration \in Nat /\ current \in Seq(Boots)
  /\ bootcsv \in Seq([itr : Nat, end : Boots, start : Boots])
  /\ result \in Seq([itr : Nat, end : Boots, start : Boots])

Init ==
  /\ timer \in {"builtin", "sqlite"} /\ faults \in FaultModels
  /\ pc = "idle" /\ run = 0 /\ boot = 0 /\ tmp = <<>>
  /\ pos = 0 /\ iteration = 0 /\ current = <<>>
  /\ bootcsv = <<>> /\ result = <<>>
-----------------------------------------------------------------------------
Start ==
  /\ pc = "idle" /\ run < MaxRuns
  /\ run' = run + 1 /\ boot' = 0 /\ pc' = "boot"
  /\ UNCHANGED <<timer, faults, tmp, python, bootcsv, result>>

(* Both loops, the warm-up and the measured one.                              *)
StartBoot ==
  /\ pc = "boot" /\ boot < WarmUps + Iterations
  /\ boot' = boot + 1 /\ pc' = "running"
  /\ tmp' = IF timer = "sqlite" THEN Append(tmp, Line("start", boot + 1)) ELSE tmp
  /\ UNCHANGED <<timer, faults, run, python, bootcsv, result>>

GuestPrints ==
  /\ pc = "running" /\ pc' = "boot"
  /\ tmp' = Append(tmp, Line("booted", boot))
  /\ UNCHANGED <<timer, faults, run, boot, python, bootcsv, result>>

GuestDies ==
  /\ pc = "running" /\ "crash" \in faults /\ pc' = "boot"
  /\ UNCHANGED <<timer, faults, run, boot, tmp, python, bootcsv, result>>
(* clean-boot-time.py opens the report with mode 'w'.                         *)
StartClean ==
  /\ pc = "boot" /\ boot = WarmUps + Iterations
  /\ pc' = "clean" /\ pos' = 0 /\ iteration' = 0 /\ current' = <<>> /\ bootcsv' = <<>>
  /\ UNCHANGED <<timer, faults, run, boot, tmp, result>>

CleanStartLine ==
  /\ pc = "clean" /\ pos < Len(tmp) /\ tmp[pos + 1].kind = "start"
  /\ iteration' = iteration + 1 /\ current' = Append(current, tmp[pos + 1].of)
  /\ pos' = pos + 1
  /\ UNCHANGED <<timer, faults, pc, run, boot, tmp, bootcsv, result>>
(* Bug: only the first warm-up boot is left out.                              *)
BugOneWarmUp ==
  /\ pc = "clean" /\ pos < Len(tmp) /\ tmp[pos + 1].kind = "booted"
  /\ iteration' = iteration + 1
  /\ bootcsv' = IF iteration' = 1 THEN bootcsv
                ELSE Append(bootcsv, Row(iteration' - 1, tmp[pos + 1].of, tmp[pos + 1].of))
  /\ pos' = pos + 1
  /\ UNCHANGED <<timer, faults, pc, run, boot, tmp, current, result>>

(* Bug: the n-th guest clock is paired with the n-th host clock.              *)
BugPairByCount ==
  /\ pc = "clean" /\ pos < Len(tmp) /\ tmp[pos + 1].kind = "booted"
  /\ LET nth == Len(SelectSeq(SubSeq(tmp, 1, pos + 1), LAMBDA l : l.kind = "booted")) IN
       bootcsv' = IF iteration >= WarmUps + 1
                  THEN Append(bootcsv, Row(iteration - WarmUps, tmp[pos + 1].of, current[nth]))
                  ELSE bootcsv
  /\ pos' = pos + 1
  /\ UNCHANGED <<timer, faults, pc, run, boot, tmp, iteration, current, result>>

CleanBootedLine ==
  /\ pc = "clean" /\ pos < Len(tmp) /\ tmp[pos + 1].kind = "booted"
  /\ LET b == tmp[pos + 1].of IN
       IF timer = "builtin"
       THEN /\ iteration' = iteration + 1
            /\ bootcsv' = IF iteration' \in 1..WarmUps THEN bootcsv
                          ELSE Append(bootcsv, Row(iteration' - WarmUps, b, b))
       ELSE /\ iteration' = iteration
            /\ bootcsv' = IF iteration >= WarmUps + 1
                          THEN Append(bootcsv, Row(iteration - WarmUps, b, current[Len(current)]))
                          ELSE bootcsv
  /\ pos' = pos + 1
  /\ UNCHANGED <<timer, faults, pc, run, boot, tmp, current, result>>

CleanEnds ==
  /\ pc = "clean" /\ pos = Len(tmp) /\ pc' = "rm"
  /\ UNCHANGED <<timer, faults, run, boot, tmp, python, bootcsv, result>>
(* Bug: temporary.txt stays.                                                  *)
BugKeepTmp ==
  /\ pc = "rm" /\ pc' = "cp"
  /\ UNCHANGED <<timer, faults, run, boot, tmp, python, bootcsv, result>>

RemoveTmp ==
  /\ pc = "rm" /\ tmp' = <<>> /\ pc' = "cp"
  /\ UNCHANGED <<timer, faults, run, boot, python, bootcsv, result>>

CopyReport ==
  /\ pc = "cp" /\ result' = bootcsv /\ pc' = "idle"
  /\ UNCHANGED <<timer, faults, run, boot, tmp, python, bootcsv>>

Kill ==
  /\ pc # "idle" /\ "kill" \in faults /\ pc' = "idle"
  /\ UNCHANGED <<timer, faults, run, boot, tmp, python, bootcsv, result>>

Next ==
  \/ Start \/ StartBoot \/ GuestPrints \/ GuestDies
  \/ StartClean \/ CleanStartLine \/ CleanBootedLine \/ CleanEnds
  \/ RemoveTmp \/ CopyReport \/ Kill

Spec == Init /\ [][Next]_vars
-----------------------------------------------------------------------------
(* Unless an invocation is interrupted, row j of the report is measured boot  *)
(* j of one invocation: no warm-up boot, no boot of another invocation and no *)
(* boot in the place of one that died (bash-sqlite-timer/clean-boot-time.py:  *)
(* 30-45; with the built-in timer only when no boot dies).                    *)
RowsOwn ==
  "kill" \notin faults /\ (timer = "sqlite" \/ faults = {}) =>
  \E r \in 0..run : \A n \in DOMAIN result :
    result[n].end = Boot(r, result[n].itr + WarmUps)

(* The clock taken before a boot is only ever subtracted from the clock of    *)
(* the same boot, even when boots die, invocations are stopped and their      *)
(* lines are still in the file (bash-sqlite-timer/clean-boot-time.py:34-43).  *)
SameBoot == \A n \in DOMAIN result : result[n].start = result[n].end

(* The built-in timer numbers the boots that succeed: rows are in boot order, *)
(* and none is of a warm-up boot, even when boots die                         *)
(* (built-in-timer/clean-boot-time.py:29-42).                                 *)
InOrderAfterWarmUp ==
  timer = "builtin" /\ "kill" \notin faults =>
  \A n \in DOMAIN result :
    /\ result[n].itr = n /\ result[n].end.boot > WarmUps
    /\ n > 1 => result[n - 1].end.boot < result[n].end.boot
=============================================================================
