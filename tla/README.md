# Verification of the SQLite-on-unikernels benchmark

TLA+ models of two layers of this repository:

* the **benchmark harness**: `main.sh`, the scripts that build and run the Unikraft, OSv and Nanos images, the scripts that
  turn console output into reports, and the C program that runs the queries;
* the **synchronisation of the OSv guest** under `osv/unikernel`, which every SQLite run on OSv rests on: the lock-free mutex,
  the condition variable, the rwlock with its waitqueues, and RCU.

SQLite, TPCH-sqlite, kraft and ops are modelled only through what the harness does with them.

The harness is a set of sequential programs that share **files**. What is hard about it is what the files hold when a program
starts: files of another scale factor, of an interrupted invocation, of a guest that died, of a step that failed while the
script went on (no script uses `set -e`). The kernel code is the opposite: little data, and **interleavings** of atomic accesses, wake-ups
and timers that no test can order.

## 1. The system

| Part | Source | State it keeps | Operations | Module |
|---|---|---|---|---|
| Orchestration and image builds | `main.sh`, `unikraft/generate-kernel.sh`, `osv/generate-kernel.sh`, `nanos/benchmark.sh` | the data set (`TPCH-sqlite/`, root `TPC-H.db`), `unikraft/rootfs/`, OSv's `tpch-data/` and manifest, the images, the reports | clone, make, copy, move, build, run | `Pipeline` |
| OSv power test | `osv/benchmark.sh`, `osv/power/clean-queries-time.py` | `temporary.txt`, the guest's `test.db`, the report | boot, statement, extract, save, rm | `OsvPower` |
| Unikraft power test | `unikraft/benchmark.py` | the report | boot, statement, fold, write | `UnikraftPower` |
| C query runner | `main()` in `baremetal/main.c`, `nanos/main.c`, `docker/main.c` | the database, the stdout buffer, `result.csv` | open, exec, print, flush | `PowerTest` |
| C table loader | `createTables`, `loadTables`, `preLoadTables` | `database_<i>.db`, a transaction | create, insert, commit, remove | `TableLoad` |
| C refresh functions | `refreshRF1`, `refreshRF2` | the database, a transaction | insert, delete, commit | `RefreshAtomic`, `Refresh` |
| OSv boot measurements | `osv/boot/bash-sqlite-timer/`, `osv/boot/built-in-timer/` | `temporary.txt`, two reports | boot, clean, rm, cp | `BootTimes` |
| OSv mutex | `core/lfmutex.cc`, `include/lockfree/` | count, owner, depth, handoff, a push list and a pop list | lock, try_lock, unlock, send_lock, send_lock_unless_already_waiting, receive_lock | `Mutex`, `LfMutex` |
| OSv condition variable | `core/condvar.cc` | a list of records on the waiters' stacks, the saved user mutex | wait, wake_one, wake_all | `Condvar` |
| OSv rwlock, waitqueue | `core/rwlock.cc`, `core/waitqueue.cc` | readers, owner, recursion, two waitqueues | rlock, wlock, their try forms and releases, try_upgrade, downgrade | `RwLock` |
| OSv RCU | `core/rcu.cc`, `include/osv/rcu.hh` | per CPU a double buffer of callbacks, a generation, a request | read sections, rcu_defer, rcu_synchronize, the rcu threads | `Rcu` |

How they interact: `main.sh` starts everything else in the harness, one program at a time, and hands over
through files. The three C programs share the root `TPC-H.db`: the bare-metal runner opens it in place,
Nanos and Docker work on copies. The loader and the refresh functions are compiled into the C
programs; their calls in `main()` are commented out at this revision. In the guest, condvar and waitqueue do not wake a sleeper
but put its record into the queue of the mutex ("wait morphing"), so the correctness of both is that of the mutex's `send_lock`;
the rwlock is built on the mutex and two waitqueues; waking a thread at all happens in an RCU read section.

The properties that make the parts correct: a report named after a scale factor is of that
scale; each row of a report is the time of the query, iteration and invocation it stands for;
a database only ever holds whole loads and whole refreshes; what an interruption leaves behind
does not change later results, or, where it does, how far the damage goes. For the guest: one holder at a time, a record is
never left in a list when its stack frame is gone, a wake-up is neither lost nor received without the lock, callbacks run after every section that
may use their object, and nobody sleeps for ever.

## 2. Modules

Each module lists its state with the file or field it stands for, and has one action per
command, handler, loop step or atomic access of the source; `PROJECT.json` maps every definition to lines.

The harness:

* `Pipeline` - `main.sh` with both `generate-kernel.sh` and the legs of the two tests. A file is
  represented by the scale factor of the data in it (or `Absent`, `Torn`, `Shipped`), a report by the data it was
  measured on. `faults` is chosen once per behaviour: `clone`, `make`, `build` (the command fails and the
  script goes on), `torn` (a copy is cut short), `kill` (Ctrl-C between two commands).
  `tables/`, which `main.sh:24` fills, is not modelled: no enabled code reads it. It is assumed to exist,
  although it is not checked in.
* `Queries` - the query files: one statement each, query 15 three (create view, select, drop view). A run time is the **set
  of statement executions it sums**, so that equal times are the same measurement.
* `PowerReport` - the abstract specification of a power test: an iteration adds exactly one row for each query
  its guest finished, with the time of that query.
* `PowerLoop`, `OsvPower`, `UnikraftPower` - what the two console-scraping power tests share, and the two; both are shown to implement `PowerReport`.
* `MainLoop` - what the models of `main.c` share: runs, iterations and the faults that can occur.
* `PowerTest` - the C runner, a database or a query file that cannot be opened included; of the database only the view `revenue0` is kept.
* `TableLoad` - the loader, also when a `database_<i>.db` cannot be opened, with `strtok` (empty fields are lost, the newline after the last bar is a token) as `Tokens` and `Values`.
  The files are assumed to be `dbgen`'s (`DbgenLines`): all the fields of the table in each line, none of them empty, and at least two lines.
* `RefreshAtomic`, `Refresh` - refreshes as single steps, and line by line in a transaction. A table is a bag (the number of rows with each
  key): `createTables` declares no primary keys, so a refresh that is repeated after an interrupted run adds its rows a second time. Rows that are not from a refresh
  file are left out: no statement of the two functions depends on them.
* `BootTimes` - both OSv boot timers.

The guest:

* `Mutex` - the abstract specification: acquired only when free, free between two holders.
* `LfMutex` - `lockfree::mutex` with each atomic access as an action and `queue_mpsc` inside it. A thread's `pc` is the next access;
  `armed` are the wait records whose `thread` is not cleared. The two users that hand the mutex to sleepers are reduced to
  their waits: `cv` (condvar: `send_lock`, by anybody) and `wq` (waitqueue: `wake_lock`, by the holder, racing early wake-ups). It is shown to implement `Mutex`.
* `Condvar` - `condvar` over what `LfMutex` provides, an owner and a fair queue. What runs under the condvar's own `_m` is one step;
  the look at the list before `_m` is taken, the sends of `wake_all` after its release, and a timeout with its clean-up are steps of
  their own. The client is a condition that waiters check under the mutex and that somebody makes true and announces.
* `RwLock` - `rwlock` with `waitqueue::wait`, `wake_one` and `wake_all`. Each body is a step of the owner of `_mtx`; who is woken
  queues for `_mtx` behind others; any `thread::wake()` may end a sleep early.
* `Rcu` - the rcu threads of all CPUs at the grain of their stores and wake-ups, `rcu_defer` with its full buffer, `rcu_synchronize`. A section keeps its CPU to itself,
  as it disables preemption; `seen` are the objects it may have found.

`<Module>Proofs` holds the theorems about a module; `PowerReportProofs` those about the two implementations of `PowerReport`, `MainProofs` those about the three modules of `main.c`.
The definitions of these modules have different names (`UnikraftSpec`, `RefreshSpec`, `LoadSpec` beside `Spec`), so that a module of proofs can extend them together. `MC*` are the instances for TLC; `MCDatabases` is one of `TableLoad` and of `Refresh`, as the runs of `main.c` either load or refresh. Operators named `Bug...` are wrong variants of the definition
that follows them, used to see that a property can fail. Every specification has a type invariant; those of `Pipeline` and `LfMutex` are part of a run, and all
are proved (section 4).

Loops that one step of a model runs through (`wake_all` and `downgrade()` in `RwLock`) are recursive functions of the round
(`WakeReaders`, `Wunlocks`), so that they can be reasoned about by induction.

## 3. What is checked

All runs are exhaustive over their bounds.

| Run | Checks | Bounds |
|---|---|---|
| `pipeline` | `UnikraftLabel`: no row of `unikraft_<s>_*.csv` is of another scale, for any sequence of invocations with any one of the fault sets that main.sh tolerates. `NanosPinned`: Nanos always measures the root database. `OsvBootClean`: no boot measurement of OSv runs an image with tables | 2 scales; any number of invocations |
| `pipeline_osv` | `OsvLabel` fails: see Findings | no faults |
| `osv_power` | `ImplementsReport` (refinement: each iteration saves exactly the rows of the queries its guest finished), `LaterRowsOwn`, `ViewDropped`, `FullReport` (liveness) | 4 queries, 2 iterations, 2 invocations |
| `unikraft_power` | `FoldImplementsReport` (the same refinement; the one exemption is a guest that died inside query 15), `NoForeignTime` (also for those guests) | 4 queries, 3 iterations, 2 invocations |
| `power_test` | `OnlyViewQueryHurt`, `PrefixReport`, `LeakIsPermanent`, `CompleteReport` (liveness) | 3 queries, 2 iterations, 2 runs |
| `databases` | Runs that load: `AllOrNothing`, `FreshDatabase`, `StaysPartial`. Runs that refresh: `WholeRefreshes` (refinement), `QueriesSeeRefresh` | 2 tables, 2 iterations, 4 runs |
| `boot_times` | `RowsOwn`, `SameBoot`, `InOrderAfterWarmUp` | 2 warm-up and 2 measured boots, 2 invocations |
| `lfmutex` | `OneToken`: the right to the mutex is with one holder, one popping thread or one handoff. `NoAbort`: no assertion of `lfmutex.cc` about the queue fails. `ImplementsMutex` (refinement), `EverybodyReturns` (liveness) | 3 threads, 5 calls, recursion 2, `sequence` modulo 8 |
| `condvar` | `NoDangling`: a record is in exactly one place (the fifo, a waker's list, the mutex's queue) while its wait lasts and in none after. `WokenOwns`: who is woken has its own mutex. `TimeoutTakesNoWake`, `StaleOnlyByTimeout`, `NoLostWakeup` (liveness; unless the assertion at `condvar.cc:34` has stopped the guest) | 4 threads, 2 mutexes, 7 calls |
| `rwlock` | `ReadersWriters`, `NoDangling`, `NobodyStranded`: nobody sleeps at a free lock. `EverybodyReturns` (liveness) | 4 threads, 5 calls, recursion 2, 1 early wake-up |
| `rcu` | `GracePeriod`, `NoneLost`, `SynchronizeReturns` (liveness, freedom from deadlock) | 3 CPUs, 3 callbacks, buffers of 1, 1 section |
| `rcu_order` | `InOrder`, the barrier of `rcu_flush` | 2 CPUs, 4 callbacks, buffers of 2, 1 section |

Why the bounds are enough. Two scale factors are the asked one and another one, and files only distinguish these; the number of
invocations is not bounded in `Pipeline`. The queries before, at and after query 15 are all there is to tell apart in the power tests;
two iterations are the first (which opens the report anew) and a later one; two invocations are the one that leaves something
behind and the one that finds it. In `LfMutex` three threads are one that unlocks, one on its way to lock and one that takes the handoff between them, and five calls let a
handoff be left, taken and left again (the case the sequence number is for). In `Condvar` three waiters on one mutex let `wake_all` send out of order, and the fourth thread brings the second mutex.
In `RwLock` four threads are a holder, a waiting writer, a waiting reader and one that barges in. In `Rcu` two CPUs ask for generations and a third only serves; the second callback of CPU 1 finds the buffer full.
The order inside a batch needs buffers of two: in `rcu_order` CPU 1 defers three callbacks, so that the third finds the buffer full or goes to the other one (three CPUs with such buffers are beyond TLC).
The bounded modules may stop when the last invocation or call has ended, so deadlock is not checked there; in `Pipeline` it is, and the liveness properties of the guest's modules exclude that a thread is stuck inside a call.

Fairness. `FairSpec` of `OsvPower` and `PowerTest` says that a started program does not stop between two of its own steps
(weak fairness of the steps outside `idle`). The scripts are sequential and wait for nothing but their children, and the queries terminate; nobody is obliged to
start an invocation. The liveness properties are stated for the environments without faults: an interrupted program need not finish anything.
In the guest's modules each thread's steps are weakly fair: the scheduler is preemptive and gives every runnable thread its turn. The clients are
trusted with what the interfaces ask of them: a holder unlocks, a section ends, who made the condition true announces it; an armed timer expires. Nobody is obliged to begin a call. `rcu_defer` that found no room is
only promised to return as long as others do not fill the buffer again for ever (a FIXME at `rcu.cc:210`); the number of callbacks is finite here.

### Findings

OSv is built from the `.tbl` files of the last `dbgen` run. After scales s1, s2, s1 the third run finds s1's
database cached, leaves the tables of s2 in place and reports them as s1 (`pipeline_osv`).

What the models show besides, in the harness:

* `TPC-H.db` in the root is written by the first invocation only, so Nanos is measured on the first scale ever asked for (`NanosPinned`).
* `osv/power/temporary.txt` survives an interrupted invocation and its lines become the first rows of the next report. The
  `rm` after each iteration limits this to the first iteration (`LaterRowsOwn`). The boot timers share the pattern; there `RowsOwn` excludes interruptions.
* A C runner that is stopped between `create view` and `drop view` leaves `revenue0` behind. `sqlite3_exec` stops at the failing `create view`
  from then on, so query 15 is never run again while a row is printed for it (`LeakIsPermanent`), on bare metal and in every Nanos
  image made from that database. The SQLite shell of the OSv leg goes on after an error and repairs the database (`ViewDropped`).
* RF1 reads one line item per order and drops the rest of the line items (`Pairs`).
* `loadTables` loads every line but the first of each file (`LoadOf`); a `database_<i>.db` left by a program
  stopped after its commit is loaded a second time (`FreshDatabase` excludes this case, `AllOrNothing` counts the loads); a database in which `createTables` was cut short blocks its iteration for
  good (`StaysPartial`); Unikraft's row of query 15 is a part of its time when the guest died inside it (`NoForeignTime`), where OSv's script leaves the row out.

And in the guest:

* `condvar::wait` that ends by its timer does not reset `_user_mutex`, also when it was the last waiter. `condvar.h:104-108` restricts only *concurrent* waits to one
  mutex, but a later wait with another mutex then fails the assertion at `condvar.cc:34`. `StaleOnlyByTimeout` shows that this is the only way to a stale mutex; the model stops there (`aborted`).
* `send_lock_unless_already_waiting` raises `count` before it finds that the thread is queued already, and does not give it back. From then on `count` is one too
  high: every `unlock()` pops, and leaves a handoff when the queue is empty. `OneToken`, `ImplementsMutex` and `EverybodyReturns` hold all the same; the price is that the uncontended path is lost.
* A nested `wunlock()` wakes a writer although the lock stays owned; the writer goes back to sleep, behind others (`EverybodyReturns` holds).

## 4. What is proved

Eight modules of theorems. Each shows one inductive invariant to hold initially, to be kept by every action (one lemma per action), and to imply the
properties; the type invariant is always its first part and a theorem of its own (`TypeCorrect`; `UnikraftTypeCorrect`, `RefreshTypeCorrect`, `TableLoadTypeCorrect`). All constants are arbitrary: any number of
threads, CPUs, calls, queries, iterations, invocations, and every set of faults. The assumptions are those at the
head of each module (`...Assumption`): that the constants are numbers or finite sets, that markers such as `None` are no threads,
and, for the loader, what `dbgen` writes.

| Module | Theorems (property) |
|---|---|
| `PipelineProofs` | `UnikraftLabelled` (`UnikraftLabel`), `NanosStaysPinned` (`NanosPinned`), `OsvBootsClean` (`OsvBootClean`) |
| `PowerReportProofs` | OSv: `LaterRowsAreOwn` (`LaterRowsOwn`), `ViewIsDropped` (`ViewDropped`), `LoopIsReport` (the refinement `ImplementsReport`). Unikraft: `UnikraftNoForeignTime` (`NoForeignTime`), `UnikraftIsReport` (the refinement `FoldImplementsReport`) |
| `MainProofs` | Queries: `OnlyQuery15Hurt` (`OnlyViewQueryHurt`), `ReportIsPrefix` (`PrefixReport`), `LeakStays` (the action property `LeakIsPermanent`). Refreshes: `QueriesSeeOrders` (`QueriesSeeRefresh`), `RefreshesAreAtomic` (the refinement `WholeRefreshes`). Loads: `LoadsAreWhole` (`AllOrNothing`), `LoadsStartFresh` (`FreshDatabase`), `PartialStays` (the action property `StaysPartial`) |
| `BootTimesProofs` | `RowsAreOwn` (`RowsOwn`), `ClocksOfOneBoot` (`SameBoot`), `RowsInOrder` (`InOrderAfterWarmUp`) |
| `LfMutexProofs` | `TokenIsOne` (`OneToken`), `Refinement` (`ImplementsMutex`), `NothingAborts` (`NoAbort`) |
| `CondvarProofs` | `RecordsPlaced` (`NoDangling`), `WokenWithMutex` (`WokenOwns`), `WakeNotSpentOnTimeout` (`TimeoutTakesNoWake`), `OnlyTimeoutLeavesMutex` (the action property `StaleOnlyByTimeout`) |
| `RwLockProofs` | `Exclusion` (`ReadersWriters`), `RecordsPlaced` (`NoDangling`), `NoneStranded` (`NobodyStranded`) |
| `RcuProofs` | `GracePeriodHolds` (`GracePeriod`), `NoneIsLost` (`NoneLost`), `FlushIsBarrier` (`InOrder`) |

### The harness

* **`Pipeline`**. `UnikraftLabel` speaks of the reports only: whether `RunUnikraft` keeps it depends on
  which database the image carries, that on what `rootfs/` and `TPC-H-<scale>.db` hold, and that on what `make` found. `UkInv` follows the data:
  `MakeInv` (no `.tbl` file is there when `make` starts, so a `TPC-H.db` an interrupted invocation left is always rebuilt; between `make` and `mv` it is
  this invocation's, or absent), `NamedInv` (a file named after a scale holds that scale), `ImageInv` (from the build on, the image is the one of this
  invocation) and `ReportInv`. The conjunct about `"kill" \notin faults` is where an interruption *and* a failing `make` are excluded: together they would
  move an old `TPC-H.db` to the new scale's name. `NanosInv` adds that before the clone, and up to the one copy to `../TPC-H.db`,
  Nanos has not run; `BootInv` that between the build and the boot measurement the image has no tables.
* **`OsvPower`**. The Python script knows a query only by the number of the line its time is in. `LineOf(q, m)` is the number of the line that statement `m`
  of query `q` prints; while the file holds lines of this iteration only (`Fresh`), line `n` is the one with that number (`Printed`), and the script is
  at the statement it takes the line for (`Walk`). `FileInv` says at which points of the loop the file is fresh: from the second iteration on always, in the
  first unless an invocation was interrupted, which is where `LaterRowsOwn` and the refinement differ. That no row is missing is `AllSaved`: at the end of the file the script and the guest have come
  to the same line, hence to the same query.
* **`PowerTest`**. A row is decided before it reaches the report, so the invariant speaks of the rows in the C library's buffer too: `Timed` is what `main()`
  has measured at each point of a query, `HurtInv` ties an empty time of query 15 to a view that was there before the run (`Stuck`), `PlaceInv` numbers file and buffer as
  one sequence in base `NumQueries` (lemmas `DivMod`, `Unique`, `Successor`).
* **`UnikraftPower`**. The Python program keeps the times of one guest in a list and folds the statements of query 15 by slicing it. `ListInv` says that entry `n` of the list is the
  statement that prints line `n` (`Timed`); `FoldIs` that the folded list has one entry per query: its own time, or for query 15 the part of it that the guest got to; outside query 15
  their number is that of the queries the guest finished, which is what the refinement asks of a written iteration. The
  cases are where the list ends: before query 15, inside it (Python clips the slices) and after it. `OwnInv` carries this to the rows.
* **`Refresh`**. `TxnInv` says what the open transaction has done at each line: the tables on disk with the rows of the first `lines` lines added (`Inserted`), or without the orders of the first `lines` keys (`Deleted`).
  At the end of the files this is `AfterRF1` or `AfterRF2`, so a commit is a step of `RefreshAtomic` and every other step a stutter. That one line more adds exactly one row is `PlusLine` (the set of lines with a key
  grows by one element), that two deletions in a row are the deletion of both keys is its counterpart for `Minus`.
* **`TableLoad`**. `PartInv`: in the transaction every table has seen the same number `m` of whole loads, and one more or a part of one more, according to whether its file is still to
  come, is being read or has been read (`PartLoad`). At the commit no file is left, so all tables have `m + 1` loads, which is `LoadInv`; its `Bound` says which databases this run has yet to load.
  That requires that a transaction gets past a file only if its table exists (`DoneInv`), which holds because the insert into a missing table fails and a file has a line to insert; it is also why a partial database
  stays partial. `FirstInv` says that `createTables` makes tables only in a database that had none. Each inserted row is the line without its newline (`TokensAll`, `ValuesAre`: with no empty field, `strtok` gives back the pieces of the line), and
  `m + 1` loads are `m` loads and one more (`OneMore`, by division with remainder).
* **`BootTimes`**. `PairInv` holds of every file, whatever was stopped: a guest's line follows the line of its own start. It is all that `SameBoot` needs.
  `LineInv` describes the file when nothing is interrupted: with the host's clock each start is one boot further (`Hosted`), with the built-in timer
  boots that died leave gaps, so line `n` is of a boot `>= n` and later than the one before (`Counted`). `PyInv` and `RowInv` carry this to the counters and rows of the script.

### The guest

* **`LfMutex`**. `BaseInv`: whether a step may pass the mutex on depends on `count` (`CountInv`: it is not given back while anybody
  has the right to the mutex, and a thread about to find itself owner has counted twice), on who may have a handoff in hand (`OldInv`), on the owner field (`OwnerInv`), and on whose records are queued:
  popping a record makes its thread the holder, so a queued record must be of a thread that waits, be queued once and be armed (`ListInv`, `RevInv`, `LockRec`, `CondRec`, `PendInv`). Every step then leaves
  the token where it is, passes it on or lets it go, and each of these is a step of `Mutex` or a stutter.
  `NoAbort` needs more, `SeqInv`: a handoff that is still the one that was read means that the queue that was seen non-empty still is. This is what
  the sequence number is for, and it fails when the number comes round; `NothingAborts` therefore assumes that `sequence` stays below its last value (2^32 handoffs), which no other theorem does.
* **`Condvar`**. `Single` and `Apart`: a record is once in one of the fifo, a waker's list and the queue of the mutex (`PositionsOnce` counts its places). `MtxInv` and `OwnInv`: wherever it is, the
  mutex beside it (`_user_mutex`, the copy of the waker, the queue it is in) is the waiter's. `TakenInv` remembers which waiters a waker took out.
* **`RwLock`**. Every operation turns the fields into a state `x` while it has the mutex and releases the mutex with `x`, so the invariant is stated of a state
  (`Placed`, `Served`, `Writing`, `Awaited`) and the bodies are shown to keep it. What the loops of `wake_all` and `downgrade()` compute is proved by induction on the number of rounds: the set of rounds
  with the property is an inductive set (`SetInduction`, `Loop`), which needs no operator parameter.
* **`Rcu`**. `GracePeriod` needs to know why generations tell when a section has ended: `SeenInv` (the CPU of a section that may have found an object
  has not reached the generation that the object's callback waits for, and the callback is not being run), over `GenInv` (bounds of the generations) and `CtlInv` (what the buffer not in use holds at each line of `do_work`).
  `NoneLost` and `InOrder` rest on one observation: what is being run, the other buffer and the buffer in use, in this order, are one queue (`Pending`), to which `rcu_defer` appends and
  from which a call takes the first; the switch of the buffers and the end of a grace period do not change it.

### Only model-checked

All safety properties of the passing runs, the refinements included, are theorems. What remains:

* Liveness under fairness, out of the prover's reach: `FullReport`, `CompleteReport`, both `EverybodyReturns`, `NoLostWakeup`, `SynchronizeReturns`.
* `OsvLabel`, which fails.

## 5. What is not modelled

* Times as numbers, memory sizes, console text other than the lines the scripts search for.
* The Docker runner (the same C program on a fresh database), the Unikraft and Nanos boot loops (they time one command and append one line).
* Plots and comparisons of finished reports.
* Weak memory: the guest's modules interleave atomic accesses. On x86, where the benchmark runs, the read-modify-writes are fences, but a release store followed by a
  load is not (`rcu.cc:89-93`), so `SynchronizeReturns` is shown for a sequentially consistent machine only.
* `count` of the mutex and the generations of RCU are unbounded; in the code they are 32 and 64 bits wide.
* CPU hotplug in RCU, and waits on several objects at a time (`wait_for` with more than one object).
* The rest of the OSv kernel (scheduler, memory, file systems, network, drivers, the imported BSD and ZFS code), SQLite, TPCH-sqlite, kraft and ops: third-party code that
  the harness uses unchanged. It is nearly all of the repository's lines.

## 6. Plan

1. Done: the modules above, and the theorems of section 4.
2. Possible extensions: the semaphore and the reaping of threads in the OSv kernel.
