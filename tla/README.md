# A TLA+ development of database-benchmarking-optane

The repository measures Intel Optane memory with C++ microbenchmarks, and MySQL,
PostgreSQL, SQL Server, DuckDB and YCSB on it with shell scripts.  This directory
models the control logic of those programs in TLA+, checks it with TLC on small
instances, and proves the central properties with TLAPS for all instances.

## 1. Inventory: the system and its parts

| part | state it keeps | operations | interacts with |
|---|---|---|---|
| bandwidth measurement (`benchmark.cc`, `run_thread.cc`, `memaccess.cc`) | the region, one `worker_ctx` per thread, loop counters | create, run a pass, fence, join, report | pthreads, cpu cache, memory controller |
| latency measurement (`benchmark.cc`, `run_thread.cc`, `common.hpp`) | op index, the address walked, 2^20 timings | timed load or store, average | `bench_func` table, cpu cache |
| pointer chasing (`memaccess.cc`) | the index table | build the cycle, store it, walk it | `rdrand` |
| SSD bandwidth (`benchmark.cc`, `run_thread.cc:479`, `memaccess.cc`) | a file, its mapping or descriptor, one `worker_ctx` per thread | make the file, pread/pwrite or mapped kernels, fsync/msync, report | pthreads, the page cache and its one error per open file |
| TPC-H drivers (`tpch/`) | a server, its data directory or a link in its place, a collection, 22 result files | initialise, load, put aside, link, run queries, archive results | `vpp-collect`, `mysqld`, `postgres`, the TPC-C drivers |
| TPC-C drivers (`tpcc/`) | server, data directory, pristine copy of it | build, set, run for each user count | HammerDB, the server |
| platform profiler start script (`files/start`) | `.result_location`, result directories, output files | check, create, start three profilers, judge, abort | `dstat`, `emon`, `ipmwatch` |
| YCSB, DuckDB, plotting scripts | none worth a model | straight-line loops | - |

Hard behaviours: workers and the main thread interleave freely; write-backs to
persistent memory complete out of order and by themselves until a fence; random
accesses of different workers collide; every loop of the assembly kernels tests after
the body; shell steps fail without stopping the script; a server outlives the script
that started it; two profiler starts race between their check and their launches; a
failed write-back of a file page is told to one sync only, whoever calls it; a name is a
directory, a link to one, or a tree of links, and `rm`, `mv` and a running server see
three different things behind it.

What makes each part correct: a bandwidth figure must count exactly the bytes moved
and made durable between its two clock readings; a latency figure must belong to the
operation the caller asked for, and to nothing that ran before it; the chasing table
must be one cycle through every line; a TPC run must start from the pristine data and
with the intended server; a TPC-H query must run on the database, the place and the
collection that its result file names; what setup put aside must outlive every benchmark;
an SSD figure must be one of the kernel asked for, and of data the device has; at most one
collection runs, all or none of its profilers.
`PROJECT.json` lists every part with what is modelled of it, and every place where the
code is hard to test with the property that watches it.

## 2. Modules, and how they correspond to the code

| module | models | extends |
|---|---|---|
| `LoopOrder` | `Descends`, the order in which nested loops run down; every module below with an end extends it | - |
| `LoopOrderProofs` | proofs about that order, which the proof modules below extend | `LoopOrder`, `WellFoundedInduction`, `TLAPS` |
| `BwPromise` | abstract: what a bandwidth figure promises its reader | - |
| `BwBench` | one bandwidth measurement, sequential (`job` "strided") or random ("size"): main thread, workers, kernels, fences | `LoopOrder`, instantiates `BwPromise` |
| `MCBwBench` | the two volumes (timed, reported) that run `bw_report` compares | `BwBench` |
| `BwBenchProofs` | proofs for any measurement, and then for a sequential one | `BwBench`, `LoopOrderProofs`, `TLAPS` |
| `ChasingIndex` | `init_chasing_index` | - |
| `ChasingWalk` | `chasing_storeclwb` and `chasing_loadnt` on that table | `ChasingIndex`, `LoopOrder` |
| `ChasingProofs` | proofs about the table and the walks | `ChasingWalk`, `LoopOrderProofs`, `FiniteSetTheorems`, `TLAPS` |
| `LatBench` | one latency measurement: the timed functions and the cache | `LoopOrder` |
| `MCLatBench` | tables of operations and character values for TLC | `LatBench` |
| `LatBenchProofs` | proofs about it | `LatBench`, `LoopOrderProofs`, `TLAPS` |
| `SsdBench` | one SSD measurement: main thread, workers, kernels, page cache, syncs | `LoopOrder`, instantiates `BwPromise` |
| `SsdProofs` | proofs about it | `SsdBench`, `LoopOrderProofs`, `FiniteSetTheorems`, `TLAPS` |
| `VppCollect` | `files/start`, several invocations | - |
| `VppProofs` | proofs about it | `VppCollect`, `FiniteSetTheorems`, `WellFoundedInduction`, `TLAPS` |
| `TpccRun` | the TPC-C drivers for MySQL and PostgreSQL | `LoopOrder` |
| `MCTpccRun` | the configurations for TLC | `TpccRun` |
| `TpccProofs` | proofs about the drivers | `TpccRun`, `LoopOrderProofs`, `TLAPS` |
| `TpchRun` | the TPC-H drivers for MySQL and PostgreSQL, beside TPC-C ones | `LoopOrder` |
| `TpchProofs` | proofs about the drivers | `TpchRun`, `LoopOrderProofs`, `TLAPS` |

**BwBench.** The unit of address is the 64-byte line. `Create`, `StartJoin`, `Join` and
`TakeEnd` are the main thread's loops in `benchmark_bw_seq` and `benchmark_bw_random`;
`heap` and `arg` are the `malloc`ed contexts and the pointers given to
`pthread_create`, so that a worker reads its context (`Start`) when it is scheduled and
not when it is created. `Load`, `NtStore`, `Store` and `Clwb` are one line of the
assembly kernels; `Advance` is their three nested loop tests, which stand behind the
body. `hits[l]` counts accesses to a line and is the version of its data; `dv[l]` is the
version that is durable; `wb[w][l]` what worker `w` has on its way. `Fence` completes
what its own thread issued, `WriteBack` lets the hardware write back anything at any
time.

**ChasingIndex, ChasingWalk.** `Accept(r)` is one iteration of the outer loop with the
value its `do ... while` finally takes; a draw may also fail (`NoEntropy`).
The walk stores the table's links through memory block by block and then follows them.
The functions are complete in the source but nothing calls them.

**LatBench.** An operation is a record: its prelude macro, what it accesses, what follows
each access, and how many lines. `Prepare` and `Settle` are the prelude and its fence,
`TimingBeg` and `TimingEnd` the two readings, `Access` and `Back` the lines between.
`cached`, `dirty` and `going` say of each line whether it is in the cache, differs from
memory, and is being written back. `Evict` and `Complete` are the hardware's. The table
`bench_func` is a variable that never changes, so that one run checks several tables.

**SsdBench.** The unit is the block of 256 bytes.  `Open`, `Truncate`, `Map`, `Create`,
`StartJoin`, `Join` and `Report` are `mapPersistentSSDRegion` and `benchmark_bw_ssd`; a
worker enters its kernel (`Enter`), touches it access by access or in one short call
(`Access`, `ShortCall`, `FailedCall`; a file that is too short raises a signal, `Killed`),
and syncs what it wrote (`BeginSync`, `EndSync`), but not after the warm-up.  `dirty` are
the pages that the operating system has still to write, `stale` those of which the device
has old data, `awaited[w]` those a sync waits for, and `error` is the one error that the
file keeps: it goes to the first sync that asks.  `Flush` is the operating system's
write-back, which may fail.  The descriptor 0 is a mapping to the workers, and `open` may
return it: `Descriptors` says whether.

**VppCollect.** One program counter per invocation, one step per command that another
invocation could notice. `proc[p]` is the set of invocations whose profiler `p` is alive;
`met[s]` is a history variable, the invocations that were between their check and their
last launch at the same time as `s`. `ProfilerExits` covers failing to start, and `Stop`
is the external `vpp-collect stop`.

**TpccRun.** `store` holds what is in the data directory, on `/mnt/pmem*`, in the
directory `build` puts aside and in the one `benchmark` copies; `link` says what the name
`data` is. `server` and `on` are the database server and the directory it has open, which
becomes `"gone"` when it is removed under it; `keyed` says whether the server asks root for
the password, which `build` sets (`SetPassword`) after its own ping loop has pinged without
one. `stop_mysql` and `start_mysql` ping with it, so `StopServer` and `Waited` depend on
it. `Launch` of a second server is a race for the port. `coll` is the set of runs that the
running collection has sampled and `archive` what each result file holds. `Interrupt` may
end a call at any command and in any ping loop, also while `mysqld` starts or has no
password yet; server and collection live on into the next call. `met` is a history
variable: whether the call (or the last one that was not refused) found a server that it
does not stop.

**TpchRun.** `store` says of five directories what they hold: a database with the slices
loaded and the marks of setup (parameters for loading, indexes, the view of query 15), a
tree of links with the indexes there or on persistent memory, a link to nothing.  `link`
is what the name `data` means.  `restart` is a subroutine (`after` is where it returns
to): `Shutdown`, `Launch`, `Wait`.  `Served(d)` is a batch of SQL: it changes the database
of the server that answers, whichever that is, or nothing.  `archive[<<c, q>>]` is the result
file of query `q` under configuration `c`.  `Interrupt` ends a script between any two
commands, `Reboot` ends everything, and `TpccRan` leaves what a TPC-C benchmark leaves in
the same installation: another `data`, a server that may want a password, a collection.
`met` is a history variable, whether the server that a call found is one it can stop.

## 3. Runs

| run | bounds | states | shows |
|---|---|---|---|
| `bw` | 2 workers, both jobs, accesses of 1 line, 2 per pass, warm-up + 1 pass, all three operations | 158 714 | contexts do not mix; fenced passes of a sequential worker are durable; a sequential measurement covers exactly the worksets; also where random writers collide every write is flushed or fenced by somebody and durable at the end; nothing moves after the end time; the end is reached; `BwPromise!Spec` is implemented, its liveness included |
| `bw_report` | 1 worker, 2 passes | - | finding: the report divides the volume of 100 passes by the time of 101 |
| `chasing` | a table of 4 lines, 2 tries per draw, blocks of 1, 3, 4 and 6 lines, 2 blocks | 480 | the table is a simple path and ends as one cycle; the walks meet what they should, also when shorter or longer than the table, and end |
| `lat` | 4 tables with all kinds of timed functions, 2 operations, 4 character values, 6 lines | 179 029 | operations stay in the workset, find cold lines, time only their own write-backs, end durable; the measurement ends |
| `lat_dispatch` | the program's table, 1 operation | - | finding: operations 1 and 2 are swapped |
| `vpp` | 2 invocations | 54 138 | one collection unless both had passed the check; no half left by an abort; a running collection is not disturbed |
| `vpp_half` | 1 invocation | - | finding: an abort leaves `ipmwatch` running |
| `tpcc` | both engines, 5 kinds of configuration, 2 numbers of users, 3 calls, interrupted anywhere | 72 072 | of every call: initial data kept, later result files hold their own run; of a call that found no server out of its reach: no server on removed files, the first run is on the initial data, a benchmark with initial data ends |
| `tpch` | both engines, configurations `ssd`, `pmemasdisk`, `pmemforindex` and an unknown one, 2 queries of which the first is the one with the view, 1 slice, 3 calls of setup or benchmark | 451 405 | a server has open what `data` means; later result files hold what their names say; no view is left; the built database is kept, and was finished when it was put aside; a call ends |
| `ssd` | 2 workers, 3 pages each, a file of 8 blocks or one of 4 that is too short for the second part, calls that move at most 2 blocks, descriptors 0 and 3, warm-up + 1 pass | 321 254 | a figure means durable data; no lost page goes unheard; the figure is of the kernel asked for; a mapping is covered as often as counted, and calls reach every part and nothing behind the parts; the measurement ends; `BwPromise!Safety` is implemented |
| `ssd_figure` | as `ssd`, the file of 8 blocks | - | finding: of the 2 GB a thread and pass that the figure counts, a call moves less |
| `tpcc_reattach` | 2 calls, 1 configuration | - | finding: only the first run of a call starts from the initial data |

Why these bounds are enough to be of use. Two workers are what a race over a context or a
line needs; two accesses take every loop of a kernel through "again" and
"last"; one pass and the warm-up are two passes, so that a fence of one pass can be
confused with the next. Two operations one line apart overlap as in the code, where each
touches four lines. Four positions are the smallest table in which a draw can close a
cycle early. Two invocations race, and one can meet what the other left behind. Three
calls are one that builds or is interrupted, one that meets its remains, and one more to
see the remains of both. Two queries are the first of a call, which may still meet an
older server or collection, and a later one. Two workers on one file are what it takes for
one to be given the other's error; a call that moves 2 of 3 blocks is the short call that
the code meets at 2 GB less a page. Where a theorem holds, the bounds do not matter.

Bounds that the code does not have: `MaxInvocations` in `TpccRun` and `TpchRun`, `Passes` in `BwBench`
and `SsdBench` (100 in the code), `OpsCount` in `LatBench` (2^20), `Durations` in `LatBench` (what a
timed operation may take) and `CSize` in `ChasingIndex` for TLC.

Every property of a passing run has a mutant: a definition changed the way a plausible bug
would change it (named in a comment `Mutated:` before the definition), under which the
same run must violate the property.

## 4. Fairness

- `BwBench`: weak fairness of the main thread and of each worker: the scheduler runs every
  runnable thread. The hardware's write-backs are not fair; no property needs them.
- `LatBench`: weak fairness of the measuring thread only.
- `ChasingIndex`: weak fairness of each accepted value: a draw repeated without end takes
  a value that stays acceptable. This is a property of `rdrand`, stated as such.
- `TpccRun`: weak fairness of the script's commands (they return) and of the server (it
  comes up or gives up). An operator's calls, interruptions and renames are not fair.
  `BenchmarkEnds` is claimed for calls that met no server out of their reach: behind one
  that has no password the ping loop has no end, and the model has that behaviour.
- `TpchRun`: the same two, for the commands and the server. `CallsEnd` is claimed for
  calls that met no stray server: the ping of `restart_mysql` has no limit, and a server
  with a password or on another directory is what it cannot get rid of.
- `SsdBench`: weak fairness of the main thread, of each worker and of `Flush`: a sync
  returns when its pages are written or dropped, so the operating system must do one or
  the other. Whether a write-back succeeds is not assumed.
- `VppCollect` has none: only safety is claimed.

## 5. Theorems

Checked by TLAPS, for every value of the constants that satisfies the `ASSUME` of the
module. The type invariant `TypeOK` of each module is one of them, which is why of the runs
only `bw` checks it as well. `LinksStay`, `UsableLineLeft` and `NoLineTwice` (chasing) and
`OwnPagesSettled` (SSD) are proved and not run either: the runs check what they lead to.
So are `EveryStepMovesOn` and `NobodyWaitsInVain`, which are what TLAPS can say of the end of
a loop where TLC checks the end itself.

**Loops that end.** `Left` (and `LeftOfMain`) in each module is the tuple of what a thread,
a worker or a script has still to do, outermost loop first; `EveryStepMovesOn` says that it
consists of natural numbers, that each step of its owner makes it descend, and that no step
of anybody else gives its owner more. `LoopOrderProofs` proves, for tuples of any length,
that nothing descends for ever (`LoopsComeToRest`, from the well-foundedness of the
lexicographic order). Together: no loop of the program goes round in a circle, whatever the
sizes. `NobodyWaitsInVain` is the other half, that whoever is not at his end finds a step
that he can take, or waits for somebody who can. The conclusion that the end is *reached*
needs fairness and `ENABLED` and stays with TLC.


- `BwBenchProofs`, from `SizesAssumption`: types, `NoWriteForgotten`, `EndIsDurable`,
  `WorkersApart`, `QuietAfterEnd`, and that every step is a step of `BwPromise` or leaves
  its state alone (`KeepsPromise`). The inductive invariant `IInv` adds to the types which
  threads exist at each point of the main thread (`MainInv`), that a worker's block and its
  copy hold what was prepared for it (`CtxInv`), where a worker is in its kernel
  (`KernelInv`: without it an access could not be shown to be inside the region), and that
  no version is durable or on its way before it is written (`MemInv`). `NoWriteForgotten`
  is part of the induction: a random access may write a line that another worker is about
  to flush, and the witness changes hands. `ThreadsOnlyMoveOn` and `SomebodyCanGoOn` rest on
  `KernelInv`: a kernel tests its counters after the body, so the body must have begun
  strictly inside the span and before the last access, and the fence find both at their end.
  For sequential measurements `FencedPassIsDurable` and `EndCoversTheWorksets`, from
  `SeqInv`: every line of a workset was touched once per pass and once
  more if the current pass is beyond it (`CoverInv`), and nobody's write-backs leave his
  workset (`OwnInv`). The arithmetic that makes worksets disjoint is in lemmas of its own.
- `ChasingProofs`. From `IndexAssumption`: `SimplePath`, `SingleCycle`, `UsableLineLeft`,
  `LinksStay`. `SimplePath` with the number of links is inductive: an accepted draw extends
  the path. A path over all positions is injective, so onto by counting, and its end keeps
  the 0 that leads back. With `WalkAssumption`: `NoStrayPointer`, `LoadsRetraceStores`,
  `FullWalkMeetsEveryLine`, `NoLineTwice`, for every size, skip and count. `Trail(w)` says
  that both walks take the one trail `w` in every block, and `Steps` how far each is; the
  number of accesses to a line is then how often it stands in the part of `w` that was
  walked (`Met`). A load follows memory, and memory holds `w` because the stores have been
  the whole way. The stores of the first block make `w` longer, nothing else does. A trail
  no longer than the table is the beginning of its cycle, by least counterexample.
  `WalksOnlyMoveOn`: a draw may be repeated any number of times, but each link, and each
  access of the walks, leaves fewer; `UsableLineLeft` says that a draw can succeed.
- `LatBenchProofs`, from `LatAssumption`: types and the four safety properties, for every
  table of operations. `GoingInv` (write-backs under way are the operation's own between
  its readings), `WrittenInv` and `ColdInv` are what an operation may rely on at each
  line; `BaseInv` needs the assumption that the masked character and the counter together
  stay in the workset. `ThreadOnlyMovesOn`: the hardware evicts as often as it likes and
  never sends the thread back.
- `VppProofs`, for any number of invocations: types, `OneCollection`, `AbortedLeavesNoHalf`,
  `RunningIsUndisturbed`. `AloneInv` says what one invocation knows of another that it did
  not meet: after its first look that the other has no `dstat`, after its second that it
  has nothing at all. It must be stated in both directions because the check is two looks.
  Types too: that the loop over `${name}_1`, `${name}_2`, ... finds a free name among as
  many as there are invocations is a counting argument (`NamesInv`: a directory is made by
  an invocation that has its name already).
- `TpccProofs`, from `TpccAssumption`, for every set of configurations, any numbers of
  users and of calls: types, `PristineKept` and `LaterFilesAreTheirOwn` without condition,
  `ServerKeepsItsFiles` and `FirstRunFromInitial` for the calls that found no server out of
  their reach (`~met`). `DaemonInv` says which directory the server can have open at each
  step of such a call, and which password it and its database have, so that the step that
  removes a directory is known to come after the server has ended. `FreshInv` is what
  `build` will put aside: a database that no benchmark has run on. `FirstInv` is what the
  server runs on from the copy to the first measurement. `OwnInv` bounds what the
  collection has sampled from the second round on, whoever started it: without it nothing
  could be said of a collection that an interrupted call has left behind.
  How far the condition reaches is proved too. `PostgresIsInReach`: under PostgreSQL it is
  always met, as `pg_ctl stop` needs no password. `StraysComeFromInterrupts`: under MySQL a
  server out of reach takes an interruption while `mysqld` starts or has no password; a
  call that found none and ends by itself leaves none.
  `CallsOnlyMoveOn` is the descent of a call. `ServerWillAnswer` (`NobodyWaitsInVain`) is
  about the ping loop, which has no limit under MySQL: in a call under the same condition,
  with data to copy or after a build that made a database, the server that is starting
  will be asked for the password that it has, and `mysqld` cannot fail. `WaitInv` carries
  why: what was put aside and what is copied are whole, and the copy is what `data` means
  when the server starts.
- `TpchProofs`, from `TpchAssumption`, for any configurations, queries, slices and calls:
  types, `ServerOnData`, `FilesTellTheTruth`, `NoViewLeft`, `BuiltIsKept`,
  `PutAsideIsFinished`. `DaemonInv` says which server there can be at each label, on which
  directory, and that under PostgreSQL no call meets a stray one; `PlaceInv` what `data`
  means at each label; `UpInv` that the server of a database that is there answers (so the
  SQL batches of setup are not lost), from which `MarksInv` counts what setup has done so
  far. `StrayInv` is about a call that did meet a stray server: `restart` makes its own of
  it before the second query, hence "beyond the first" in `FilesTellTheTruth`. `CollInv`
  says the same of a stray collection. `CallsOnlyMoveOn` is the descent of a call, through
  the loop over slices or queries and, inside it, the subroutine `restart`, whose return must
  leave less than its call. `ServerWillAnswer` follows from `ServerOnData` and `DaemonInv`, and
  is claimed like `CallsEnd` only for calls that met no server out of their reach.
- `SsdProofs`, from `SsdAssumption`, for any number of workers, passes and blocks:
  types, `FigureMeansDurable`, `NoLossGoesUnheard`, `OwnPagesSettled`,
  `FigureOfTheKernelAsked`, `KeepsPromise`. Every dirty page has a worker that will still
  sync it, and every stale page is dirty, or the error is kept, or a worker is on its way
  to `exit`: that is what survives the error's going to the wrong worker. The pages that a
  worker awaits are its own, and `Steps`, `Touched` and the worksets are arithmetic in
  lemmas of its own. A figure's count (`FigureCoversTheParts`) is carried by `CoverInv`:
  through a mapping it is the number of pairs of a pass and a place performed, each access
  adding one pair that was not there; by calls it is counted page by page, as far as one
  call can move. Both are claimed only while no worker has failed. `WorkersOnlyMoveOn`
  counts the pages that a sync awaits as its innermost loop: others may dirty them again, but
  that does not prolong a sync that has begun. `NoSyncWaitsInVain`: every awaited page is
  still on the operating system's list, so `Flush` can end the wait.

Only model-checked: every liveness property (`MeasurementEnds`, `WalksEnd`, `LatencyEnds`,
`BenchmarkEnds`, `CallsEnd`) and the fairness part of the refinement (`BwPromise!Spec` rather
than its `Safety`): fairness and `ENABLED` are out of the prover's reach. What is proved
towards them is that the steps descend and that nobody waits in vain. `TypeOK` of `ChasingWalk` is that of the
table; its proofs carry the types of the walks in `WBase`.

## 6. Findings

Each is the counterexample of one run, checked against the text it contradicts.

1. `bw_report` - `benchmark.cc:205` computes with 100 passes of 2 GB, but the time it
   divides by includes the warm-up pass.
2. `lat_dispatch` - `benchmark.cc:90,92` and `run_thread.cc:93-94` disagree on which of
   operations 1 and 2 is the non-temporal store.
3. `vpp_half` - `files/start:543` promises not to leave half a collection running and
   leaves `ipmwatch`.
4. `tpcc_reattach` - `README.md:101-102` promises the initial data before every run; the
   scripts restore it once per call.
5. `ssd_figure` - `benchmark.cc:304` counts "each thread writes 2GB" for every pass; one
   `pwrite` of 2 GB moves at most 2 GB less a page (`memaccess.cc:461`), the rest is never
   written, and the figure counts it.

Seen without a run: `build` makes `data1000w` (`tpcc/mysql/mysql.sh:12`) and `benchmark`
copies `data-1000w`, which somebody has to rename by hand (`OperatorRename`).

## 7. What is not modelled, and why

- Hardware prefetching and the cycle counter: `TimedAccessesAreCold` says only that the
  program itself does not warm its lines.
- What the program does after `pthread_create` failed, with more than 27 threads (the
  region is too small) or more than 48 (`affinity[]` ends): undefined behaviour. They are
  the assumption `SizesAssumption`.
- A crash during a microbenchmark: nothing is ever read back, so durability means "reached
  memory before the clock was read", not recovery.
- Half-made databases of an interrupted `initdb` or `mysqld --initialize-insecure`, and a
  `pg_ctl stop` in the instant before a starting server has written its pid file.
- `vpp-collect stop` is not in the repository: it is an external action that ends every
  profiler.
- `pg_ctl stop` giving up after 60 seconds.
- A random access of a bandwidth measurement may begin at the last line of its worker's
  2 GB (`run_thread.cc:432` masks the offset only) and goes on into the next worker's.
  `BwBench` lets it, and `EndIsDurable` holds all the same: the neighbours' fences do not
  mind whose line they flush. No property says that random workers stay apart; sequential
  ones do (`EndCoversTheWorksets`).
- The seed of a random worker, the text and the results of SQL statements, the contents
  of configuration files that the drivers copy into a data directory, and `generate.sh`,
  which makes the files to be loaded.
- `random_ssd_lat` is an empty loop, and `stride_ssd_mmap_store` and
  `stride_ssd_store_write`, like `cachefence`, `cacheprobe`, `imcprobe`, `seq_*` and
  `stride_read_after_write`, are called by nobody.
- The SQL Server, YCSB and DuckDB drivers (straight loops over external programs whose
  results they do not look at), `disk_info.py` and the scripts that collect figures: see
  the notes in `PROJECT.json`.

What is modelled, and where no property promises anything, because the code keeps no
promise there:

- A MySQL call (TPC-C or TPC-H) cut while `mysqld` starts, or a TPC-C build cut before
  `tpcc/constants.sh:109` has set the password, leaves a server that the next `stop_mysql`
  gets no answer from. `rm -rf data` then runs under it, it may answer the ping meant for
  its successor, so that the first run of that call is on removed files, or, without a
  password, it never answers and the ping loop does not end. The scripts have no defence
  against it. The models contain all of it; the call that finds such a server is excepted
  by `met`, the interrupted call itself is not, nor are later calls that find none.
  `PristineKept`, `LaterFilesAreTheirOwn` and, of TPC-H, `FilesTellTheTruth` beyond the
  first query hold of the excepted calls as well.
- Two starts of `vpp-collect` that both pass the check before either has launched: they do
  run two collections, and `met` of `VppCollect` excepts them from `OneCollection` and
  `RunningIsUndisturbed`. Half-dead and half-launched collections are what those catch.
- An access size that is no whole number of macros is rounded up (`memaccess.cc:283-565`);
  `SizesAssumption` excludes it for sequential jobs, whose callers all use 256 bytes.

## 8. What was done, and what is left

In this order: the bandwidth measurement with its abstract promise; the pointer chasing;
the latency measurement; the collection start; the TPC-C drivers; the TPC-H drivers; the
SSD measurement; the proofs of each; and, over all of them, that loops descend and waits are
not in vain.

Left:

1. An abstract specification of a collection as the drivers use it (at most one, stopped
   into the directory it was started with), implemented by `VppCollect` and taken by
   `TpccRun` and `TpchRun`, which today each carry their own `coll`.
2. A composition of `TpccRun` and `TpchRun`, of which `TpccRan` is the summary on one side.
