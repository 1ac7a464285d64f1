------------------------------- MODULE SsdBench -------------------------------
(***************************************************************************)
(* The bandwidth measurement of a file on an SSD: mapPersistentSSDRegion   *)
(* makes the file, benchmark_bw_ssd creates the workers and joins them     *)
(* (benchmark.cc), and each worker (strided_ssd_bwjob, run_thread.cc) runs *)
(* a kernel over its part of the file and syncs it, Passes times after a   *)
(* warm-up that is not synced.  The kernel is one pread or pwrite of the   *)
(* whole part, or works on a mapping access by access (memaccess.cc).      *)
(*                                                                         *)
(* What a kernel writes goes to the page cache.  The operating system      *)
(* writes pages back when it likes, and a write-back may fail: the page is *)
(* dropped, and the error is kept until ONE sync of the open file, by      *)
(* whichever worker, returns it; that worker exits the whole process.      *)
(*                                                                         *)
(* The unit of address is a block of access_sizes[0] = 256 bytes.          *)
(***************************************************************************)
EXTENDS Integers, FiniteSets, LoopOrder

CONSTANTS NumThreads,   \* argv[1]: the number of workers
          RegionSizes,  \* what regionSize may be, in blocks
          Descriptors,  \* what open may return: 0 if the standard input is closed
          PageBlocks,   \* blocks of a page: 16
          SpanBlocks,   \* blocks of one SIZEBT*_4096 macro: 16
          Count,        \* PERTHREAD_WORKSET / access_size
          RwBlocks,     \* what one pread or pwrite moves at most: 2 GB less a page
          Passes        \* timed passes, 10 x 10 in the code; bounds the model

Workers == 0 .. NumThreads - 1

\* The parts of all workers, and what a macro may touch behind them.
Blocks == 0 .. NumThreads * Count + SpanBlocks - 1

PageOf(b) == b \div PageBlocks
Pages == {PageOf(b) : b \in Blocks}

ASSUME SsdAssumption ==
  /\ NumThreads \in 1 .. 48 /\ Passes \in Nat \ {0}
  /\ \A r \in RegionSizes : r \in Nat
  /\ \A d \in Descriptors : d \in Nat
  /\ PageBlocks \in Nat \ {0} /\ SpanBlocks \in Nat \ {0} /\ Count \in Nat \ {0}
  /\ RwBlocks \in Nat \ {0}
  /\ RwBlocks % PageBlocks = 0 /\ Count % PageBlocks = 0

VARIABLES
  read,        \* argv[3]
  mmap,        \* argv[4]
  regionSize,  \* the length the file is given
  mainpc,      \* "open", "truncate", "map", "create", "join"; "done": the figure is
               \* printed; "dead": the process has ended without it
  fd,          \* the descriptor of the file
  nth,         \* the i of the create loop, then of the join loop
  ctx,         \* ctx[w]: what main() put into the worker_ctx of worker w
  pc,          \* pc[w]: "off", "ready", "kernel", "sync", "wait", "failed", "done"
  pass,        \* pass[w]: passes completed, the warm-up included
  step,        \* step[w]: how far this kernel call is
  hits,        \* hits[b]: accesses to block b
  dirty,       \* pages the operating system has still to write back
  stale,       \* pages of which the device does not have the newest data
  awaited,     \* awaited[w]: pages the sync of worker w waits for
  error        \* a failed write-back that no sync has returned yet

args == <<read, mmap, regionSize>>
mainVars == <<args, mainpc, fd, nth, ctx>>
cache == <<dirty, stale, awaited, error>>
vars == <<mainVars, pc, pass, step, hits, cache>>

NoCtx == [addr |-> -1, fd |-> 0, op |-> 0]

Init ==
  /\ read \in BOOLEAN /\ mmap \in BOOLEAN /\ regionSize \in RegionSizes
  /\ mainpc = "open" /\ fd = 0 /\ nth = 0
  /\ ctx = [w \in Workers |-> NoCtx]
  /\ pc = [w \in Workers |-> "off"]
  /\ pass = [w \in Workers |-> 0]
  /\ step = [w \in Workers |-> 0]
  /\ hits = [b \in Blocks |-> 0]
  /\ dirty = {} /\ stale = {} /\ error = FALSE
  /\ awaited = [w \in Workers |-> {}]

-----------------------------------------------------------------------------
(***************************************************************************)
(* The main thread.  mapPersistentSSDRegion: every failure is the end.     *)
(***************************************************************************)
Open ==
  /\ mainpc = "open"
  /\ \/ mainpc' = "truncate" /\ fd' \in Descriptors
     \/ mainpc' = "dead" /\ UNCHANGED fd
  /\ UNCHANGED <<args, nth, ctx, pc, pass, step, hits, cache>>

Truncate ==
  /\ mainpc = "truncate"
  /\ mainpc' \in {IF mmap THEN "map" ELSE "create", "dead"}
  /\ UNCHANGED <<args, fd, nth, ctx, pc, pass, step, hits, cache>>

Map ==
  /\ mainpc = "map"
  /\ mainpc' \in {"create", "dead"}
  /\ UNCHANGED <<args, fd, nth, ctx, pc, pass, step, hits, cache>>

\* Mutated: the part of the mapping is given to every worker.
ContextMapped(i) ==
  [addr |-> i * Count, fd |-> IF mmap THEN 0 ELSE fd, op |-> IF read THEN 0 ELSE 2]

\* addr is nullptr, here -1, without a mapping.
Context(i) ==
  [addr |-> IF mmap THEN i * Count ELSE -1,
   fd |-> IF mmap THEN 0 ELSE fd,
   op |-> IF read THEN 0 ELSE 2]

Create ==
  /\ mainpc = "create" /\ nth < NumThreads
  /\ ctx' = [ctx EXCEPT ![nth] = Context(nth)]
  /\ pc' = [pc EXCEPT ![nth] = "ready"]
  /\ nth' = nth + 1
  /\ UNCHANGED <<args, mainpc, fd, pass, step, hits, cache>>

StartJoin ==
  /\ mainpc = "create" /\ nth = NumThreads
  /\ mainpc' = "join" /\ nth' = 0
  /\ UNCHANGED <<args, fd, ctx, pc, pass, step, hits, cache>>

Join ==
  /\ mainpc = "join" /\ nth < NumThreads
  /\ pc[nth] = "done"
  /\ nth' = nth + 1
  /\ UNCHANGED <<args, mainpc, fd, ctx, pc, pass, step, hits, cache>>

\* The end time is taken and the figure printed.
Report ==
  /\ mainpc = "join" /\ nth = NumThreads
  /\ mainpc' = "done"
  /\ UNCHANGED <<args, fd, nth, ctx, pc, pass, step, hits, cache>>

Main == Open \/ Truncate \/ Map \/ Create \/ StartJoin \/ Join \/ Report

-----------------------------------------------------------------------------
(***************************************************************************)
(* The kernels: which blocks a step touches.                               *)
(***************************************************************************)
\* mmap of strided_ssd_bwjob: told by the descriptor.
Mapped(w) == ctx[w].fd = 0

\* funcs[ctx->op + mmap + 3]
Op(w) == ctx[w].op + (IF Mapped(w) THEN 1 ELSE 0) + 3
Reading(w) == Op(w) \in {3, 4}

\* Mutated: every thread at the beginning of the file.
StartSame(w) == 0

\* tid * PERTHREAD_WORKSET, also where the part of the mapping begins.
Start(w) == w * Count

\* What the nth step of a kernel touches: one page of the call, one macro of loads,
\* or one memcpy of access_size.
Touched(w, n) ==
  CASE Op(w) \in {3, 5} -> Start(w) + n * PageBlocks .. Start(w) + (n + 1) * PageBlocks - 1
    [] Op(w) = 4 -> Start(w) + n .. Start(w) + n + SpanBlocks - 1
    [] Op(w) = 6 -> {Start(w) + n}

\* A call moves no more than RwBlocks, whatever it is asked for.
Steps(w) ==
  IF Mapped(w) THEN Count
  ELSE (IF RwBlocks < Count THEN RwBlocks ELSE Count) \div PageBlocks

InFile(w, n) == \A b \in Touched(w, n) : b < regionSize

Alive == mainpc # "dead"

\* for 10, for 10, and the warm-up
MorePasses(n) == n <= Passes

Enter(w) ==
  /\ Alive /\ pc[w] = "ready"
  /\ pc' = [pc EXCEPT ![w] = "kernel"]
  /\ UNCHANGED <<mainVars, pass, step, hits, cache>>

\* The warm-up goes straight on, a timed pass is synced.
KernelReturns(w) ==
  /\ step' = [step EXCEPT ![w] = 0]
  /\ IF pass[w] = 0
     THEN /\ pass' = [pass EXCEPT ![w] = 1]
          /\ pc' = [pc EXCEPT ![w] = IF MorePasses(1) THEN "kernel" ELSE "done"]
     ELSE /\ pc' = [pc EXCEPT ![w] = "sync"]
          /\ UNCHANGED pass

\* pread stops at the end of the file, pwrite makes the file longer, and a mapping
\* can only be used up to it, if there is one.
MayTouch(w) ==
  IF Mapped(w) THEN ctx[w].addr # -1 /\ InFile(w, step[w])
  ELSE Reading(w) => InFile(w, step[w])

Access(w) ==
  /\ Alive /\ pc[w] = "kernel" /\ MayTouch(w)
  /\ hits' = [b \in Blocks |-> hits[b] + IF b \in Touched(w, step[w]) THEN 1 ELSE 0]
  /\ LET written == IF Reading(w) THEN {} ELSE {PageOf(b) : b \in Touched(w, step[w])}
     IN  dirty' = dirty \cup written /\ stale' = stale \cup written
  /\ IF step[w] + 1 < Steps(w)
     THEN step' = [step EXCEPT ![w] = @ + 1] /\ UNCHANGED <<pc, pass>>
     ELSE KernelReturns(w)
  /\ UNCHANGED <<mainVars, awaited, error>>

\* The device is full or the file at its end: the call returns what it has moved,
\* and nobody looks.
ShortCall(w) ==
  /\ Alive /\ pc[w] = "kernel" /\ ~Mapped(w)
  /\ step[w] > 0 \/ ~MayTouch(w)
  /\ KernelReturns(w)
  /\ UNCHANGED <<mainVars, hits, cache>>

\* The call returns -1: perror.
FailedCall(w) ==
  /\ Alive /\ pc[w] = "kernel" /\ ~Mapped(w) /\ step[w] = 0
  /\ pc' = [pc EXCEPT ![w] = "failed"]
  /\ UNCHANGED <<mainVars, pass, step, hits, cache>>

\* A mapping cannot be read or extended, or there is none: SIGBUS or SIGSEGV.
Killed(w) ==
  /\ Alive /\ pc[w] = "kernel" /\ Mapped(w)
  /\ mainpc' = "dead"
  /\ UNCHANGED <<args, fd, nth, ctx, pc, pass, step, hits, cache>>

-----------------------------------------------------------------------------
(***************************************************************************)
(* msync and fsync, and the operating system behind them.                  *)
(***************************************************************************)
\* Mutated: msync of the first page.
SyncRangeFirst(w) == IF Mapped(w) THEN {PageOf(Start(w))} ELSE Pages

\* msync names the worker's part, fsync the file.
SyncRange(w) ==
  IF Mapped(w) THEN {PageOf(b) : b \in Start(w) .. Start(w) + Count - 1} ELSE Pages

BeginSync(w) ==
  /\ Alive /\ pc[w] = "sync"
  /\ awaited' = [awaited EXCEPT ![w] = SyncRange(w) \cap dirty]
  /\ pc' = [pc EXCEPT ![w] = "wait"]
  /\ UNCHANGED <<mainVars, pass, step, hits, dirty, stale, error>>

\* Mutated: the result of the sync is not looked at.
EndSyncUnchecked(w) ==
  /\ Alive /\ pc[w] = "wait" /\ awaited[w] = {}
  /\ error' = FALSE
  /\ pass' = [pass EXCEPT ![w] = @ + 1]
  /\ pc' = [pc EXCEPT ![w] = IF MorePasses(pass[w] + 1) THEN "kernel" ELSE "done"]
  /\ UNCHANGED <<mainVars, step, hits, dirty, stale, awaited>>

\* The sync returns -1 if there is an error to return.
EndSync(w) ==
  /\ Alive /\ pc[w] = "wait" /\ awaited[w] = {}
  /\ error' = FALSE
  /\ IF error
     THEN pc' = [pc EXCEPT ![w] = "failed"] /\ UNCHANGED pass
     ELSE /\ pass' = [pass EXCEPT ![w] = @ + 1]
          /\ pc' = [pc EXCEPT ![w] = IF MorePasses(pass[w] + 1) THEN "kernel" ELSE "done"]
  /\ UNCHANGED <<mainVars, step, hits, dirty, stale, awaited>>

\* Mutated: the worker returns instead.
ExitWorker(w) ==
  /\ Alive /\ pc[w] = "failed"
  /\ pc' = [pc EXCEPT ![w] = "done"]
  /\ UNCHANGED <<mainVars, pass, step, hits, cache>>

\* Mutated: the worker tries once more.
ExitRetry(w) ==
  /\ Alive /\ pc[w] = "failed"
  /\ pc' = [pc EXCEPT ![w] = "kernel"]
  /\ UNCHANGED <<mainVars, pass, step, hits, cache>>

\* exit(1) ends all threads.
Exit(w) ==
  /\ Alive /\ pc[w] = "failed"
  /\ mainpc' = "dead"
  /\ UNCHANGED <<args, fd, nth, ctx, pc, pass, step, hits, cache>>

Worker(w) ==
  \/ Enter(w) \/ Access(w) \/ ShortCall(w) \/ FailedCall(w) \/ Killed(w)
  \/ BeginSync(w) \/ EndSync(w) \/ Exit(w)

\* A page leaves the list of the dirty ones, written or lost.
WriteBack(p) ==
  /\ p \in dirty
  /\ dirty' = dirty \ {p}
  /\ awaited' = [w \in Workers |-> awaited[w] \ {p}]
  /\ \/ stale' = stale \ {p} /\ UNCHANGED error
     \/ error' = TRUE /\ UNCHANGED stale
  /\ UNCHANGED <<mainVars, pc, pass, step, hits>>

\* What a sync waits for.
Flush == \E w \in Workers : \E p \in awaited[w] : WriteBack(p)

Terminating == mainpc \in {"done", "dead"} /\ UNCHANGED vars

Next ==
  \/ Main
  \/ \E w \in Workers : Worker(w)
  \/ \E p \in Pages : WriteBack(p)
  \/ Terminating

(***************************************************************************)
(* Every runnable thread runs again and again, and the pages that a sync   *)
(* waits for are written; others need not be.                              *)
(***************************************************************************)
Fairness ==
  WF_vars(Main) /\ WF_vars(Flush) /\ \A w \in Workers : WF_vars(Worker(w))

Spec == Init /\ [][Next]_vars /\ Fairness

-----------------------------------------------------------------------------
\* The type of every variable.
TypeOK ==
  /\ read \in BOOLEAN /\ mmap \in BOOLEAN /\ regionSize \in RegionSizes
  /\ mainpc \in {"open", "truncate", "map", "create", "join", "done", "dead"}
  /\ fd \in Nat /\ nth \in 0 .. NumThreads
  /\ ctx \in [Workers -> [addr : Int, fd : Nat, op : {0, 2}]]
  /\ pc \in [Workers -> {"off", "ready", "kernel", "sync", "wait", "failed", "done"}]
  /\ pass \in [Workers -> 0 .. Passes + 1]
  /\ step \in [Workers -> 0 .. Count - 1]
  /\ hits \in [Blocks -> Nat]
  /\ dirty \subseteq Pages /\ stale \subseteq Pages
  /\ awaited \in [Workers -> SUBSET Pages]
  /\ error \in BOOLEAN

(***************************************************************************)
(* A figure is printed only when the device has all that was written: a    *)
(* write-back that failed, for whichever worker and however early, never   *)
(* ends in a figure (run_thread.cc:519-533).                               *)
(***************************************************************************)
FigureMeansDurable == mainpc = "done" => stale = {}

(***************************************************************************)
(* A page that was lost is known: the error is still to be returned, or    *)
(* the worker that got it is about to end the process, although the file   *)
(* keeps one error for all workers and returns it to one of them.          *)
(***************************************************************************)
NoLossGoesUnheard ==
  stale \ dirty # {} /\ Alive => error \/ \E w \in Workers : pc[w] = "failed"

(***************************************************************************)
(* No page of a worker that has finished is on the way to the device,      *)
(* whatever the other workers and their syncs do to the same file          *)
(* (run_thread.cc:521-533).                                                *)
(***************************************************************************)
OwnPagesSettled ==
  \A w \in Workers :
    pc[w] = "done" => {PageOf(b) : b \in Start(w) .. Start(w) + Count - 1} \cap dirty = {}

(***************************************************************************)
(* A figure is one of the kernel that main() was asked for: a descriptor   *)
(* that is taken for a mapping never gets there (run_thread.cc:486-489).   *)
(***************************************************************************)
FigureOfTheKernelAsked ==
  mainpc = "done" =>
    \A w \in Workers : Op(w) = 3 + (IF read THEN 0 ELSE 2) + (IF mmap THEN 1 ELSE 0)

(***************************************************************************)
(* What a figure covers.  A mapping: every access of every worker, once a  *)
(* pass, all inside the file.  Calls: the first page of every worker's     *)
(* part once a pass, no block more often, and none behind the parts, for a *)
(* call that fails or moves nothing ends the process (memaccess.cc:        *)
(* 322-370, 458-525).  How much less than the part a call may move is what *)
(* EachThreadWritesItsPart is about.                                       *)
(***************************************************************************)
AccessesTo(b) ==
  {n \in 0 .. NumThreads * Count - 1 : n <= b /\ b < n + IF read THEN SpanBlocks ELSE 1}

FigureCoversTheParts ==
  mainpc = "done" =>
    \A b \in Blocks :
      IF mmap
      THEN /\ hits[b] = (Passes + 1) * Cardinality(AccessesTo(b))
           /\ hits[b] > 0 => b < regionSize
      ELSE /\ hits[b] <= Passes + 1
           /\ b < NumThreads * Count /\ b % Count < PageBlocks
                /\ (read => b - (b % PageBlocks) + PageBlocks <= regionSize)
                => hits[b] = Passes + 1
           /\ b >= NumThreads * Count => hits[b] = 0

(***************************************************************************)
(* "each thread writes 2GB" (benchmark.cc:304), in each of the passes that *)
(* the figure counts: every block of every part.                           *)
(***************************************************************************)
EachThreadWritesItsPart ==
  mainpc = "done" /\ ~read => \A b \in 0 .. NumThreads * Count - 1 : hits[b] >= Passes

\* A measurement ends with a figure or with the process.
MeasurementEnds == <>(mainpc \in {"done", "dead"})

(***************************************************************************)
(* What main() and a worker have left to do: their stage, and what they    *)
(* have still to count, outermost loop first.  The last two numbers of a   *)
(* worker are the accesses of its kernel call and the pages its sync waits *)
(* for.                                                                    *)
(***************************************************************************)
StagesOfMain ==
  CASE mainpc = "open" -> 6 [] mainpc = "truncate" -> 5 [] mainpc = "map" -> 4
    [] mainpc = "create" -> 3 [] mainpc = "join" -> 2 [] mainpc = "done" -> 1 [] OTHER -> 0

LeftOfMain == << StagesOfMain, NumThreads - nth >>

StagesLeft(w) ==
  CASE pc[w] = "off" -> 4 [] pc[w] = "ready" -> 3 [] pc[w] \in {"kernel", "sync", "wait"} -> 2
    [] pc[w] = "failed" -> 1 [] OTHER -> 0

CallsLeft(w) == CASE pc[w] = "kernel" -> 2 [] pc[w] = "sync" -> 1 [] OTHER -> 0

AccessesLeft(w) == IF pc[w] = "kernel" THEN Steps(w) - step[w] ELSE 0

Left(w) ==
  << StagesLeft(w), Passes + 1 - pass[w], CallsLeft(w), AccessesLeft(w),
     Cardinality(awaited[w]) >>

(***************************************************************************)
(* Nobody goes round in a circle: what is left is counted in natural       *)
(* numbers; each step of main() and of a worker leaves it less to do or    *)
(* ends the process, each write-back that a sync waits for leaves that     *)
(* sync less, and no step of another gives anybody more: a page that is    *)
(* written again does not prolong a sync that has begun                    *)
(* (benchmark.cc:270-305, run_thread.cc:507-544).                          *)
(***************************************************************************)
EveryStepMovesOn ==
  [][/\ LeftOfMain \in [1 .. 2 -> Nat]
     /\ Main \/ LeftOfMain' # LeftOfMain => Descends(LeftOfMain, LeftOfMain')
     /\ \A w \in Workers :
          /\ Left(w) \in [1 .. 5 -> Nat]
          /\ Worker(w) => Left(w)' # Left(w) \/ mainpc' = "dead"
          /\ (\E p \in awaited[w] : WriteBack(p)) => Left(w)' # Left(w)
          /\ Left(w)' # Left(w) => Descends(Left(w), Left(w)')]_vars

(***************************************************************************)
(* Nobody waits for what will not come: a sync only for pages that the     *)
(* operating system has still on its list, whatever the other workers have *)
(* written and synced since, and main() only for workers that exist.       *)
(***************************************************************************)
NobodyWaitsInVain ==
  /\ \A w \in Workers : awaited[w] \subseteq dirty
  /\ mainpc = "join" => \A w \in Workers : pc[w] # "off"

(***************************************************************************)
(* The figure comes after all passes of all workers (module BwPromise),    *)
(* if it comes: the process may end before.                                *)
(***************************************************************************)
Promise == INSTANCE BwPromise WITH done <- pass, reported <- (mainpc = "done")
KeepsPromise == Promise!Safety
=============================================================================
