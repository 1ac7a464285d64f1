------------------------------- MODULE BwBench -------------------------------
(***************************************************************************)
(* One bandwidth measurement of microbenchmarks/: benchmark_bw_seq or      *)
(* benchmark_bw_random (benchmark.cc) creates one pinned worker per        *)
(* partition of the region, each worker (strided_bwjob or size_bwjob,      *)
(* run_thread.cc) runs a warm-up pass and Passes timed passes of an        *)
(* assembly kernel (memaccess.cc) with a fence after each, and the main    *)
(* thread joins the workers and takes the end time.                        *)
(*                                                                         *)
(* The unit of address is the 64-byte cache line.  A line is written by a  *)
(* non-temporal store, or by a store followed by clwb; it is durable once  *)
(* a fence of the SAME thread follows, or earlier if the hardware writes   *)
(* it back on its own.                                                     *)
(***************************************************************************)
EXTENDS Integers, FiniteSets, LoopOrder

CONSTANTS
  NumThreads,   (* argv[1]: the number of workers.                         *)
  Jobs,         (* What argv[5] may choose: "strided" (strided_bwjob,      *)
                (* sequential) or "size" (size_bwjob, random).             *)
  Ops,          (* What argv[3] and argv[4] may choose: 0 load, 1 non-      *)
                (* temporal store, 2 store + clwb.                         *)
  AccessLines,  (* access_size in lines: access_sizes[0] = 256, so 4.      *)
  Count,        (* PERTHREAD_WORKSET / access_size.                        *)
  StrideChunk,  (* Lines of one SIZEBT*_256 macro: 4.                      *)
  SizeChunk,    (* Lines of one SIZEBT*_512 macro: 8.                      *)
  Unroll,       (* Accesses per counter test of a sizebw_* kernel: 4.      *)
  Passes,       (* Timed passes, 10 x 10 in the code.  Bounds the model.   *)
  RegionLines   (* REGION_SIZE in lines.                                   *)

Workers == 0 .. NumThreads - 1
Lines   == 0 .. RegionLines - 1

\* PERTHREAD_WORKSET in lines.
Workset == Count * AccessLines

\* The lines worker w is given: start + w * PERTHREAD_WORKSET, one workset long.
Partition(w) == w * Workset .. w * Workset + Workset - 1

(***************************************************************************)
(* The inner loop of a kernel runs its macro until access_size bytes are   *)
(* covered: it touches the access size rounded up to whole macros.         *)
(***************************************************************************)
SpanOf(chunk) == chunk * ((AccessLines + chunk - 1) \div chunk)
StrideSpan == SpanOf(StrideChunk)
SizeSpan   == SpanOf(SizeChunk)

\* A sizebw_* kernel tests its counter after every Unroll accesses.
SizeAccesses == Unroll * ((Count + Unroll - 1) \div Unroll)

(***************************************************************************)
(* What the callers guarantee: positive sizes, a stride macro that covers  *)
(* exactly one access (both are 256 bytes), and a region that holds the    *)
(* partitions and one random access past the last (true of REGION_SIZE up  *)
(* to 27 threads; the program does not check argv[1]).                     *)
(***************************************************************************)
ASSUME SizesAssumption ==
  /\ NumThreads \in 1 .. 48
  /\ AccessLines \in Nat \ {0} /\ Count \in Nat \ {0}
  /\ StrideChunk \in Nat \ {0} /\ SizeChunk \in Nat \ {0} /\ Unroll \in Nat \ {0}
  /\ Passes \in Nat /\ RegionLines \in Nat
  /\ Jobs \subseteq {"strided", "size"} /\ \A o \in Ops : o \in 0 .. 2
  /\ StrideSpan = AccessLines
  /\ SizeSpan \in Nat \ {0} /\ SizeAccesses \in Nat \ {0}
  /\ NumThreads * Workset + SizeSpan <= RegionLines

VARIABLES
  job,      \* the function every worker runs, fixed by the arguments of main()
  op,       \* ctx->op of every worker, likewise
  mainpc,   \* the main thread: "create", "join" or "done" (end time taken)
  nth,      \* the i of the create loop, then of the join loop
  heap,     \* heap[b]: the worker_ctx in malloc'ed block b
  arg,      \* arg[w]: the block passed to worker w by pthread_create
  pc,       \* pc[w]: where worker w is
  ctx,      \* ctx[w]: the fields worker w copied out of its block
  pass,     \* pass[w]: passes fenced so far, the warm-up included
  acc,      \* acc[w]: accesses made by this kernel call (r11)
  off,      \* off[w]: offset of the current access in the workset (r8)
  sz,       \* sz[w]: lines of the current access already touched (r10)
  hits,     \* hits[l]: accesses made to line l; of a writing op, also the
            \* version of the data last written to it
  dv,       \* dv[l]: the version of line l that is durable
  wb        \* wb[w][l]: the version of line l that worker w has put on its way
            \* to memory (clwb, non-temporal store) and not yet fenced, or 0

mainVars   == <<job, op, mainpc, nth, heap, arg>>
kernelVars == <<acc, off, sz>>
memVars    == <<hits, dv, wb>>
vars == <<mainVars, pc, ctx, pass, kernelVars, memVars>>

NoCtx == [tid |-> -1, addr |-> 0, core_id |-> -1]

\* affinity[48]: the even logical cpus, 0, 2, ..., 94.
Affinity(i) == 2 * i

\* Mutated: one worker_ctx, reused for every thread.
CtxBlockShared(i) == 0

\* malloc gives the worker_ctx of every thread a block of its own.
CtxBlock(i) == i

NothingIssued == [l \in Lines |-> 0]

Init ==
  /\ job \in Jobs /\ op \in Ops
  /\ mainpc = "create" /\ nth = 0
  /\ heap = [b \in Workers |-> NoCtx]
  /\ arg  = [w \in Workers |-> 0]
  /\ pc   = [w \in Workers |-> "off"]
  /\ ctx  = [w \in Workers |-> NoCtx]
  /\ pass = [w \in Workers |-> 0]
  /\ acc  = [w \in Workers |-> 0]
  /\ off  = [w \in Workers |-> 0]
  /\ sz   = [w \in Workers |-> 0]
  /\ hits = [l \in Lines |-> 0]
  /\ dv   = [l \in Lines |-> 0]
  /\ wb   = [w \in Workers |-> NothingIssued]

-----------------------------------------------------------------------------
(***************************************************************************)
(* Main thread: the create loop, the join loop, the end time.              *)
(***************************************************************************)
\* The create loop runs to num_threads, as the join loop does.
Created == NumThreads

Create ==
  /\ mainpc = "create" /\ nth < Created
  /\ heap' = [heap EXCEPT ![CtxBlock(nth)] =
                [tid |-> nth, addr |-> nth * Workset, core_id |-> Affinity(nth)]]
  /\ arg'  = [arg EXCEPT ![nth] = CtxBlock(nth)]
  /\ pc'   = [pc EXCEPT ![nth] = "ready"]
  /\ nth'  = nth + 1
  /\ UNCHANGED <<job, op, mainpc, ctx, pass, kernelVars, memVars>>

StartJoin ==
  /\ mainpc = "create" /\ nth = Created
  /\ mainpc' = "join" /\ nth' = 0
  /\ UNCHANGED <<job, op, heap, arg, pc, ctx, pass, kernelVars, memVars>>

\* Mutated: the loop goes on without waiting.
JoinWithoutWaiting ==
  /\ mainpc = "join" /\ nth < NumThreads
  /\ nth' = nth + 1
  /\ UNCHANGED <<job, op, mainpc, heap, arg, pc, ctx, pass, kernelVars, memVars>>

\* Mutated: the join loop waits for the same thread again and again.
JoinTheSame ==
  /\ mainpc = "join" /\ nth < NumThreads
  /\ pc[nth] = "done"
  /\ UNCHANGED vars

\* pthread_join(thread_arr[i]) returns once that worker has returned.
Join ==
  /\ mainpc = "join" /\ nth < NumThreads
  /\ pc[nth] = "done"
  /\ nth' = nth + 1
  /\ UNCHANGED <<job, op, mainpc, heap, arg, pc, ctx, pass, kernelVars, memVars>>

TakeEnd ==
  /\ mainpc = "join" /\ nth = NumThreads
  /\ mainpc' = "done"
  /\ UNCHANGED <<job, op, nth, heap, arg, pc, ctx, pass, kernelVars, memVars>>

-----------------------------------------------------------------------------
(***************************************************************************)
(* A worker.  The warm-up of both jobs calls the stride kernel; the timed  *)
(* passes of size_bwjob call the random one.                               *)
(***************************************************************************)
SizeKernel(p) == job = "size" /\ p > 0

Span(p)     == IF SizeKernel(p) THEN SizeSpan ELSE StrideSpan

\* Mutated: jle for jl at the end of the stride kernel.
AccessesOneMore(p) == IF SizeKernel(p) THEN SizeAccesses ELSE Count + 1
Accesses(p) == IF SizeKernel(p) THEN SizeAccesses ELSE Count

\* RandLFSR64 & bitmask: any line of the workset; the stride kernel starts at 0.
EntryOffsets(p) == IF SizeKernel(p) THEN 0 .. Workset - 1 ELSE {0}

\* Mutated: the skip is subtracted.
NextOffsetsBackwards(w) ==
  IF SizeKernel(pass[w]) THEN 0 .. Workset - 1 ELSE {off[w] - AccessLines}

\* r8 of the next access: a fresh random line, or one stride further.
NextOffsets(w) ==
  IF SizeKernel(pass[w]) THEN 0 .. Workset - 1 ELSE {off[w] + AccessLines}

\* The line the next instruction of worker w addresses: start_addr + r8 + r10.
Line(w) == ctx[w].addr + off[w] + sz[w]

\* Read the context, pin the thread, enter the warm-up kernel.
Start(w) ==
  /\ pc[w] = "ready"
  /\ ctx' = [ctx EXCEPT ![w] = heap[arg[w]]]
  /\ pc'  = [pc EXCEPT ![w] = "access"]
  /\ UNCHANGED <<mainVars, pass, kernelVars, memVars>>

\* The kernel's loops once a line is dealt with: next line, next access, or out.
Advance(w) ==
  \/ /\ sz[w] + 1 < Span(pass[w])
     /\ sz' = [sz EXCEPT ![w] = @ + 1]
     /\ pc' = [pc EXCEPT ![w] = "access"]
     /\ UNCHANGED <<acc, off>>
  \/ /\ sz[w] + 1 = Span(pass[w])
     /\ acc[w] + 1 < Accesses(pass[w])
     /\ sz'  = [sz EXCEPT ![w] = 0]
     /\ acc' = [acc EXCEPT ![w] = @ + 1]
     /\ \E o \in NextOffsets(w) : off' = [off EXCEPT ![w] = o]
     /\ pc' = [pc EXCEPT ![w] = "access"]
  \/ /\ sz[w] + 1 = Span(pass[w])
     /\ acc[w] + 1 = Accesses(pass[w])
     /\ pc' = [pc EXCEPT ![w] = "fence"]
     /\ UNCHANGED kernelVars

\* vmovntdqa: a load leaves memory as it is.
Load(w) ==
  /\ op = 0 /\ pc[w] = "access"
  /\ hits' = [hits EXCEPT ![Line(w)] = @ + 1]
  /\ Advance(w)
  /\ UNCHANGED <<mainVars, ctx, pass, dv, wb>>

\* vmovntdq: the new version goes to a write-combining buffer.
NtStore(w) ==
  /\ op = 1 /\ pc[w] = "access"
  /\ hits' = [hits EXCEPT ![Line(w)] = @ + 1]
  /\ wb'   = [wb EXCEPT ![w][Line(w)] = hits[Line(w)] + 1]
  /\ Advance(w)
  /\ UNCHANGED <<mainVars, ctx, pass, dv>>

\* vmovdqa64: the new version is in the cache only ...
Store(w) ==
  /\ op = 2 /\ pc[w] = "access"
  /\ hits' = [hits EXCEPT ![Line(w)] = @ + 1]
  /\ pc'   = [pc EXCEPT ![w] = "clwb"]
  /\ UNCHANGED <<mainVars, ctx, pass, kernelVars, dv, wb>>

\* Mutated: the macro flushes its first line every time.
FlushedLineFirst(w) == ctx[w].addr + off[w]

\* The operand of clwb is that of the store before it.
FlushedLine(w) == Line(w)

\* ... until the clwb that follows it starts a write-back of what the line holds.
Clwb(w) ==
  /\ pc[w] = "clwb"
  /\ wb' = [wb EXCEPT ![w][FlushedLine(w)] = hits[FlushedLine(w)]]
  /\ Advance(w)
  /\ UNCHANGED <<mainVars, ctx, pass, hits, dv>>

\* Mutated: the pass has no fence.
DrainedNone(w) == dv

\* MFENCE or SFENCE: what this thread had on its way to memory has arrived.
Drained(w) == [l \in Lines |-> IF wb[w][l] > dv[l] THEN wb[w][l] ELSE dv[l]]

\* The fence that ends a pass, and the entry to the next kernel call, if any.
Fence(w) ==
  /\ pc[w] = "fence"
  /\ dv'   = Drained(w)
  /\ wb'   = [wb EXCEPT ![w] = NothingIssued]
  /\ pass' = [pass EXCEPT ![w] = @ + 1]
  /\ acc'  = [acc EXCEPT ![w] = 0]
  /\ sz'   = [sz EXCEPT ![w] = 0]
  /\ IF pass[w] < Passes
     THEN /\ pc' = [pc EXCEPT ![w] = "access"]
          /\ \E o \in EntryOffsets(pass[w] + 1) : off' = [off EXCEPT ![w] = o]
     ELSE /\ pc' = [pc EXCEPT ![w] = "done"]
          /\ off' = [off EXCEPT ![w] = 0]
  /\ UNCHANGED <<mainVars, ctx, hits>>

Worker(w) ==
  \/ Start(w) \/ Load(w) \/ NtStore(w) \/ Store(w) \/ Clwb(w) \/ Fence(w)

\* The hardware may write a line back at any time, with any version it saw.
WriteBack(l) ==
  /\ op # 0
  /\ \E v \in dv[l] + 1 .. hits[l] : dv' = [dv EXCEPT ![l] = v]
  /\ UNCHANGED <<mainVars, pc, ctx, pass, kernelVars, hits, wb>>

Main == Create \/ StartJoin \/ Join \/ TakeEnd

\* The measurement is over: the function returns to main().
Terminating == mainpc = "done" /\ UNCHANGED vars

Next ==
  \/ Main
  \/ \E w \in Workers : Worker(w)
  \/ \E l \in Lines : WriteBack(l)
  \/ Terminating

(***************************************************************************)
(* The operating system runs every runnable thread again and again; the    *)
(* hardware is under no obligation to write back before a fence.           *)
(***************************************************************************)
Fairness == WF_vars(Main) /\ \A w \in Workers : WF_vars(Worker(w))

Spec == Init /\ [][Next]_vars /\ Fairness

-----------------------------------------------------------------------------
Ctxs == [tid : -1 .. NumThreads - 1, addr : Nat, core_id : Int]

\* The type of every variable.
TypeOK ==
  /\ job \in {"strided", "size"} /\ op \in 0 .. 2
  /\ mainpc \in {"create", "join", "done"}
  /\ nth \in 0 .. NumThreads
  /\ heap \in [Workers -> Ctxs]
  /\ arg  \in [Workers -> Workers]
  /\ pc   \in [Workers -> {"off", "ready", "access", "clwb", "fence", "done"}]
  /\ ctx  \in [Workers -> Ctxs]
  /\ pass \in [Workers -> 0 .. Passes + 1]
  /\ acc  \in [Workers -> Nat]
  /\ off  \in [Workers -> Nat]
  /\ sz   \in [Workers -> Nat]
  /\ hits \in [Lines -> Nat]
  /\ dv   \in [Lines -> Nat]
  /\ wb   \in [Workers -> [Lines -> Nat]]

Running(w) == pc[w] \in {"access", "clwb", "fence"}

(***************************************************************************)
(* No two workers run on the same cpu or were given overlapping worksets:  *)
(* a context must still be the one main() filled in for this worker when   *)
(* the worker reads it (benchmark.cc:176-196, run_thread.cc:326-333).      *)
(***************************************************************************)
WorkersApart ==
  \A v, w \in Workers :
    v # w /\ Running(v) /\ Running(w) =>
      /\ ctx[v].core_id # ctx[w].core_id
      /\ \/ ctx[v].addr + Workset <= ctx[w].addr
         \/ ctx[w].addr + Workset <= ctx[v].addr

(***************************************************************************)
(* The newest version of a line is durable, or some worker still has to    *)
(* flush or to fence it: no write is ever left with nobody to fence it,    *)
(* even when two workers write the same line.                              *)
(***************************************************************************)
NoWriteForgotten ==
  op # 0 =>
    \A l \in Lines :
      dv[l] < hits[l] =>
        \E w \in Workers :
          \/ wb[w][l] = hits[l]
          \/ pc[w] = "clwb" /\ Line(w) = l

(***************************************************************************)
(* The passes a worker has fenced are in persistent memory: each line of a *)
(* sequential worker's partition is durable in at least that many versions.*)
(***************************************************************************)
FencedPassIsDurable ==
  op # 0 /\ job = "strided" =>
    \A w \in Workers : \A l \in Partition(w) : dv[l] >= pass[w]

\* When the end time is taken every byte the report counts is durable.
EndIsDurable ==
  mainpc = "done" /\ op # 0 => \A l \in Lines : dv[l] = hits[l]

(***************************************************************************)
(* A sequential measurement touches every line of the partitions exactly   *)
(* once per pass, warm-up included, and no line outside them.              *)
(***************************************************************************)
EndCoversTheWorksets ==
  mainpc = "done" /\ job = "strided" =>
    \A l \in Lines :
      hits[l] = IF \E w \in Workers : l \in Partition(w) THEN Passes + 1 ELSE 0

\* After the end time is taken no worker touches the region any more.
QuietAfterEnd == [][mainpc = "done" => UNCHANGED <<hits, pass>>]_vars

\* Every measurement ends: main() reaches the end time.
MeasurementEnds == <>(mainpc = "done")

(***************************************************************************)
(* What main() and a worker have left to do: their stage, and what the     *)
(* loops they are in have still to count, outermost first.  The last       *)
(* number of a worker is its place between two tests of its inner loop.    *)
(***************************************************************************)
LeftOfMain ==
  << CASE mainpc = "create" -> 2 [] mainpc = "join" -> 1 [] OTHER -> 0,
     NumThreads - nth >>

StagesLeft(w) ==
  CASE pc[w] = "off" -> 3 [] pc[w] = "ready" -> 2 [] Running(w) -> 1 [] OTHER -> 0

InstructionsLeft(w) == CASE pc[w] = "access" -> 2 [] pc[w] = "clwb" -> 1 [] OTHER -> 0

Left(w) ==
  << StagesLeft(w), Passes + 1 - pass[w], Accesses(pass[w]) - acc[w],
     Span(pass[w]) - sz[w], InstructionsLeft(w) >>

(***************************************************************************)
(* No thread goes round in a circle: what is left is counted in natural    *)
(* numbers, each step of main() and of a worker leaves it less to do, and  *)
(* no step of another gives it more (benchmark.cc:176-199,                 *)
(* run_thread.cc:351-374, the loops of memaccess.cc:283-565).              *)
(***************************************************************************)
EveryStepMovesOn ==
  [][/\ LeftOfMain \in [1 .. 2 -> Nat]
     /\ Main \/ LeftOfMain' # LeftOfMain => Descends(LeftOfMain, LeftOfMain')
     /\ \A w \in Workers :
          /\ Left(w) \in [1 .. 5 -> Nat]
          /\ Worker(w) \/ Left(w)' # Left(w) => Descends(Left(w), Left(w)')]_vars

(***************************************************************************)
(* As long as the end time is not taken somebody can go on: a worker that  *)
(* exists and has not returned finds its loop counters at a test that one  *)
(* of the three branches passes, with an address inside the region, and    *)
(* main() waits only for workers that exist (benchmark.cc:198-199).        *)
(***************************************************************************)
CanGoOn(w) ==
  pc[w] \in {"access", "clwb"} =>
    /\ Line(w) \in Lines
    /\ sz[w] + 1 <= Span(pass[w])
    /\ sz[w] + 1 = Span(pass[w]) => acc[w] + 1 <= Accesses(pass[w])

NobodyWaitsInVain ==
  /\ \A w \in Workers : CanGoOn(w)
  /\ mainpc = "join" => \A w \in Workers : pc[w] # "off"

(***************************************************************************)
(* What benchmark_bw_* promises (module BwPromise).                        *)
(***************************************************************************)
Promise == INSTANCE BwPromise WITH done <- pass, reported <- (mainpc = "done")
ImplementsPromise == Promise!Spec

=============================================================================
