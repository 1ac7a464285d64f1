------------------------------ MODULE LatBench ------------------------------
(***************************************************************************)
(* The latency benchmark: benchmark_lat_seq/benchmark_lat_random choose an *)
(* operation by its number, seq_lat/random_lat run it OpsCount times, and  *)
(* each run (common.hpp) is a prelude, a clock reading, the timed accesses *)
(* and a fenced clock reading.  Time is abstract; what counts is what the  *)
(* memory system has to do between the two readings.  Addresses are in     *)
(* cache lines.  The only other actor is the hardware, which evicts cached *)
(* lines and completes write-backs when it likes; it does not prefetch.    *)
(***************************************************************************)
EXTENDS Integers, Sequences, LoopOrder

CONSTANTS Random,      \* TRUE: random_lat, FALSE: seq_lat
          OpsCount,    \* LATENCY_OPS_COUNT
          Tables,      \* what the table of operations may be
          Asked,       \* the operations main() may ask for
          LocLines,    \* the char values loc[j] in lines: loc[j] >> 6
          MaskLines,   \* BASIC_OP_MASK as a number of lines, a power of two
          Workset,     \* PERTHREAD_WORKSET in lines
          Durations    \* what a timed operation may take, in ns

\* The prelude macros always cover four lines.
PreludeLines == 4

\* What one timed function does: its prelude macro, the accesses it times, what
\* it does to each line behind the access, and how many lines it covers.
OpType ==
  [prelude : {"load", "flush", "fence", "none"}, access : {"load", "store", "nstore", "none"},
   back : {"none", "clwb", "evict"}, lines : 0 .. PreludeLines]

\* The functions of common.hpp for n lines of 64 bytes.  clflush and clflushopt
\* both write a line back and evict it; a movq function moves the same lines.
load_fence(n) == [prelude |-> "flush", access |-> "load", back |-> "none", lines |-> n]
store_fence(n) == [prelude |-> "load", access |-> "store", back |-> "none", lines |-> n]
store_clwb(n) == [prelude |-> "load", access |-> "store", back |-> "clwb", lines |-> n]
store_clflush(n) == [prelude |-> "load", access |-> "store", back |-> "evict", lines |-> n]
nstore_fence(n) == [prelude |-> "flush", access |-> "nstore", back |-> "none", lines |-> n]
repeat_ntstore(n) == [prelude |-> "fence", access |-> "nstore", back |-> "none", lines |-> n]
repeat_load(n) == [prelude |-> "fence", access |-> "load", back |-> "none", lines |-> n]
baseline == [prelude |-> "none", access |-> "none", back |-> "none", lines |-> 0]

\* bench_func of run_thread.cc: what the three operation numbers run.
bench_func_64byte == <<load_fence(1), store_clwb(1), nstore_fence(1)>>

\* A base line, the four lines of its prelude included, stays in the workset.
ASSUME LatAssumption ==
  /\ Random \in BOOLEAN
  /\ OpsCount \in Nat /\ OpsCount >= 1
  /\ \A t \in Tables : t \in [1 .. 3 -> OpType]
  /\ \A a \in Asked : a \in {"read", "write-nt", "write-store+clwb"}
  /\ \A x \in LocLines : x \in Int
  /\ MaskLines \in Nat /\ MaskLines >= 1
  /\ Workset \in Nat /\ MaskLines + OpsCount + PreludeLines <= Workset + 2
  /\ \A d \in Durations : d \in Nat

Lines == 0 .. Workset - 1

VARIABLES asked,   \* the operation main() was called for
          bench_func,  \* the table that ctx->op indexes, fixed in the program
          op,      \* ctx->op
          pc,      \* where main() and its one thread are
          j,       \* operations timed
          base,    \* the first line of the operation
          k,       \* lines of the operation accessed
          cached,  \* lines in the cpu cache
          dirty,   \* lines whose newest data is not in memory
          going,   \* lines whose write-back is under way
          rbuf     \* the timings

mem == <<cached, dirty, going>>
vars == <<asked, bench_func, op, pc, j, base, k, mem, rbuf>>

\* The operation number benchmark_lat_* gives to what was asked.
OpNumber(a) == CASE a = "read" -> 0 [] a = "write-nt" -> 1 [] OTHER -> 2

fn == bench_func[op + 1]

\* The lines of the operation from the nth on.
From(n) == {l \in Lines : base + n <= l /\ l < base + fn.lines}
Prelude == {l \in Lines : base <= l /\ l < base + PreludeLines}

\* The region is cached and modified in any way: memset wrote it before.
Init ==
  /\ asked \in Asked /\ bench_func \in Tables
  /\ op = 0
  /\ pc = "create"
  /\ j = 0 /\ base = 0 /\ k = 0
  /\ cached \in {{}, Lines} /\ dirty \in {{}, cached}
  /\ going = {}
  /\ rbuf = [n \in 0 .. OpsCount - 1 |-> 0]

\* main() fills the context and creates the thread.
Create ==
  /\ pc = "create"
  /\ op' = OpNumber(asked)
  /\ pc' = "warmup"
  /\ UNCHANGED <<asked, bench_func, j, base, k, mem, rbuf>>

\* funcs[0], a load of the whole workset.
WarmUp ==
  /\ pc = "warmup"
  /\ cached' = Lines
  /\ pc' = "addr"
  /\ UNCHANGED <<asked, bench_func, op, j, base, k, dirty, going, rbuf>>

\* Mutated: the character is used without the mask.
OffsetUnmasked(x) == IF Random THEN x ELSE 0

\* The index into buf: nothing, or loc[j] & BASIC_OP_MASK, never negative.
Offset(x) == IF Random THEN x % MaskLines ELSE 0

\* Mutated: the fence orders nothing.
DrainedNone == UNCHANGED <<dirty, going>>

\* mfence: every write-back that is under way completes before it returns.
Drained == dirty' = dirty \ going /\ going' = {}

\* The call of the operation and its LOAD_ADDR; buf has moved by j lines, one
\* operation after the other.  baseline has neither address nor prelude.
Begin ==
  /\ pc = "addr"
  /\ \E x \in LocLines : base' = j + Offset(x)
  /\ IF fn.prelude = "none"
     THEN pc' = "beg" /\ UNCHANGED <<dirty, going>>
     ELSE pc' = "prelude" /\ Drained
  /\ UNCHANGED <<asked, bench_func, op, j, k, cached, rbuf>>

\* Mutated: the function has lost its FLUSH_CACHE_LINE.
FlushedNone == {}

\* The lines that FLUSH_CACHE_LINE names.
Flushed == Prelude

\* LOAD_CACHE_LINE, FLUSH_CACHE_LINE, or neither (repeat_256byte_*) ...
Prepare ==
  /\ pc = "prelude"
  /\ cached' = CASE fn.prelude = "load" -> cached \cup Prelude
                 [] fn.prelude = "flush" -> cached \ Flushed
                 [] OTHER -> cached
  /\ going' = IF fn.prelude = "flush" THEN going \cup (Flushed \cap dirty) ELSE going
  /\ pc' = IF fn.prelude = "fence" THEN "beg" ELSE "settle"
  /\ UNCHANGED <<asked, bench_func, op, j, base, k, dirty, rbuf>>

\* Mutated: the prelude macro has lost its mfence.
SettleNothing == UNCHANGED <<dirty, going>>

\* The mfence that ends the prelude macros.
SettleFence == Drained

\* ... and the mfence that ends both macros.
Settle ==
  /\ pc = "settle"
  /\ SettleFence
  /\ pc' = "beg"
  /\ UNCHANGED <<asked, bench_func, op, j, base, k, cached, rbuf>>

\* Is there a line left to access when n are done?
NextAccess(n) == IF n < fn.lines THEN "access" ELSE "fence"

\* TIMING_BEG: the first clock reading, ordered before the accesses.
TimingBeg ==
  /\ pc = "beg"
  /\ k' = 0
  /\ pc' = NextAccess(0)
  /\ UNCHANGED <<asked, bench_func, op, j, base, mem, rbuf>>

Line == base + k

LoadLine ==
  /\ fn.access = "load"
  /\ cached' = cached \cup {Line}
  /\ UNCHANGED <<dirty, going>>

StoreLine ==
  /\ fn.access = "store"
  /\ cached' = cached \cup {Line}
  /\ dirty' = dirty \cup {Line}
  /\ going' = going \ {Line}

\* A non-temporal store bypasses the cache; its write-back starts by itself.
NtStoreLine ==
  /\ fn.access = "nstore"
  /\ cached' = cached \ {Line}
  /\ dirty' = dirty \cup {Line}
  /\ going' = going \cup {Line}

\* The next line is accessed; a write-back, if any, follows it at once.
Access ==
  /\ pc = "access"
  /\ LoadLine \/ StoreLine \/ NtStoreLine
  /\ IF fn.back = "none"
     THEN k' = k + 1 /\ pc' = NextAccess(k + 1)
     ELSE k' = k /\ pc' = "back"
  /\ UNCHANGED <<asked, bench_func, op, j, base, rbuf>>

\* The line that the clwb, clflush or clflushopt behind an access names.
BackLine == Line

\* clwb may leave the line cached (the hardware may evict it), the others do not.
Back ==
  /\ pc = "back"
  /\ going' = going \cup ({BackLine} \cap dirty)
  /\ cached' = IF fn.back = "evict" THEN cached \ {BackLine} ELSE cached
  /\ k' = k + 1
  /\ pc' = NextAccess(k + 1)
  /\ UNCHANGED <<asked, bench_func, op, j, base, dirty, rbuf>>

\* TIMING_END: mfence and the second clock reading.
TimingEnd ==
  /\ pc = "fence"
  /\ Drained
  /\ pc' = "sample"
  /\ UNCHANGED <<asked, bench_func, op, j, base, k, cached, rbuf>>

\* The loop of seq_lat and random_lat.
MoreOps(n) == n < OpsCount

\* Mutated: the counter of the loop stands still.
FollowingSame(n) == n

Following(n) == n + 1

\* rbuf[j] = result.
Sample ==
  /\ pc = "sample"
  /\ \E d \in Durations : rbuf' = [rbuf EXCEPT ![j] = d]
  /\ j' = Following(j)
  /\ pc' = IF MoreOps(j') THEN "addr" ELSE "report"
  /\ UNCHANGED <<asked, bench_func, op, base, k, mem>>

\* Average and deviation are printed from rbuf; the thread ends.
Report ==
  /\ pc = "report"
  /\ pc' = "joined"
  /\ UNCHANGED <<asked, bench_func, op, j, base, k, mem, rbuf>>

\* The hardware evicts a line, writing it back if it is dirty ...
Evict(l) ==
  /\ l \in cached
  /\ cached' = cached \ {l} /\ dirty' = dirty \ {l}
  /\ UNCHANGED <<asked, bench_func, op, pc, j, base, k, going, rbuf>>

\* ... and completes a write-back that was asked for.
Complete(l) ==
  /\ l \in going
  /\ going' = going \ {l} /\ dirty' = dirty \ {l}
  /\ UNCHANGED <<asked, bench_func, op, pc, j, base, k, cached, rbuf>>

Thread ==
  \/ Create \/ WarmUp \/ Begin \/ Prepare \/ Settle \/ TimingBeg \/ Access \/ Back
  \/ TimingEnd \/ Sample \/ Report

Joined == pc = "joined" /\ UNCHANGED vars

Next == Thread \/ (\E l \in Lines : Evict(l) \/ Complete(l)) \/ Joined

\* The one thread is scheduled; the hardware owes nothing but its fences.
Spec == Init /\ [][Next]_vars /\ WF_vars(Thread)

-----------------------------------------------------------------------------
\* Every variable has its type.
TypeOK ==
  /\ asked \in Asked /\ bench_func \in Tables /\ op \in 0 .. 2
  /\ pc \in {"create", "warmup", "addr", "prelude", "settle", "beg", "access", "back",
            "fence", "sample", "report", "joined"}
  /\ j \in 0 .. OpsCount /\ base \in Int /\ k \in 0 .. PreludeLines
  /\ cached \in SUBSET Lines /\ dirty \in SUBSET Lines /\ going \in SUBSET Lines
  /\ rbuf \in [0 .. OpsCount - 1 -> Nat]

InOperation == pc \in {"prelude", "settle", "beg", "access", "back", "fence", "sample"}
Timed == pc \in {"access", "back", "fence"}

\* All four lines that the prelude of an operation touches are in the workset,
\* for every character of loc: a negative one does not reach below buf, and the
\* last bases do not reach beyond it (run_thread.cc:151-156).
AccessStaysInWorkset ==
  InOperation => base >= 0 /\ base + PreludeLines <= Workset

\* A timed load or non-temporal store of a flushed operation finds none of its
\* remaining lines in the cache, although the warm-up and the previous, overlapping
\* operation have just put them there (common.hpp:29-33).
TimedAccessesAreCold ==
  pc \in {"beg", "access"} /\ fn.prelude = "flush" =>
    From(IF pc = "beg" THEN 0 ELSE k) \cap cached = {}

\* Between the two clock readings the fence waits for write-backs of this very
\* operation and for no older one: neither the prelude's nor the previous
\* operation's traffic is in the figure.
OnlyOwnWorkIsTimed ==
  Timed => \A l \in going : base <= l /\ l <= base + k

\* A store that is followed by clwb or clflush, and a non-temporal store, is in
\* memory when the second reading is taken: the figure covers the way to the device.
TimedWritesAreDurable ==
  pc = "sample" /\ (fn.back # "none" \/ fn.access = "nstore") => From(0) \cap dirty = {}

\* The measurement ends.
LatencyEnds == <>(pc = "joined")

(***************************************************************************)
(* What the thread has left to do: its stage, the operations and, within   *)
(* one, its place between the macros, the lines, and the access itself.    *)
(***************************************************************************)
StagesLeft ==
  CASE pc = "create" -> 4 [] pc = "warmup" -> 3 [] pc = "report" -> 1 [] pc = "joined" -> 0
    [] OTHER -> 2

PlacesLeft ==
  CASE pc = "addr" -> 7 [] pc = "prelude" -> 6 [] pc = "settle" -> 5 [] pc = "beg" -> 4
    [] pc \in {"access", "back"} -> 3 [] pc = "fence" -> 2 [] pc = "sample" -> 1 [] OTHER -> 0

LinesLeft == IF pc \in {"access", "back"} THEN fn.lines - k ELSE 0

Left == << StagesLeft, OpsCount - j, PlacesLeft, LinesLeft, IF pc = "access" THEN 1 ELSE 0 >>

(***************************************************************************)
(* The thread never goes round in a circle: what is left is counted in     *)
(* natural numbers, each of its steps leaves it less, and the hardware     *)
(* gives it nothing more to do, however often it evicts                    *)
(* (run_thread.cc:146-171, common.hpp:29-70).                              *)
(***************************************************************************)
EveryStepMovesOn ==
  [][/\ Left \in [1 .. 5 -> Nat]
     /\ Thread \/ Left' # Left => Descends(Left, Left')]_vars

\* What the comments of benchmark.cc:88-92 say of the table: operation 1 is "write-nt" and operation 2 "write-store+clwb".
OpIsTheOneAskedFor ==
  InOperation =>
    /\ asked = "write-nt" => fn.access = "nstore"
    /\ asked = "write-store+clwb" => fn.access = "store" /\ fn.back = "clwb"
=============================================================================
