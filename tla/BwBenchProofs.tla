---------------------------- MODULE BwBenchProofs ----------------------------
(***************************************************************************)
(* Theorems about BwBench, for every number of threads, workset, pass      *)
(* count and kernel, and their proofs.                                     *)
(***************************************************************************)
EXTENDS BwBench, LoopOrderProofs, TLAPS

\* The context main() prepares for worker w.
CtxOf(w) == [tid |-> w, addr |-> w * Workset, core_id |-> Affinity(w)]

\* Which workers exist, and which have returned, at each point of main().
MainInv ==
  /\ mainpc = "create" => \A w \in Workers : pc[w] = "off" <=> w >= nth
  /\ mainpc # "create" => \A w \in Workers : pc[w] # "off"
  /\ mainpc = "join" => \A w \in Workers : w < nth => pc[w] = "done"
  /\ mainpc = "done" => \A w \in Workers : pc[w] = "done"

\* A worker's block, and the worker's copy of it, hold what main() put there.
CtxInv ==
  \A w \in Workers :
    /\ pc[w] # "off" => arg[w] = w /\ heap[w] = CtxOf(w)
    /\ pc[w] \notin {"off", "ready"} => ctx[w] = CtxOf(w)

\* Where a worker is inside its kernel call.
KernelInv ==
  \A w \in Workers :
    /\ Running(w) =>
         /\ pass[w] <= Passes
         /\ sz[w] < Span(pass[w])
         /\ acc[w] < Accesses(pass[w])
         /\ SizeKernel(pass[w]) => off[w] < Workset
         /\ ~SizeKernel(pass[w]) => off[w] = acc[w] * AccessLines
    /\ pc[w] = "clwb" => op = 2
    /\ pc[w] = "fence" =>
         sz[w] = Span(pass[w]) - 1 /\ acc[w] = Accesses(pass[w]) - 1
    /\ pc[w] \in {"off", "ready"} =>
         pass[w] = 0 /\ acc[w] = 0 /\ off[w] = 0 /\ sz[w] = 0
    /\ pc[w] = "done" => pass[w] = Passes + 1 /\ acc[w] = 0 /\ sz[w] = 0

\* No version is durable or on its way before it is written.
MemInv ==
  /\ \A l \in Lines : dv[l] <= hits[l]
  /\ \A w \in Workers : \A l \in Lines : wb[w][l] <= hits[l]
  /\ \A w \in Workers : ~Running(w) => wb[w] = NothingIssued

\* The inductive invariant.
IInv == TypeOK /\ MainInv /\ CtxInv /\ KernelInv /\ MemInv /\ NoWriteForgotten

-----------------------------------------------------------------------------
\* Multiplication by a natural number keeps the order.
LEMMA TimesMonotonic ==
  ASSUME NEW a \in Nat, NEW b \in Nat, NEW c \in Nat, a <= b
  PROVE  a * c <= b * c /\ a * c \in Nat /\ b * c \in Nat
  OBVIOUS

\* One more of c is c more.
LEMMA TimesSuccessor ==
  ASSUME NEW a \in Nat, NEW c \in Nat
  PROVE  (a + 1) * c = a * c + c /\ a * c \in Nat
  OBVIOUS

\* The sizes the kernels work with.
LEMMA Sizes ==
  /\ Workset \in Nat \ {0}
  /\ StrideSpan = AccessLines
  /\ \A p \in Nat : Span(p) \in Nat \ {0} /\ Accesses(p) \in Nat \ {0}
<1>1. Workset \in Nat \ {0}
  <2>1. Count \in Nat /\ AccessLines \in Nat /\ 1 <= Count /\ 1 <= AccessLines
    BY SizesAssumption
  <2>2. 1 * AccessLines <= Count * AccessLines /\ Count * AccessLines \in Nat
    BY <2>1, TimesMonotonic
  <2> QED BY <2>1, <2>2 DEF Workset
<1>2. StrideSpan = AccessLines
  BY SizesAssumption
<1>3. \A p \in Nat : Span(p) \in Nat \ {0} /\ Accesses(p) \in Nat \ {0}
  BY SizesAssumption DEF Span, Accesses
<1> QED BY <1>1, <1>2, <1>3


\* A running worker addresses a line of the region.
LEMMA LineInRegion ==
  ASSUME TypeOK, CtxInv, KernelInv, NEW w \in Workers, Running(w)
  PROVE  Line(w) \in Lines
<1> DEFINE a == acc[w]
           o == off[w]
           s == sz[w]
           p == pass[w]
<1>1. /\ a \in Nat /\ o \in Nat /\ s \in Nat /\ p \in Nat /\ w \in Nat
      /\ w <= NumThreads - 1 /\ NumThreads \in Nat /\ RegionLines \in Nat
  BY SizesAssumption DEF TypeOK, Workers
<1>2. Workset \in Nat /\ AccessLines \in Nat /\ Count \in Nat /\ SizeSpan \in Nat
  BY Sizes, SizesAssumption
<1>3. Line(w) = w * Workset + o + s
  <2>1. ctx[w] = CtxOf(w)
    BY DEF CtxInv, Running
  <2>2. CtxOf(w).addr = w * Workset
    BY DEF CtxOf
  <2> QED BY <2>1, <2>2 DEF Line
<1>4. w * Workset <= (NumThreads - 1) * Workset /\ w * Workset \in Nat
  BY <1>1, <1>2, TimesMonotonic, SizesAssumption
<1>5. (NumThreads - 1) * Workset = NumThreads * Workset - Workset
      /\ NumThreads * Workset \in Nat
  BY <1>1, <1>2
<1>6. o + s < Workset + SizeSpan
  <2>1. CASE SizeKernel(p)
    BY <2>1, <1>1, <1>2 DEF KernelInv, Span
  <2>2. CASE ~SizeKernel(p)
    <3>1. a <= Count - 1 /\ s < AccessLines /\ o = a * AccessLines
      BY <2>2, <1>1, <1>2, Sizes DEF KernelInv, Span, Accesses
    <3>2. a * AccessLines <= (Count - 1) * AccessLines
      BY <3>1, <1>1, <1>2, SizesAssumption, TimesMonotonic
    <3>3. (Count - 1) * AccessLines = Workset - AccessLines
      BY <1>2 DEF Workset
    <3> QED BY <3>1, <3>2, <3>3, <1>1, <1>2
  <2> QED BY <2>1, <2>2
<1>7. NumThreads * Workset + SizeSpan <= RegionLines
  BY SizesAssumption
<1> HIDE DEF a, o, s, p
<1>8. o + s \in Nat /\ w * Workset + o + s <= RegionLines - 1
  BY <1>1, <1>2, <1>4, <1>5, <1>6, <1>7
<1> QED BY <1>1, <1>2, <1>3, <1>4, <1>8 DEF Lines, o, s


LEMMA InitEstablishes == Init => IInv
<1> SUFFICES ASSUME Init PROVE IInv
  OBVIOUS
<1> USE SizesAssumption DEF Init
<1>1. NothingIssued \in [Lines -> Nat] /\ NoCtx \in Ctxs
  BY DEF NothingIssued, NoCtx, Ctxs
<1>2. TypeOK
  BY <1>1 DEF TypeOK, Workers
<1>3. MainInv
  BY DEF MainInv, Workers
<1>4. CtxInv
  BY DEF CtxInv
<1>5. KernelInv
  BY DEF KernelInv, Running
<1>6. MemInv
  BY DEF MemInv, Running, NothingIssued
<1>7. NoWriteForgotten
  BY DEF NoWriteForgotten
<1> QED BY <1>2, <1>3, <1>4, <1>5, <1>6, <1>7 DEF IInv

\* The steps of main() leave every kernel and the memory alone.
LEMMA MainPreserves == IInv /\ Main => IInv'
<1> SUFFICES ASSUME IInv, Main PROVE IInv'
  OBVIOUS
<1> USE DEF IInv
<1>1. CASE Create
  <2> USE <1>1 DEF Create
  <2>1. nth \in Workers /\ nth \in Nat /\ pc[nth] = "off"
    BY SizesAssumption DEF TypeOK, MainInv, Workers, Created
  <2>2. CtxOf(nth) \in Ctxs
    <3>1. nth * Workset \in Nat
      BY <2>1, Sizes
    <3> QED BY <2>1, <3>1 DEF CtxOf, Ctxs, Affinity, Workers
  <2>3. heap' = [heap EXCEPT ![nth] = CtxOf(nth)] /\ arg' = [arg EXCEPT ![nth] = nth]
    BY DEF CtxBlock, CtxOf
  <2>4. TypeOK'
    <3>1. nth' \in 0 .. NumThreads
      BY <2>1, SizesAssumption DEF Workers
    <3> QED BY <2>1, <2>2, <2>3, <3>1 DEF TypeOK, kernelVars, memVars
  <2>5. MainInv'
    BY <2>1 DEF MainInv, TypeOK, Workers
  <2>6. CtxInv'
    BY <2>1, <2>3 DEF CtxInv, TypeOK, CtxOf, Affinity
  <2>7. KernelInv'
    BY <2>1 DEF KernelInv, Running, TypeOK, kernelVars,
           SizeKernel, Span, Accesses
  <2>8. MemInv'
    BY <2>1 DEF MemInv, Running, TypeOK, memVars, NothingIssued
  <2>9. NoWriteForgotten'
    BY <2>1 DEF NoWriteForgotten, Line, TypeOK, memVars, kernelVars
  <2> QED BY <2>4, <2>5, <2>6, <2>7, <2>8, <2>9
<1>2. CASE UNCHANGED <<job, op, heap, arg, pc, ctx, pass, kernelVars, memVars>>
           /\ (StartJoin \/ Join \/ TakeEnd)
  <2> USE <1>2 DEF kernelVars, memVars
  <2>1. TypeOK'
    BY SizesAssumption DEF TypeOK, StartJoin, Join, TakeEnd
  <2>2. MainInv'
    <3>1. CASE StartJoin
      BY <3>1, SizesAssumption DEF MainInv, StartJoin, Created, Workers, TypeOK
    <3>2. CASE Join
      BY <3>2, SizesAssumption DEF MainInv, Join, Workers, TypeOK
    <3>3. CASE TakeEnd
      BY <3>3, SizesAssumption DEF MainInv, TakeEnd, Workers, TypeOK
    <3> QED BY <1>2, <3>1, <3>2, <3>3
  <2>3. CtxInv'
    BY DEF CtxInv, CtxOf
  <2>4. KernelInv' /\ MemInv'
    BY DEF KernelInv, MemInv, Running, NothingIssued, SizeKernel, Span, Accesses
  <2>5. NoWriteForgotten'
    BY DEF NoWriteForgotten, Line
  <2> QED BY <2>1, <2>2, <2>3, <2>4, <2>5
<1> QED BY <1>1, <1>2 DEF Main, StartJoin, Join, TakeEnd


\* A worker that starts reads the context meant for it and is at the head of
\* the warm-up kernel.
LEMMA StartPreserves == ASSUME IInv, NEW w \in Workers, Start(w) PROVE IInv'
<1> USE DEF IInv, Start
<1>0. op' = op /\ job' = job
  BY DEF mainVars
<1> USE <1>0
<1>1. arg[w] = w /\ heap[w] = CtxOf(w) /\ heap[w] \in Ctxs
  BY DEF CtxInv, TypeOK
<1>2. TypeOK'
  BY <1>1 DEF TypeOK, mainVars, kernelVars, memVars
<1>3. MainInv'
  BY DEF MainInv, TypeOK, mainVars
<1>4. CtxInv'
  BY <1>1 DEF CtxInv, TypeOK, mainVars, CtxOf
<1>5. KernelInv'
  <2>1. ~SizeKernel(0) /\ Span(0) > 0 /\ Accesses(0) > 0 /\ 0 <= Passes
        /\ 0 = 0 * AccessLines
    BY Sizes, SizesAssumption DEF SizeKernel
  <2>2. pass[w] = 0 /\ acc[w] = 0 /\ off[w] = 0 /\ sz[w] = 0
    BY DEF KernelInv
  <2> QED BY <2>1, <2>2 DEF KernelInv, Running, TypeOK, kernelVars, mainVars,
        SizeKernel, Span, Accesses
<1>6. MemInv'
  BY DEF MemInv, Running, TypeOK, memVars, NothingIssued
<1>7. NoWriteForgotten'
  BY DEF NoWriteForgotten, Line, TypeOK, memVars, kernelVars
<1> QED BY <1>2, <1>3, <1>4, <1>5, <1>6, <1>7

(***************************************************************************)
(* What the loop control of a kernel preserves: the next access stays in   *)
(* the kernel, in bounds.                                                  *)
(***************************************************************************)
LEMMA AdvancePreserves ==
  ASSUME TypeOK, KernelInv, NEW w \in Workers, pc[w] \in {"access", "clwb"},
         Advance(w), pass' = pass, op' = op, job' = job
  PROVE  /\ pc' \in [Workers -> {"off", "ready", "access", "clwb", "fence", "done"}]
         /\ acc' \in [Workers -> Nat] /\ off' \in [Workers -> Nat]
         /\ sz' \in [Workers -> Nat]
         /\ pc'[w] \in {"access", "fence"}
         /\ \A v \in Workers : v # w =>
              pc'[v] = pc[v] /\ acc'[v] = acc[v] /\ off'[v] = off[v] /\ sz'[v] = sz[v]
         /\ KernelInv'
<1>1. /\ pass[w] \in Nat /\ acc[w] \in Nat /\ off[w] \in Nat /\ sz[w] \in Nat
      /\ AccessLines \in Nat /\ Workset \in Nat
      /\ Span(pass[w]) \in Nat \ {0} /\ Accesses(pass[w]) \in Nat \ {0}
  BY Sizes, SizesAssumption DEF TypeOK
<1>2. Running(w)
  BY DEF Running
<1>3. CASE sz[w] + 1 < Span(pass[w])
  <2>1. /\ sz' = [sz EXCEPT ![w] = @ + 1] /\ pc' = [pc EXCEPT ![w] = "access"]
        /\ acc' = acc /\ off' = off
    BY <1>1, <1>3 DEF Advance
  <2> QED BY <1>1, <1>2, <1>3, <2>1 DEF KernelInv, Running, TypeOK, SizeKernel, Span, Accesses
<1>4. CASE sz[w] + 1 = Span(pass[w]) /\ acc[w] + 1 < Accesses(pass[w])
  <2>1. PICK o \in NextOffsets(w) :
        /\ sz' = [sz EXCEPT ![w] = 0] /\ acc' = [acc EXCEPT ![w] = @ + 1]
        /\ off' = [off EXCEPT ![w] = o] /\ pc' = [pc EXCEPT ![w] = "access"]
    BY <1>1, <1>4 DEF Advance
  <2>2. /\ o \in Nat
        /\ SizeKernel(pass[w]) => o < Workset
        /\ ~SizeKernel(pass[w]) => o = (acc[w] + 1) * AccessLines
    <3>1. CASE SizeKernel(pass[w])
      BY <3>1, <1>1 DEF NextOffsets
    <3>2. CASE ~SizeKernel(pass[w])
      <4>1. o = acc[w] * AccessLines + AccessLines
        BY <3>2, <1>2 DEF NextOffsets, KernelInv
      <4>2. (acc[w] + 1) * AccessLines = acc[w] * AccessLines + AccessLines
            /\ acc[w] * AccessLines \in Nat
        BY <1>1, TimesSuccessor
      <4> QED BY <4>1, <4>2, <3>2, <1>1
    <3> QED BY <3>1, <3>2
  <2> QED BY <1>1, <1>2, <1>4, <2>1, <2>2 DEF KernelInv, Running, TypeOK,
        SizeKernel, Span, Accesses
<1>5. CASE sz[w] + 1 = Span(pass[w]) /\ acc[w] + 1 = Accesses(pass[w])
  <2>1. pc' = [pc EXCEPT ![w] = "fence"] /\ acc' = acc /\ off' = off /\ sz' = sz
    BY <1>1, <1>5 DEF Advance, kernelVars
  <2>2. sz[w] = Span(pass[w]) - 1 /\ acc[w] = Accesses(pass[w]) - 1
    BY <1>1, <1>5
  <2>3. pc' \in [Workers -> {"off", "ready", "access", "clwb", "fence", "done"}]
        /\ \A v \in Workers : pc'[v] = IF v = w THEN "fence" ELSE pc[v]
    BY <2>1 DEF TypeOK
  <2>4. KernelInv'
    BY <1>2, <2>1, <2>2, <2>3 DEF KernelInv, Running, Span, Accesses, SizeKernel
  <2> QED BY <2>1, <2>3, <2>4 DEF TypeOK
<1> QED BY <1>3, <1>4, <1>5 DEF Advance


\* Moving the loop control does not disturb main() or the contexts.
LEMMA KernelStepFrame ==
  ASSUME IInv, NEW w \in Workers, Running(w),
         pc' \in [Workers -> {"off", "ready", "access", "clwb", "fence", "done"}],
         \A v \in Workers : v # w => pc'[v] = pc[v],
         pc'[w] \notin {"off", "ready"},
         UNCHANGED <<mainVars, ctx>>
  PROVE  MainInv' /\ CtxInv'
<1>1. MainInv'
  BY DEF IInv, MainInv, Running, mainVars
<1>2. CtxInv'
  BY DEF IInv, CtxInv, Running, mainVars, CtxOf
<1> QED BY <1>1, <1>2

\* The four kernel instructions.
LEMMA AccessPreserves ==
  ASSUME IInv, NEW w \in Workers, Load(w) \/ NtStore(w) \/ Store(w) \/ Clwb(w)
  PROVE  IInv'
<1> USE DEF IInv
<1>0. op' = op /\ job' = job
  BY DEF Load, NtStore, Store, Clwb, mainVars
<1> USE <1>0
<1>1. pc[w] \in {"access", "clwb"} /\ Running(w) /\ UNCHANGED <<mainVars, ctx, pass, dv>>
  BY DEF Load, NtStore, Store, Clwb, Running
<1>2. Line(w) \in Lines
  BY <1>1, LineInRegion
<1>3. /\ pc' \in [Workers -> {"off", "ready", "access", "clwb", "fence", "done"}]
      /\ acc' \in [Workers -> Nat] /\ off' \in [Workers -> Nat]
      /\ sz' \in [Workers -> Nat]
      /\ pc'[w] \in {"access", "clwb", "fence"}
      /\ \A v \in Workers : v # w =>
           pc'[v] = pc[v] /\ acc'[v] = acc[v] /\ off'[v] = off[v] /\ sz'[v] = sz[v]
      /\ KernelInv'
  <2>1. CASE Advance(w)
    BY <1>1, <2>1, AdvancePreserves
  <2>2. CASE Store(w)
    BY <2>2 DEF Store, KernelInv, Running, TypeOK, kernelVars, mainVars,
        SizeKernel, Span, Accesses
  <2> QED BY <2>1, <2>2 DEF Load, NtStore, Clwb
<1>4. MainInv' /\ CtxInv'
  BY <1>1, <1>3, KernelStepFrame
<1>5. \A v \in Workers : Running(v) <=> Running(v)'
  BY <1>1, <1>3 DEF Running
<1>6. CASE Load(w)
  <2>1. hits' = [hits EXCEPT ![Line(w)] = @ + 1] /\ UNCHANGED <<dv, wb>> /\ op = 0
    BY <1>6 DEF Load
  <2>2. TypeOK'
    BY <1>1, <1>2, <1>3, <2>1 DEF TypeOK, mainVars
  <2>3. MemInv'
    BY <1>2, <1>5, <2>1 DEF MemInv, TypeOK, NothingIssued
  <2>4. NoWriteForgotten'
    BY <2>1 DEF NoWriteForgotten
  <2> QED BY <1>3, <1>4, <2>2, <2>3, <2>4
<1>7. CASE NtStore(w)
  <2>1. /\ hits' = [hits EXCEPT ![Line(w)] = @ + 1] /\ dv' = dv
        /\ wb' = [wb EXCEPT ![w][Line(w)] = hits[Line(w)] + 1]
        /\ op = 1
    BY <1>7 DEF NtStore
  <2>2. TypeOK'
    BY <1>1, <1>2, <1>3, <2>1 DEF TypeOK, mainVars
  <2>3. MemInv'
    BY <1>1, <1>2, <1>5, <2>1 DEF MemInv, TypeOK, NothingIssued
  <2>4. NoWriteForgotten'
    <3>1. \A v \in Workers : pc[v] # "clwb"
      BY <2>1 DEF KernelInv
    <3>2. wb'[w][Line(w)] = hits'[Line(w)]
      BY <1>2, <2>1 DEF TypeOK
    <3>3. \A v \in Workers, l \in Lines :
            l # Line(w) => hits'[l] = hits[l] /\ wb'[v][l] = wb[v][l]
      BY <1>2, <2>1 DEF TypeOK
    <3> QED BY <1>2, <2>1, <3>1, <3>2, <3>3 DEF NoWriteForgotten
  <2> QED BY <1>3, <1>4, <2>2, <2>3, <2>4
<1>8. CASE Store(w)
  <2>1. /\ hits' = [hits EXCEPT ![Line(w)] = @ + 1] /\ dv' = dv /\ wb' = wb
        /\ pc' = [pc EXCEPT ![w] = "clwb"] /\ UNCHANGED kernelVars
        /\ pc[w] = "access"
    BY <1>8 DEF Store
  <2>2. TypeOK'
    BY <1>1, <1>2, <1>3, <2>1 DEF TypeOK, mainVars
  <2>3. MemInv'
    BY <1>1, <1>2, <1>5, <2>1 DEF MemInv, TypeOK, NothingIssued
  <2>4. NoWriteForgotten'
    <3>1. pc'[w] = "clwb" /\ \A v \in Workers : Line(v)' = Line(v)
      BY <1>1, <2>1 DEF Line, kernelVars, TypeOK
    <3>2. \A l \in Lines : l # Line(w) => hits'[l] = hits[l]
      BY <1>2, <2>1 DEF TypeOK
    <3>3. \A v \in Workers : v # w => pc'[v] = pc[v]
      BY <1>3
    <3> QED BY <1>2, <2>1, <3>1, <3>2, <3>3 DEF NoWriteForgotten
  <2> QED BY <1>3, <1>4, <2>2, <2>3, <2>4
<1>9. CASE Clwb(w)
  <2>1. /\ hits' = hits /\ dv' = dv
        /\ wb' = [wb EXCEPT ![w][Line(w)] = hits[Line(w)]]
    BY <1>9 DEF Clwb, FlushedLine
  <2>2. TypeOK'
    BY <1>1, <1>2, <1>3, <2>1 DEF TypeOK, mainVars
  <2>3. MemInv'
    BY <1>1, <1>2, <1>5, <2>1 DEF MemInv, TypeOK, NothingIssued
  <2>4. NoWriteForgotten'
    <3>1. wb'[w][Line(w)] = hits'[Line(w)]
      BY <1>2, <2>1 DEF TypeOK
    <3>2. \A v \in Workers, l \in Lines :
            v # w \/ l # Line(w) => wb'[v][l] = wb[v][l]
      BY <1>2, <2>1 DEF TypeOK
    <3>3. \A v \in Workers : v # w => pc'[v] = pc[v] /\ Line(v)' = Line(v)
      BY <1>1, <1>3 DEF Line
    <3> QED BY <1>2, <2>1, <3>1, <3>2, <3>3 DEF NoWriteForgotten
  <2> QED BY <1>3, <1>4, <2>2, <2>3, <2>4
<1> QED BY <1>6, <1>7, <1>8, <1>9


\* The fence ends the pass: what the worker issued is durable.
LEMMA FencePreserves == ASSUME IInv, NEW w \in Workers, Fence(w) PROVE IInv'
<1> USE DEF IInv
<1>0. op' = op /\ job' = job
  BY DEF Fence, mainVars
<1> USE <1>0
<1>1. Running(w) /\ pc[w] = "fence" /\ UNCHANGED <<mainVars, ctx, hits>>
  BY DEF Fence, Running
<1>2. /\ pass[w] \in Nat /\ pass[w] <= Passes /\ pass'[w] = pass[w] + 1
      /\ acc'[w] = 0 /\ sz'[w] = 0
      /\ wb' = [wb EXCEPT ![w] = NothingIssued]
      /\ NothingIssued \in [Lines -> Nat]
      /\ \A l \in Lines : NothingIssued[l] = 0
  BY <1>1 DEF Fence, TypeOK, KernelInv, NothingIssued
<1>3. /\ pc'[w] = IF pass[w] < Passes THEN "access" ELSE "done"
      /\ pc' \in [Workers -> {"off", "ready", "access", "clwb", "fence", "done"}]
      /\ \A v \in Workers : v # w =>
           /\ pc'[v] = pc[v] /\ pass'[v] = pass[v]
           /\ acc'[v] = acc[v] /\ off'[v] = off[v] /\ sz'[v] = sz[v]
  BY DEF Fence, TypeOK
<1>4. /\ off' \in [Workers -> Nat]
      /\ SizeKernel(pass[w] + 1) => off'[w] < Workset
      /\ ~SizeKernel(pass[w] + 1) => off'[w] = 0
  <2>1. Workset \in Nat \ {0}
    BY Sizes
  <2>2. CASE pass[w] < Passes
    <3>1. PICK o \in EntryOffsets(pass[w] + 1) : off' = [off EXCEPT ![w] = o]
      BY <2>2 DEF Fence
    <3> QED BY <2>1, <3>1 DEF EntryOffsets, TypeOK
  <2>3. CASE ~(pass[w] < Passes)
    <3>1. off' = [off EXCEPT ![w] = 0]
      BY <2>3 DEF Fence
    <3>2. off' \in [Workers -> Nat] /\ off'[w] = 0
      BY <3>1 DEF TypeOK
    <3> QED BY <2>1, <3>2
  <2> QED BY <2>2, <2>3
<1>5. /\ dv' \in [Lines -> Nat]
      /\ \A l \in Lines : /\ dv'[l] <= hits[l]
                          /\ dv[l] <= dv'[l] /\ wb[w][l] <= dv'[l]
  <2>1. dv' = [l \in Lines |-> IF wb[w][l] > dv[l] THEN wb[w][l] ELSE dv[l]]
    BY DEF Fence, Drained
  <2> QED BY <2>1 DEF TypeOK, MemInv
<1>6. TypeOK'
  <2>1. pass' \in [Workers -> 0 .. Passes + 1]
    BY <1>2, SizesAssumption DEF Fence, TypeOK
  <2> QED BY <1>1, <1>2, <1>3, <1>4, <1>5, <2>1 DEF Fence, TypeOK, mainVars
<1>7. MainInv' /\ CtxInv'
  BY <1>1, <1>3, KernelStepFrame
<1>8. KernelInv'
  <2>1. 0 * AccessLines = 0 /\ Passes \in Nat
        /\ Span(pass[w] + 1) > 0 /\ Accesses(pass[w] + 1) > 0
    BY <1>2, Sizes, SizesAssumption
  <2>2. pass[w] < Passes \/ pass[w] = Passes
    BY <1>2, SizesAssumption
  <2> QED BY <1>2, <1>3, <1>4, <2>1, <2>2
             DEF KernelInv, Running, Span, Accesses, SizeKernel
<1>9. MemInv'
  BY <1>1, <1>2, <1>3, <1>5 DEF MemInv, TypeOK, Running, NothingIssued
<1>10. NoWriteForgotten'
  <2> SUFFICES ASSUME op # 0, NEW l \in Lines, dv'[l] < hits'[l]
               PROVE  \E v \in Workers :
                        \/ wb'[v][l] = hits'[l]
                        \/ pc'[v] = "clwb" /\ Line(v)' = l
    BY DEF NoWriteForgotten
  <2>1. dv[l] < hits[l] /\ wb[w][l] # hits[l]
    <3>1. /\ dv[l] \in Nat /\ dv'[l] \in Nat /\ hits[l] \in Nat /\ wb[w][l] \in Nat
          /\ hits'[l] = hits[l]
      BY <1>1, <1>5 DEF TypeOK
    <3> QED BY <1>5, <3>1
  <2>2. PICK v \in Workers : \/ wb[v][l] = hits[l]
                             \/ pc[v] = "clwb" /\ Line(v) = l
    BY <2>1 DEF NoWriteForgotten
  <2>3. v # w
    BY <1>1, <2>1, <2>2
  <2>4. wb'[v][l] = wb[v][l] /\ pc'[v] = pc[v] /\ Line(v)' = Line(v)
    BY <1>1, <1>2, <1>3, <2>3 DEF TypeOK, Line
  <2> QED BY <1>1, <2>2, <2>4
<1> QED BY <1>6, <1>7, <1>8, <1>9, <1>10

\* A write-back by the hardware.
LEMMA WriteBackPreserves == ASSUME IInv, NEW l \in Lines, WriteBack(l) PROVE IInv'
<1> USE DEF IInv
<1>0. op' = op /\ job' = job
  BY DEF WriteBack, mainVars
<1> USE <1>0
<1>1. PICK v \in dv[l] + 1 .. hits[l] : dv' = [dv EXCEPT ![l] = v]
  BY DEF WriteBack
<1>2. UNCHANGED <<job, op, mainpc, nth, heap, arg, pc, ctx, pass, acc, off, sz, hits, wb>>
  BY DEF WriteBack, mainVars, kernelVars
<1>3. v \in Nat /\ v <= hits[l] /\ dv[l] < v
  BY <1>1 DEF TypeOK
<1>4. TypeOK'
  BY <1>1, <1>2, <1>3 DEF TypeOK
<1>5. MainInv' /\ CtxInv' /\ KernelInv'
  BY <1>2 DEF MainInv, CtxInv, KernelInv, CtxOf, Running, SizeKernel, Span, Accesses
<1>6. MemInv'
  BY <1>1, <1>2, <1>3 DEF MemInv, TypeOK, Running, NothingIssued
<1>7. NoWriteForgotten'
  BY <1>1, <1>2, <1>3 DEF NoWriteForgotten, TypeOK, Line
<1> QED BY <1>4, <1>5, <1>6, <1>7

LEMMA StutterPreserves == IInv /\ UNCHANGED vars => IInv'
BY DEF IInv, TypeOK, MainInv, CtxInv, KernelInv, MemInv, NoWriteForgotten, vars,
       mainVars, kernelVars, memVars, Running, Line, CtxOf, NothingIssued, SizeKernel, Span, Accesses

\* The invariant the theorems below rest on.
THEOREM Invariant == Spec => []IInv
<1>1. IInv /\ [Next]_vars => IInv'
  <2> SUFFICES ASSUME IInv, [Next]_vars PROVE IInv'
    OBVIOUS
  <2>1. CASE Main
    BY <2>1, MainPreserves
  <2>2. CASE \E w \in Workers : Worker(w)
    BY <2>2, StartPreserves, AccessPreserves, FencePreserves DEF Worker
  <2>3. CASE \E l \in Lines : WriteBack(l)
    BY <2>3, WriteBackPreserves
  <2>4. CASE Terminating \/ UNCHANGED vars
    BY <2>4, StutterPreserves DEF Terminating
  <2> QED BY <2>1, <2>2, <2>3, <2>4 DEF Next
<1> QED BY InitEstablishes, <1>1, PTL DEF Spec

\* Every variable keeps its type.
THEOREM TypeCorrect == Spec => []TypeOK
BY Invariant, PTL DEF IInv

(***************************************************************************)
(* A write is never left without a worker that will fence it, whichever    *)
(* workers write the line (memaccess.cc kernels, run_thread.cc:358-374).   *)
(***************************************************************************)
THEOREM WritesAreFollowedUp == Spec => []NoWriteForgotten
BY Invariant, PTL DEF IInv

(***************************************************************************)
(* When main() has joined the workers and takes the end time, all they     *)
(* wrote is durable (benchmark.cc:198-203).                                *)
(***************************************************************************)
THEOREM MeasuredBytesAreDurable == Spec => []EndIsDurable
<1>1. IInv => EndIsDurable
  <2> SUFFICES ASSUME IInv, mainpc = "done", op # 0, NEW l \in Lines
               PROVE  dv[l] = hits[l]
    BY DEF EndIsDurable
  <2>1. \A w \in Workers : wb[w][l] = 0 /\ pc[w] # "clwb"
    BY DEF IInv, MainInv, MemInv, Running, NothingIssued
  <2>2. dv[l] \in Nat /\ hits[l] \in Nat /\ dv[l] <= hits[l]
    BY DEF IInv, TypeOK, MemInv
  <2>3. ~(dv[l] < hits[l])
    BY <2>1, <2>2 DEF IInv, NoWriteForgotten
  <2> QED BY <2>2, <2>3
<1> QED BY Invariant, <1>1, PTL


(***************************************************************************)
(* Workers that run at the same time are on different cpus and work on     *)
(* disjoint worksets (benchmark.cc:176-196).                               *)
(***************************************************************************)
THEOREM WorkersStayApart == Spec => []WorkersApart
<1>1. IInv => WorkersApart
  <2> SUFFICES ASSUME IInv, NEW v \in Workers, NEW w \in Workers, v # w,
                      Running(v), Running(w)
               PROVE  /\ ctx[v].core_id # ctx[w].core_id
                      /\ \/ ctx[v].addr + Workset <= ctx[w].addr
                         \/ ctx[w].addr + Workset <= ctx[v].addr
    BY DEF WorkersApart
  <2>1. ctx[v] = CtxOf(v) /\ ctx[w] = CtxOf(w)
    BY DEF IInv, CtxInv, Running
  <2>2. v \in Nat /\ w \in Nat /\ Workset \in Nat
    BY Sizes, SizesAssumption DEF Workers
  <2>3. ctx[v].core_id = 2 * v /\ ctx[w].core_id = 2 * w
    BY <2>1 DEF CtxOf, Affinity
  <2>4. ctx[v].addr = v * Workset /\ ctx[w].addr = w * Workset
    BY <2>1 DEF CtxOf
  <2>5. \A a, b \in Nat : a < b => a * Workset + Workset <= b * Workset
    <3> SUFFICES ASSUME NEW a \in Nat, NEW b \in Nat, a < b
                 PROVE  a * Workset + Workset <= b * Workset
      OBVIOUS
    <3>1. (a + 1) * Workset <= b * Workset
      BY <2>2, TimesMonotonic
    <3> QED BY <3>1, <2>2, TimesSuccessor
  <2>6. v < w \/ w < v
    BY <2>2
  <2> QED BY <2>2, <2>3, <2>4, <2>5, <2>6
<1> QED BY Invariant, <1>1, PTL

\* After the end time no step touches the region (benchmark.cc:198-203).
THEOREM RegionQuietAfterEnd == Spec => QuietAfterEnd
<1>1. IInv /\ [Next]_vars => (mainpc = "done" => UNCHANGED <<hits, pass>>)
  <2> SUFFICES ASSUME IInv, [Next]_vars, mainpc = "done"
               PROVE  UNCHANGED <<hits, pass>>
    OBVIOUS
  <2>1. \A w \in Workers : pc[w] = "done"
    BY DEF IInv, MainInv
  <2>2. \A w \in Workers : ~Worker(w)
    BY <2>1 DEF Worker, Start, Load, NtStore, Store, Clwb, Fence
  <2>3. CASE \E l \in Lines : WriteBack(l)
    BY <2>3 DEF WriteBack
  <2>4. CASE Main
    BY <2>4 DEF Main, Create, StartJoin, Join, TakeEnd
  <2>5. CASE Terminating \/ UNCHANGED vars
    BY <2>5 DEF Terminating, vars, memVars
  <2> QED BY <2>2, <2>3, <2>4, <2>5 DEF Next
<1> QED BY Invariant, <1>1, PTL DEF Spec, QuietAfterEnd

(***************************************************************************)
(* The measurement implements the safety part of its promise: a fence      *)
(* completes a pass, and the figure is reported when all are complete.     *)
(***************************************************************************)
THEOREM KeepsPromise == Spec => Promise!Safety
<1>1. Init => Promise!Init
  BY DEF Init, Promise!Init, Workers
<1>2. IInv /\ [Next]_vars => [Promise!Next]_<<pass, mainpc = "done">>
  <2> SUFFICES ASSUME IInv, [Next]_vars
               PROVE  Promise!Next \/ UNCHANGED <<pass, mainpc = "done">>
    OBVIOUS
  <2>1. CASE TakeEnd
    <3>1. \A w \in Workers : pass[w] = Passes + 1
      BY <2>1, SizesAssumption DEF TakeEnd, IInv, MainInv, KernelInv, Workers
    <3> QED BY <2>1, <3>1 DEF TakeEnd, Promise!Next, Promise!Report, Workers
  <2>2. CASE Create \/ StartJoin \/ Join
    BY <2>2 DEF Create, StartJoin, Join
  <2>3. ASSUME NEW w \in Workers, Worker(w)
        PROVE  Promise!Next \/ UNCHANGED <<pass, mainpc = "done">>
    <3>1. mainpc # "done"
      BY <2>3 DEF IInv, MainInv, Worker, Start, Load, NtStore, Store, Clwb, Fence
    <3>2. CASE Fence(w)
      <4>1. pass[w] <= Passes
        BY <3>2 DEF Fence, IInv, KernelInv, Running
      <4>2. Promise!CompletePass(w)
        BY <3>1, <3>2, <4>1 DEF Fence, Promise!CompletePass, mainVars
      <4> QED BY <4>2 DEF Promise!Next, Workers
    <3>3. CASE ~Fence(w)
      BY <2>3, <3>3 DEF Worker, Start, Load, NtStore, Store, Clwb, mainVars
    <3> QED BY <3>2, <3>3
  <2>4. CASE \E l \in Lines : WriteBack(l)
    BY <2>4 DEF WriteBack, mainVars
  <2>5. CASE Terminating \/ UNCHANGED vars
    BY <2>5 DEF Terminating, vars, mainVars
  <2> QED BY <2>1, <2>2, <2>3, <2>4, <2>5 DEF Next, Main
<1> QED BY Invariant, <1>1, <1>2, PTL DEF Spec, Promise!Safety

-----------------------------------------------------------------------------
(***************************************************************************)
(* What a sequential measurement (strided_bwjob) does to the region:       *)
(* which lines each pass touches, and that a fenced pass is durable.       *)
(***************************************************************************)

\* The pass in progress has already dealt with offset o of w's workset.
Touched(w, o) ==
  /\ Running(w)
  /\ \/ o < off[w] + sz[w]
     \/ o = off[w] + sz[w] /\ pc[w] # "access"

\* Line o of the workset of w.
At(w, o) == w * Workset + o

Offsets == 0 .. Workset - 1

\* Every line of a workset has been touched once per pass, and nothing else has.
CoverInv ==
  /\ \A w \in Workers : \A o \in Offsets :
       hits[At(w, o)] = IF Touched(w, o) THEN pass[w] + 1 ELSE pass[w]
  /\ \A l \in Lines : (\A w \in Workers : l \notin Partition(w)) => hits[l] = 0

\* What a worker has on its way to memory is in its own workset.
OwnInv ==
  \A w \in Workers : \A l \in Lines : wb[w][l] # 0 => l \in Partition(w)

\* The inductive invariant of a sequential measurement.
SeqInv == job = "strided" => CoverInv /\ OwnInv /\ FencedPassIsDurable

-----------------------------------------------------------------------------
\* The worksets are disjoint and inside the region.
LEMMA WorksetsDisjoint ==
  ASSUME NEW v \in Workers, NEW w \in Workers, NEW o \in Offsets, NEW q \in Offsets
  PROVE  /\ At(v, o) = At(w, q) => v = w /\ o = q
         /\ At(v, o) \in Lines
<1>1. /\ v \in Nat /\ w \in Nat /\ o \in Nat /\ q \in Nat /\ Workset \in Nat
      /\ o < Workset /\ q < Workset
      /\ v * Workset \in Nat /\ w * Workset \in Nat
  BY Sizes, SizesAssumption, TimesMonotonic DEF Workers, Offsets
<1>2. \A a, b \in Nat : a < b => a * Workset + Workset <= b * Workset
                                 /\ a * Workset \in Nat /\ b * Workset \in Nat
  <2> SUFFICES ASSUME NEW a \in Nat, NEW b \in Nat, a < b
               PROVE  a * Workset + Workset <= b * Workset
                      /\ a * Workset \in Nat /\ b * Workset \in Nat
    OBVIOUS
  <2>1. (a + 1) * Workset <= b * Workset /\ b * Workset \in Nat
    BY <1>1, TimesMonotonic
  <2> QED BY <2>1, <1>1, TimesSuccessor
<1>3. At(v, o) = At(w, q) => v = w /\ o = q
  <2>1. v < w => v * Workset + Workset <= w * Workset
    BY <1>1, <1>2
  <2>2. w < v => w * Workset + Workset <= v * Workset
    BY <1>1, <1>2
  <2> QED BY <1>1, <2>1, <2>2 DEF At
<1>4. At(v, o) \in Lines
  <2>1. v < NumThreads /\ NumThreads \in Nat /\ SizeSpan \in Nat /\ RegionLines \in Nat
    BY SizesAssumption DEF Workers
  <2>2. v * Workset + Workset <= NumThreads * Workset /\ NumThreads * Workset \in Nat
    BY <1>1, <1>2, <2>1
  <2>3. NumThreads * Workset + SizeSpan <= RegionLines
    BY SizesAssumption
  <2> QED BY <1>1, <2>1, <2>2, <2>3 DEF At, Lines
<1> QED BY <1>3, <1>4

\* The lines of a workset are those at its offsets.
LEMMA PartitionIsOffsets ==
  ASSUME NEW w \in Workers, NEW l \in Lines
  PROVE  l \in Partition(w) <=> \E o \in Offsets : l = At(w, o)
<1>1. w \in Nat /\ l \in Nat /\ Workset \in Nat /\ w * Workset \in Nat
  BY Sizes, SizesAssumption, TimesMonotonic DEF Workers, Lines
<1>2. ASSUME l \in Partition(w) PROVE \E o \in Offsets : l = At(w, o)
  <2>1. l - w * Workset \in Offsets /\ l = At(w, l - w * Workset)
    BY <1>1, <1>2 DEF Partition, Offsets, At
  <2> QED BY <2>1
<1>3. ASSUME NEW o \in Offsets, l = At(w, o) PROVE l \in Partition(w)
  BY <1>1, <1>3 DEF Partition, Offsets, At
<1> QED BY <1>2, <1>3

\* The worksets are inside the region.
LEMMA PartitionInRegion ==
  ASSUME NEW w \in Workers, NEW l \in Partition(w)
  PROVE  l \in Lines /\ \E o \in Offsets : l = At(w, o)
<1>1. w \in Nat /\ Workset \in Nat /\ w * Workset \in Nat
  BY Sizes, SizesAssumption, TimesMonotonic DEF Workers
<1>2. l - w * Workset \in Offsets /\ l = At(w, l - w * Workset)
  BY <1>1 DEF Partition, Offsets, At
<1> QED BY <1>2, WorksetsDisjoint

\* A sequential worker addresses an offset of its own workset.
LEMMA SequentialLine ==
  ASSUME IInv, job = "strided", NEW w \in Workers, Running(w)
  PROVE  /\ off[w] + sz[w] \in Offsets
         /\ Line(w) = At(w, off[w] + sz[w])
         /\ pc[w] = "fence" => off[w] + sz[w] = Workset - 1
<1>1. /\ acc[w] \in Nat /\ off[w] \in Nat /\ sz[w] \in Nat /\ pass[w] \in Nat
      /\ AccessLines \in Nat /\ Count \in Nat /\ Workset \in Nat /\ w \in Nat
      /\ 1 <= Count /\ 1 <= AccessLines
  BY Sizes, SizesAssumption DEF IInv, TypeOK, Workers
<1>2. /\ sz[w] < AccessLines /\ acc[w] < Count
      /\ off[w] = acc[w] * AccessLines
      /\ pc[w] = "fence" => sz[w] = AccessLines - 1 /\ acc[w] = Count - 1
  BY <1>1, Sizes DEF IInv, KernelInv, Span, Accesses, SizeKernel
<1>3. (Count - 1) * AccessLines = Workset - AccessLines
  BY <1>1 DEF Workset
<1>4. acc[w] * AccessLines <= (Count - 1) * AccessLines
  BY <1>1, <1>2, TimesMonotonic
<1>5. off[w] + sz[w] \in Offsets
  BY <1>1, <1>2, <1>3, <1>4 DEF Offsets
<1>6. pc[w] = "fence" => off[w] + sz[w] = Workset - 1
  BY <1>1, <1>2, <1>3
<1>7. Line(w) = At(w, off[w] + sz[w])
  <2>1. ctx[w].addr = w * Workset /\ w * Workset \in Nat
    <3>1. ctx[w] = CtxOf(w)
      BY DEF IInv, CtxInv, Running
    <3> QED BY <3>1, <1>1, TimesMonotonic DEF CtxOf
  <2> QED BY <2>1, <1>1 DEF Line, At
<1> QED BY <1>5, <1>6, <1>7


\* The same of a line that is stored and still to be flushed ...
LEMMA StoredLine ==
  IInv => (job = "strided" => \A w \in Workers :
                        pc[w] = "clwb" => \E o \in Offsets : Line(w) = At(w, o))
BY SequentialLine DEF Running

\* ... and of the state a step leads to.
LEMMA StoredLineNext ==
  IInv' => (job = "strided" => \A w \in Workers :
                         pc[w] = "clwb" => \E o \in Offsets : Line(w) = At(w, o))'
BY StoredLine, PTL

LEMMA InitSeqInv == Init => SeqInv
<1> SUFFICES ASSUME Init, job = "strided" PROVE CoverInv /\ OwnInv /\ FencedPassIsDurable
  BY DEF SeqInv
<1>1. \A w \in Workers : ~Running(w) /\ pass[w] = 0
  BY DEF Init, Running
<1>2. \A l \in Lines : hits[l] = 0 /\ dv[l] = 0 /\ \A w \in Workers : wb[w][l] = 0
  BY DEF Init, NothingIssued
<1>3. CoverInv
  BY <1>1, <1>2, WorksetsDisjoint DEF CoverInv, Touched
<1>4. OwnInv
  BY <1>2 DEF OwnInv
<1>5. FencedPassIsDurable
  <2> SUFFICES ASSUME NEW w \in Workers, NEW l \in Partition(w) PROVE dv[l] >= pass[w]
    BY DEF FencedPassIsDurable
  <2>1. l \in Lines
    BY PartitionInRegion
  <2> QED BY <1>1, <1>2, <2>1
<1> QED BY <1>3, <1>4, <1>5

\* A kernel instruction moves the loop control on by one line.
LEMMA AdvanceMovesOn ==
  ASSUME IInv, job = "strided", NEW w \in Workers, pc[w] \in {"access", "clwb"}, Advance(w)
  PROVE  \/ pc'[w] = "access" /\ off'[w] + sz'[w] = off[w] + sz[w] + 1
         \/ pc'[w] = "fence" /\ off'[w] + sz'[w] = off[w] + sz[w]
<1>1. /\ sz[w] \in Nat /\ off[w] \in Nat /\ AccessLines \in Nat
      /\ acc[w] \in Nat /\ pass[w] \in Nat /\ Accesses(pass[w]) \in Nat
      /\ Span(pass[w]) = AccessLines /\ ~SizeKernel(pass[w])
  BY Sizes, SizesAssumption DEF IInv, TypeOK, Span, SizeKernel
<1>2. NextOffsets(w) = {off[w] + AccessLines}
  BY <1>1 DEF NextOffsets
<1>3. CASE sz[w] + 1 < Span(pass[w])
  <2>1. sz' = [sz EXCEPT ![w] = @ + 1] /\ off' = off /\ pc' = [pc EXCEPT ![w] = "access"]
    BY <1>1, <1>3 DEF Advance
  <2>2. sz'[w] = sz[w] + 1 /\ off'[w] = off[w] /\ pc'[w] = "access"
    BY <2>1 DEF IInv, TypeOK
  <2> QED BY <1>1, <2>2
<1>4. CASE sz[w] + 1 = Span(pass[w]) /\ acc[w] + 1 < Accesses(pass[w])
  <2>1. /\ sz' = [sz EXCEPT ![w] = 0] /\ off' = [off EXCEPT ![w] = off[w] + AccessLines]
        /\ pc' = [pc EXCEPT ![w] = "access"]
    BY <1>1, <1>2, <1>4 DEF Advance
  <2>2. sz'[w] = 0 /\ off'[w] = off[w] + AccessLines /\ pc'[w] = "access"
    BY <2>1 DEF IInv, TypeOK
  <2> QED BY <1>1, <1>4, <2>2
<1>5. CASE sz[w] + 1 = Span(pass[w]) /\ acc[w] + 1 = Accesses(pass[w])
  <2>1. sz' = sz /\ off' = off /\ pc' = [pc EXCEPT ![w] = "fence"]
    BY <1>1, <1>5 DEF Advance, kernelVars
  <2> QED BY <2>1 DEF IInv, TypeOK
<1> QED BY <1>3, <1>4, <1>5 DEF Advance

(***************************************************************************)
(* An access adds its line, and only it, to what the pass has touched.     *)
(***************************************************************************)
LEMMA AccessSeqInv ==
  ASSUME IInv, IInv', SeqInv, job = "strided", NEW w \in Workers,
         Load(w) \/ NtStore(w) \/ Store(w) \/ Clwb(w)
  PROVE  SeqInv'
<1>0. op' = op /\ job' = job
  BY DEF Load, NtStore, Store, Clwb, mainVars
<1> DEFINE o == off[w] + sz[w]
<1>1. pc[w] \in {"access", "clwb"} /\ Running(w) /\ UNCHANGED <<ctx, pass, dv>>
  BY DEF Load, NtStore, Store, Clwb, Running
<1>2. o \in Offsets /\ Line(w) = At(w, o) /\ At(w, o) \in Lines
  BY <1>1, SequentialLine, WorksetsDisjoint
<1>3. o \in Nat /\ hits[At(w, o)] \in Nat /\ hits \in [Lines -> Nat]
      /\ \A v \in Workers : pass[v] \in Nat
  BY <1>2, SizesAssumption DEF Offsets, IInv, TypeOK
<1>4. \A v \in Workers : v # w =>
        pc'[v] = pc[v] /\ off'[v] = off[v] /\ sz'[v] = sz[v]
  BY DEF Load, NtStore, Store, Clwb, Advance, kernelVars, IInv, TypeOK
<1>5. \A v \in Workers : \A q \in Offsets :
        v # w => (Touched(v, q)' <=> Touched(v, q))
  BY <1>4 DEF Touched, Running
<1>6. /\ pc[w] = "access" => hits' = [hits EXCEPT ![At(w, o)] = @ + 1]
      /\ pc[w] # "access" => hits' = hits
  BY <1>1, <1>2 DEF Load, NtStore, Store, Clwb
<1>7. \A q \in Offsets :
        Touched(w, q)' <=> Touched(w, q) \/ q = o
  <2>1. CASE Store(w)
    <3>1. pc'[w] = "clwb" /\ off'[w] = off[w] /\ sz'[w] = sz[w] /\ pc[w] = "access"
      BY <2>1 DEF Store, kernelVars, IInv, TypeOK
    <3> QED BY <1>1, <1>3, <3>1 DEF Touched, Running, Offsets
  <2>2. CASE ~Store(w)
    <3>1. Advance(w)
      BY <2>2 DEF Load, NtStore, Clwb
    <3>2. \/ pc'[w] = "access" /\ off'[w] + sz'[w] = o + 1
          \/ pc'[w] = "fence" /\ off'[w] + sz'[w] = o
      BY <1>1, <3>1, AdvanceMovesOn
    <3>3. \A q \in Offsets : q \in Nat
      BY Sizes DEF Offsets
    <3> QED BY <1>1, <1>3, <3>2, <3>3 DEF Touched, Running
  <2> QED BY <2>1, <2>2
<1>8. Touched(w, o) <=> pc[w] # "access"
  BY <1>1, <1>3 DEF Touched
<1> HIDE DEF o
<1>9. CoverInv'
  <2>1. ASSUME NEW v \in Workers, NEW q \in Offsets
        PROVE  hits'[At(v, q)] = IF Touched(v, q)' THEN pass[v] + 1 ELSE pass[v]
    <3>1. hits[At(v, q)] = IF Touched(v, q) THEN pass[v] + 1 ELSE pass[v]
      BY DEF SeqInv, CoverInv
    <3>2. At(v, q) \in Lines /\ (At(v, q) = At(w, o) => v = w /\ q = o)
      BY <1>2, WorksetsDisjoint
    <3>3. CASE v = w /\ q = o
      BY <1>2, <1>3, <1>6, <1>7, <1>8, <3>1, <3>3
    <3>4. CASE ~(v = w /\ q = o)
      <4>1. hits'[At(v, q)] = hits[At(v, q)]
        BY <1>2, <1>3, <1>6, <3>2, <3>4
      <4>2. Touched(v, q)' <=> Touched(v, q)
        BY <1>5, <1>7, <3>4
      <4> QED BY <3>1, <4>1, <4>2
    <3> QED BY <3>3, <3>4
  <2>2. ASSUME NEW l \in Lines, \A v \in Workers : l \notin Partition(v)
        PROVE  hits'[l] = 0
    <3>1. l # At(w, o)
      BY <1>2, <2>2, PartitionIsOffsets
    <3> QED BY <1>2, <1>3, <1>6, <2>2, <3>1 DEF SeqInv, CoverInv
  <2>3. pass' = pass
    BY <1>1
  <2> QED BY <2>1, <2>2, <2>3 DEF CoverInv, Partition, At
<1>10. OwnInv'
  <2>1. \A v \in Workers, l \in Lines :
          wb'[v][l] = wb[v][l] \/ (v = w /\ l = At(w, o))
    BY <1>2 DEF Load, NtStore, Store, Clwb, FlushedLine, IInv, TypeOK
  <2>2. At(w, o) \in Partition(w)
    BY <1>2, PartitionIsOffsets
  <2> QED BY <2>1, <2>2 DEF SeqInv, OwnInv, Partition
<1>11. FencedPassIsDurable'
  BY <1>0, <1>1 DEF SeqInv, FencedPassIsDurable, Partition
<1> QED BY <1>9, <1>10, <1>11 DEF SeqInv


\* The fence turns a fully touched workset into one more durable pass.
LEMMA FenceSeqInv ==
  ASSUME IInv, IInv', SeqInv, job = "strided", NEW w \in Workers, Fence(w)
  PROVE  SeqInv'
<1>0. op' = op /\ job' = job
  BY DEF Fence, mainVars
<1>1. Running(w) /\ pc[w] = "fence" /\ hits' = hits
  BY DEF Fence, Running
<1>2. off[w] + sz[w] = Workset - 1 /\ Workset \in Nat /\ \A o \in Offsets : o \in Nat
  BY <1>1, SequentialLine, Sizes DEF Offsets
<1>3. \A o \in Offsets : Touched(w, o)
  BY <1>1, <1>2 DEF Touched, Offsets
<1>4. /\ pass[w] \in Nat /\ pass'[w] = pass[w] + 1
      /\ \A v \in Workers : v # w =>
           /\ pc'[v] = pc[v] /\ pass'[v] = pass[v]
           /\ off'[v] = off[v] /\ sz'[v] = sz[v]
  BY DEF Fence, IInv, TypeOK
<1>5. \A o \in Offsets : ~Touched(w, o)'
  <2>1. pc'[w] \in {"access", "done"} /\ sz'[w] = 0
    BY DEF Fence, IInv, TypeOK
  <2>2. off'[w] = 0
    BY DEF Fence, EntryOffsets, SizeKernel, IInv, TypeOK
  <2> QED BY <1>2, <2>1, <2>2 DEF Touched, Running
<1>6. CoverInv'
  <2>1. ASSUME NEW v \in Workers, NEW o \in Offsets
        PROVE  hits'[At(v, o)] = IF Touched(v, o)' THEN pass'[v] + 1 ELSE pass'[v]
    <3>1. CASE v = w
      BY <1>1, <1>3, <1>4, <1>5, <3>1 DEF SeqInv, CoverInv
    <3>2. CASE v # w
      <4>1. Touched(v, o)' <=> Touched(v, o)
        BY <1>4, <3>2 DEF Touched, Running
      <4> QED BY <1>1, <1>4, <3>2, <4>1 DEF SeqInv, CoverInv
    <3> QED BY <3>1, <3>2
  <2> QED BY <1>1, <2>1 DEF SeqInv, CoverInv, Partition, At
<1>7. OwnInv'
  <2>1. \A v \in Workers, l \in Lines : wb'[v][l] = wb[v][l] \/ wb'[v][l] = 0
    BY DEF Fence, NothingIssued, IInv, TypeOK
  <2> QED BY <2>1 DEF SeqInv, OwnInv, Partition
<1>8. FencedPassIsDurable'
  <2> SUFFICES ASSUME op # 0, NEW v \in Workers, NEW l \in Partition(v)
               PROVE  dv'[l] >= pass'[v]
    BY <1>0 DEF FencedPassIsDurable, Partition
  <2>1. l \in Lines
    BY PartitionInRegion
  <2>2. PICK o \in Offsets : l = At(v, o)
    BY PartitionInRegion
  <2>3. /\ dv[l] \in Nat /\ hits[l] \in Nat /\ dv'[l] \in Nat /\ dv'[l] <= hits[l]
        /\ wb[w][l] \in Nat
        /\ dv'[l] = IF wb[w][l] > dv[l] THEN wb[w][l] ELSE dv[l]
    BY <1>1, <2>1 DEF IInv, TypeOK, MemInv, Fence, Drained
  <2>4. pass[v] \in Nat /\ pass'[v] \in Nat
    BY DEF IInv, TypeOK
  <2>5. CASE v # w
    BY <1>4, <2>3, <2>4, <2>5 DEF SeqInv, FencedPassIsDurable
  <2>6. CASE v = w
    <3>1. hits[l] = pass[w] + 1
      BY <1>3, <2>2, <2>6 DEF SeqInv, CoverInv
    <3>2. ASSUME dv'[l] < hits[l] PROVE FALSE
      <4>1. PICK u \in Workers :
              \/ wb'[u][l] = hits[l]
              \/ pc'[u] = "clwb" /\ Line(u)' = l
        <5>1. NoWriteForgotten' /\ dv'[l] < hits'[l]
          BY <1>1, <3>2 DEF IInv
        <5> QED BY <1>0, <1>1, <2>1, <5>1 DEF NoWriteForgotten
      <4>2. CASE pc'[u] = "clwb" /\ Line(u)' = l
        <5>1. l \in Partition(u)
          BY <1>0, <2>1, <4>2, StoredLineNext, PartitionIsOffsets
        <5>2. u = w
          BY <2>1, <2>6, <5>1, PartitionIsOffsets, WorksetsDisjoint
        <5> QED BY <4>2, <5>2 DEF Fence, IInv, TypeOK
      <4>3. CASE wb'[u][l] = hits[l]
        <5>1. wb'[u][l] # 0
          BY <1>4, <3>1, <4>3
        <5>2. l \in Partition(u)
          BY <1>7, <2>1, <5>1 DEF OwnInv, Partition
        <5>3. u = w
          BY <2>1, <2>6, <5>2, PartitionIsOffsets, WorksetsDisjoint
        <5> QED BY <2>1, <5>1, <5>3 DEF Fence, NothingIssued, IInv, TypeOK
      <4> QED BY <4>1, <4>2, <4>3
    <3> QED BY <1>4, <2>3, <2>6, <3>1, <3>2
  <2> QED BY <2>5, <2>6
<1> QED BY <1>6, <1>7, <1>8 DEF SeqInv

\* Steps that leave the passes, the region and the fenced data alone.
LEMMA OtherSeqInv ==
  ASSUME IInv, SeqInv, job = "strided", UNCHANGED <<job, op, pass, off, sz, hits, wb>>,
         \A w \in Workers : \A o \in Offsets : Touched(w, o)' <=> Touched(w, o),
         \A l \in Lines : dv'[l] \in Nat /\ dv'[l] >= dv[l]
  PROVE  SeqInv'
<1>1. CoverInv'
  BY DEF SeqInv, CoverInv, Partition, At
<1>2. OwnInv'
  BY DEF SeqInv, OwnInv, Partition
<1>3. FencedPassIsDurable'
  <2> SUFFICES ASSUME op # 0, NEW w \in Workers, NEW l \in Partition(w)
               PROVE  dv'[l] >= pass[w]
    BY DEF FencedPassIsDurable, Partition
  <2>1. l \in Lines
    BY PartitionInRegion
  <2>2. dv[l] >= pass[w] /\ dv[l] \in Nat /\ pass[w] \in Nat
    BY <2>1 DEF SeqInv, FencedPassIsDurable, IInv, TypeOK
  <2> QED BY <2>1, <2>2
<1> QED BY <1>1, <1>2, <1>3 DEF SeqInv

\* What main() asked the workers to run stays what it is.
LEMMA JobStays == [Next]_vars => job' = job
  BY DEF Next, Main, Create, StartJoin, Join, TakeEnd, Terminating, Worker,
     Start, Load, NtStore, Store, Clwb, Fence, WriteBack, vars, mainVars

LEMMA StepSeqInv == IInv /\ IInv' /\ SeqInv /\ [Next]_vars => SeqInv'
<1>0. [Next]_vars => job' = job
  BY JobStays
<1> SUFFICES ASSUME IInv, IInv', SeqInv, [Next]_vars, job = "strided" PROVE SeqInv'
  BY <1>0 DEF SeqInv
<1>1. \A l \in Lines : dv[l] \in Nat /\ dv'[l] \in Nat
  BY DEF IInv, TypeOK
<1>2. CASE Main
  <2>1. UNCHANGED <<job, op, ctx, pass, acc, off, sz, hits, dv, wb>>
    BY <1>2 DEF Main, Create, StartJoin, Join, TakeEnd, kernelVars, memVars
  <2>2. \A w \in Workers :
          /\ Running(w)' <=> Running(w)
          /\ Running(w) => pc'[w] = pc[w]
    <3>1. CASE Create
      <4>1. nth \in Workers /\ pc[nth] = "off"
        BY <3>1, SizesAssumption DEF Create, Created, IInv, TypeOK, MainInv, Workers
      <4>2. pc' = [pc EXCEPT ![nth] = "ready"]
        BY <3>1 DEF Create
      <4> QED BY <4>1, <4>2 DEF Running, IInv, TypeOK
    <3>2. CASE ~Create
      BY <1>2, <3>2 DEF Main, StartJoin, Join, TakeEnd, Running
    <3> QED BY <3>1, <3>2
  <2>3. \A w \in Workers : \A o \in Offsets : Touched(w, o)' <=> Touched(w, o)
    BY <2>1, <2>2 DEF Touched
  <2> QED BY <1>1, <2>1, <2>3, OtherSeqInv
<1>3. ASSUME NEW w \in Workers, Start(w) PROVE SeqInv'
  <2>1. UNCHANGED <<job, op, pass, off, sz, hits, dv, wb>>
    BY <1>3 DEF Start, mainVars, kernelVars, memVars
  <2>2. off[w] = 0 /\ sz[w] = 0 /\ ~Running(w) /\ pc'[w] = "access"
        /\ \A v \in Workers : v # w => pc'[v] = pc[v]
    BY <1>3 DEF Start, Running, IInv, KernelInv, TypeOK
  <2>3. \A o \in Offsets : ~(o < 0)
    BY Sizes DEF Offsets
  <2>4. \A v \in Workers : \A o \in Offsets : Touched(v, o)' <=> Touched(v, o)
    BY <2>1, <2>2, <2>3 DEF Touched, Running
  <2> QED BY <1>1, <2>1, <2>4, OtherSeqInv
<1>4. ASSUME NEW w \in Workers, Load(w) \/ NtStore(w) \/ Store(w) \/ Clwb(w)
      PROVE  SeqInv'
  BY <1>4, AccessSeqInv
<1>5. ASSUME NEW w \in Workers, Fence(w) PROVE SeqInv'
  BY <1>5, FenceSeqInv
<1>6. ASSUME NEW l \in Lines, WriteBack(l) PROVE SeqInv'
  <2>1. UNCHANGED <<job, op, pc, pass, off, sz, hits, wb>>
    BY <1>6 DEF WriteBack, mainVars, kernelVars
  <2>2. \A k \in Lines : dv'[k] >= dv[k]
    BY <1>6 DEF WriteBack, IInv, TypeOK
  <2> QED BY <1>1, <2>1, <2>2, OtherSeqInv DEF Touched, Running
<1>7. CASE Terminating \/ UNCHANGED vars
  BY <1>1, <1>7, OtherSeqInv
     DEF Terminating, vars, mainVars, kernelVars, memVars, Touched, Running
<1> QED BY <1>2, <1>3, <1>4, <1>5, <1>6, <1>7 DEF Next, Worker

THEOREM SequentialInvariant == Spec => []SeqInv
<1>1. IInv /\ SeqInv /\ [Next]_vars /\ IInv' => SeqInv'
  BY StepSeqInv
<1> QED BY InitSeqInv, <1>1, Invariant, PTL DEF Spec

(***************************************************************************)
(* Every pass a sequential worker has fenced is in persistent memory, on   *)
(* every line of its workset (run_thread.cc:351-374).                      *)
(***************************************************************************)
THEOREM FencedPassesAreDurable == Spec => []FencedPassIsDurable
<1>1. SeqInv => FencedPassIsDurable
  BY DEF SeqInv, FencedPassIsDurable
<1> QED BY SequentialInvariant, <1>1, PTL

(***************************************************************************)
(* A sequential measurement has touched each line of each workset exactly  *)
(* Passes + 1 times, and no other line (memaccess.cc:283-319, 377-412,     *)
(* 529-565, run_thread.cc:323-388).                                        *)
(***************************************************************************)
THEOREM WorksetsAreCovered == Spec => []EndCoversTheWorksets
<1>1. IInv /\ SeqInv => EndCoversTheWorksets
  <2> SUFFICES ASSUME IInv, SeqInv, mainpc = "done", job = "strided", NEW l \in Lines
               PROVE  hits[l] = IF \E w \in Workers : l \in Partition(w)
                                THEN Passes + 1 ELSE 0
    BY DEF EndCoversTheWorksets
  <2>1. CASE \E w \in Workers : l \in Partition(w)
    <3>1. PICK w \in Workers : l \in Partition(w)
      BY <2>1
    <3>2. PICK o \in Offsets : l = At(w, o)
      BY <3>1, PartitionIsOffsets
    <3>3. pc[w] = "done" /\ pass[w] = Passes + 1 /\ ~Touched(w, o)
      BY DEF IInv, MainInv, KernelInv, Touched, Running
    <3> QED BY <2>1, <3>2, <3>3 DEF SeqInv, CoverInv
  <2>2. CASE ~\E w \in Workers : l \in Partition(w)
    BY <2>2 DEF SeqInv, CoverInv
  <2> QED BY <2>1, <2>2
<1> QED BY Invariant, SequentialInvariant, <1>1, PTL

-----------------------------------------------------------------------------
\* What is left is counted in natural numbers.
CountedInv ==
  /\ NumThreads - nth \in Nat
  /\ \A w \in Workers :
       /\ StagesLeft(w) \in Nat /\ Passes + 1 - pass[w] \in Nat
       /\ Accesses(pass[w]) - acc[w] \in Nat /\ Span(pass[w]) - sz[w] \in Nat
       /\ InstructionsLeft(w) \in Nat

LEMMA Counted == IInv => CountedInv
<1> SUFFICES ASSUME IInv PROVE CountedInv
  OBVIOUS
<1>1. NumThreads - nth \in Nat
  BY SizesAssumption DEF IInv, TypeOK
<1>2. ASSUME NEW w \in Workers
      PROVE  /\ StagesLeft(w) \in Nat /\ Passes + 1 - pass[w] \in Nat
             /\ Accesses(pass[w]) - acc[w] \in Nat /\ Span(pass[w]) - sz[w] \in Nat
             /\ InstructionsLeft(w) \in Nat
  <2>1. StagesLeft(w) \in Nat /\ InstructionsLeft(w) \in Nat
    BY DEF StagesLeft, InstructionsLeft
  <2>2. /\ pass[w] \in 0 .. Passes + 1 /\ Passes \in Nat
        /\ acc[w] \in Nat /\ sz[w] \in Nat
        /\ Accesses(pass[w]) \in Nat \ {0} /\ Span(pass[w]) \in Nat \ {0}
    BY Sizes, SizesAssumption DEF IInv, TypeOK
  <2>3. acc[w] <= Accesses(pass[w]) /\ sz[w] <= Span(pass[w])
    <3>1. CASE Running(w)
      BY <2>2, <3>1 DEF IInv, KernelInv
    <3>2. CASE ~Running(w)
      BY <2>2, <3>2 DEF IInv, KernelInv, Running, TypeOK
    <3> QED BY <3>1, <3>2
  <2> QED BY <2>1, <2>2, <2>3
<1> QED BY <1>1, <1>2 DEF CountedInv

LEMMA CountedNext == IInv' => CountedInv'
BY Counted, PTL

\* A step of main() moves main() on, and wakes a worker at most.
LEMMA MainMovesOn ==
  ASSUME IInv, Main
  PROVE  /\ Descends(LeftOfMain, LeftOfMain')
         /\ \A w \in Workers : Left(w)' = Left(w) \/ Descends(Left(w), Left(w)')
<1>1. /\ nth \in Nat /\ NumThreads \in Nat /\ nth <= NumThreads
      /\ UNCHANGED <<job, pass, acc, sz>>
  BY SizesAssumption DEF IInv, TypeOK, Main, Create, StartJoin, Join, TakeEnd, kernelVars
<1>2. CASE Create
  <2>1. nth' = nth + 1 /\ nth < NumThreads /\ mainpc = "create" /\ mainpc' = mainpc
    BY <1>2 DEF Create, Created
  <2>2. Descends(LeftOfMain, LeftOfMain')
    BY <1>1, <2>1, TwoLoops DEF LeftOfMain
  <2>3. ASSUME NEW w \in Workers, w # nth
        PROVE  Left(w)' = Left(w)
    <3>1. pc'[w] = pc[w]
      BY <1>2, <2>3 DEF Create
    <3> QED BY <1>1, <3>1 DEF Left, StagesLeft, InstructionsLeft, Running, Span, Accesses, SizeKernel
  <2>4. ASSUME NEW w \in Workers, w = nth
        PROVE  Descends(Left(w), Left(w)')
    <3>1. pc[w] = "off" /\ pc'[w] = "ready"
      BY <1>1, <1>2, <2>1, <2>4 DEF Create, IInv, MainInv, TypeOK, Workers
    <3>2. Left(w)[1] = 3 /\ Left(w)'[1] = 2
      BY <3>1 DEF Left, StagesLeft, Running
    <3>3. DOMAIN Left(w) = 1 .. 5
      BY DEF Left
    <3> QED BY <3>2, <3>3 DEF Descends
  <2> QED BY <2>2, <2>3, <2>4
<1>3. CASE StartJoin \/ Join \/ TakeEnd
  <2>1. pc' = pc
    BY <1>3 DEF StartJoin, Join, TakeEnd
  <2>2. \A w \in Workers : Left(w)' = Left(w)
    BY <1>1, <2>1 DEF Left, StagesLeft, InstructionsLeft, Running, Span, Accesses, SizeKernel
  <2>3. Descends(LeftOfMain, LeftOfMain')
    <3>1. CASE StartJoin
      BY <1>1, <3>1, TwoLoops DEF LeftOfMain, StartJoin
    <3>2. CASE Join
      BY <1>1, <3>2, TwoLoops DEF LeftOfMain, Join
    <3>3. CASE TakeEnd
      BY <1>1, <3>3, TwoLoops DEF LeftOfMain, TakeEnd
    <3> QED BY <1>3, <3>1, <3>2, <3>3
  <2> QED BY <2>2, <2>3
<1> QED BY <1>2, <1>3 DEF Main

\* Another worker's step leaves a worker where it is.
LEMMA OthersStay ==
  ASSUME IInv, NEW w \in Workers, Worker(w)
  PROVE  /\ LeftOfMain' = LeftOfMain
         /\ \A v \in Workers : v # w => Left(v)' = Left(v)
<1>1. /\ UNCHANGED mainVars
      /\ \A v \in Workers : v # w =>
           pc'[v] = pc[v] /\ pass'[v] = pass[v] /\ acc'[v] = acc[v] /\ sz'[v] = sz[v]
  <2>1. CASE Start(w)
    BY <2>1 DEF Start, kernelVars, IInv, TypeOK
  <2>2. CASE Store(w)
    BY <2>2 DEF Store, kernelVars, IInv, TypeOK
  <2>3. CASE Fence(w)
    BY <2>3 DEF Fence, IInv, TypeOK
  <2>4. CASE Load(w) \/ NtStore(w) \/ Clwb(w)
    <3>1. Advance(w) /\ pass' = pass /\ UNCHANGED mainVars
      BY <2>4 DEF Load, NtStore, Clwb
    <3>2. \A v \in Workers : v # w => pc'[v] = pc[v] /\ acc'[v] = acc[v] /\ sz'[v] = sz[v]
      BY <3>1 DEF Advance, kernelVars, IInv, TypeOK
    <3> QED BY <3>1, <3>2
  <2> QED BY <2>1, <2>2, <2>3, <2>4 DEF Worker
<1>2. LeftOfMain' = LeftOfMain
  BY <1>1 DEF LeftOfMain, mainVars
<1>3. ASSUME NEW v \in Workers, v # w
      PROVE  Left(v)' = Left(v)
  <2>1. StagesLeft(v)' = StagesLeft(v) /\ InstructionsLeft(v)' = InstructionsLeft(v)
    BY <1>1, <1>3 DEF StagesLeft, InstructionsLeft, Running
  <2>2. Accesses(pass[v])' = Accesses(pass[v]) /\ Span(pass[v])' = Span(pass[v])
    BY <1>1, <1>3 DEF Span, Accesses, SizeKernel, mainVars
  <2> QED BY <1>1, <1>3, <2>1, <2>2 DEF Left
<1> QED BY <1>2, <1>3

(***************************************************************************)
(* A step of a worker moves it on: the loop control counts up to its       *)
(* limits, and an inner loop starts again only when an outer one counts.   *)
(***************************************************************************)
LEMMA WorkerMovesOn ==
  ASSUME IInv, IInv', NEW w \in Workers, Worker(w)
  PROVE  Descends(Left(w), Left(w)')
<1> DEFINE a == StagesLeft(w)
           b == Passes + 1 - pass[w]
           c == Accesses(pass[w]) - acc[w]
           d == Span(pass[w]) - sz[w]
           e == InstructionsLeft(w)
<1>1. /\ a \in Nat /\ b \in Nat /\ c \in Nat /\ d \in Nat /\ e \in Nat
      /\ a' \in Nat /\ b' \in Nat /\ c' \in Nat /\ d' \in Nat /\ e' \in Nat
  BY Counted, CountedNext DEF CountedInv
<1>2. Left(w) = <<a, b, c, d, e>> /\ Left(w)' = <<a', b', c', d', e'>>
  BY DEF Left
<1>3. ASSUME \/ a' < a
             \/ a' = a /\ b' < b
             \/ a' = a /\ b' = b /\ c' < c
             \/ a' = a /\ b' = b /\ c' = c /\ d' < d
             \/ a' = a /\ b' = b /\ c' = c /\ d' = d /\ e' < e
      PROVE  Descends(Left(w), Left(w)')
  <2> HIDE DEF a, b, c, d, e
  <2>1. Descends(<<a, b, c, d, e>>, <<a', b', c', d', e'>>)
    BY <1>1, <1>3 DEF Descends
  <2> QED BY <1>2, <2>1
<1>4. /\ job' = job /\ pc \in [Workers -> {"off", "ready", "access", "clwb", "fence", "done"}]
      /\ pass[w] \in Nat /\ Passes \in Nat /\ acc[w] \in Nat /\ sz[w] \in Nat
      /\ pass \in [Workers -> 0 .. Passes + 1]
      /\ acc \in [Workers -> Nat] /\ sz \in [Workers -> Nat]
      /\ Accesses(pass[w]) \in Nat /\ Span(pass[w]) \in Nat
  BY Sizes, SizesAssumption
     DEF IInv, TypeOK, Worker, Start, Load, NtStore, Store, Clwb, Fence, mainVars
<1>5. CASE Start(w)
  <2>1. pc[w] = "ready" /\ pc'[w] = "access"
    BY <1>4, <1>5 DEF Start
  <2>2. a = 2 /\ a' = 1
    BY <2>1 DEF StagesLeft, Running
  <2> HIDE DEF a, b, c, d, e
  <2> QED BY <1>1, <1>3, <2>2
<1>6. CASE Store(w)
  <2>1. pc[w] = "access" /\ pc'[w] = "clwb" /\ pass' = pass /\ acc' = acc /\ sz' = sz
    BY <1>4, <1>6 DEF Store, kernelVars
  <2>2. a' = a /\ b' = b /\ e = 2 /\ e' = 1
    BY <2>1 DEF StagesLeft, Running, InstructionsLeft
  <2>3. c' = c /\ d' = d
    BY <1>4, <2>1 DEF Span, Accesses, SizeKernel
  <2> HIDE DEF a, b, c, d, e
  <2> QED BY <1>1, <1>3, <2>2, <2>3
<1>7. CASE Load(w) \/ NtStore(w) \/ Clwb(w)
  <2>1. Advance(w) /\ pass' = pass /\ pc[w] \in {"access", "clwb"}
    BY <1>7 DEF Load, NtStore, Clwb
  <2>2. Accesses(pass[w])' = Accesses(pass[w]) /\ Span(pass[w])' = Span(pass[w])
    BY <1>4, <2>1 DEF Span, Accesses, SizeKernel
  <2>3. pc'[w] \in {"access", "fence"}
    BY <1>4, <2>1 DEF Advance
  <2>4. a' = a /\ b' = b /\ (pc'[w] = "fence" => e' < e)
    BY <2>1, <2>3 DEF StagesLeft, Running, InstructionsLeft
  <2>5. \/ c' < c
        \/ c' = c /\ d' < d
        \/ c' = c /\ d' = d /\ pc'[w] = "fence"
    <3>1. CASE sz[w] + 1 < Span(pass[w])
      <4>1. sz'[w] = sz[w] + 1 /\ acc' = acc
        BY <1>4, <2>1, <3>1 DEF Advance
      <4> QED BY <1>4, <2>2, <4>1
    <3>2. CASE sz[w] + 1 = Span(pass[w]) /\ acc[w] + 1 < Accesses(pass[w])
      <4>1. acc'[w] = acc[w] + 1
        BY <1>4, <2>1, <3>2 DEF Advance
      <4> QED BY <1>4, <2>2, <4>1
    <3>3. CASE sz[w] + 1 = Span(pass[w]) /\ acc[w] + 1 = Accesses(pass[w])
      <4>1. acc' = acc /\ sz' = sz /\ pc'[w] = "fence"
        BY <1>4, <2>1, <3>3 DEF Advance, kernelVars
      <4> QED BY <2>2, <4>1
    <3> QED BY <2>1, <3>1, <3>2, <3>3 DEF Advance
  <2> HIDE DEF a, b, c, d, e
  <2> QED BY <1>1, <1>3, <2>4, <2>5
<1>8. CASE Fence(w)
  <2>1. pc[w] = "fence" /\ pass'[w] = pass[w] + 1 /\ pc'[w] \in {"access", "done"}
    BY <1>4, <1>8 DEF Fence
  <2>2. a = 1 /\ a' \in {0, 1} /\ b' = b - 1
    BY <1>4, <2>1 DEF StagesLeft, Running
  <2> HIDE DEF a, b, c, d, e
  <2> QED BY <1>1, <1>3, <2>2
<1> QED BY <1>5, <1>6, <1>7, <1>8 DEF Worker

(***************************************************************************)
(* Whatever the number of threads, passes and accesses: no thread goes     *)
(* round in a circle, so each takes finitely many steps (LoopsComeToRest). *)
(***************************************************************************)
THEOREM ThreadsOnlyMoveOn == Spec => EveryStepMovesOn
<1> DEFINE Moves ==
      /\ LeftOfMain \in [1 .. 2 -> Nat]
      /\ Main \/ LeftOfMain' # LeftOfMain => Descends(LeftOfMain, LeftOfMain')
      /\ \A w \in Workers :
           /\ Left(w) \in [1 .. 5 -> Nat]
           /\ Worker(w) \/ Left(w)' # Left(w) => Descends(Left(w), Left(w)')
<1>1. IInv /\ IInv' /\ [Next]_vars => [Moves]_vars
  <2> SUFFICES ASSUME IInv, IInv', [Next]_vars, vars' # vars PROVE Moves
    OBVIOUS
  <2>1. /\ LeftOfMain \in [1 .. 2 -> Nat]
        /\ \A w \in Workers : Left(w) \in [1 .. 5 -> Nat]
    <3>1. LeftOfMain \in [1 .. 2 -> Nat]
      BY Counted, CountersOf DEF CountedInv, LeftOfMain
    <3>2. \A w \in Workers : Left(w) \in [1 .. 5 -> Nat]
      BY Counted, CountersOf DEF CountedInv, Left
    <3> QED BY <3>1, <3>2
  <2>2. Main => Descends(LeftOfMain, LeftOfMain')
    BY MainMovesOn
  <2>3. \A w \in Workers : Worker(w) => Descends(Left(w), Left(w)')
    BY WorkerMovesOn
  <2>4. LeftOfMain' # LeftOfMain => Main
    <3>1. CASE \E w \in Workers : Worker(w)
      BY <3>1, OthersStay
    <3>2. CASE \E l \in Lines : WriteBack(l)
      BY <3>2 DEF WriteBack, mainVars, LeftOfMain
    <3> QED BY <3>1, <3>2 DEF Next, Terminating
  <2>5. ASSUME NEW w \in Workers, Left(w)' # Left(w)
        PROVE  Descends(Left(w), Left(w)')
    <3>1. CASE Main
      BY <2>5, <3>1, MainMovesOn
    <3>2. CASE \E v \in Workers : Worker(v)
      BY <2>3, <2>5, <3>2, OthersStay
    <3>3. CASE \E l \in Lines : WriteBack(l)
      BY <2>5, <3>3 DEF WriteBack, mainVars, kernelVars, Left, StagesLeft, InstructionsLeft,
                Running, Span, Accesses, SizeKernel
    <3> QED BY <3>1, <3>2, <3>3 DEF Next, Terminating
  <2> QED BY <2>1, <2>2, <2>3, <2>4, <2>5
<1>2. Spec => [][Moves]_vars
  BY Invariant, <1>1, PTL DEF Spec
<1> QED BY <1>2 DEF EveryStepMovesOn

(***************************************************************************)
(* Whatever the sizes: as long as the end time is not taken a thread is    *)
(* there that can go on.                                                   *)
(***************************************************************************)
THEOREM SomebodyCanGoOn == Spec => []NobodyWaitsInVain
<1>1. IInv => NobodyWaitsInVain
  <2> SUFFICES ASSUME IInv PROVE NobodyWaitsInVain
    OBVIOUS
  <2>1. ASSUME NEW w \in Workers, pc[w] \in {"access", "clwb"}
        PROVE  /\ Line(w) \in Lines
               /\ sz[w] + 1 <= Span(pass[w])
               /\ acc[w] + 1 <= Accesses(pass[w])
    <3>1. Running(w)
      BY <2>1 DEF Running
    <3>2. Line(w) \in Lines
      BY <3>1, LineInRegion DEF IInv
    <3>3. /\ sz[w] < Span(pass[w]) /\ acc[w] < Accesses(pass[w])
          /\ sz[w] \in Nat /\ acc[w] \in Nat
          /\ Span(pass[w]) \in Nat /\ Accesses(pass[w]) \in Nat
      BY <3>1, Sizes, SizesAssumption DEF IInv, KernelInv, TypeOK
    <3> QED BY <3>2, <3>3
  <2>2. mainpc = "join" => \A w \in Workers : pc[w] # "off"
    BY DEF IInv, MainInv
  <2> QED BY <2>1, <2>2 DEF NobodyWaitsInVain, CanGoOn
<1> QED BY Invariant, <1>1, PTL

=============================================================================
