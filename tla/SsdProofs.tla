------------------------------- MODULE SsdProofs -------------------------------
(***************************************************************************)
(* Proofs about the measurement of a file on an SSD, for every number of   *)
(* workers up to 48, every size of pages, parts, calls and file.           *)
(***************************************************************************)
EXTENDS SsdBench, LoopOrderProofs, FiniteSetTheorems, TLAPS

\* The pages of a worker's part.
Own(w) == {PageOf(b) : b \in Start(w) .. Start(w) + Count - 1}

\* A worker that will still sync, or end the process.
Unfinished == {w \in Workers : pc[w] \in {"kernel", "sync", "wait", "failed"}}

\* Which passes a worker can be in.
PassInv ==
  \A w \in Workers :
    /\ pc[w] \in {"off", "ready"} => pass[w] = 0 /\ step[w] = 0
    /\ pc[w] = "kernel" => pass[w] <= Passes /\ step[w] < Steps(w)
    /\ pc[w] \in {"sync", "wait", "failed"} => pass[w] <= Passes /\ step[w] = 0
    /\ pc[w] \in {"sync", "wait"} => pass[w] > 0
    /\ pc[w] = "done" => pass[w] = Passes + 1

\* Where the main thread can be; what it has joined is done.
JoinInv ==
  /\ mainpc \in {"open", "truncate", "map"} => nth = 0
  /\ mainpc \in {"open", "truncate", "map", "create"} =>
       \A w \in Workers : pc[w] # "off" => w < nth
  /\ mainpc = "join" => \A w \in Workers : w < nth => pc[w] = "done"
  /\ mainpc = "done" => \A w \in Workers : pc[w] = "done"

\* A dirty page has a worker that will see to it.
DirtyInv ==
  \A p \in dirty : \E w \in Unfinished : p \in Own(w) /\ (pc[w] = "wait" => p \in awaited[w])

\* An error has a worker that will hear of it.
ErrorInv == error => Unfinished # {}

\* A context is that of its worker; one without a mapping gets nowhere with it.
ContextInv ==
  \A w \in Workers :
    /\ pc[w] # "off" => ctx[w] = Context(w)
    /\ Mapped(w) /\ ctx[w].addr = -1 =>
         pc[w] \in {"off", "ready", "kernel"} /\ step[w] = 0 /\ pass[w] = 0

IInv ==
  TypeOK /\ PassInv /\ JoinInv /\ DirtyInv /\ NoLossGoesUnheard /\ ErrorInv /\ ContextInv

-----------------------------------------------------------------------------
(***************************************************************************)
(* The sizes: whole pages, at least one of them.                           *)
(***************************************************************************)
LEMMA Sizes ==
  /\ NumThreads \in Nat /\ NumThreads > 0 /\ Passes \in Nat /\ Passes > 0
  /\ PageBlocks \in Nat /\ PageBlocks > 0 /\ SpanBlocks \in Nat /\ SpanBlocks > 0
  /\ Count \in Nat /\ Count > 0 /\ RwBlocks \in Nat /\ RwBlocks > 0
  BY SsdAssumption

LEMMA WholePages ==
  ASSUME NEW n \in Nat, NEW k \in Nat, n > 0, k > 0, n % k = 0
  PROVE  n \div k \in Nat /\ n \div k > 0 /\ (n \div k) * k = n /\ n \div k <= n
<1>1. n = k * (n \div k) /\ n \div k \in Int
  OBVIOUS
<1>2. n \div k > 0
  OBVIOUS
<1>3. n \div k <= k * (n \div k)
  BY <1>1, <1>2
<1> QED
  BY <1>1, <1>2, <1>3

\* A call moves at least a page, and no more than the part.
LEMMA StepsInPart ==
  ASSUME NEW w \in Workers
  PROVE  /\ Steps(w) \in Nat /\ Steps(w) > 0 /\ Steps(w) <= Count
         /\ ~Mapped(w) => Steps(w) * PageBlocks <= Count
<1>1. CASE Mapped(w)
  BY <1>1, Sizes DEF Steps
<1>2. CASE ~Mapped(w)
  <2> DEFINE n == IF RwBlocks < Count THEN RwBlocks ELSE Count
  <2>1. n \in Nat /\ n > 0 /\ n % PageBlocks = 0 /\ n <= Count
    BY Sizes, SsdAssumption
  <2>2. Steps(w) = n \div PageBlocks
    BY <1>2 DEF Steps
  <2> HIDE DEF n
  <2>3. n \div PageBlocks \in Nat /\ n \div PageBlocks > 0
        /\ (n \div PageBlocks) * PageBlocks = n /\ n \div PageBlocks <= n
    BY <2>1, Sizes, WholePages
  <2> QED
    BY <1>2, <2>1, <2>2, <2>3, Sizes
<1> QED
  BY <1>1, <1>2

\* What a writing kernel touches is in the part of its worker.
LEMMA WritesInPart ==
  ASSUME NEW w \in Workers, ctx[w].op \in {0, 2}, ~Reading(w), NEW n \in Nat, n < Steps(w)
  PROVE  Touched(w, n) \subseteq Start(w) .. Start(w) + Count - 1
<1>1. Start(w) \in Nat
  BY Sizes DEF Start, Workers
<1>2. CASE Mapped(w)
  <2>1. Op(w) = 6
    BY <1>2 DEF Op, Reading
  <2>2. Touched(w, n) = {Start(w) + n} /\ n < Count
    BY <1>2, <2>1 DEF Touched, Steps
  <2> QED
    BY <1>1, <2>2, Sizes
<1>3. CASE ~Mapped(w)
  <2>1. Op(w) = 5
    BY <1>3 DEF Op, Reading
  <2>2. Touched(w, n) = Start(w) + n * PageBlocks .. Start(w) + (n + 1) * PageBlocks - 1
    BY <2>1 DEF Touched
  <2> DEFINE s == Steps(w)
  <2>3. s \in Nat /\ s * PageBlocks <= Count /\ n + 1 <= s
    BY <1>3, StepsInPart
  <2> HIDE DEF s
  <2>4. (n + 1) * PageBlocks <= s * PageBlocks
    BY <2>3, Sizes
  <2>5. n * PageBlocks \in Nat /\ (n + 1) * PageBlocks \in Nat /\ s * PageBlocks \in Nat
    BY <2>3, Sizes
  <2> QED
    BY <1>1, <2>2, <2>3, <2>4, <2>5, Sizes
<1> QED
  BY <1>2, <1>3

LEMMA PartInFile ==
  ASSUME NEW w \in Workers
  PROVE  Start(w) .. Start(w) + Count - 1 \subseteq Blocks
<1>1. w \in Nat /\ w + 1 <= NumThreads
  BY Sizes DEF Workers
<1>2. (w + 1) * Count <= NumThreads * Count
  BY <1>1, Sizes
<1>3. (w + 1) * Count = w * Count + Count /\ w * Count \in Nat /\ NumThreads * Count \in Nat
  BY <1>1, Sizes
<1> QED
  BY <1>2, <1>3, Sizes DEF Blocks, Start

LEMMA OwnArePages ==
  ASSUME NEW w \in Workers
  PROVE  Own(w) \subseteq Pages /\ Own(w) \subseteq SyncRange(w)
  BY PartInFile DEF Own, Pages, SyncRange

\* What an access makes dirty is the worker's own.
LEMMA WrittenPages ==
  ASSUME TypeOK, PassInv, NEW w \in Workers, Access(w)
  PROVE  \E d \in SUBSET Own(w) : dirty' = dirty \cup d /\ stale' = stale \cup d
<1> DEFINE d == IF Reading(w) THEN {} ELSE {PageOf(b) : b \in Touched(w, step[w])}
<1>1. dirty' = dirty \cup d /\ stale' = stale \cup d
  BY DEF Access
<1>2. ctx[w].op \in {0, 2} /\ step[w] \in Nat /\ step[w] < Steps(w)
  BY Sizes DEF TypeOK, PassInv, Access
<1>3. d \subseteq Own(w)
  <2>1. CASE Reading(w)
    BY <2>1
  <2>2. CASE ~Reading(w)
    BY <1>2, <2>2, WritesInPart DEF Own
  <2> QED
    BY <2>1, <2>2
<1> QED
  BY <1>1, <1>3

\* Every step keeps the types.
LEMMA TypeStep == IInv /\ [Next]_vars => TypeOK'
<1> SUFFICES ASSUME IInv, [Next]_vars PROVE TypeOK'
  OBVIOUS
<1>1. CASE Open
  BY <1>1, SsdAssumption DEF Open, IInv, TypeOK, args, mainVars, cache
<1>2. CASE Truncate
  BY <1>2, Sizes DEF Truncate, IInv, args, cache, TypeOK, PassInv
<1>3. CASE Map
  BY <1>3, Sizes DEF Map, IInv, args, cache, TypeOK, PassInv
<1>4. CASE Create
  <2>1. Context(nth) \in [addr : Int, fd : Nat, op : {0, 2}]
    BY <1>4, Sizes DEF Create, Context, IInv, TypeOK
  <2>2. nth + 1 \in 0 .. NumThreads
    BY <1>4, Sizes DEF Create, IInv, TypeOK
  <2> QED
    BY <1>4, <2>1, <2>2 DEF Create, IInv, TypeOK, args, cache
<1>5. CASE StartJoin
  BY <1>5, Sizes DEF StartJoin, IInv, args, cache, TypeOK, PassInv
<1>6. CASE Join
  BY <1>6, Sizes DEF Join, IInv, args, cache, TypeOK, PassInv
<1>7. CASE Report
  BY <1>7, Sizes DEF Report, IInv, args, cache, TypeOK, PassInv
<1>8. ASSUME NEW u \in Workers, Enter(u) PROVE TypeOK'
  BY <1>8, Sizes DEF Enter, IInv, args, mainVars, cache, TypeOK, PassInv
<1>9. ASSUME NEW u \in Workers, Access(u) PROVE TypeOK'
  <2>1. PICK d \in SUBSET Own(u) : dirty' = dirty \cup d /\ stale' = stale \cup d
    BY <1>9, WrittenPages DEF IInv
  <2>2. d \subseteq Pages
    BY OwnArePages
  <2>3. Steps(u) \in Nat /\ Steps(u) <= Count
    BY StepsInPart
  <2> QED
    BY <1>9, <2>1, <2>2, <2>3, Sizes DEF Access, KernelReturns, IInv, TypeOK, PassInv,
       MorePasses, args, mainVars
<1>10. ASSUME NEW u \in Workers, ShortCall(u) PROVE TypeOK'
  <2>1. pc[u] = "kernel" /\ KernelReturns(u) /\ UNCHANGED <<mainVars, hits, cache>>
    BY <1>10 DEF ShortCall
  <2>2. /\ pc' \in [Workers -> {"off", "ready", "kernel", "sync", "wait", "failed", "done"}]
        /\ pass' \in [Workers -> 0 .. Passes + 1]
        /\ step' \in [Workers -> 0 .. Count - 1]
    BY <2>1, Sizes DEF KernelReturns, IInv, TypeOK
  <2> QED
    BY <2>1, <2>2 DEF IInv, args, mainVars, cache, TypeOK
<1>11. ASSUME NEW u \in Workers, FailedCall(u) PROVE TypeOK'
  BY <1>11, Sizes DEF FailedCall, IInv, args, mainVars, cache, TypeOK, PassInv
<1>12. ASSUME NEW u \in Workers, Killed(u) PROVE TypeOK'
  BY <1>12, Sizes DEF Killed, IInv, args, cache, TypeOK, PassInv
<1>13. ASSUME NEW u \in Workers, BeginSync(u) PROVE TypeOK'
  BY <1>13 DEF BeginSync, IInv, TypeOK, args, mainVars, cache
<1>14. ASSUME NEW u \in Workers, EndSync(u) PROVE TypeOK'
  <2>1. pass[u] + 1 \in 0 .. Passes + 1
    BY <1>14, Sizes DEF EndSync, IInv, TypeOK, PassInv
  <2> QED
    BY <1>14, <2>1 DEF EndSync, IInv, TypeOK, args, mainVars
<1>15. ASSUME NEW u \in Workers, Exit(u) PROVE TypeOK'
  BY <1>15, Sizes DEF Exit, IInv, args, cache, TypeOK, PassInv
<1>16. ASSUME NEW q \in Pages, WriteBack(q) PROVE TypeOK'
  BY <1>16, Sizes DEF WriteBack, IInv, args, mainVars, TypeOK, PassInv
<1>17. CASE UNCHANGED vars
  BY <1>17 DEF vars, IInv, args, mainVars, cache, TypeOK, PassInv
<1> QED
  BY <1>1, <1>2, <1>3, <1>4, <1>5, <1>6, <1>7, <1>8, <1>9, <1>10, <1>11, <1>12, <1>13,
     <1>14, <1>15, <1>16, <1>17 DEF Next, Main, Worker, Terminating

\* ... and the order of the passes.
LEMMA PassStep == IInv /\ [Next]_vars => PassInv'
<1> SUFFICES ASSUME IInv, [Next]_vars PROVE PassInv'
  OBVIOUS
<1>1. CASE Open
  BY <1>1, Sizes DEF Open, IInv, args, cache, PassInv, TypeOK, Steps, Mapped
<1>2. CASE Truncate
  BY <1>2, Sizes DEF Truncate, IInv, args, cache, PassInv, TypeOK, Steps, Mapped
<1>3. CASE Map
  BY <1>3, Sizes DEF Map, IInv, args, cache, PassInv, TypeOK, Steps, Mapped
<1>4. CASE Create
  <2>1. \A w \in Workers : w # nth => pc'[w] = pc[w] /\ Steps(w)' = Steps(w)
    BY <1>4 DEF Create, IInv, TypeOK, Steps, Mapped
  <2>2. nth \in Workers => pc[nth] = "off" /\ pc'[nth] = "ready"
    BY <1>4, Sizes DEF Create, IInv, TypeOK, JoinInv, Workers
  <2> QED
    BY <1>4, <2>1, <2>2, Sizes DEF Create, IInv, PassInv, TypeOK
<1>5. CASE StartJoin
  BY <1>5, Sizes DEF StartJoin, IInv, args, cache, PassInv, TypeOK, Steps, Mapped
<1>6. CASE Join
  BY <1>6, Sizes DEF Join, IInv, args, cache, PassInv, TypeOK, Steps, Mapped
<1>7. CASE Report
  BY <1>7, Sizes DEF Report, IInv, args, cache, PassInv, TypeOK, Steps, Mapped
<1>8. ASSUME NEW u \in Workers, Enter(u) PROVE PassInv'
  <2>1. Steps(u) \in Nat /\ Steps(u) > 0 /\ ctx' = ctx
    BY <1>8, StepsInPart DEF Enter, mainVars
  <2> QED
    BY <1>8, <2>1, Sizes DEF Enter, KernelReturns, IInv, TypeOK, PassInv, MorePasses,
       Steps, Mapped
<1>9. ASSUME NEW u \in Workers, Access(u) PROVE PassInv'
  <2>1. Steps(u) \in Nat /\ Steps(u) > 0 /\ ctx' = ctx
    BY <1>9, StepsInPart DEF Access, mainVars
  <2> QED
    BY <1>9, <2>1, Sizes DEF Access, KernelReturns, IInv, TypeOK, PassInv, MorePasses,
       Steps, Mapped
<1>10. ASSUME NEW u \in Workers, ShortCall(u) PROVE PassInv'
  <2>1. Steps(u) \in Nat /\ Steps(u) > 0 /\ ctx' = ctx
    BY <1>10, StepsInPart DEF ShortCall, mainVars
  <2> QED
    BY <1>10, <2>1, Sizes DEF ShortCall, KernelReturns, IInv, TypeOK, PassInv,
       MorePasses, Steps, Mapped
<1>11. ASSUME NEW u \in Workers, FailedCall(u) PROVE PassInv'
  BY <1>11, Sizes DEF FailedCall, IInv, args, mainVars, cache, PassInv, TypeOK, Steps,
     Mapped
<1>12. ASSUME NEW u \in Workers, Killed(u) PROVE PassInv'
  BY <1>12, Sizes DEF Killed, IInv, args, cache, PassInv, TypeOK, Steps, Mapped
<1>13. ASSUME NEW u \in Workers, BeginSync(u) PROVE PassInv'
  BY <1>13, Sizes DEF BeginSync, IInv, args, mainVars, PassInv, TypeOK, Steps, Mapped
<1>14. ASSUME NEW u \in Workers, EndSync(u) PROVE PassInv'
  <2>1. Steps(u) \in Nat /\ Steps(u) > 0 /\ ctx' = ctx
    BY <1>14, StepsInPart DEF EndSync, mainVars
  <2> QED
    BY <1>14, <2>1, Sizes DEF EndSync, KernelReturns, IInv, TypeOK, PassInv,
       MorePasses, Steps, Mapped
<1>15. ASSUME NEW u \in Workers, Exit(u) PROVE PassInv'
  BY <1>15, Sizes DEF Exit, IInv, args, cache, PassInv, TypeOK, Steps, Mapped
<1>16. ASSUME NEW q \in Pages, WriteBack(q) PROVE PassInv'
  BY <1>16, Sizes DEF WriteBack, IInv, args, mainVars, PassInv, TypeOK, Steps, Mapped
<1>17. CASE UNCHANGED vars
  BY <1>17 DEF vars, IInv, args, mainVars, cache, PassInv, TypeOK, Steps, Mapped
<1> QED
  BY <1>1, <1>2, <1>3, <1>4, <1>5, <1>6, <1>7, <1>8, <1>9, <1>10, <1>11, <1>12, <1>13,
     <1>14, <1>15, <1>16, <1>17 DEF Next, Main, Worker, Terminating

\* ... what the main thread has waited for.
LEMMA JoinStep == IInv /\ [Next]_vars => JoinInv'
<1> SUFFICES ASSUME IInv, [Next]_vars PROVE JoinInv'
  OBVIOUS
<1>1. CASE Open
  BY <1>1, Sizes DEF Open, IInv, args, cache, JoinInv, PassInv, TypeOK, Workers
<1>2. CASE Truncate
  BY <1>2, Sizes DEF Truncate, IInv, args, cache, JoinInv, PassInv, TypeOK, Workers
<1>3. CASE Map
  BY <1>3, Sizes DEF Map, IInv, args, cache, JoinInv, PassInv, TypeOK, Workers
<1>4. CASE Create
  BY <1>4, Sizes DEF Create, IInv, args, cache, JoinInv, PassInv, TypeOK, Workers
<1>5. CASE StartJoin
  BY <1>5, Sizes DEF StartJoin, IInv, args, cache, JoinInv, PassInv, TypeOK, Workers
<1>6. CASE Join
  BY <1>6, Sizes DEF Join, IInv, args, cache, JoinInv, PassInv, TypeOK, Workers
<1>7. CASE Report
  BY <1>7, Sizes DEF Report, IInv, args, cache, JoinInv, PassInv, TypeOK, Workers
<1>8. ASSUME NEW u \in Workers, Enter(u) PROVE JoinInv'
  BY <1>8, Sizes DEF Enter, IInv, args, mainVars, cache, JoinInv, PassInv, TypeOK,
     Workers
<1>9. ASSUME NEW u \in Workers, Access(u) PROVE JoinInv'
  BY <1>9, Sizes DEF Access, IInv, args, mainVars, JoinInv, PassInv, TypeOK,
     KernelReturns, MorePasses, Workers
<1>10. ASSUME NEW u \in Workers, ShortCall(u) PROVE JoinInv'
  BY <1>10, Sizes DEF ShortCall, IInv, args, mainVars, cache, JoinInv, PassInv,
     TypeOK, KernelReturns, MorePasses, Workers
<1>11. ASSUME NEW u \in Workers, FailedCall(u) PROVE JoinInv'
  BY <1>11, Sizes DEF FailedCall, IInv, args, mainVars, cache, JoinInv, PassInv,
     TypeOK, Workers
<1>12. ASSUME NEW u \in Workers, Killed(u) PROVE JoinInv'
  BY <1>12, Sizes DEF Killed, IInv, args, cache, JoinInv, PassInv, TypeOK, Workers
<1>13. ASSUME NEW u \in Workers, BeginSync(u) PROVE JoinInv'
  BY <1>13, Sizes DEF BeginSync, IInv, args, mainVars, JoinInv, PassInv, TypeOK, Workers
<1>14. ASSUME NEW u \in Workers, EndSync(u) PROVE JoinInv'
  BY <1>14, Sizes DEF EndSync, IInv, args, mainVars, JoinInv, PassInv, TypeOK,
     MorePasses, Workers
<1>15. ASSUME NEW u \in Workers, Exit(u) PROVE JoinInv'
  BY <1>15, Sizes DEF Exit, IInv, args, cache, JoinInv, PassInv, TypeOK, Workers
<1>16. ASSUME NEW q \in Pages, WriteBack(q) PROVE JoinInv'
  BY <1>16, Sizes DEF WriteBack, IInv, args, mainVars, JoinInv, PassInv, TypeOK, Workers
<1>17. CASE UNCHANGED vars
  BY <1>17 DEF vars, IInv, args, mainVars, cache, JoinInv, PassInv, TypeOK, Workers
<1> QED
  BY <1>1, <1>2, <1>3, <1>4, <1>5, <1>6, <1>7, <1>8, <1>9, <1>10, <1>11, <1>12, <1>13,
     <1>14, <1>15, <1>16, <1>17 DEF Next, Main, Worker, Terminating

\* ... the knowledge of a loss.
LEMMA LossStep == IInv /\ [Next]_vars => NoLossGoesUnheard'
<1> SUFFICES ASSUME IInv, [Next]_vars PROVE NoLossGoesUnheard'
  OBVIOUS
<1>1. CASE Open
  BY <1>1, Sizes DEF Open, IInv, args, cache, NoLossGoesUnheard, TypeOK, Alive,
     PassInv, JoinInv
<1>2. CASE Truncate
  BY <1>2, Sizes DEF Truncate, IInv, args, cache, NoLossGoesUnheard, TypeOK, Alive,
     PassInv, JoinInv
<1>3. CASE Map
  BY <1>3, Sizes DEF Map, IInv, args, cache, NoLossGoesUnheard, TypeOK, Alive,
     PassInv, JoinInv
<1>4. CASE Create
  BY <1>4, Sizes DEF Create, IInv, args, cache, NoLossGoesUnheard, TypeOK, Alive,
     PassInv, JoinInv
<1>5. CASE StartJoin
  BY <1>5, Sizes DEF StartJoin, IInv, args, cache, NoLossGoesUnheard, TypeOK, Alive,
     PassInv, JoinInv
<1>6. CASE Join
  BY <1>6, Sizes DEF Join, IInv, args, cache, NoLossGoesUnheard, TypeOK, Alive,
     PassInv, JoinInv
<1>7. CASE Report
  BY <1>7, Sizes DEF Report, IInv, args, cache, NoLossGoesUnheard, TypeOK, Alive,
     PassInv, JoinInv
<1>8. ASSUME NEW u \in Workers, Enter(u) PROVE NoLossGoesUnheard'
  BY <1>8, Sizes DEF Enter, IInv, args, mainVars, cache, NoLossGoesUnheard, TypeOK,
     Alive, PassInv, JoinInv
<1>9. ASSUME NEW u \in Workers, Access(u) PROVE NoLossGoesUnheard'
  BY <1>9, Sizes DEF Access, IInv, args, mainVars, NoLossGoesUnheard, TypeOK, Alive,
     KernelReturns, PassInv, JoinInv
<1>10. ASSUME NEW u \in Workers, ShortCall(u) PROVE NoLossGoesUnheard'
  BY <1>10, Sizes DEF ShortCall, IInv, args, mainVars, cache, NoLossGoesUnheard,
     TypeOK, Alive, KernelReturns, PassInv, JoinInv
<1>11. ASSUME NEW u \in Workers, FailedCall(u) PROVE NoLossGoesUnheard'
  BY <1>11, Sizes DEF FailedCall, IInv, args, mainVars, cache, NoLossGoesUnheard,
     TypeOK, Alive, PassInv, JoinInv
<1>12. ASSUME NEW u \in Workers, Killed(u) PROVE NoLossGoesUnheard'
  BY <1>12, Sizes DEF Killed, IInv, args, cache, NoLossGoesUnheard, TypeOK, Alive,
     PassInv, JoinInv
<1>13. ASSUME NEW u \in Workers, BeginSync(u) PROVE NoLossGoesUnheard'
  BY <1>13, Sizes DEF BeginSync, IInv, args, mainVars, NoLossGoesUnheard, TypeOK,
     Alive, PassInv, JoinInv
<1>14. ASSUME NEW u \in Workers, EndSync(u) PROVE NoLossGoesUnheard'
  BY <1>14, Sizes DEF EndSync, IInv, args, mainVars, NoLossGoesUnheard, TypeOK, Alive,
     PassInv, JoinInv
<1>15. ASSUME NEW u \in Workers, Exit(u) PROVE NoLossGoesUnheard'
  BY <1>15, Sizes DEF Exit, IInv, args, cache, NoLossGoesUnheard, TypeOK, Alive,
     PassInv, JoinInv
<1>16. ASSUME NEW q \in Pages, WriteBack(q) PROVE NoLossGoesUnheard'
  BY <1>16, Sizes DEF WriteBack, IInv, args, mainVars, NoLossGoesUnheard, TypeOK,
     Alive, PassInv, JoinInv
<1>17. CASE UNCHANGED vars
  BY <1>17 DEF vars, IInv, args, mainVars, cache, NoLossGoesUnheard, TypeOK, Alive,
     PassInv, JoinInv
<1> QED
  BY <1>1, <1>2, <1>3, <1>4, <1>5, <1>6, <1>7, <1>8, <1>9, <1>10, <1>11, <1>12, <1>13,
     <1>14, <1>15, <1>16, <1>17 DEF Next, Main, Worker, Terminating

\* ... that a dirty page has its worker.
LEMMA DirtyStep == IInv /\ [Next]_vars => DirtyInv'
<1> SUFFICES ASSUME IInv, [Next]_vars PROVE DirtyInv'
  OBVIOUS
<1>1. CASE Open
  <2>1. \A w \in Unfinished : w \in Unfinished' /\ (pc'[w] = "wait" => pc[w] = "wait")
    BY <1>1, Sizes DEF Open, IInv, TypeOK, PassInv, JoinInv, Unfinished,
       KernelReturns, MorePasses
  <2> QED
    BY <1>1, <2>1 DEF Open, IInv, DirtyInv, Own, Start, cache, mainVars
<1>2. CASE Truncate
  <2>1. \A w \in Unfinished : w \in Unfinished' /\ (pc'[w] = "wait" => pc[w] = "wait")
    BY <1>2, Sizes DEF Truncate, IInv, TypeOK, PassInv, JoinInv, Unfinished,
       KernelReturns, MorePasses
  <2> QED
    BY <1>2, <2>1 DEF Truncate, IInv, DirtyInv, Own, Start, cache, mainVars
<1>3. CASE Map
  <2>1. \A w \in Unfinished : w \in Unfinished' /\ (pc'[w] = "wait" => pc[w] = "wait")
    BY <1>3, Sizes DEF Map, IInv, TypeOK, PassInv, JoinInv, Unfinished, KernelReturns,
       MorePasses
  <2> QED
    BY <1>3, <2>1 DEF Map, IInv, DirtyInv, Own, Start, cache, mainVars
<1>4. CASE Create
  <2>1. \A w \in Unfinished : w \in Unfinished' /\ (pc'[w] = "wait" => pc[w] = "wait")
    BY <1>4, Sizes DEF Create, IInv, TypeOK, PassInv, JoinInv, Unfinished,
       KernelReturns, MorePasses
  <2> QED
    BY <1>4, <2>1 DEF Create, IInv, DirtyInv, Own, Start, cache, mainVars
<1>5. CASE StartJoin
  <2>1. \A w \in Unfinished : w \in Unfinished' /\ (pc'[w] = "wait" => pc[w] = "wait")
    BY <1>5, Sizes DEF StartJoin, IInv, TypeOK, PassInv, JoinInv, Unfinished,
       KernelReturns, MorePasses
  <2> QED
    BY <1>5, <2>1 DEF StartJoin, IInv, DirtyInv, Own, Start, cache, mainVars
<1>6. CASE Join
  <2>1. \A w \in Unfinished : w \in Unfinished' /\ (pc'[w] = "wait" => pc[w] = "wait")
    BY <1>6, Sizes DEF Join, IInv, TypeOK, PassInv, JoinInv, Unfinished,
       KernelReturns, MorePasses
  <2> QED
    BY <1>6, <2>1 DEF Join, IInv, DirtyInv, Own, Start, cache, mainVars
<1>7. CASE Report
  <2>1. \A w \in Unfinished : w \in Unfinished' /\ (pc'[w] = "wait" => pc[w] = "wait")
    BY <1>7, Sizes DEF Report, IInv, TypeOK, PassInv, JoinInv, Unfinished,
       KernelReturns, MorePasses
  <2> QED
    BY <1>7, <2>1 DEF Report, IInv, DirtyInv, Own, Start, cache, mainVars
<1>8. ASSUME NEW u \in Workers, Enter(u) PROVE DirtyInv'
  <2>1. \A w \in Unfinished : w \in Unfinished' /\ (pc'[w] = "wait" => pc[w] = "wait")
    BY <1>8, Sizes DEF Enter, IInv, TypeOK, PassInv, JoinInv, Unfinished,
       KernelReturns, MorePasses
  <2> QED
    BY <1>8, <2>1 DEF Enter, IInv, DirtyInv, Own, Start, cache, mainVars
<1>9. ASSUME NEW u \in Workers, Access(u) PROVE DirtyInv'
  <2>1. PICK d \in SUBSET Own(u) : dirty' = dirty \cup d /\ stale' = stale \cup d
    BY <1>9, WrittenPages DEF IInv
  <2>2. \A w \in Unfinished : w \in Unfinished' /\ (pc'[w] = "wait" => pc[w] = "wait")
    BY <1>9, Sizes DEF Access, IInv, TypeOK, PassInv, Unfinished, KernelReturns,
       MorePasses
  <2>3. u \in Unfinished /\ pc'[u] # "wait"
    BY <1>9 DEF Access, IInv, TypeOK, Unfinished, KernelReturns
  <2> QED
    BY <1>9, <2>1, <2>2, <2>3 DEF Access, IInv, DirtyInv, Own, Start
<1>10. ASSUME NEW u \in Workers, ShortCall(u) PROVE DirtyInv'
  <2>1. \A w \in Unfinished : w \in Unfinished' /\ (pc'[w] = "wait" => pc[w] = "wait")
    BY <1>10, Sizes DEF ShortCall, IInv, TypeOK, PassInv, JoinInv, Unfinished,
       KernelReturns, MorePasses
  <2> QED
    BY <1>10, <2>1 DEF ShortCall, IInv, DirtyInv, Own, Start, cache, mainVars
<1>11. ASSUME NEW u \in Workers, FailedCall(u) PROVE DirtyInv'
  <2>1. \A w \in Unfinished : w \in Unfinished' /\ (pc'[w] = "wait" => pc[w] = "wait")
    BY <1>11, Sizes DEF FailedCall, IInv, TypeOK, PassInv, JoinInv, Unfinished,
       KernelReturns, MorePasses
  <2> QED
    BY <1>11, <2>1 DEF FailedCall, IInv, DirtyInv, Own, Start, cache, mainVars
<1>12. ASSUME NEW u \in Workers, Killed(u) PROVE DirtyInv'
  <2>1. \A w \in Unfinished : w \in Unfinished' /\ (pc'[w] = "wait" => pc[w] = "wait")
    BY <1>12, Sizes DEF Killed, IInv, TypeOK, PassInv, JoinInv, Unfinished,
       KernelReturns, MorePasses
  <2> QED
    BY <1>12, <2>1 DEF Killed, IInv, DirtyInv, Own, Start, cache, mainVars
<1>13. ASSUME NEW u \in Workers, BeginSync(u) PROVE DirtyInv'
  <2> SUFFICES ASSUME NEW p \in dirty
               PROVE  \E w \in Unfinished' :
                        p \in Own(w) /\ (pc'[w] = "wait" => p \in awaited'[w])
    BY <1>13 DEF BeginSync, DirtyInv, Own, Start
  <2>1. PICK w \in Unfinished : p \in Own(w) /\ (pc[w] = "wait" => p \in awaited[w])
    BY DEF IInv, DirtyInv
  <2>2. w \in Unfinished'
    BY <1>13 DEF BeginSync, IInv, TypeOK, Unfinished
  <2>3. pc'[w] = "wait" => p \in awaited'[w]
    BY <1>13, <2>1, OwnArePages DEF BeginSync, IInv, TypeOK, Unfinished
  <2> QED
    BY <2>1, <2>2, <2>3
<1>14. ASSUME NEW u \in Workers, EndSync(u) PROVE DirtyInv'
  <2> SUFFICES ASSUME NEW p \in dirty
               PROVE  \E w \in Unfinished' :
                        p \in Own(w) /\ (pc'[w] = "wait" => p \in awaited'[w])
    BY <1>14 DEF EndSync, DirtyInv, Own, Start
  <2>1. PICK w \in Unfinished : p \in Own(w) /\ (pc[w] = "wait" => p \in awaited[w])
    BY DEF IInv, DirtyInv
  <2>2. w # u
    BY <1>14, <2>1 DEF EndSync
  <2>3. pc'[w] = pc[w] /\ awaited' = awaited
    BY <1>14, <2>2 DEF EndSync, IInv, TypeOK, Unfinished
  <2> QED
    BY <2>1, <2>3 DEF Unfinished
<1>15. ASSUME NEW u \in Workers, Exit(u) PROVE DirtyInv'
  <2>1. \A w \in Unfinished : w \in Unfinished' /\ (pc'[w] = "wait" => pc[w] = "wait")
    BY <1>15, Sizes DEF Exit, IInv, TypeOK, PassInv, JoinInv, Unfinished,
       KernelReturns, MorePasses
  <2> QED
    BY <1>15, <2>1 DEF Exit, IInv, DirtyInv, Own, Start, cache, mainVars
<1>16. ASSUME NEW q \in Pages, WriteBack(q) PROVE DirtyInv'
  <2>1. Unfinished' = Unfinished /\ pc' = pc
    BY <1>16 DEF WriteBack, Unfinished
  <2>2. \A p \in dirty' : p \in dirty /\ \A w \in Unfinished : p \in awaited[w] => p \in awaited'[w]
    BY <1>16 DEF WriteBack, Unfinished
  <2> QED
    BY <1>16, <2>1, <2>2 DEF IInv, DirtyInv, Own, Start
<1>17. CASE UNCHANGED vars
  BY <1>17 DEF vars, cache, IInv, DirtyInv, Unfinished, Own, Start
<1> QED
  BY <1>1, <1>2, <1>3, <1>4, <1>5, <1>6, <1>7, <1>8, <1>9, <1>10, <1>11, <1>12, <1>13,
     <1>14, <1>15, <1>16, <1>17 DEF Next, Main, Worker, Terminating

\* ... and that an error has one.
LEMMA ErrorStep == IInv /\ [Next]_vars => ErrorInv'
<1> SUFFICES ASSUME IInv, [Next]_vars PROVE ErrorInv'
  OBVIOUS
<1>1. CASE Open
  <2>1. Unfinished \subseteq Unfinished' /\ error' = error
    BY <1>1, Sizes DEF Open, IInv, TypeOK, PassInv, JoinInv, Unfinished,
       KernelReturns, MorePasses, cache
  <2> QED
    BY <2>1 DEF IInv, ErrorInv
<1>2. CASE Truncate
  <2>1. Unfinished \subseteq Unfinished' /\ error' = error
    BY <1>2, Sizes DEF Truncate, IInv, TypeOK, PassInv, JoinInv, Unfinished,
       KernelReturns, MorePasses, cache
  <2> QED
    BY <2>1 DEF IInv, ErrorInv
<1>3. CASE Map
  <2>1. Unfinished \subseteq Unfinished' /\ error' = error
    BY <1>3, Sizes DEF Map, IInv, TypeOK, PassInv, JoinInv, Unfinished, KernelReturns,
       MorePasses, cache
  <2> QED
    BY <2>1 DEF IInv, ErrorInv
<1>4. CASE Create
  <2>1. Unfinished \subseteq Unfinished' /\ error' = error
    BY <1>4, Sizes DEF Create, IInv, TypeOK, PassInv, JoinInv, Unfinished,
       KernelReturns, MorePasses, cache
  <2> QED
    BY <2>1 DEF IInv, ErrorInv
<1>5. CASE StartJoin
  <2>1. Unfinished \subseteq Unfinished' /\ error' = error
    BY <1>5, Sizes DEF StartJoin, IInv, TypeOK, PassInv, JoinInv, Unfinished,
       KernelReturns, MorePasses, cache
  <2> QED
    BY <2>1 DEF IInv, ErrorInv
<1>6. CASE Join
  <2>1. Unfinished \subseteq Unfinished' /\ error' = error
    BY <1>6, Sizes DEF Join, IInv, TypeOK, PassInv, JoinInv, Unfinished,
       KernelReturns, MorePasses, cache
  <2> QED
    BY <2>1 DEF IInv, ErrorInv
<1>7. CASE Report
  <2>1. Unfinished \subseteq Unfinished' /\ error' = error
    BY <1>7, Sizes DEF Report, IInv, TypeOK, PassInv, JoinInv, Unfinished,
       KernelReturns, MorePasses, cache
  <2> QED
    BY <2>1 DEF IInv, ErrorInv
<1>8. ASSUME NEW u \in Workers, Enter(u) PROVE ErrorInv'
  <2>1. Unfinished \subseteq Unfinished' /\ error' = error
    BY <1>8, Sizes DEF Enter, IInv, TypeOK, PassInv, JoinInv, Unfinished,
       KernelReturns, MorePasses, cache
  <2> QED
    BY <2>1 DEF IInv, ErrorInv
<1>9. ASSUME NEW u \in Workers, Access(u) PROVE ErrorInv'
  <2>1. Unfinished \subseteq Unfinished' /\ error' = error
    BY <1>9, Sizes DEF Access, IInv, TypeOK, PassInv, JoinInv, Unfinished,
       KernelReturns, MorePasses, cache
  <2> QED
    BY <2>1 DEF IInv, ErrorInv
<1>10. ASSUME NEW u \in Workers, ShortCall(u) PROVE ErrorInv'
  <2>1. Unfinished \subseteq Unfinished' /\ error' = error
    BY <1>10, Sizes DEF ShortCall, IInv, TypeOK, PassInv, JoinInv, Unfinished,
       KernelReturns, MorePasses, cache
  <2> QED
    BY <2>1 DEF IInv, ErrorInv
<1>11. ASSUME NEW u \in Workers, FailedCall(u) PROVE ErrorInv'
  <2>1. Unfinished \subseteq Unfinished' /\ error' = error
    BY <1>11, Sizes DEF FailedCall, IInv, TypeOK, PassInv, JoinInv, Unfinished,
       KernelReturns, MorePasses, cache
  <2> QED
    BY <2>1 DEF IInv, ErrorInv
<1>12. ASSUME NEW u \in Workers, Killed(u) PROVE ErrorInv'
  <2>1. Unfinished \subseteq Unfinished' /\ error' = error
    BY <1>12, Sizes DEF Killed, IInv, TypeOK, PassInv, JoinInv, Unfinished,
       KernelReturns, MorePasses, cache
  <2> QED
    BY <2>1 DEF IInv, ErrorInv
<1>13. ASSUME NEW u \in Workers, BeginSync(u) PROVE ErrorInv'
  <2>1. Unfinished \subseteq Unfinished' /\ error' = error
    BY <1>13, Sizes DEF BeginSync, IInv, TypeOK, PassInv, JoinInv, Unfinished,
       KernelReturns, MorePasses, cache
  <2> QED
    BY <2>1 DEF IInv, ErrorInv
<1>14. ASSUME NEW u \in Workers, EndSync(u) PROVE ErrorInv'
  BY <1>14 DEF EndSync, ErrorInv
<1>15. ASSUME NEW u \in Workers, Exit(u) PROVE ErrorInv'
  <2>1. Unfinished \subseteq Unfinished' /\ error' = error
    BY <1>15, Sizes DEF Exit, IInv, TypeOK, PassInv, JoinInv, Unfinished,
       KernelReturns, MorePasses, cache
  <2> QED
    BY <2>1 DEF IInv, ErrorInv
<1>16. ASSUME NEW q \in Pages, WriteBack(q) PROVE ErrorInv'
  <2>1. Unfinished' = Unfinished /\ Unfinished # {}
    BY <1>16 DEF WriteBack, IInv, DirtyInv, Unfinished
  <2> QED
    BY <2>1 DEF ErrorInv
<1>17. CASE UNCHANGED vars
  BY <1>17 DEF vars, cache, IInv, ErrorInv, Unfinished
<1> QED
  BY <1>1, <1>2, <1>3, <1>4, <1>5, <1>6, <1>7, <1>8, <1>9, <1>10, <1>11, <1>12, <1>13,
     <1>14, <1>15, <1>16, <1>17 DEF Next, Main, Worker, Terminating

\* ... and what the contexts say.
LEMMA ContextStep == IInv /\ [Next]_vars => ContextInv'
<1> SUFFICES ASSUME IInv, [Next]_vars PROVE ContextInv'
  OBVIOUS
<1>1. CASE Open
  BY <1>1, Sizes DEF Open, IInv, args, cache, ContextInv, Mapped, Context, TypeOK,
     PassInv, JoinInv, Workers
<1>2. CASE Truncate
  BY <1>2, Sizes DEF Truncate, IInv, args, cache, ContextInv, Mapped, Context, TypeOK,
     PassInv, JoinInv, Workers
<1>3. CASE Map
  BY <1>3, Sizes DEF Map, IInv, args, cache, ContextInv, Mapped, Context, TypeOK,
     PassInv, JoinInv, Workers
<1>4. CASE Create
  <2>1. \A w \in Workers : Context(w)' = Context(w)
    BY <1>4 DEF Create, Context, args
  <2>2. \A w \in Workers : w # nth => ctx'[w] = ctx[w] /\ pc'[w] = pc[w] /\ (Mapped(w)' <=> Mapped(w))
    BY <1>4 DEF Create, IInv, TypeOK, Mapped
  <2>3. nth \in Workers => /\ ctx'[nth] = Context(nth) /\ pc'[nth] = "ready"
                         /\ pass[nth] = 0 /\ step[nth] = 0
    BY <1>4, Sizes DEF Create, IInv, TypeOK, JoinInv, PassInv, Workers
  <2> QED
    BY <1>4, <2>1, <2>2, <2>3 DEF Create, IInv, ContextInv
<1>5. CASE StartJoin
  BY <1>5, Sizes DEF StartJoin, IInv, args, cache, ContextInv, Mapped, Context,
     TypeOK, PassInv, JoinInv, Workers
<1>6. CASE Join
  BY <1>6, Sizes DEF Join, IInv, args, cache, ContextInv, Mapped, Context, TypeOK,
     PassInv, JoinInv, Workers
<1>7. CASE Report
  BY <1>7, Sizes DEF Report, IInv, args, cache, ContextInv, Mapped, Context, TypeOK,
     PassInv, JoinInv, Workers
<1>8. ASSUME NEW u \in Workers, Enter(u) PROVE ContextInv'
  BY <1>8, Sizes DEF Enter, IInv, args, mainVars, cache, ContextInv, Mapped, Context,
     TypeOK, PassInv, JoinInv, Workers
<1>9. ASSUME NEW u \in Workers, Access(u) PROVE ContextInv'
  <2>1. /\ UNCHANGED mainVars /\ pc[u] = "kernel" /\ (Mapped(u) => ctx[u].addr # -1)
        /\ \A w \in Workers : w # u => pc'[w] = pc[w] /\ step'[w] = step[w] /\ pass'[w] = pass[w]
    BY <1>9 DEF Access, MayTouch, KernelReturns, IInv, TypeOK
  <2> QED
    BY <2>1 DEF args, mainVars, IInv, ContextInv, Mapped, Context
<1>10. ASSUME NEW u \in Workers, ShortCall(u) PROVE ContextInv'
  BY <1>10, Sizes DEF ShortCall, IInv, args, mainVars, cache, ContextInv, Mapped,
     Context, MayTouch, KernelReturns, TypeOK, PassInv, JoinInv, Workers
<1>11. ASSUME NEW u \in Workers, FailedCall(u) PROVE ContextInv'
  BY <1>11, Sizes DEF FailedCall, IInv, args, mainVars, cache, ContextInv, Mapped,
     Context, TypeOK, PassInv, JoinInv, Workers
<1>12. ASSUME NEW u \in Workers, Killed(u) PROVE ContextInv'
  BY <1>12, Sizes DEF Killed, IInv, args, cache, ContextInv, Mapped, Context, TypeOK,
     PassInv, JoinInv, Workers
<1>13. ASSUME NEW u \in Workers, BeginSync(u) PROVE ContextInv'
  BY <1>13, Sizes DEF BeginSync, IInv, args, mainVars, ContextInv, Mapped, Context,
     TypeOK, PassInv, JoinInv, Workers
<1>14. ASSUME NEW u \in Workers, EndSync(u) PROVE ContextInv'
  BY <1>14, Sizes DEF EndSync, IInv, args, mainVars, ContextInv, Mapped, Context,
     TypeOK, PassInv, JoinInv, Workers
<1>15. ASSUME NEW u \in Workers, Exit(u) PROVE ContextInv'
  BY <1>15, Sizes DEF Exit, IInv, args, cache, ContextInv, Mapped, Context, TypeOK,
     PassInv, JoinInv, Workers
<1>16. ASSUME NEW q \in Pages, WriteBack(q) PROVE ContextInv'
  BY <1>16, Sizes DEF WriteBack, IInv, args, mainVars, ContextInv, Mapped, Context,
     TypeOK, PassInv, JoinInv, Workers
<1>17. CASE UNCHANGED vars
  BY <1>17 DEF vars, IInv, args, mainVars, cache, ContextInv, Mapped, Context, TypeOK,
     PassInv, JoinInv, Workers
<1> QED
  BY <1>1, <1>2, <1>3, <1>4, <1>5, <1>6, <1>7, <1>8, <1>9, <1>10, <1>11, <1>12, <1>13,
     <1>14, <1>15, <1>16, <1>17 DEF Next, Main, Worker, Terminating

LEMMA InitHolds == Init => IInv
<1> SUFFICES ASSUME Init PROVE IInv
  OBVIOUS
<1>1. TypeOK
  <2>1. NoCtx \in [addr : Int, fd : Nat, op : {0, 2}]
    BY DEF NoCtx
  <2>2. 0 \in 0 .. Count - 1 /\ 0 \in 0 .. Passes + 1 /\ 0 \in 0 .. NumThreads
    BY Sizes
  <2> QED
    BY <2>1, <2>2 DEF Init, TypeOK
<1>2. PassInv /\ JoinInv
  BY DEF Init, PassInv, JoinInv
<1>3. DirtyInv /\ NoLossGoesUnheard /\ ErrorInv
  BY DEF Init, DirtyInv, NoLossGoesUnheard, ErrorInv
<1>4. ContextInv
  BY DEF Init, ContextInv
<1> QED
  BY <1>1, <1>2, <1>3, <1>4 DEF IInv

LEMMA Invariant == Spec => []IInv
<1>1. IInv /\ [Next]_vars => IInv'
  BY TypeStep, PassStep, JoinStep, LossStep, DirtyStep, ErrorStep, ContextStep DEF IInv
<1> QED
  BY InitHolds, <1>1, PTL DEF Spec

-----------------------------------------------------------------------------
(***************************************************************************)
(* Every variable keeps its type (run_thread.cc:479-545).                  *)
(***************************************************************************)
THEOREM TypeCorrect == Spec => []TypeOK
  BY Invariant, PTL DEF IInv

(***************************************************************************)
(* A page that is lost is known to a worker that ends the process, or will *)
(* be (run_thread.cc:519-533).                                             *)
(***************************************************************************)
THEOREM LossesAreHeard == Spec => []NoLossGoesUnheard
  BY Invariant, PTL DEF IInv

(***************************************************************************)
(* No figure is printed for data that the device does not have: nobody is  *)
(* left to sync when main() has joined all workers, so no page is dirty    *)
(* and no error is left to be returned, and then none was lost.            *)
(***************************************************************************)
THEOREM FiguresAreOfDurableData == Spec => []FigureMeansDurable
<1>1. IInv => FigureMeansDurable
  <2> SUFFICES ASSUME IInv, mainpc = "done" PROVE stale = {}
    BY DEF FigureMeansDurable
  <2>1. \A w \in Workers : pc[w] = "done"
    BY DEF IInv, JoinInv
  <2>2. Unfinished = {}
    BY <2>1 DEF Unfinished
  <2>3. dirty = {} /\ ~error
    BY <2>2 DEF IInv, DirtyInv, ErrorInv
  <2> QED
    BY <2>1, <2>3 DEF IInv, NoLossGoesUnheard, Alive
<1> QED
  BY Invariant, <1>1, PTL

\* A part is whole pages, so the parts of two workers share none.
LEMMA OwnAreApart ==
  ASSUME NEW v \in Workers, NEW w \in Workers, v < w
  PROVE  Own(v) \cap Own(w) = {}
<1>1. PICK k \in Nat : Count = k * PageBlocks
  BY Sizes, SsdAssumption, WholePages
<1>2. v \in Nat /\ w \in Nat /\ v + 1 <= w /\ Start(v) = v * Count /\ Start(w) = w * Count
  BY Sizes DEF Workers, Start
<1>3. (v + 1) * k <= w * k /\ (v + 1) * k \in Nat /\ w * k \in Nat
  BY <1>1, <1>2
<1>4. \A b \in Start(v) .. Start(v) + Count - 1 : PageOf(b) < (v + 1) * k
  <2> SUFFICES ASSUME NEW b \in Start(v) .. Start(v) + Count - 1 PROVE PageOf(b) < (v + 1) * k
    OBVIOUS
  <2>1. (v + 1) * Count = v * Count + Count /\ v * Count \in Nat
    BY <1>2, Sizes
  <2>2. b \in Nat /\ b < (v + 1) * Count
    BY <1>2, <2>1, Sizes
  <2>3. (v + 1) * Count = ((v + 1) * k) * PageBlocks
    BY <1>1, <1>2, Sizes
  <2> HIDE <1>1
  <2> QED
    BY <1>3, <2>2, <2>3, Sizes DEF PageOf
<1>5. \A b \in Start(w) .. Start(w) + Count - 1 : PageOf(b) >= w * k
  <2> SUFFICES ASSUME NEW b \in Start(w) .. Start(w) + Count - 1 PROVE PageOf(b) >= w * k
    OBVIOUS
  <2>1. w * Count \in Nat
    BY <1>2, Sizes
  <2>2. b \in Nat /\ b >= w * Count
    BY <1>2, <2>1, Sizes
  <2>3. w * Count = (w * k) * PageBlocks
    BY <1>1, <1>2, Sizes
  <2> QED
    BY <1>3, <2>2, <2>3, Sizes DEF PageOf
<1>6. ASSUME NEW p \in Own(v), p \in Own(w) PROVE FALSE
  <2>1. PICK b \in Start(v) .. Start(v) + Count - 1 : p = PageOf(b)
    BY <1>6 DEF Own
  <2>2. PICK c \in Start(w) .. Start(w) + Count - 1 : p = PageOf(c)
    BY <1>6 DEF Own
  <2>3. p < (v + 1) * k /\ p >= w * k
    BY <1>4, <1>5, <2>1, <2>2
  <2>4. p \in Int
    <3>1. b \in Int
      BY <1>2, <2>1, Sizes
    <3> QED
      BY <2>1, <3>1, Sizes DEF PageOf
  <2> QED
    BY <1>3, <2>3, <2>4
<1> QED
  BY <1>6

(***************************************************************************)
(* Nothing of a worker that has finished is on the way to the device, as   *)
(* only a worker itself makes pages of its part dirty.                     *)
(***************************************************************************)
THEOREM FinishedPartsAreSettled == Spec => []OwnPagesSettled
<1>1. IInv => OwnPagesSettled
  <2> SUFFICES ASSUME IInv, NEW w \in Workers, pc[w] = "done",
                      NEW p \in dirty, p \in Own(w)
               PROVE  FALSE
    BY DEF OwnPagesSettled, Own
  <2>1. PICK v \in Unfinished : p \in Own(v)
    BY DEF IInv, DirtyInv
  <2>2. v \in Workers /\ v # w
    BY DEF Unfinished
  <2>3. v < w \/ w < v
    BY <2>2, Sizes DEF Workers
  <2> QED
    BY <2>1, <2>2, <2>3, OwnAreApart
<1> QED
  BY Invariant, <1>1, PTL

(***************************************************************************)
(* A figure is one of the kernel asked for, whatever open has returned.    *)
(***************************************************************************)
THEOREM FiguresAreOfTheKernelAsked == Spec => []FigureOfTheKernelAsked
<1>1. IInv => FigureOfTheKernelAsked
  <2> SUFFICES ASSUME IInv, mainpc = "done", NEW w \in Workers
               PROVE  Op(w) = 3 + (IF read THEN 0 ELSE 2) + (IF mmap THEN 1 ELSE 0)
    BY DEF FigureOfTheKernelAsked
  <2>1. pc[w] = "done" /\ ctx[w] = Context(w)
    BY DEF IInv, JoinInv, ContextInv
  <2>2. ~(Mapped(w) /\ ctx[w].addr = -1)
    BY <2>1 DEF IInv, ContextInv
  <2>3. Mapped(w) <=> mmap
    BY <2>1, <2>2 DEF Context, Mapped, IInv, TypeOK
  <2> QED
    BY <2>1, <2>3 DEF Op, Context, IInv, TypeOK
<1> QED
  BY Invariant, <1>1, PTL

(***************************************************************************)
(* Every step is one of the abstract promise or leaves it unchanged.       *)
(***************************************************************************)
THEOREM FileMeasurementKeepsPromise == Spec => KeepsPromise
<1>1. Init => Promise!Init
  BY DEF Init, Promise!Init, Workers
<1>2. IInv /\ [Next]_vars => [Promise!Next]_<<pass, mainpc = "done">>
  <2> SUFFICES ASSUME IInv, [Next]_vars
               PROVE  Promise!Next \/ UNCHANGED <<pass, mainpc = "done">>
    OBVIOUS
  <2>1. CASE Report
    <3>1. \A w \in Workers : pass[w] = Passes + 1
      BY <2>1, Sizes DEF Report, IInv, JoinInv, PassInv, Workers
    <3> QED
      BY <2>1, <3>1 DEF Report, Promise!Next, Promise!Report, Workers
  <2>2. CASE Open \/ Truncate \/ Map \/ Create \/ StartJoin \/ Join
    BY <2>2 DEF Open, Truncate, Map, Create, StartJoin, Join
  <2>3. ASSUME NEW w \in Workers, Worker(w)
        PROVE  Promise!Next \/ UNCHANGED <<pass, mainpc = "done">>
    <3>1. mainpc # "done"
      BY <2>3 DEF IInv, JoinInv, Worker, Enter, Access, ShortCall, FailedCall, Killed,
                  BeginSync, EndSync, Exit
    <3>2. mainpc' # "done"
      BY <2>3, <3>1 DEF Worker, Enter, Access, ShortCall, FailedCall, Killed, BeginSync,
                        EndSync, Exit, mainVars
    <3>3. UNCHANGED pass \/ (pass[w] <= Passes /\ pass' = [pass EXCEPT ![w] = @ + 1])
      <4>1. CASE Access(w) \/ ShortCall(w)
        BY <4>1, Sizes DEF Access, ShortCall, KernelReturns, IInv, TypeOK, PassInv
      <4>2. CASE EndSync(w)
        BY <4>2 DEF EndSync, IInv, PassInv
      <4>3. CASE Enter(w) \/ FailedCall(w) \/ Killed(w) \/ BeginSync(w) \/ Exit(w)
        BY <4>3 DEF Enter, FailedCall, Killed, BeginSync, Exit
      <4> QED
        BY <2>3, <4>1, <4>2, <4>3 DEF Worker
    <3> QED
      BY <3>1, <3>2, <3>3 DEF Promise!Next, Promise!CompletePass, Workers
  <2>4. CASE \E p \in Pages : WriteBack(p)
    BY <2>4 DEF WriteBack, mainVars
  <2>5. CASE Terminating \/ UNCHANGED vars
    BY <2>5 DEF Terminating, vars, mainVars
  <2> QED
    BY <2>1, <2>2, <2>3, <2>4, <2>5 DEF Next, Main
<1> QED
  BY Invariant, <1>1, <1>2, PTL DEF Spec, KeepsPromise, Promise!Safety

-----------------------------------------------------------------------------
(***************************************************************************)
(* What a figure covers: kernels that a worker has run, and for a mapping  *)
(* the accesses to a block in them, one pair of pass and place each.       *)
(***************************************************************************)
Kernels(w) == pass[w] + IF pc[w] \in {"sync", "wait"} THEN 1 ELSE 0

NoneFailed == \A w \in Workers : pc[w] # "failed"

Performed(b) ==
  {x \in (0 .. Passes) \X AccessesTo(b) :
     \E w \in Workers : \E n \in 0 .. Count - 1 :
       /\ x[2] = Start(w) + n
       /\ x[1] < Kernels(w) \/ (x[1] = Kernels(w) /\ n < step[w])}

MappedHits ==
  \A b \in Blocks : hits[b] = Cardinality(Performed(b))

\* A call has moved step[w] pages, from the beginning of the part.
CallHits ==
  /\ \A w \in Workers : \A n \in 0 .. Count - 1 :
       LET moved == Kernels(w) + IF n < step[w] * PageBlocks THEN 1 ELSE 0
       IN  /\ hits[Start(w) + n] <= moved
           /\ n < PageBlocks /\ (read => Start(w) + PageBlocks <= regionSize)
                => hits[Start(w) + n] = moved
           /\ n >= RwBlocks => hits[Start(w) + n] = 0
  /\ \A b \in Blocks : b >= NumThreads * Count => hits[b] = 0

CoverInv ==
  /\ \A w \in Workers : pc[w] = "done" => step[w] = 0
  /\ mmap => \A b \in Blocks : hits[b] > 0 => b < regionSize
  /\ NoneFailed => IF mmap THEN MappedHits ELSE CallHits

\* Every block of a part is of one worker and one place.
LEMMA PlacesApart ==
  ASSUME NEW v \in Workers, NEW w \in Workers,
         NEW m \in 0 .. Count - 1, NEW n \in 0 .. Count - 1, Start(v) + m = Start(w) + n
  PROVE  v = w /\ m = n
<1>1. v \in Nat /\ w \in Nat /\ Start(v) = v * Count /\ Start(w) = w * Count
      /\ Start(v) \in Nat /\ Start(w) \in Nat
  BY Sizes DEF Workers, Start
<1>2. ASSUME NEW x \in Nat, NEW y \in Nat, x < y PROVE x * Count + Count <= y * Count
  <2>1. (x + 1) * Count <= y * Count
    BY <1>2, Sizes
  <2>2. (x + 1) * Count = x * Count + Count
    BY Sizes
  <2> QED
    BY <2>1, <2>2
<1>3. ~(v < w)
  <2> SUFFICES ASSUME v < w PROVE FALSE
    OBVIOUS
  <2>1. Start(v) + Count <= Start(w)
    BY <1>1, <1>2
  <2> QED
    BY <1>1, <2>1, Sizes
<1>4. ~(w < v)
  <2> SUFFICES ASSUME w < v PROVE FALSE
    OBVIOUS
  <2>1. Start(w) + Count <= Start(v)
    BY <1>1, <1>2
  <2> QED
    BY <1>1, <2>1, Sizes
<1>5. v = w
  BY <1>1, <1>3, <1>4
<1> QED
  BY <1>1, <1>5, Sizes

LEMMA PlaceExists ==
  ASSUME NEW b \in Nat, b < NumThreads * Count
  PROVE  \E w \in Workers : \E n \in 0 .. Count - 1 : b = Start(w) + n /\ b % Count = n
<1> DEFINE w == b \div Count
           n == b % Count
<1>1. w \in Int /\ n \in 0 .. Count - 1 /\ b = Count * w + n
  BY Sizes
<1>2. w >= 0
  BY Sizes
<1> HIDE DEF w, n
<1>3. w < NumThreads
  <2> SUFFICES ASSUME w >= NumThreads PROVE FALSE
    BY <1>1, Sizes
  <2>1. w * Count >= NumThreads * Count /\ w * Count \in Nat /\ NumThreads * Count \in Nat
    BY <1>1, <1>2, Sizes
  <2>2. Count * w = w * Count
    BY <1>1, Sizes
  <2> QED
    BY <1>1, <2>1, <2>2, Sizes
<1>4. w \in Workers /\ b = Start(w) + n
  <2>1. Count * w = w * Count
    BY <1>1, Sizes
  <2> QED
    BY <1>1, <1>2, <1>3, <2>1, Sizes DEF Workers, Start
<1> QED
  BY <1>1, <1>4 DEF n

LEMMA PlaceType ==
  ASSUME NEW w \in Workers, NEW n \in 0 .. Count - 1
  PROVE  /\ Start(w) + n \in Blocks /\ Start(w) \in Nat
         /\ Start(w) + n \in 0 .. NumThreads * Count - 1
<1>1. w \in Nat /\ w + 1 <= NumThreads
  BY Sizes DEF Workers
<1>2. (w + 1) * Count <= NumThreads * Count
  BY <1>1, Sizes
<1>3. (w + 1) * Count = w * Count + Count /\ w * Count \in Nat /\ NumThreads * Count \in Nat
  BY <1>1, Sizes
<1> QED
  BY <1>2, <1>3, Sizes DEF Blocks, Start

LEMMA PerformedFinite ==
  ASSUME NEW b \in Blocks
  PROVE  /\ IsFiniteSet(AccessesTo(b)) /\ Cardinality(AccessesTo(b)) \in Nat
         /\ IsFiniteSet((0 .. Passes) \X AccessesTo(b))
         /\ Cardinality((0 .. Passes) \X AccessesTo(b)) = (Passes + 1) * Cardinality(AccessesTo(b))
         /\ IsFiniteSet(Performed(b)) /\ Cardinality(Performed(b)) \in Nat
<1>1. NumThreads * Count \in Nat
  BY Sizes
<1>2. IsFiniteSet(0 .. NumThreads * Count - 1)
  BY <1>1, FS_Interval
<1>3. IsFiniteSet(AccessesTo(b))
  BY <1>2, FS_Subset DEF AccessesTo
<1>4. IsFiniteSet(0 .. Passes) /\ Cardinality(0 .. Passes) = Passes + 1
  BY FS_Interval, Sizes
<1>5. /\ IsFiniteSet((0 .. Passes) \X AccessesTo(b))
      /\ Cardinality((0 .. Passes) \X AccessesTo(b)) = (Passes + 1) * Cardinality(AccessesTo(b))
  BY <1>3, <1>4, FS_Product
<1>6. IsFiniteSet(Performed(b))
  BY <1>5, FS_Subset DEF Performed
<1> QED
  BY <1>3, <1>5, <1>6, FS_CardinalityType

\* A failed worker stays one: the process ends.
LEMMA FailedStays ==
  ASSUME IInv, [Next]_vars, NoneFailed'
  PROVE  NoneFailed
<1> SUFFICES ASSUME NEW w \in Workers, pc[w] = "failed" PROVE pc'[w] = "failed"
  BY DEF NoneFailed
<1> USE DEF IInv, TypeOK
<1>1. CASE Main
  <2>1. CASE Create
    BY <2>1, Sizes DEF Create, JoinInv, Workers
  <2> QED
    BY <1>1, <2>1 DEF Main, Open, Truncate, Map, StartJoin, Join, Report
<1>2. ASSUME NEW u \in Workers, Worker(u) PROVE pc'[w] = "failed"
  BY <1>2 DEF Worker, Enter, Access, ShortCall, KernelReturns, FailedCall, Killed,
     BeginSync, EndSync, Exit
<1>3. CASE \E p \in Pages : WriteBack(p)
  BY <1>3 DEF WriteBack
<1>4. CASE UNCHANGED vars
  BY <1>4 DEF vars
<1> QED
  BY <1>1, <1>2, <1>3, <1>4 DEF Next, Terminating

\* Steps that are no access and no return of a kernel.
QuietNext ==
  \/ Main
  \/ \E w \in Workers : Enter(w) \/ FailedCall(w) \/ Killed(w) \/ BeginSync(w) \/ EndSync(w) \/ Exit(w)
  \/ \E p \in Pages : WriteBack(p)
  \/ UNCHANGED vars

LEMMA QuietSteps ==
  ASSUME IInv, QuietNext
  PROVE  /\ UNCHANGED <<args, hits, step>>
         /\ \A w \in Workers : pc'[w] = "done" => pc[w] = "done" \/ step[w] = 0
         /\ NoneFailed' => \A w \in Workers : Kernels(w)' = Kernels(w)
<1> USE DEF IInv, TypeOK
<1>1. CASE Main
  <2>1. UNCHANGED <<args, hits, step, pass>>
    BY <1>1 DEF Main, Open, Truncate, Map, Create, StartJoin, Join, Report
  <2>2. CASE Create
    <3>1. nth \in Workers /\ pc[nth] = "off" /\ pc' = [pc EXCEPT ![nth] = "ready"]
      BY <2>2, Sizes DEF Create, JoinInv, Workers
    <3> QED
      BY <2>1, <3>1 DEF Kernels
  <2>3. CASE ~Create
    <3>1. pc' = pc
      BY <1>1, <2>3 DEF Main, Open, Truncate, Map, StartJoin, Join, Report
    <3> QED
      BY <2>1, <3>1 DEF Kernels
  <2> QED
    BY <2>2, <2>3
<1>2. ASSUME NEW u \in Workers, Enter(u) \/ FailedCall(u) \/ Killed(u) \/ BeginSync(u) \/ Exit(u)
      PROVE  /\ UNCHANGED <<args, hits, step>>
             /\ \A w \in Workers : pc'[w] = "done" => pc[w] = "done" \/ step[w] = 0
             /\ NoneFailed' => \A w \in Workers : Kernels(w)' = Kernels(w)
  <2>1. UNCHANGED <<args, hits, step, pass>>
    BY <1>2 DEF Enter, FailedCall, Killed, BeginSync, Exit, mainVars
  <2>2. CASE Enter(u)
    BY <2>1, <2>2 DEF Enter, Kernels
  <2>3. CASE FailedCall(u)
    BY <2>1, <2>3 DEF FailedCall, Kernels, NoneFailed
  <2>4. CASE BeginSync(u)
    BY <2>1, <2>4 DEF BeginSync, Kernels
  <2>5. CASE Killed(u) \/ Exit(u)
    BY <2>1, <2>5 DEF Killed, Exit, Kernels
  <2> QED
    BY <1>2, <2>2, <2>3, <2>4, <2>5
<1>3. ASSUME NEW u \in Workers, EndSync(u)
      PROVE  /\ UNCHANGED <<args, hits, step>>
             /\ \A w \in Workers : pc'[w] = "done" => pc[w] = "done" \/ step[w] = 0
             /\ NoneFailed' => \A w \in Workers : Kernels(w)' = Kernels(w)
  <2>1. UNCHANGED <<args, hits, step>> /\ pc[u] = "wait" /\ step[u] = 0
    BY <1>3 DEF EndSync, mainVars, PassInv
  <2>2. \A w \in Workers : w # u => pc'[w] = pc[w] /\ pass'[w] = pass[w]
    BY <1>3 DEF EndSync
  <2>3. NoneFailed' => pass'[u] = pass[u] + 1 /\ pc'[u] \in {"kernel", "done"}
    BY <1>3 DEF EndSync, NoneFailed
  <2>4. pass[u] \in Nat
    BY Sizes
  <2> QED
    BY <2>1, <2>2, <2>3, <2>4 DEF Kernels
<1>4. CASE \E p \in Pages : WriteBack(p)
  BY <1>4 DEF WriteBack, mainVars, Kernels
<1>5. CASE UNCHANGED vars
  BY <1>5 DEF vars, mainVars, Kernels
<1> QED
  BY <1>1, <1>2, <1>3, <1>4, <1>5 DEF QuietNext

\* What an access of a mapping touches are the places AccessesTo names.
LEMMA MappedTouches ==
  ASSUME IInv, mmap, NEW u \in Workers, Access(u), NEW b \in Blocks
  PROVE  /\ Mapped(u) /\ step[u] \in 0 .. Count - 1 /\ Steps(u) = Count
         /\ b \in Touched(u, step[u]) <=> Start(u) + step[u] \in AccessesTo(b)
         /\ b \in Touched(u, step[u]) => b < regionSize
<1> USE DEF IInv, TypeOK
<1>1. ctx[u] = Context(u) /\ step[u] \in 0 .. Count - 1
  BY DEF ContextInv, Access
<1>2. Mapped(u) /\ Op(u) = IF read THEN 4 ELSE 6
  BY <1>1 DEF Context, Mapped, Op
<1>3. Start(u) + step[u] \in 0 .. NumThreads * Count - 1 /\ Start(u) \in Nat
  BY <1>1, PlaceType
<1>4. b \in Nat /\ SpanBlocks \in Nat /\ NumThreads * Count \in Nat
  BY Sizes DEF Blocks
<1>7. Steps(u) = Count /\ (b \in Touched(u, step[u]) => b < regionSize)
  BY <1>2 DEF Access, MayTouch, InFile, Steps
<1> DEFINE place == Start(u) + step[u]
<1>8. place \in 0 .. NumThreads * Count - 1 /\ place \in Nat
  BY <1>3
<1>5. CASE read
  <2>1. Touched(u, step[u]) = place .. place + SpanBlocks - 1
    BY <1>2, <1>5 DEF Touched
  <2> HIDE DEF place
  <2>2. b \in Touched(u, step[u]) <=> place <= b /\ b < place + SpanBlocks
    BY <1>4, <1>8, <2>1
  <2>3. place \in AccessesTo(b) <=> place <= b /\ b < place + SpanBlocks
    BY <1>5, <1>8 DEF AccessesTo
  <2> QED
    BY <1>1, <1>2, <1>7, <2>2, <2>3 DEF place
<1>6. CASE ~read
  <2>1. Touched(u, step[u]) = {place}
    BY <1>2, <1>6 DEF Touched
  <2> HIDE DEF place
  <2>2. b \in Touched(u, step[u]) <=> b = place
    BY <2>1
  <2>3. place \in AccessesTo(b) <=> place <= b /\ b < place + 1
    BY <1>6, <1>8 DEF AccessesTo
  <2>4. b = place <=> place <= b /\ b < place + 1
    BY <1>4, <1>8
  <2>5. b \in Touched(u, step[u]) <=> place \in AccessesTo(b)
    BY <2>2, <2>3, <2>4
  <2> QED
    BY <1>1, <1>2, <1>7, <2>5 DEF place
<1> QED
  BY <1>5, <1>6

\* An access goes one step on, or ends the kernel.
LEMMA AccessSteps ==
  ASSUME IInv, NEW u \in Workers, Access(u)
  PROVE  /\ UNCHANGED args /\ Kernels(u) = pass[u] /\ pass[u] \in 0 .. Passes
         /\ \A w \in Workers : w # u => Kernels(w)' = Kernels(w) /\ step'[w] = step[w] /\ pc'[w] = pc[w]
         /\ IF step[u] + 1 < Steps(u)
            THEN Kernels(u)' = Kernels(u) /\ step'[u] = step[u] + 1 /\ pc'[u] = "kernel"
            ELSE Kernels(u)' = Kernels(u) + 1 /\ step'[u] = 0
         /\ pc'[u] # "failed"
<1> USE DEF IInv, TypeOK
<1>1. pc[u] = "kernel" /\ pass[u] \in 0 .. Passes /\ UNCHANGED args
  BY Sizes DEF Access, PassInv, mainVars
<1>2. CASE step[u] + 1 < Steps(u)
  BY <1>1, <1>2 DEF Access, Kernels
<1>3. CASE ~(step[u] + 1 < Steps(u))
  <2>1. KernelReturns(u)
    BY <1>3 DEF Access
  <2>2. CASE pass[u] = 0
    BY <1>1, <1>3, <2>1, <2>2, Sizes DEF KernelReturns, Kernels
  <2>3. CASE pass[u] # 0
    BY <1>1, <1>3, <2>1, <2>3, Sizes DEF KernelReturns, Kernels
  <2> QED
    BY <2>2, <2>3
<1> QED
  BY <1>1, <1>2, <1>3

\* An access of a mapping is one pair more for the blocks it touches.
LEMMA AccessCountsOne ==
  ASSUME IInv, mmap, NEW u \in Workers, Access(u), NEW b \in Blocks
  PROVE  Cardinality(Performed(b))' =
           Cardinality(Performed(b)) + IF b \in Touched(u, step[u]) THEN 1 ELSE 0
<1> DEFINE new == <<Kernels(u), Start(u) + step[u]>>
<1>1. /\ step[u] \in 0 .. Count - 1 /\ Steps(u) = Count /\ Kernels(u) \in 0 .. Passes
      /\ b \in Touched(u, step[u]) <=> Start(u) + step[u] \in AccessesTo(b)
  BY MappedTouches, AccessSteps
<1>2. AccessesTo(b)' = AccessesTo(b)
  <2>1. read' = read
    BY AccessSteps DEF args
  <2> QED
    BY <2>1 DEF AccessesTo
<1>3. \A w \in Workers : Kernels(w) \in Nat /\ step[w] \in 0 .. Count - 1
  BY Sizes DEF Kernels, IInv, TypeOK
<1>4. ASSUME NEW k \in 0 .. Passes, NEW w \in Workers, NEW n \in 0 .. Count - 1
      PROVE  (k < Kernels(w)' \/ (k = Kernels(w)' /\ n < step'[w])) <=>
               \/ k < Kernels(w) \/ (k = Kernels(w) /\ n < step[w])
               \/ w = u /\ k = Kernels(u) /\ n = step[u]
  <2>1. CASE w # u
    BY <2>1, AccessSteps
  <2>2. CASE w = u /\ step[u] + 1 < Steps(u)
    BY <1>1, <1>3, <2>2, AccessSteps
  <2>3. CASE w = u /\ ~(step[u] + 1 < Steps(u))
    <3>1. step[u] = Count - 1 /\ Kernels(u)' = Kernels(u) + 1 /\ step'[u] = 0
      BY <1>1, <2>3, Sizes, AccessSteps
    <3>2. n <= Count - 1 /\ n >= 0 /\ Kernels(u) \in Nat
      BY <1>3, Sizes
    <3> QED
      BY <2>3, <3>1, <3>2, Sizes
  <2> QED
    BY <2>1, <2>2, <2>3
<1>5. Performed(b)' = {x \in (0 .. Passes) \X AccessesTo(b) :
        \E w \in Workers : \E n \in 0 .. Count - 1 :
          /\ x[2] = Start(w) + n
          /\ x[1] < Kernels(w)' \/ (x[1] = Kernels(w)' /\ n < step'[w])}
  BY <1>2 DEF Performed, Start
<1>6. new \notin Performed(b)
  <2> SUFFICES ASSUME NEW w \in Workers, NEW n \in 0 .. Count - 1,
                      Start(u) + step[u] = Start(w) + n,
                      Kernels(u) < Kernels(w) \/ (Kernels(u) = Kernels(w) /\ n < step[w])
               PROVE  FALSE
    BY DEF Performed
  <2>1. w = u /\ n = step[u]
    BY <1>1, PlacesApart
  <2> QED
    BY <1>3, <2>1
<1>7. IsFiniteSet(Performed(b)) /\ Cardinality(Performed(b)) \in Nat
  BY PerformedFinite
<1>8. CASE b \in Touched(u, step[u])
  <2>1. new \in (0 .. Passes) \X AccessesTo(b)
    BY <1>1, <1>8
  <2>2. Performed(b)' = Performed(b) \cup {new}
    <3>1. ASSUME NEW x \in (0 .. Passes) \X AccessesTo(b)
          PROVE  x \in Performed(b)' <=> x \in Performed(b) \/ x = new
      <4>1. ASSUME x \in Performed(b)' PROVE x \in Performed(b) \/ x = new
        <5>1. PICK w \in Workers, n \in 0 .. Count - 1 :
                /\ x[2] = Start(w) + n
                /\ x[1] < Kernels(w)' \/ (x[1] = Kernels(w)' /\ n < step'[w])
          BY <1>5, <4>1
        <5>2. \/ x[1] < Kernels(w) \/ (x[1] = Kernels(w) /\ n < step[w])
              \/ w = u /\ x[1] = Kernels(u) /\ n = step[u]
          BY <1>4, <5>1
        <5>3. x = <<x[1], x[2]>>
          BY <3>1
        <5> QED
          BY <5>1, <5>2, <5>3 DEF Performed
      <4>2. ASSUME x \in Performed(b) PROVE x \in Performed(b)'
        <5>1. PICK w \in Workers, n \in 0 .. Count - 1 :
                /\ x[2] = Start(w) + n
                /\ x[1] < Kernels(w) \/ (x[1] = Kernels(w) /\ n < step[w])
          BY <4>2 DEF Performed
        <5>2. x[1] < Kernels(w)' \/ (x[1] = Kernels(w)' /\ n < step'[w])
          BY <1>4, <5>1
        <5> QED
          BY <1>5, <5>1, <5>2
      <4>3. ASSUME x = new PROVE x \in Performed(b)'
        <5>1. x[1] = Kernels(u) /\ x[2] = Start(u) + step[u]
          BY <4>3
        <5>2. x[1] < Kernels(u)' \/ (x[1] = Kernels(u)' /\ step[u] < step'[u])
          BY <1>1, <1>4, <5>1
        <5> QED
          BY <1>1, <1>5, <5>1, <5>2
      <4> QED
        BY <4>1, <4>2, <4>3
    <3>2. Performed(b)' \subseteq (0 .. Passes) \X AccessesTo(b)
      BY <1>5
    <3>3. Performed(b) \subseteq (0 .. Passes) \X AccessesTo(b)
      BY DEF Performed
    <3> HIDE DEF new
    <3> QED
      BY <2>1, <3>1, <3>2, <3>3
  <2> HIDE DEF new
  <2>3. Cardinality(Performed(b) \cup {new}) = Cardinality(Performed(b)) + 1
    BY <1>6, <1>7, FS_AddElement
  <2>4. Cardinality(Performed(b))' = Cardinality(Performed(b)')
    OBVIOUS
  <2> QED
    BY <1>8, <2>2, <2>3, <2>4
<1>9. CASE b \notin Touched(u, step[u])
  <2>1. Performed(b)' = Performed(b)
    <3>1. ASSUME NEW x \in (0 .. Passes) \X AccessesTo(b)
          PROVE  x \in Performed(b)' <=> x \in Performed(b)
      <4>1. ASSUME x \in Performed(b)' PROVE x \in Performed(b)
        <5>1. PICK w \in Workers, n \in 0 .. Count - 1 :
                /\ x[2] = Start(w) + n
                /\ x[1] < Kernels(w)' \/ (x[1] = Kernels(w)' /\ n < step'[w])
          BY <1>5, <4>1
        <5>2. \/ x[1] < Kernels(w) \/ (x[1] = Kernels(w) /\ n < step[w])
              \/ w = u /\ x[1] = Kernels(u) /\ n = step[u]
          BY <1>4, <5>1
        <5>3. x[2] \in AccessesTo(b)
          BY <3>1
        <5> QED
          BY <1>1, <1>9, <5>1, <5>2, <5>3 DEF Performed
      <4>2. ASSUME x \in Performed(b) PROVE x \in Performed(b)'
        <5>1. PICK w \in Workers, n \in 0 .. Count - 1 :
                /\ x[2] = Start(w) + n
                /\ x[1] < Kernels(w) \/ (x[1] = Kernels(w) /\ n < step[w])
          BY <4>2 DEF Performed
        <5>2. x[1] < Kernels(w)' \/ (x[1] = Kernels(w)' /\ n < step'[w])
          BY <1>4, <5>1
        <5> QED
          BY <1>5, <5>1, <5>2
      <4> QED
        BY <4>1, <4>2
    <3>2. Performed(b)' \subseteq (0 .. Passes) \X AccessesTo(b)
      BY <1>5
    <3>3. Performed(b) \subseteq (0 .. Passes) \X AccessesTo(b)
      BY DEF Performed
    <3> QED
      BY <3>1, <3>2, <3>3
  <2>2. Cardinality(Performed(b))' = Cardinality(Performed(b)')
    OBVIOUS
  <2> QED
    BY <1>7, <1>9, <2>1, <2>2
<1> QED
  BY <1>8, <1>9

\* What a call touches is its next page of the part.
LEMMA CallTouches ==
  ASSUME IInv, ~mmap, NEW u \in Workers, Access(u) \/ ShortCall(u)
  PROVE  /\ ~Mapped(u) /\ (Reading(u) <=> read) /\ step[u] \in Nat /\ step[u] < Steps(u)
         /\ Touched(u, step[u]) =
              Start(u) + step[u] * PageBlocks .. Start(u) + (step[u] + 1) * PageBlocks - 1
         /\ Steps(u) * PageBlocks <= Count /\ Steps(u) * PageBlocks <= RwBlocks
<1> USE DEF IInv, TypeOK
<1>1. ctx[u] = Context(u) /\ step[u] \in Nat /\ step[u] < Steps(u)
  BY Sizes DEF ContextInv, PassInv, Access, ShortCall
<1>2. ~Mapped(u)
  BY <1>1 DEF Access, ShortCall, MayTouch, Context
<1>3. Op(u) = IF read THEN 3 ELSE 5
  BY <1>1, <1>2 DEF Context, Op
<1>4. Touched(u, step[u]) =
        Start(u) + step[u] * PageBlocks .. Start(u) + (step[u] + 1) * PageBlocks - 1
  BY <1>3 DEF Touched
<1>5. Steps(u) * PageBlocks <= Count /\ Steps(u) * PageBlocks <= RwBlocks
  <2> DEFINE n == IF RwBlocks < Count THEN RwBlocks ELSE Count
  <2>1. n \in Nat /\ n > 0 /\ n % PageBlocks = 0 /\ n <= Count /\ n <= RwBlocks
    BY Sizes, SsdAssumption
  <2>2. Steps(u) = n \div PageBlocks
    BY <1>2 DEF Steps
  <2> HIDE DEF n
  <2>3. (n \div PageBlocks) * PageBlocks = n
    BY <2>1, Sizes, WholePages
  <2> QED
    BY <2>1, <2>2, <2>3
<1> QED
  BY <1>1, <1>2, <1>3, <1>4, <1>5 DEF Reading

\* The blocks before a page.
LEMMA PagesBefore ==
  \A x \in Nat : /\ x * PageBlocks \in Nat
                 /\ (x + 1) * PageBlocks = x * PageBlocks + PageBlocks
                 /\ x > 0 => x * PageBlocks >= PageBlocks
                 /\ x = 0 => x * PageBlocks = 0
                 /\ \A y \in Nat : x < y => x * PageBlocks + PageBlocks <= y * PageBlocks
<1> SUFFICES ASSUME NEW x \in Nat
             PROVE  /\ x * PageBlocks \in Nat
                    /\ (x + 1) * PageBlocks = x * PageBlocks + PageBlocks
                    /\ x > 0 => x * PageBlocks >= PageBlocks
                    /\ x = 0 => x * PageBlocks = 0
                    /\ \A y \in Nat : x < y => x * PageBlocks + PageBlocks <= y * PageBlocks
  OBVIOUS
<1>1. x * PageBlocks \in Nat /\ (x + 1) * PageBlocks = x * PageBlocks + PageBlocks
  BY Sizes
<1>2. x > 0 => x * PageBlocks >= PageBlocks
  BY Sizes
<1>3. x = 0 => x * PageBlocks = 0
  BY Sizes
<1>4. ASSUME NEW y \in Nat, x < y PROVE x * PageBlocks + PageBlocks <= y * PageBlocks
  <2>1. (x + 1) * PageBlocks <= y * PageBlocks
    BY <1>4, Sizes
  <2> QED
    BY <1>1, <2>1
<1> QED
  BY <1>1, <1>2, <1>3, <1>4

\* The first page of a part begins where the part does.
LEMMA FirstPage ==
  /\ PageBlocks <= Count /\ PageBlocks <= RwBlocks
  /\ \A w \in Workers : \A n \in 0 .. PageBlocks - 1 :
       (Start(w) + n) - ((Start(w) + n) % PageBlocks) = Start(w)
<1>1. PICK k \in Nat : k > 0 /\ Count = k * PageBlocks
  BY Sizes, SsdAssumption, WholePages
<1>2. PICK j \in Nat : j > 0 /\ RwBlocks = j * PageBlocks
  BY Sizes, SsdAssumption, WholePages
<1>3. ASSUME NEW x \in Nat, x > 0 PROVE PageBlocks <= x * PageBlocks
  BY <1>3, Sizes
<1>4. ASSUME NEW w \in Workers, NEW n \in 0 .. PageBlocks - 1
      PROVE  (Start(w) + n) - ((Start(w) + n) % PageBlocks) = Start(w)
  <2>1. w \in Nat /\ w * k \in Nat /\ Start(w) = (w * k) * PageBlocks
    BY <1>1, Sizes DEF Workers, Start
  <2>2. PICK q \in Nat : q = w * k
    BY <2>1
  <2>3. Start(w) = q * PageBlocks /\ q * PageBlocks \in Nat
    BY <2>1, <2>2, Sizes
  <2>4. (q * PageBlocks + n) % PageBlocks = n
    <3> DEFINE b == q * PageBlocks + n
    <3>1. b \in Nat
      BY <2>3
    <3>2. PICK d \in Int : d = b \div PageBlocks
      BY <3>1, Sizes
    <3>3. PICK e \in 0 .. PageBlocks - 1 : e = b % PageBlocks
      BY <3>1, Sizes
    <3>4. b = d * PageBlocks + e /\ d \in Nat
      BY <3>1, <3>2, <3>3, Sizes
    <3>5. d * PageBlocks \in Nat
      BY <3>4, PagesBefore
    <3>6. ~(d < q)
      <4> SUFFICES ASSUME d < q PROVE FALSE
        OBVIOUS
      <4>1. d * PageBlocks + PageBlocks <= q * PageBlocks
        BY <2>2, <3>4, PagesBefore
      <4> QED
        BY <2>3, <3>3, <3>4, <3>5, <4>1, Sizes
    <3>7. ~(q < d)
      <4> SUFFICES ASSUME q < d PROVE FALSE
        OBVIOUS
      <4>1. q * PageBlocks + PageBlocks <= d * PageBlocks
        BY <2>2, <3>4, PagesBefore
      <4> QED
        BY <2>3, <3>3, <3>4, <3>5, <4>1, Sizes
    <3>8. d = q
      BY <2>2, <3>4, <3>6, <3>7
    <3> QED
      BY <2>3, <3>3, <3>4, <3>8
  <2> QED
    BY <2>3, <2>4, Sizes
<1> QED
  BY <1>1, <1>2, <1>3, <1>4

\* One more step of a call counts its page.
LEMMA CallAccessKeeps ==
  ASSUME IInv, CallHits, ~mmap, NEW u \in Workers, Access(u)
  PROVE  CallHits'
<1>1. /\ step[u] \in Nat /\ step[u] < Steps(u) /\ Steps(u) \in Nat
      /\ Touched(u, step[u]) =
           Start(u) + step[u] * PageBlocks .. Start(u) + (step[u] + 1) * PageBlocks - 1
      /\ Steps(u) * PageBlocks <= Count /\ Steps(u) * PageBlocks <= RwBlocks
      /\ Steps(u) * PageBlocks \in Nat
  BY CallTouches, StepsInPart, Sizes
<1>2. \A b \in Blocks : hits'[b] = hits[b] + IF b \in Touched(u, step[u]) THEN 1 ELSE 0
  BY DEF Access
<1>3. hits \in [Blocks -> Nat] /\ \A w \in Workers : Kernels(w) \in Nat /\ step[w] \in Nat
  BY Sizes DEF IInv, TypeOK, Kernels
<1>4. Start(u) \in Nat
  BY Sizes DEF Workers, Start
<1>5. PICK p \in Nat : p = step[u] * PageBlocks
  BY <1>1, PagesBefore
<1>6. /\ (step[u] + 1) * PageBlocks = p + PageBlocks
      /\ p + PageBlocks <= Steps(u) * PageBlocks
      /\ p + PageBlocks <= Count /\ p + PageBlocks <= RwBlocks
      /\ step[u] > 0 => p >= PageBlocks
      /\ step[u] = 0 => p = 0
  <2>1. /\ (step[u] + 1) * PageBlocks = p + PageBlocks
        /\ p + PageBlocks <= Steps(u) * PageBlocks
        /\ step[u] > 0 => p >= PageBlocks
        /\ step[u] = 0 => p = 0
    BY <1>1, <1>5, PagesBefore
  <2>2. PICK t \in Nat : t = Steps(u) * PageBlocks
    BY <1>1
  <2>3. p + PageBlocks <= t /\ t <= Count /\ t <= RwBlocks
    BY <1>1, <2>1, <2>2
  <2>4. p + PageBlocks <= Count /\ p + PageBlocks <= RwBlocks
    BY <1>5, <2>2, <2>3, Sizes
  <2> QED
    BY <2>1, <2>4
<1> DEFINE next == p + PageBlocks
<1>10. Touched(u, step[u]) = Start(u) + p .. Start(u) + next - 1
  BY <1>1, <1>4, <1>5, <1>6, Sizes
<1>7. UNCHANGED <<read, regionSize>>
  BY AccessSteps DEF args
<1>8. ASSUME NEW w \in Workers, NEW n \in 0 .. Count - 1
      PROVE  LET moved == Kernels(w)' + IF n < step'[w] * PageBlocks THEN 1 ELSE 0
             IN  /\ hits'[Start(w) + n] <= moved
                 /\ n < PageBlocks /\ (read => Start(w) + PageBlocks <= regionSize)
                      => hits'[Start(w) + n] = moved
                 /\ n >= RwBlocks => hits'[Start(w) + n] = 0
  <2> DEFINE h == hits[Start(w) + n]
  <2>1. Start(w) + n \in Blocks /\ h \in Nat
    BY <1>3, PlaceType
  <2>2. /\ h <= Kernels(w) + IF n < step[w] * PageBlocks THEN 1 ELSE 0
        /\ n < PageBlocks /\ (read => Start(w) + PageBlocks <= regionSize)
             => h = Kernels(w) + IF n < step[w] * PageBlocks THEN 1 ELSE 0
        /\ n >= RwBlocks => h = 0
    BY DEF CallHits
  <2>3. CASE w # u
    <3>1. Start(w) + n \notin Touched(u, step[u])
      <4> SUFFICES ASSUME Start(w) + n \in Touched(u, step[u]) PROVE FALSE
        OBVIOUS
      <4>1. PICK a \in Nat, c \in Nat : a = Start(w) /\ c = Start(u)
        BY <1>4, PlaceType
      <4>2. a + n >= c + p /\ a + n <= c + next - 1
        BY <1>10, <4>1
      <4>3. (a + n) - c \in 0 .. Count - 1 /\ c + ((a + n) - c) = a + n
        BY <1>5, <1>6, <4>1, <4>2, Sizes
      <4> QED
        BY <2>3, <4>1, <4>3, PlacesApart
    <3>2. hits'[Start(w) + n] = h
      BY <1>2, <2>1, <3>1
    <3>3. Kernels(w)' = Kernels(w) /\ step'[w] = step[w]
      BY <2>3, AccessSteps
    <3> QED
      BY <2>2, <3>2, <3>3
  <2>4. CASE w = u
    <3>1. Start(w) + n \in Touched(u, step[u]) <=>
            p <= n /\ n < p + PageBlocks
      <4>1. n \in Nat /\ p \in Nat /\ PageBlocks \in Nat
        BY <1>5, Sizes
      <4>2. PICK a \in Nat : a = Start(w)
        BY PlaceType
      <4>3. a + n \in Touched(u, step[u]) <=> a + p <= a + n /\ a + n <= a + next - 1
        BY <1>10, <2>4, <4>1, <4>2
      <4> QED
        BY <4>1, <4>2, <4>3
    <3>2. PICK k \in Nat : k = Kernels(u)
      BY <1>3
    <3>3. /\ h <= k + IF n < p THEN 1 ELSE 0
          /\ n < PageBlocks /\ (read => Start(w) + PageBlocks <= regionSize)
               => h = k + IF n < p THEN 1 ELSE 0
          /\ n >= RwBlocks => h = 0
      BY <1>5, <2>2, <2>4, <3>2
    <3>4. hits'[Start(w) + n] = h + IF Start(w) + n \in Touched(u, step[u]) THEN 1 ELSE 0
      BY <1>2, <2>1
    <3>5. CASE step[u] + 1 < Steps(u)
      <4>1. Kernels(u)' = Kernels(u) /\ step'[u] * PageBlocks = step[u] * PageBlocks + PageBlocks
        BY <1>1, <1>5, <1>6, <3>5, AccessSteps
      <4>2. Kernels(w)' = k /\ step'[w] * PageBlocks = p + PageBlocks /\ n \in Nat
        BY <1>5, <2>4, <3>2, <4>1, Sizes
      <4> HIDE DEF h
      <4>3. PICK g \in Nat : g = h
        BY <2>1
      <4> QED
        BY <1>5, <1>6, <3>1, <3>2, <3>3, <3>4, <4>2, <4>3, Sizes
    <3>6. CASE ~(step[u] + 1 < Steps(u))
      <4>1. Kernels(u)' = Kernels(u) + 1 /\ step'[u] * PageBlocks = 0
        BY <3>6, AccessSteps, Sizes
      <4>2. Kernels(w)' = k + 1 /\ step'[w] * PageBlocks = 0 /\ n \in Nat
        BY <2>4, <3>2, <4>1, Sizes
      <4> HIDE DEF h
      <4>3. PICK g \in Nat : g = h
        BY <2>1
      <4> QED
        BY <1>5, <1>6, <3>1, <3>2, <3>3, <3>4, <4>2, <4>3, Sizes
    <3> QED
      BY <3>5, <3>6
  <2> QED
    BY <2>3, <2>4
<1>9. ASSUME NEW b \in Blocks, b >= NumThreads * Count PROVE hits'[b] = 0
  <2>1. b \notin Touched(u, step[u])
    <3> SUFFICES ASSUME b \in Touched(u, step[u]) PROVE FALSE
      OBVIOUS
    <3>1. b \in Nat
      BY Sizes DEF Blocks
    <3>2. b \in Start(u) .. Start(u) + Count - 1
      <4>1. b >= Start(u) + p /\ b <= Start(u) + next - 1
        BY <1>10
      <4> QED
        BY <1>4, <1>5, <1>6, <3>1, <4>1, Sizes
    <3>3. Start(u) + (b - Start(u)) \in 0 .. NumThreads * Count - 1
      <4>1. b - Start(u) \in 0 .. Count - 1
        BY <1>4, <3>1, <3>2, Sizes
      <4> QED
        BY <4>1, PlaceType
    <3>4. NumThreads * Count \in Nat
      BY Sizes
    <3> QED
      BY <1>4, <1>9, <3>1, <3>3, <3>4
  <2> QED
    BY <1>2, <1>3, <1>9, <2>1 DEF CallHits
<1> QED
  BY <1>7, <1>8, <1>9 DEF CallHits, Start

\* A call that returns short has moved a page, unless the file is too short for one.
LEMMA ShortCallKeeps ==
  ASSUME IInv, CallHits, ~mmap, NEW u \in Workers, ShortCall(u)
  PROVE  CallHits' /\ UNCHANGED <<args, hits>> /\ step'[u] = 0
         /\ \A w \in Workers : w # u => pc'[w] = pc[w] /\ step'[w] = step[w]
<1> USE DEF IInv, TypeOK
<1>1. /\ UNCHANGED <<args, hits>> /\ KernelReturns(u) /\ pc[u] = "kernel"
      /\ step[u] > 0 \/ ~MayTouch(u)
  BY DEF ShortCall, mainVars
<1>2. Kernels(u)' = Kernels(u) + 1 /\ step'[u] = 0 /\ Kernels(u) \in Nat
  <2>1. CASE pass[u] = 0
    BY <1>1, <2>1, Sizes DEF KernelReturns, Kernels
  <2>2. CASE pass[u] # 0
    BY <1>1, <2>2, Sizes DEF KernelReturns, Kernels
  <2> QED
    BY <2>1, <2>2
<1>3. \A w \in Workers : w # u => Kernels(w)' = Kernels(w) /\ step'[w] = step[w] /\ pc'[w] = pc[w]
  BY <1>1 DEF KernelReturns, Kernels
<1>4. /\ ~Mapped(u) /\ (Reading(u) <=> read) /\ step[u] \in Nat
      /\ Touched(u, step[u]) =
           Start(u) + step[u] * PageBlocks .. Start(u) + (step[u] + 1) * PageBlocks - 1
  BY CallTouches
<1>5. Start(u) \in Nat /\ regionSize \in Nat
  BY Sizes, SsdAssumption DEF Workers, Start
<1>6. step[u] = 0 => read /\ ~(Start(u) + PageBlocks <= regionSize)
  <2> SUFFICES ASSUME step[u] = 0 PROVE read /\ ~(Start(u) + PageBlocks <= regionSize)
    OBVIOUS
  <2>1. Touched(u, step[u]) = Start(u) .. Start(u) + PageBlocks - 1
    <3>1. step[u] * PageBlocks = 0 /\ (step[u] + 1) * PageBlocks = PageBlocks
      BY Sizes
    <3> QED
      BY <1>4, <1>5, <3>1
  <2>2. read /\ ~InFile(u, step[u])
    BY <1>1, <1>4 DEF MayTouch
  <2>3. PICK b \in Start(u) .. Start(u) + PageBlocks - 1 : ~(b < regionSize)
    BY <2>1, <2>2 DEF InFile
  <2> QED
    BY <1>5, <2>2, <2>3, Sizes
<1>7. ASSUME NEW w \in Workers, NEW n \in 0 .. Count - 1
      PROVE  LET moved == Kernels(w)' + IF n < step'[w] * PageBlocks THEN 1 ELSE 0
             IN  /\ hits[Start(w) + n] <= moved
                 /\ n < PageBlocks /\ (read => Start(w) + PageBlocks <= regionSize)
                      => hits[Start(w) + n] = moved
                 /\ n >= RwBlocks => hits[Start(w) + n] = 0
  <2> DEFINE h == hits[Start(w) + n]
  <2>1. h \in Nat
    BY PlaceType
  <2>2. /\ h <= Kernels(w) + IF n < step[w] * PageBlocks THEN 1 ELSE 0
        /\ n < PageBlocks /\ (read => Start(w) + PageBlocks <= regionSize)
             => h = Kernels(w) + IF n < step[w] * PageBlocks THEN 1 ELSE 0
        /\ n >= RwBlocks => h = 0
    BY DEF CallHits
  <2>3. CASE w # u
    BY <1>3, <2>2, <2>3
  <2>4. CASE w = u
    <3>1. step'[u] * PageBlocks = 0 /\ (step[u] > 0 => step[u] * PageBlocks >= PageBlocks)
          /\ step[u] * PageBlocks \in Nat
      <4>1. 0 * PageBlocks = 0
        BY Sizes
      <4> QED
        BY <1>2, <1>4, <4>1, PagesBefore
    <3> HIDE DEF h
    <3>2. CASE step[u] = 0
      BY <1>2, <1>6, <2>1, <2>2, <2>4, <3>1, <3>2 DEF h
    <3>3. CASE step[u] > 0
      BY <1>2, <2>1, <2>2, <2>4, <3>1, <3>3, Sizes DEF h
    <3> QED
      BY <1>4, <3>2, <3>3
  <2> QED
    BY <2>3, <2>4
<1>8. CallHits'
  <2>1. read' = read /\ regionSize' = regionSize
    BY <1>1 DEF args
  <2>2. \A b \in Blocks : b >= NumThreads * Count => hits[b] = 0
    BY DEF CallHits
  <2> QED
    BY <1>1, <1>7, <2>1, <2>2 DEF CallHits, Start
<1> QED
  BY <1>1, <1>2, <1>3, <1>8

LEMMA CoverStep ==
  ASSUME IInv, CoverInv, [Next]_vars
  PROVE  CoverInv'
<1> USE DEF CoverInv
<1>1. CASE QuietNext
  <2>1. /\ UNCHANGED <<args, hits, step>>
        /\ \A w \in Workers : pc'[w] = "done" => pc[w] = "done" \/ step[w] = 0
        /\ NoneFailed' => \A w \in Workers : Kernels(w)' = Kernels(w)
    BY <1>1, QuietSteps
  <2>2. read' = read /\ mmap' = mmap /\ regionSize' = regionSize /\ hits' = hits /\ step' = step
    BY <2>1 DEF args
  <2>3. ASSUME NoneFailed', mmap PROVE MappedHits'
    <3>1. MappedHits
      BY <2>3, FailedStays
    <3>2. \A b \in Blocks : Performed(b)' = Performed(b)
      <4> SUFFICES ASSUME NEW b \in Blocks PROVE Performed(b)' = Performed(b)
        OBVIOUS
      <4>1. AccessesTo(b)' = AccessesTo(b)
        BY <2>2 DEF AccessesTo
      <4>2. \A w \in Workers : Kernels(w)' = Kernels(w) /\ Start(w)' = Start(w)
        BY <2>1, <2>3 DEF Start
      <4> QED
        BY <2>2, <4>1, <4>2 DEF Performed
    <3>3. \A b \in Blocks : Cardinality(Performed(b))' = Cardinality(Performed(b))
      BY <3>2
    <3> QED
      BY <2>2, <3>1, <3>3 DEF MappedHits
  <2>4. ASSUME NoneFailed', ~mmap PROVE CallHits'
    <3>1. CallHits
      BY <2>4, FailedStays
    <3>2. \A w \in Workers : Kernels(w)' = Kernels(w)
      BY <2>1, <2>4
    <3> QED
      BY <2>2, <3>1, <3>2 DEF CallHits, Start
  <2> QED
    BY <2>1, <2>2, <2>3, <2>4
<1>2. ASSUME NEW u \in Workers, Access(u) PROVE CoverInv'
  <2>1. /\ UNCHANGED args /\ hits' = [b \in Blocks |-> hits[b] + IF b \in Touched(u, step[u]) THEN 1 ELSE 0]
        /\ \A w \in Workers : w # u => step'[w] = step[w] /\ pc'[w] = pc[w]
        /\ IF step[u] + 1 < Steps(u) THEN pc'[u] = "kernel" ELSE step'[u] = 0
    BY <1>2, AccessSteps DEF Access
  <2>2. read' = read /\ mmap' = mmap /\ regionSize' = regionSize
    BY <2>1 DEF args
  <2>3. \A w \in Workers : pc'[w] = "done" => step'[w] = 0
    BY <2>1
  <2>4. ASSUME mmap, NEW b \in Blocks, hits'[b] > 0 PROVE b < regionSize
    <3>1. CASE b \in Touched(u, step[u])
      BY <1>2, <2>4, <3>1, MappedTouches
    <3>2. CASE b \notin Touched(u, step[u])
      <4>1. hits'[b] = hits[b]
        BY <2>1, <3>2 DEF IInv, TypeOK
      <4> QED
        BY <2>4, <4>1
    <3> QED
      BY <3>1, <3>2
  <2>5. ASSUME NoneFailed', mmap PROVE MappedHits'
    <3>1. MappedHits
      BY <2>5, FailedStays
    <3> SUFFICES ASSUME NEW b \in Blocks PROVE hits'[b] = Cardinality(Performed(b))'
      BY DEF MappedHits
    <3>2. Cardinality(Performed(b))' =
            Cardinality(Performed(b)) + IF b \in Touched(u, step[u]) THEN 1 ELSE 0
      BY <1>2, <2>5, AccessCountsOne
    <3> QED
      BY <2>1, <3>1, <3>2 DEF MappedHits
  <2>6. ASSUME NoneFailed', ~mmap PROVE CallHits'
    BY <1>2, <2>6, FailedStays, CallAccessKeeps
  <2> QED
    BY <2>2, <2>3, <2>4, <2>5, <2>6
<1>3. ASSUME NEW u \in Workers, ShortCall(u) PROVE CoverInv'
  <2>1. CASE ~mmap
    <3>1. NoneFailed' => CallHits
      BY <2>1, FailedStays
    <3>2. UNCHANGED args /\ step'[u] = 0
          /\ \A w \in Workers : w # u => pc'[w] = pc[w] /\ step'[w] = step[w]
      <4>1. UNCHANGED args /\ KernelReturns(u)
        BY <1>3 DEF ShortCall, mainVars
      <4> QED
        BY <4>1 DEF KernelReturns, IInv, TypeOK
    <3>3. mmap' = mmap
      BY <3>2 DEF args
    <3>4. CallHits => CallHits'
      BY <1>3, <2>1, ShortCallKeeps
    <3> QED
      BY <2>1, <3>1, <3>2, <3>3, <3>4
  <2>2. CASE mmap
    BY <1>3, <2>2 DEF ShortCall, IInv, TypeOK, ContextInv, Context, Mapped
  <2> QED
    BY <2>1, <2>2
<1> QED
  BY <1>1, <1>2, <1>3 DEF Next, Worker, QuietNext, Terminating

LEMMA CoverInit == Init => CoverInv
<1> SUFFICES ASSUME Init PROVE CoverInv
  OBVIOUS
<1>1. \A w \in Workers : Kernels(w) = 0 /\ step[w] = 0 /\ pc[w] = "off"
  BY DEF Init, Kernels
<1>2. \A b \in Blocks : hits[b] = 0
  BY DEF Init
<1>3. MappedHits
  <2> SUFFICES ASSUME NEW b \in Blocks PROVE hits[b] = Cardinality(Performed(b))
    BY DEF MappedHits
  <2>1. Performed(b) = {}
    BY <1>1, Sizes DEF Performed
  <2> QED
    BY <1>2, <2>1, FS_EmptySet
<1>4. CallHits
  <2>1. \A w \in Workers : \A n \in 0 .. Count - 1 :
          /\ hits[Start(w) + n] = 0 /\ Kernels(w) = 0 /\ ~(n < step[w] * PageBlocks)
    <3> SUFFICES ASSUME NEW w \in Workers, NEW n \in 0 .. Count - 1
                 PROVE  hits[Start(w) + n] = 0 /\ Kernels(w) = 0 /\ ~(n < step[w] * PageBlocks)
      OBVIOUS
    <3>1. Start(w) + n \in Blocks
      BY PlaceType
    <3>2. step[w] * PageBlocks = 0
      BY <1>1, Sizes
    <3> QED
      BY <1>1, <1>2, <3>1, <3>2, Sizes
  <2> QED
    BY <1>2, <2>1 DEF CallHits
<1> QED
  BY <1>1, <1>2, <1>3, <1>4 DEF CoverInv

\* When all kernels have run, every pair was performed.
LEMMA AllPerformed ==
  ASSUME NEW b \in Blocks, IInv, \A w \in Workers : Kernels(w) = Passes + 1
  PROVE  Performed(b) = (0 .. Passes) \X AccessesTo(b)
<1>1. Performed(b) \subseteq (0 .. Passes) \X AccessesTo(b)
  BY DEF Performed
<1>2. ASSUME NEW x \in (0 .. Passes) \X AccessesTo(b) PROVE x \in Performed(b)
  <2>1. x[2] \in Nat /\ x[2] < NumThreads * Count /\ x[1] < Passes + 1
    <3>1. x[2] \in 0 .. NumThreads * Count - 1 /\ NumThreads * Count \in Nat
      BY Sizes DEF AccessesTo
    <3> QED
      BY <3>1, Sizes
  <2>2. PICK w \in Workers, n \in 0 .. Count - 1 : x[2] = Start(w) + n
    BY <2>1, PlaceExists
  <2> QED
    BY <2>1, <2>2 DEF Performed
<1> QED
  BY <1>1, <1>2

(***************************************************************************)
(* A figure covers every access of a mapping once a pass, and of calls the *)
(* first page of every part, and nothing behind the parts.                 *)
(***************************************************************************)
THEOREM FiguresCoverTheParts == Spec => []FigureCoversTheParts
<1>1. IInv /\ CoverInv => FigureCoversTheParts
  <2> SUFFICES ASSUME IInv, CoverInv, mainpc = "done", NEW b \in Blocks
               PROVE  IF mmap
                      THEN /\ hits[b] = (Passes + 1) * Cardinality(AccessesTo(b))
                           /\ hits[b] > 0 => b < regionSize
                      ELSE /\ hits[b] <= Passes + 1
                           /\ b < NumThreads * Count /\ b % Count < PageBlocks
                                /\ (read => b - (b % PageBlocks) + PageBlocks <= regionSize)
                                => hits[b] = Passes + 1
                           /\ b >= NumThreads * Count => hits[b] = 0
    BY DEF FigureCoversTheParts
  <2>1. \A w \in Workers : pc[w] = "done" /\ pass[w] = Passes + 1 /\ step[w] = 0
    BY DEF IInv, JoinInv, PassInv, CoverInv
  <2>2. NoneFailed /\ \A w \in Workers : Kernels(w) = Passes + 1
    BY <2>1, Sizes DEF NoneFailed, Kernels
  <2>3. CASE mmap
    <3>1. hits[b] = Cardinality(Performed(b)) /\ (hits[b] > 0 => b < regionSize)
      BY <2>2, <2>3 DEF CoverInv, MappedHits
    <3>2. Performed(b) = (0 .. Passes) \X AccessesTo(b)
      BY <2>2, AllPerformed
    <3>3. Cardinality((0 .. Passes) \X AccessesTo(b)) = (Passes + 1) * Cardinality(AccessesTo(b))
      BY PerformedFinite
    <3> QED
      BY <2>3, <3>1, <3>2, <3>3
  <2>4. CASE ~mmap
    <3>1. CallHits
      BY <2>2, <2>4 DEF CoverInv
    <3>2. b \in Nat /\ NumThreads * Count \in Nat
      BY Sizes DEF Blocks
    <3>3. CASE b >= NumThreads * Count
      <4>1. hits[b] = 0
        BY <3>1, <3>3 DEF CallHits
      <4> QED
        BY <2>4, <3>2, <3>3, <4>1, Sizes
    <3>4. CASE b < NumThreads * Count
      <4>1. PICK w \in Workers, n \in 0 .. Count - 1 : b = Start(w) + n /\ b % Count = n
        BY <3>2, <3>4, PlaceExists
      <4>2. step[w] * PageBlocks = 0
        BY <2>1, Sizes
      <4>3. ~(n < step[w] * PageBlocks) /\ Kernels(w) = Passes + 1
        BY <2>2, <4>2, Sizes
      <4>4. /\ hits[b] <= Passes + 1
            /\ n < PageBlocks /\ (read => Start(w) + PageBlocks <= regionSize) => hits[b] = Passes + 1
        BY <3>1, <4>1, <4>3, Sizes DEF CallHits
      <4>5. n < PageBlocks => b - (b % PageBlocks) = Start(w)
        <5> SUFFICES ASSUME n < PageBlocks PROVE b - (b % PageBlocks) = Start(w)
          OBVIOUS
        <5>1. n \in 0 .. PageBlocks - 1
          BY Sizes
        <5> QED
          BY <4>1, <5>1, FirstPage
      <4> QED
        BY <2>4, <3>2, <3>4, <4>1, <4>4, <4>5
    <3> QED
      BY <3>2, <3>3, <3>4
  <2> QED
    BY <2>3, <2>4
<1>2. Init => CoverInv
  BY CoverInit
<1>3. IInv /\ CoverInv /\ [Next]_vars => CoverInv'
  BY CoverStep
<1> QED
  BY Invariant, <1>1, <1>2, <1>3, PTL DEF Spec

-----------------------------------------------------------------------------
(***************************************************************************)
(* What is left to do is counted in natural numbers.                       *)
(***************************************************************************)
CountedInv ==
  /\ StagesOfMain \in Nat /\ NumThreads - nth \in Nat
  /\ \A w \in Workers :
       /\ StagesLeft(w) \in Nat /\ Passes + 1 - pass[w] \in Nat /\ CallsLeft(w) \in Nat
       /\ AccessesLeft(w) \in Nat
       /\ IsFiniteSet(awaited[w]) /\ Cardinality(awaited[w]) \in Nat

LEMMA PagesFinite == IsFiniteSet(Pages)
<1> DEFINE top == NumThreads * Count + SpanBlocks - 1
<1>1. top \in Int /\ Blocks = 0 .. top
  BY Sizes DEF Blocks
<1> HIDE DEF top
<1>2. IsFiniteSet(Blocks)
  BY <1>1, FS_Interval
<1>3. ASSUME NEW b \in Blocks
      PROVE  PageOf(b) \in Blocks
  <2>1. b \in Nat /\ b <= top /\ PageBlocks \in Nat /\ PageBlocks > 0
    BY <1>1, Sizes
  <2>2. b \div PageBlocks \in Nat /\ b \div PageBlocks <= b
    BY <2>1
  <2> QED BY <1>1, <2>1, <2>2 DEF PageOf
<1>4. Pages \in SUBSET Blocks
  BY <1>3 DEF Pages
<1> QED BY <1>2, <1>4, FS_Subset

LEMMA Counted == IInv => CountedInv
<1> SUFFICES ASSUME IInv PROVE CountedInv
  OBVIOUS
<1> USE DEF IInv, TypeOK
<1>1. StagesOfMain \in Nat /\ NumThreads - nth \in Nat
  BY Sizes DEF StagesOfMain
<1>2. ASSUME NEW w \in Workers
      PROVE  /\ StagesLeft(w) \in Nat /\ Passes + 1 - pass[w] \in Nat /\ CallsLeft(w) \in Nat
             /\ AccessesLeft(w) \in Nat
             /\ IsFiniteSet(awaited[w]) /\ Cardinality(awaited[w]) \in Nat
  <2>1. StagesLeft(w) \in Nat /\ CallsLeft(w) \in Nat
    BY DEF StagesLeft, CallsLeft
  <2>2. Passes + 1 - pass[w] \in Nat
    BY Sizes
  <2>3. AccessesLeft(w) \in Nat
    <3>1. Steps(w) \in Nat /\ step[w] \in Nat
      BY StepsInPart, Sizes
    <3>2. pc[w] = "kernel" => step[w] < Steps(w)
      BY DEF PassInv
    <3> QED BY <3>1, <3>2 DEF AccessesLeft
  <2>4. awaited[w] \in SUBSET Pages
    OBVIOUS
  <2>5. IsFiniteSet(awaited[w]) /\ Cardinality(awaited[w]) \in Nat
    BY <2>4, PagesFinite, FS_Subset, FS_CardinalityType
  <2> QED BY <2>1, <2>2, <2>3, <2>5
<1> QED BY <1>1, <1>2 DEF CountedInv

LEMMA CountedNext == IInv' => CountedInv'
BY Counted, PTL

\* A worker is left as it is by a step that does not touch what is its own.
LEMMA LeftStays ==
  ASSUME NEW w \in Workers, pc'[w] = pc[w], pass'[w] = pass[w], step'[w] = step[w],
         ctx'[w] = ctx[w], awaited'[w] = awaited[w]
  PROVE  Left(w)' = Left(w)
<1>1. StagesLeft(w)' = StagesLeft(w) /\ CallsLeft(w)' = CallsLeft(w)
  BY DEF StagesLeft, CallsLeft
<1>2. AccessesLeft(w)' = AccessesLeft(w)
  BY DEF AccessesLeft, Steps, Mapped
<1> QED BY <1>1, <1>2 DEF Left

\* ... and has less to do when the first of its numbers to change becomes smaller.
LEMMA LeftDescends ==
  ASSUME IInv, IInv', NEW w \in Workers,
         \/ StagesLeft(w)' < StagesLeft(w)
         \/ /\ StagesLeft(w)' = StagesLeft(w) /\ pass[w] < pass'[w]
         \/ /\ StagesLeft(w)' = StagesLeft(w) /\ pass'[w] = pass[w]
            /\ CallsLeft(w)' < CallsLeft(w)
         \/ /\ StagesLeft(w)' = StagesLeft(w) /\ pass'[w] = pass[w]
            /\ CallsLeft(w)' = CallsLeft(w) /\ AccessesLeft(w)' < AccessesLeft(w)
         \/ /\ StagesLeft(w)' = StagesLeft(w) /\ pass'[w] = pass[w]
            /\ CallsLeft(w)' = CallsLeft(w) /\ AccessesLeft(w)' = AccessesLeft(w)
            /\ Cardinality(awaited'[w]) < Cardinality(awaited[w])
  PROVE  Descends(Left(w), Left(w)') /\ Left(w)' # Left(w)
<1> DEFINE a == StagesLeft(w)
           b == Passes + 1 - pass[w]
           c == CallsLeft(w)
           d == AccessesLeft(w)
           e == Cardinality(awaited[w])
<1>1. /\ a \in Nat /\ b \in Nat /\ c \in Nat /\ d \in Nat /\ e \in Nat
      /\ a' \in Nat /\ b' \in Nat /\ c' \in Nat /\ d' \in Nat /\ e' \in Nat
  BY Counted, CountedNext DEF CountedInv
<1>2. Left(w) = <<a, b, c, d, e>> /\ Left(w)' = <<a', b', c', d', e'>>
  BY DEF Left
<1>3. pass'[w] = pass[w] => b' = b
  OBVIOUS
<1>4. pass[w] < pass'[w] => b' < b
  BY <1>1, Sizes DEF IInv, TypeOK
<1>5. \/ a' < a
      \/ a' = a /\ b' < b
      \/ a' = a /\ b' = b /\ c' < c
      \/ a' = a /\ b' = b /\ c' = c /\ d' < d
      \/ a' = a /\ b' = b /\ c' = c /\ d' = d /\ e' < e
  BY <1>3, <1>4
<1> HIDE DEF a, b, c, d, e
<1>6. Descends(<<a, b, c, d, e>>, <<a', b', c', d', e'>>)
  BY <1>1, <1>5 DEF Descends
<1>7. <<a, b, c, d, e>> # <<a', b', c', d', e'>>
  BY <1>1, <1>5
<1> QED BY <1>2, <1>6, <1>7

LEMMA MainDescends ==
  ASSUME IInv, IInv',
         \/ StagesOfMain' < StagesOfMain
         \/ StagesOfMain' = StagesOfMain /\ nth' = nth + 1
  PROVE  Descends(LeftOfMain, LeftOfMain')
<1> DEFINE b == NumThreads - nth
<1>1. StagesOfMain \in Nat /\ b \in Nat /\ StagesOfMain' \in Nat /\ b' \in Nat
  BY Counted, CountedNext DEF CountedInv
<1>2. LeftOfMain = <<StagesOfMain, b>> /\ LeftOfMain' = <<StagesOfMain', b'>>
  BY DEF LeftOfMain
<1>3. nth' = nth + 1 => b' < b
  BY Sizes DEF IInv, TypeOK
<1> HIDE DEF b
<1>4. Descends(<<StagesOfMain, b>>, <<StagesOfMain', b'>>)
  BY <1>1, <1>3 DEF Descends
<1> QED BY <1>2, <1>4

\* A step of main() moves main() on, and wakes a worker at most.
LEMMA MainMovesOn ==
  ASSUME IInv, IInv', Main
  PROVE  /\ Descends(LeftOfMain, LeftOfMain')
         /\ \A w \in Workers : Left(w)' = Left(w) \/ Descends(Left(w), Left(w)')
<1> USE DEF IInv, TypeOK
<1>1. /\ nth \in Nat /\ NumThreads \in Nat /\ nth <= NumThreads
      /\ UNCHANGED <<pass, step, awaited>>
  BY Sizes DEF Main, Open, Truncate, Map, Create, StartJoin, Join, Report, cache
<1>2. CASE Create
  <2>1. nth' = nth + 1 /\ nth < NumThreads /\ mainpc = "create" /\ mainpc' = mainpc
    BY <1>2 DEF Create
  <2>2. Descends(LeftOfMain, LeftOfMain')
    BY <1>1, <2>1, MainDescends DEF StagesOfMain
  <2>3. ASSUME NEW w \in Workers, w # nth
        PROVE  Left(w)' = Left(w)
    BY <1>1, <1>2, <2>3, LeftStays DEF Create
  <2>4. ASSUME NEW w \in Workers, w = nth
        PROVE  Descends(Left(w), Left(w)')
    <3>1. pc[w] = "off" /\ pc'[w] = "ready"
      BY <1>1, <1>2, <2>1, <2>4 DEF Create, JoinInv, Workers
    <3>2. StagesLeft(w)' < StagesLeft(w)
      BY <3>1 DEF StagesLeft
    <3> QED BY <3>2, LeftDescends
  <2> QED BY <2>2, <2>3, <2>4
<1>3. CASE ~Create
  <2>1. pc' = pc /\ ctx' = ctx
    BY <1>3 DEF Main, Open, Truncate, Map, StartJoin, Join, Report
  <2>2. \A w \in Workers : Left(w)' = Left(w)
    BY <1>1, <2>1, LeftStays
  <2>3. Descends(LeftOfMain, LeftOfMain')
    <3>1. CASE Open
      BY <1>1, <3>1, MainDescends DEF StagesOfMain, Open
    <3>2. CASE Truncate
      BY <1>1, <3>2, MainDescends DEF StagesOfMain, Truncate
    <3>3. CASE Map
      BY <1>1, <3>3, MainDescends DEF StagesOfMain, Map
    <3>4. CASE StartJoin
      BY <1>1, <3>4, MainDescends DEF StagesOfMain, StartJoin
    <3>5. CASE Join
      BY <1>1, <3>5, MainDescends DEF StagesOfMain, Join
    <3>6. CASE Report
      BY <1>1, <3>6, MainDescends DEF StagesOfMain, Report
    <3> QED BY <1>3, <3>1, <3>2, <3>3, <3>4, <3>5, <3>6 DEF Main
  <2> QED BY <2>2, <2>3
<1> QED BY <1>2, <1>3

\* A worker's step leaves the others where they are.
LEMMA OthersStay ==
  ASSUME IInv, NEW u \in Workers, Worker(u), NEW w \in Workers, w # u
  PROVE  Left(w)' = Left(w)
<1>1. /\ pc'[w] = pc[w] /\ pass'[w] = pass[w] /\ step'[w] = step[w] /\ ctx'[w] = ctx[w]
      /\ awaited'[w] = awaited[w]
  BY DEF IInv, TypeOK, Worker, Enter, Access, ShortCall, KernelReturns, FailedCall, Killed,
         BeginSync, EndSync, Exit, mainVars, cache
<1> QED BY <1>1, LeftStays

\* A kernel call that returns moves its worker on.
LEMMA ReturnMovesOn ==
  ASSUME IInv, IInv', NEW u \in Workers, pc[u] = "kernel", KernelReturns(u)
  PROVE  Descends(Left(u), Left(u)') /\ Left(u)' # Left(u)
<1> USE DEF IInv, TypeOK
<1>1. CASE pass[u] = 0
  <2>1. pass'[u] = 1 /\ pc'[u] \in {"kernel", "done"}
    BY <1>1 DEF KernelReturns
  <2>2. StagesLeft(u)' < StagesLeft(u) \/ StagesLeft(u)' = StagesLeft(u)
    BY <2>1 DEF StagesLeft
  <2>3. pass[u] < pass'[u]
    BY <1>1, <2>1
  <2> QED BY <2>2, <2>3, LeftDescends
<1>2. CASE pass[u] # 0
  <2>1. pc'[u] = "sync" /\ pass' = pass
    BY <1>2 DEF KernelReturns
  <2>2. StagesLeft(u)' = StagesLeft(u) /\ CallsLeft(u)' < CallsLeft(u)
    BY <2>1 DEF StagesLeft, CallsLeft
  <2> QED BY <2>1, <2>2, LeftDescends
<1> QED BY <1>1, <1>2

\* A worker's step moves the worker on, or ends the process.
LEMMA WorkerMovesOn ==
  ASSUME IInv, IInv', NEW u \in Workers, Worker(u)
  PROVE  \/ /\ Descends(Left(u), Left(u)') /\ Left(u)' # Left(u)
            /\ LeftOfMain' = LeftOfMain
         \/ /\ Left(u)' = Left(u) /\ mainpc' = "dead"
            /\ Descends(LeftOfMain, LeftOfMain')
<1> USE DEF IInv, TypeOK
<1>1. CASE Killed(u) \/ Exit(u)
  <2>1. /\ mainpc # "dead" /\ mainpc' = "dead"
        /\ UNCHANGED <<nth, ctx, pc, pass, step, awaited>>
    BY <1>1 DEF Killed, Exit, Alive, cache
  <2>2. Left(u)' = Left(u)
    BY <2>1, LeftStays
  <2>3. StagesOfMain' < StagesOfMain
    BY <2>1 DEF StagesOfMain
  <2>4. Descends(LeftOfMain, LeftOfMain')
    BY <2>3, MainDescends
  <2> QED BY <2>1, <2>2, <2>4
<1>2. CASE ~(Killed(u) \/ Exit(u))
  <2>1. LeftOfMain' = LeftOfMain /\ UNCHANGED mainVars
    BY <1>2 DEF Worker, Enter, Access, ShortCall, FailedCall, BeginSync, EndSync, mainVars,
                LeftOfMain, StagesOfMain
  <2>2. Descends(Left(u), Left(u)') /\ Left(u)' # Left(u)
    <3>1. CASE Enter(u)
      <4>1. StagesLeft(u)' < StagesLeft(u)
        BY <3>1 DEF Enter, StagesLeft
      <4> QED BY <4>1, LeftDescends
    <3>2. CASE Access(u)
      <4>1. CASE step[u] + 1 < Steps(u)
        <5>1. pc' = pc /\ pass' = pass /\ step'[u] = step[u] + 1 /\ pc[u] = "kernel"
          BY <3>2, <4>1 DEF Access
        <5>2. Steps(u)' = Steps(u) /\ Steps(u) \in Nat /\ step[u] \in Nat
          BY <2>1, StepsInPart, Sizes DEF Steps, Mapped, mainVars
        <5>3. StagesLeft(u)' = StagesLeft(u) /\ CallsLeft(u)' = CallsLeft(u)
          BY <5>1 DEF StagesLeft, CallsLeft
        <5>4. AccessesLeft(u)' < AccessesLeft(u)
          BY <5>1, <5>2 DEF AccessesLeft
        <5> QED BY <5>1, <5>3, <5>4, LeftDescends
      <4>2. CASE ~(step[u] + 1 < Steps(u))
        BY <3>2, <4>2, ReturnMovesOn DEF Access
      <4> QED BY <4>1, <4>2
    <3>3. CASE ShortCall(u)
      BY <3>3, ReturnMovesOn DEF ShortCall
    <3>4. CASE FailedCall(u)
      <4>1. StagesLeft(u)' < StagesLeft(u)
        BY <3>4 DEF FailedCall, StagesLeft
      <4> QED BY <4>1, LeftDescends
    <3>5. CASE BeginSync(u)
      <4>1. StagesLeft(u)' = StagesLeft(u) /\ pass'[u] = pass[u] /\ CallsLeft(u)' < CallsLeft(u)
        BY <3>5 DEF BeginSync, StagesLeft, CallsLeft
      <4> QED BY <4>1, LeftDescends
    <3>6. CASE EndSync(u)
      <4>1. CASE error
        <5>1. StagesLeft(u)' < StagesLeft(u)
          BY <3>6, <4>1 DEF EndSync, StagesLeft
        <5> QED BY <5>1, LeftDescends
      <4>2. CASE ~error
        <5>1. pass[u] < pass'[u]
          BY <3>6, <4>2, Sizes DEF EndSync
        <5>2. StagesLeft(u)' < StagesLeft(u) \/ StagesLeft(u)' = StagesLeft(u)
          BY <3>6, <4>2 DEF EndSync, StagesLeft
        <5> QED BY <5>1, <5>2, LeftDescends
      <4> QED BY <4>1, <4>2
    <3> QED BY <1>2, <3>1, <3>2, <3>3, <3>4, <3>5, <3>6 DEF Worker
  <2> QED BY <2>1, <2>2
<1> QED BY <1>1, <1>2

\* A write-back moves on the syncs that wait for it, and nobody else.
LEMMA WriteBackMovesOn ==
  ASSUME IInv, IInv', NEW p \in Pages, WriteBack(p), NEW w \in Workers
  PROVE  /\ LeftOfMain' = LeftOfMain
         /\ p \notin awaited[w] => Left(w)' = Left(w)
         /\ p \in awaited[w] => Descends(Left(w), Left(w)') /\ Left(w)' # Left(w)
<1> USE DEF IInv, TypeOK
<1>1. UNCHANGED <<pc, pass, step, ctx, mainpc, nth>> /\ awaited'[w] = awaited[w] \ {p}
  BY DEF WriteBack, mainVars
<1>2. LeftOfMain' = LeftOfMain
  BY <1>1 DEF LeftOfMain, StagesOfMain
<1>3. CASE p \notin awaited[w]
  <2>1. awaited'[w] = awaited[w]
    BY <1>1, <1>3
  <2> QED BY <1>1, <1>2, <1>3, <2>1, LeftStays
<1>4. CASE p \in awaited[w]
  <2>1. Cardinality(awaited'[w]) < Cardinality(awaited[w])
    <3>1. IsFiniteSet(awaited[w]) /\ Cardinality(awaited[w]) \in Nat
      BY Counted DEF CountedInv
    <3>2. Cardinality(awaited[w] \ {p}) = Cardinality(awaited[w]) - 1
      BY <1>4, <3>1, FS_RemoveElement
    <3> QED BY <1>1, <3>1, <3>2
  <2>2. /\ StagesLeft(w)' = StagesLeft(w) /\ CallsLeft(w)' = CallsLeft(w)
        /\ AccessesLeft(w)' = AccessesLeft(w)
    BY <1>1 DEF StagesLeft, CallsLeft, AccessesLeft, Steps, Mapped
  <2>3. pass'[w] = pass[w]
    BY <1>1
  <2>4. Descends(Left(w), Left(w)') /\ Left(w)' # Left(w)
    BY <2>1, <2>2, <2>3, LeftDescends
  <2> QED BY <1>2, <1>4, <2>4
<1> QED BY <1>3, <1>4

(***************************************************************************)
(* Whatever the number of workers, passes and pages: nobody goes round in  *)
(* a circle, so each worker, main() and each sync comes to a rest after    *)
(* finitely many steps (LoopsComeToRest).                                  *)
(***************************************************************************)
THEOREM WorkersOnlyMoveOn == Spec => EveryStepMovesOn
<1> DEFINE Moves ==
      /\ LeftOfMain \in [1 .. 2 -> Nat]
      /\ Main \/ LeftOfMain' # LeftOfMain => Descends(LeftOfMain, LeftOfMain')
      /\ \A w \in Workers :
           /\ Left(w) \in [1 .. 5 -> Nat]
           /\ Worker(w) => Left(w)' # Left(w) \/ mainpc' = "dead"
           /\ (\E p \in awaited[w] : WriteBack(p)) => Left(w)' # Left(w)
           /\ Left(w)' # Left(w) => Descends(Left(w), Left(w)')
<1>1. IInv /\ IInv' /\ [Next]_vars => [Moves]_vars
  <2> SUFFICES ASSUME IInv, IInv', [Next]_vars, vars' # vars PROVE Moves
    OBVIOUS
  <2>1. LeftOfMain \in [1 .. 2 -> Nat]
    BY Counted, CountersOf DEF CountedInv, LeftOfMain
  <2>2. \A w \in Workers : Left(w) \in [1 .. 5 -> Nat]
    BY Counted, CountersOf DEF CountedInv, Left
  <2>3. Main \/ LeftOfMain' # LeftOfMain => Descends(LeftOfMain, LeftOfMain')
    <3>1. NumThreads \in 1 .. 48 /\ 0 \in Workers
      BY SsdAssumption DEF Workers
    <3> QED BY <3>1, MainMovesOn, WorkerMovesOn, WriteBackMovesOn DEF Next, Terminating
  <2>4. ASSUME NEW w \in Workers
        PROVE  /\ Worker(w) => Left(w)' # Left(w) \/ mainpc' = "dead"
               /\ (\E p \in awaited[w] : WriteBack(p)) => Left(w)' # Left(w)
               /\ Left(w)' # Left(w) => Descends(Left(w), Left(w)')
    <3>1. Worker(w) => Left(w)' # Left(w) \/ mainpc' = "dead"
      BY WorkerMovesOn
    <3>2. (\E p \in awaited[w] : WriteBack(p)) => Left(w)' # Left(w)
      <4>1. awaited[w] \subseteq Pages
        BY DEF IInv, TypeOK
      <4> QED BY <4>1, WriteBackMovesOn
    <3>3. ASSUME Left(w)' # Left(w)
          PROVE  Descends(Left(w), Left(w)')
      <4>1. CASE Main
        BY <3>3, <4>1, MainMovesOn
      <4>2. CASE \E u \in Workers : Worker(u)
        BY <3>3, <4>2, WorkerMovesOn, OthersStay
      <4>3. CASE \E p \in Pages : WriteBack(p)
        BY <3>3, <4>3, WriteBackMovesOn
      <4> QED BY <4>1, <4>2, <4>3 DEF Next, Terminating
    <3> QED BY <3>1, <3>2, <3>3
  <2> QED BY <2>1, <2>2, <2>3, <2>4
<1>2. Spec => [][Moves]_vars
  BY Invariant, <1>1, PTL DEF Spec
<1> QED BY <1>2 DEF EveryStepMovesOn

(***************************************************************************)
(* Whatever the sizes: a sync waits only for pages that the operating      *)
(* system still has to write, and main() only for workers that exist.      *)
(***************************************************************************)
THEOREM NoSyncWaitsInVain == Spec => []NobodyWaitsInVain
<1> DEFINE OnList == \A w \in Workers : awaited[w] \subseteq dirty
           Exist == /\ mainpc = "create" => \A w \in Workers : w < nth => pc[w] # "off"
                    /\ mainpc = "join" => \A w \in Workers : pc[w] # "off"
<1>1. Init => OnList /\ Exist
  BY DEF Init
<1>2. IInv /\ OnList /\ [Next]_vars => OnList'
  <2> SUFFICES ASSUME IInv, OnList, [Next]_vars, NEW w \in Workers
               PROVE  awaited'[w] \subseteq dirty'
    OBVIOUS
  <2> USE DEF IInv, TypeOK
  <2>1. CASE Main
    BY <2>1 DEF Main, Open, Truncate, Map, Create, StartJoin, Join, Report, cache
  <2>2. ASSUME NEW u \in Workers, Worker(u)
        PROVE  awaited'[w] \subseteq dirty'
    <3>1. CASE BeginSync(u)
      BY <3>1 DEF BeginSync
    <3>2. CASE ~BeginSync(u)
      <4>1. awaited' = awaited /\ dirty \subseteq dirty'
        BY <2>2, <3>2 DEF Worker, Enter, Access, ShortCall, FailedCall, Killed, EndSync, Exit, cache
      <4> QED BY <4>1
    <3> QED BY <3>1, <3>2
  <2>3. CASE \E p \in Pages : WriteBack(p)
    BY <2>3 DEF WriteBack
  <2>4. CASE UNCHANGED vars
    BY <2>4 DEF vars, cache
  <2> QED BY <2>1, <2>2, <2>3, <2>4 DEF Next, Terminating
<1>3. IInv /\ Exist /\ [Next]_vars => Exist'
  <2> SUFFICES ASSUME IInv, Exist, [Next]_vars PROVE Exist'
    OBVIOUS
  <2> USE DEF IInv, TypeOK
  <2>1. CASE Create
    <3>1. /\ mainpc = "create" /\ mainpc' = "create" /\ nth \in Nat /\ nth' = nth + 1
          /\ pc' = [pc EXCEPT ![nth] = "ready"]
      BY <2>1, Sizes DEF Create
    <3>2. ASSUME NEW w \in Workers, w < nth + 1
          PROVE  pc'[w] # "off"
      BY <3>1, <3>2 DEF Workers
    <3> QED BY <3>1, <3>2
  <2>2. CASE StartJoin
    <3>1. \A w \in Workers : w < NumThreads
      BY Sizes DEF Workers
    <3> QED BY <2>2, <3>1 DEF StartJoin
  <2>3. CASE Open \/ Truncate \/ Map \/ Join \/ Report
    <3>1. mainpc' = "create" => nth' = 0
      BY <2>3 DEF Open, Truncate, Map, Join, Report, JoinInv
    <3>2. mainpc' = "join" => mainpc = "join" /\ pc' = pc
      BY <2>3 DEF Open, Truncate, Map, Join, Report
    <3>3. \A w \in Workers : ~(w < 0)
      BY DEF Workers
    <3> QED BY <3>1, <3>2, <3>3
  <2>4. ASSUME NEW u \in Workers, Worker(u)
        PROVE  Exist'
    <3>1. nth' = nth /\ (mainpc' = mainpc \/ mainpc' = "dead")
      BY <2>4 DEF Worker, Enter, Access, ShortCall, FailedCall, Killed, BeginSync, EndSync,
                  Exit, mainVars
    <3>2. \A w \in Workers : pc[w] # "off" => pc'[w] # "off"
      BY <2>4 DEF Worker, Enter, Access, ShortCall, KernelReturns, FailedCall, Killed,
                  BeginSync, EndSync, Exit
    <3> QED BY <3>1, <3>2
  <2>5. CASE (\E p \in Pages : WriteBack(p)) \/ UNCHANGED vars
    BY <2>5 DEF WriteBack, vars, mainVars
  <2> QED BY <2>1, <2>2, <2>3, <2>4, <2>5 DEF Next, Main, Terminating
<1>4. OnList /\ Exist => NobodyWaitsInVain
  BY DEF NobodyWaitsInVain
<1> QED BY Invariant, <1>1, <1>2, <1>3, <1>4, PTL DEF Spec

=============================================================================
