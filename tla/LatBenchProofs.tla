--------------------------- MODULE LatBenchProofs ---------------------------
(***************************************************************************)
(* What lies between the two clock readings of a latency operation, for    *)
(* every table of operations, workset, mask and number of operations.      *)
(* The inductive invariant follows the write-backs under way through the   *)
(* fences: none at the first reading, only the operation's own after it,   *)
(* and every line written so far that is not in memory among them.         *)
(***************************************************************************)
EXTENDS LatBench, LoopOrderProofs, TLAPS

Reads == fn.access = "load"
Returns == fn.back # "none" \/ fn.access = "nstore"

\* The loop counter, and the base line it allows.
BaseInv ==
  /\ pc \in {"create", "warmup"} => j = 0
  /\ pc \in {"addr"} \/ InOperation => j < OpsCount
  /\ InOperation => base >= 0 /\ base + PreludeLines <= Workset

\* The lines done so far.
CountInv ==
  /\ pc \in {"access", "back"} => k < fn.lines
  /\ pc \in {"fence", "sample"} => k >= fn.lines
  /\ pc = "back" => fn.back # "none"
  /\ pc = "settle" => fn.prelude # "fence"

\* Write-backs are under way only between a prelude or access and its fence.
GoingInv ==
  /\ pc \notin {"settle", "access", "back", "fence"} => going = {}
  /\ pc \in {"access", "fence"} => \A l \in going : base <= l /\ l < base + k
  /\ pc = "back" => \A l \in going : base <= l /\ l <= base + k

\* The lines of the operation that were written and are not in memory yet.
WrittenInv ==
  /\ pc \in {"access", "back", "fence"} /\ Returns =>
       \A l \in dirty : base <= l /\ l < base + k => l \in going
  /\ pc = "sample" /\ Returns => \A l \in dirty : ~(base <= l /\ l < base + k)

\* A flushed operation finds the lines it has not accessed yet out of the cache.
ColdInv ==
  fn.prelude = "flush" =>
    /\ pc \in {"settle", "beg"} => Prelude \cap cached = {}
    /\ pc \in {"access", "back"} =>
         \A l \in Prelude : l \in cached => l <= base + k /\ (pc = "access" => l < base + k)

IInv == TypeOK /\ BaseInv /\ CountInv /\ GoingInv /\ WrittenInv /\ ColdInv

\* An entry of the table is an operation.
LEMMA FnType == ASSUME TypeOK PROVE fn \in OpType
BY LatAssumption DEF TypeOK, fn

\* The masked character moves the base by less than the mask, never backwards.
LEMMA OffsetRange ==
  ASSUME NEW x \in LocLines PROVE Offset(x) \in 0 .. MaskLines - 1
<1>1. x \in Int /\ MaskLines \in Nat /\ MaskLines >= 1
  BY LatAssumption
<1> QED BY <1>1 DEF Offset

LEMMA InitIInv == Init => IInv
BY LatAssumption DEF Init, IInv, TypeOK, BaseInv, CountInv, GoingInv, WrittenInv,
   ColdInv, InOperation, Lines, PreludeLines

LEMMA BeginKeeps == IInv /\ Begin => IInv'
<1> SUFFICES ASSUME IInv, Begin PROVE IInv'
  OBVIOUS
<1>1. PICK x \in LocLines : base' = j + Offset(x)
  BY DEF Begin
<1>2. Offset(x) \in Int /\ 0 <= Offset(x) /\ Offset(x) <= MaskLines - 1
  BY OffsetRange, LatAssumption
<1>3. j \in Nat /\ j < OpsCount /\ pc = "addr" /\ going = {}
  BY LatAssumption DEF IInv, TypeOK, BaseInv, GoingInv, Begin
<1>4. base' \in Int /\ base' >= 0 /\ base' + PreludeLines <= Workset
  BY <1>1, <1>2, <1>3, LatAssumption DEF PreludeLines
<1>5. /\ pc' \in {"beg", "prelude"} /\ going' = {} /\ dirty' = dirty
      /\ pc' = "beg" => fn.prelude = "none"
      /\ UNCHANGED <<asked, bench_func, op, j, k, cached, rbuf, fn>>
  BY <1>3 DEF Begin, Drained, fn
<1>6. TypeOK'
  BY <1>4, <1>5 DEF IInv, TypeOK
<1>7. BaseInv'
  BY <1>3, <1>4, <1>5 DEF BaseInv, InOperation
<1>8. CountInv' /\ GoingInv' /\ WrittenInv' /\ ColdInv'
  BY <1>5 DEF CountInv, GoingInv, WrittenInv, ColdInv, Returns
<1> QED BY <1>6, <1>7, <1>8 DEF IInv

LEMMA PrepareKeeps == IInv /\ Prepare => IInv'
<1> SUFFICES ASSUME IInv, Prepare PROVE IInv'
  OBVIOUS
<1>1. /\ pc = "prelude" /\ pc' = IF fn.prelude = "fence" THEN "beg" ELSE "settle"
      /\ UNCHANGED <<asked, bench_func, op, j, base, k, dirty, rbuf, fn, Prelude>>
      /\ Prelude \subseteq Lines
  BY DEF Prepare, fn, Prelude, Flushed
<1>2. /\ fn.prelude = "flush" => cached' = cached \ Prelude
      /\ fn.prelude = "load" => cached' = cached \cup Prelude
      /\ fn.prelude \notin {"load", "flush"} => cached' = cached
      /\ going' = IF fn.prelude = "flush" THEN going \cup (Prelude \cap dirty) ELSE going
  BY DEF Prepare, Flushed
<1>3. TypeOK' /\ BaseInv' /\ CountInv'
  BY <1>1, <1>2 DEF IInv, TypeOK, BaseInv, CountInv, InOperation
<1>4. GoingInv' /\ WrittenInv'
  BY <1>1, <1>2 DEF IInv, GoingInv, WrittenInv
<1>5. ColdInv'
  BY <1>1, <1>2 DEF ColdInv
<1> QED BY <1>3, <1>4, <1>5 DEF IInv

LEMMA AccessKeeps == IInv /\ Access => IInv'
<1> SUFFICES ASSUME IInv, Access PROVE IInv'
  OBVIOUS
<1>1. /\ pc = "access" /\ k < fn.lines /\ k \in Nat /\ base \in Int /\ base >= 0
      /\ fn.lines \in Nat /\ fn.lines <= PreludeLines /\ PreludeLines \in Nat
      /\ base + PreludeLines <= Workset /\ Workset \in Nat
      /\ UNCHANGED <<asked, bench_func, op, j, base, rbuf, fn, Prelude>>
  BY FnType, LatAssumption DEF IInv, TypeOK, BaseInv, CountInv, InOperation, Access, OpType,
     PreludeLines, fn, Prelude
<1>2. /\ fn.back = "none" => k' = k + 1 /\ pc' = NextAccess(k + 1)
      /\ fn.back # "none" => k' = k /\ pc' = "back"
  BY DEF Access
<1>3. NextAccess(k + 1) = IF k + 1 < fn.lines THEN "access" ELSE "fence"
  BY DEF NextAccess
<1>4. Line \in Lines /\ Line = base + k
  BY <1>1 DEF Line, Lines
<1>5. /\ cached' \subseteq Lines /\ dirty' \subseteq Lines /\ going' \subseteq Lines
      /\ \A l \in cached' : l \in cached \/ l = base + k
      /\ \A l \in going' : l \in going \/ l = base + k
      /\ \A l \in dirty' : l \in dirty \/ l = base + k
      /\ \A l \in going : l \in going' \/ l = base + k
      /\ fn.access = "nstore" => base + k \in going'
  BY <1>4 DEF Access, LoadLine, StoreLine, NtStoreLine, IInv, TypeOK
<1>6. TypeOK'
  BY <1>1, <1>2, <1>3, <1>5 DEF IInv, TypeOK, PreludeLines
<1>7. BaseInv' /\ CountInv'
  BY <1>1, <1>2, <1>3 DEF IInv, BaseInv, CountInv, InOperation
<1>8. GoingInv'
  BY <1>1, <1>2, <1>3, <1>5 DEF IInv, TypeOK, GoingInv, Lines
<1>9. WrittenInv'
  <2>1. CASE fn.back = "none"
    BY <1>1, <1>2, <1>3, <1>5, <2>1 DEF IInv, TypeOK, WrittenInv, Returns, Lines
  <2>2. CASE fn.back # "none"
    BY <1>1, <1>2, <1>5, <2>2 DEF IInv, TypeOK, WrittenInv, Returns, Lines
  <2> QED BY <2>1, <2>2
<1>10. ColdInv'
  <2>1. \A l \in Prelude : l \in Int
    BY DEF Prelude, Lines
  <2> QED BY <1>1, <1>2, <1>3, <1>5, <2>1 DEF IInv, ColdInv
<1> QED BY <1>6, <1>7, <1>8, <1>9, <1>10 DEF IInv

LEMMA BackKeeps == IInv /\ Back => IInv'
<1> SUFFICES ASSUME IInv, Back PROVE IInv'
  OBVIOUS
<1>1. /\ pc = "back" /\ k < fn.lines /\ k \in Nat /\ base \in Int /\ base >= 0
      /\ fn.lines \in Nat /\ fn.lines <= PreludeLines /\ PreludeLines \in Nat
      /\ k' = k + 1 /\ pc' = IF k + 1 < fn.lines THEN "access" ELSE "fence"
      /\ UNCHANGED <<asked, bench_func, op, j, base, dirty, rbuf, fn, Prelude>>
  BY FnType DEF IInv, TypeOK, BaseInv, CountInv, InOperation, Back, OpType, NextAccess,
     PreludeLines, fn, Prelude
<1>2. /\ cached' \subseteq cached
      /\ going' = going \cup ({base + k} \cap dirty)
  BY DEF Back, BackLine, Line
<1>3. TypeOK' /\ BaseInv' /\ CountInv'
  BY <1>1, <1>2 DEF IInv, TypeOK, BaseInv, CountInv, InOperation, PreludeLines
<1>4. GoingInv'
  BY <1>1, <1>2 DEF IInv, TypeOK, GoingInv, Lines
<1>5. WrittenInv'
  BY <1>1, <1>2 DEF IInv, TypeOK, WrittenInv, Returns, Lines
<1>6. ColdInv'
  <2>1. \A l \in Prelude : l \in Int
    BY DEF Prelude, Lines
  <2> QED BY <1>1, <1>2, <2>1 DEF IInv, ColdInv
<1> QED BY <1>3, <1>4, <1>5, <1>6 DEF IInv

LEMMA HardwareKeeps ==
  ASSUME IInv, NEW l \in Lines, Evict(l) \/ Complete(l)
  PROVE  IInv'
<1>1. /\ UNCHANGED <<asked, bench_func, op, pc, j, base, k, rbuf, fn, Prelude>>
      /\ cached' \subseteq cached /\ dirty' \subseteq dirty /\ going' \subseteq going
      /\ \A m \in going : m \notin going' => m \notin dirty'
  BY DEF Evict, Complete, fn, Prelude
<1> QED BY <1>1 DEF IInv, TypeOK, BaseInv, CountInv, GoingInv, WrittenInv, ColdInv,
           InOperation, Returns

LEMMA NextIInv == IInv /\ [Next]_vars => IInv'
<1> SUFFICES ASSUME IInv, [Next]_vars PROVE IInv'
  OBVIOUS
<1> USE LatAssumption
<1>1. CASE Create
  BY <1>1 DEF Create, OpNumber, mem, IInv, TypeOK, BaseInv, CountInv, GoingInv, WrittenInv,
     ColdInv, InOperation
<1>2. CASE WarmUp
  BY <1>2 DEF WarmUp, IInv, TypeOK, BaseInv, CountInv, GoingInv, WrittenInv, ColdInv,
     InOperation
<1>3. CASE Settle
  <2>1. /\ pc = "settle" /\ pc' = "beg" /\ dirty' = dirty \ going /\ going' = {}
        /\ UNCHANGED <<asked, bench_func, op, j, base, k, cached, rbuf, fn, Prelude>>
    BY <1>3 DEF Settle, SettleFence, Drained, fn, Prelude
  <2> QED BY <2>1 DEF IInv, TypeOK, BaseInv, CountInv, GoingInv, WrittenInv, ColdInv,
             InOperation
<1>4. CASE TimingBeg
  <2>1. /\ pc = "beg" /\ k' = 0 /\ pc' = IF 0 < fn.lines THEN "access" ELSE "fence"
        /\ UNCHANGED <<asked, bench_func, op, j, base, cached, dirty, going, rbuf, fn, Prelude>>
        /\ fn.lines \in Nat /\ base \in Int
    BY <1>4, FnType DEF TimingBeg, NextAccess, mem, fn, Prelude, IInv, TypeOK, OpType
  <2>2. TypeOK' /\ BaseInv' /\ CountInv' /\ GoingInv'
    BY <2>1 DEF IInv, TypeOK, BaseInv, CountInv, GoingInv, InOperation, PreludeLines
  <2>3. WrittenInv'
    BY <2>1 DEF IInv, TypeOK, WrittenInv, Lines
  <2>4. ColdInv'
    BY <2>1 DEF IInv, ColdInv
  <2> QED BY <2>2, <2>3, <2>4 DEF IInv
<1>5. CASE TimingEnd
  <2>1. /\ pc = "fence" /\ pc' = "sample" /\ dirty' = dirty \ going /\ going' = {}
        /\ UNCHANGED <<asked, bench_func, op, j, base, k, cached, rbuf, fn, Prelude>>
    BY <1>5 DEF TimingEnd, Drained, fn, Prelude
  <2> QED BY <2>1 DEF IInv, TypeOK, BaseInv, CountInv, GoingInv, WrittenInv, ColdInv,
             InOperation, Returns
<1>6. CASE Sample
  <2>1. j \in 0 .. OpsCount - 1
    BY <1>6 DEF Sample, IInv, TypeOK, BaseInv, InOperation
  <2>2. /\ pc = "sample" /\ j' = j + 1
        /\ pc' = IF j + 1 < OpsCount THEN "addr" ELSE "report"
        /\ UNCHANGED <<asked, bench_func, op, base, k, cached, dirty, going>>
        /\ rbuf' \in [0 .. OpsCount - 1 -> Nat]
    BY <1>6, <2>1 DEF Sample, Following, MoreOps, mem, IInv, TypeOK
  <2> QED BY <2>1, <2>2 DEF IInv, TypeOK, BaseInv, CountInv, GoingInv, WrittenInv, ColdInv,
             InOperation
<1>7. CASE Report
  BY <1>7 DEF Report, mem, IInv, TypeOK, BaseInv, CountInv, GoingInv, WrittenInv,
     ColdInv, InOperation
<1>8. CASE UNCHANGED vars
  <2>1. UNCHANGED <<asked, bench_func, op, pc, j, base, k, cached, dirty, going, rbuf, fn, Prelude>>
    BY <1>8 DEF vars, mem, fn, Prelude
  <2> QED BY <2>1 DEF IInv, TypeOK, BaseInv, CountInv, GoingInv, WrittenInv, ColdInv,
             InOperation, Returns
<1> QED BY <1>1, <1>2, <1>3, <1>4, <1>5, <1>6, <1>7, <1>8, BeginKeeps, PrepareKeeps,
           AccessKeeps, BackKeeps, HardwareKeeps DEF Next, Thread, Joined

THEOREM Invariant == Spec => []IInv
BY InitIInv, NextIInv, PTL DEF Spec

\* Every variable keeps its type.
THEOREM TypeCorrect == Spec => []TypeOK
BY Invariant, PTL DEF IInv

\* No operation reaches out of its workset, whatever characters getrandom returns.
THEOREM StaysInWorkset == Spec => []AccessStaysInWorkset
<1>1. IInv => AccessStaysInWorkset
  BY DEF IInv, BaseInv, AccessStaysInWorkset
<1> QED BY <1>1, Invariant, PTL

\* Only the write-backs of the operation itself are waited for while it is timed.
THEOREM TimesItsOwnWork == Spec => []OnlyOwnWorkIsTimed
<1>1. IInv => OnlyOwnWorkIsTimed
  <2> SUFFICES ASSUME IInv, Timed, NEW l \in going PROVE base <= l /\ l <= base + k
    BY DEF OnlyOwnWorkIsTimed
  <2>1. base \in Int /\ k \in Nat /\ l \in Int
    BY DEF IInv, TypeOK, Lines
  <2> QED BY <2>1 DEF IInv, GoingInv, Timed
<1> QED BY <1>1, Invariant, PTL

\* What a returning operation wrote is in memory at its second clock reading.
THEOREM TimedWritesReachMemory == Spec => []TimedWritesAreDurable
<1>1. IInv => TimedWritesAreDurable
  <2> SUFFICES ASSUME IInv, pc = "sample", Returns, NEW l \in From(0), l \in dirty
               PROVE  FALSE
    BY DEF TimedWritesAreDurable, Returns
  <2>1. base \in Int /\ k \in Nat /\ l \in Int /\ fn.lines \in Nat
    BY FnType DEF IInv, TypeOK, Lines, OpType, From
  <2> QED BY <2>1 DEF IInv, WrittenInv, CountInv, From
<1> QED BY <1>1, Invariant, PTL

\* A flushed operation accesses lines that are not in the cache.
THEOREM TimesColdAccesses == Spec => []TimedAccessesAreCold
<1>1. IInv => TimedAccessesAreCold
  <2> SUFFICES ASSUME IInv, pc \in {"beg", "access"}, fn.prelude = "flush",
                      NEW l \in From(IF pc = "beg" THEN 0 ELSE k), l \in cached
               PROVE  FALSE
    BY DEF TimedAccessesAreCold
  <2>1. /\ base \in Int /\ k \in Nat /\ l \in Lines /\ l \in Int /\ fn.lines \in Nat
        /\ fn.lines <= PreludeLines
    BY FnType DEF IInv, TypeOK, Lines, OpType, From, PreludeLines
  <2>2. base <= l /\ l < base + fn.lines /\ (pc = "access" => base + k <= l)
    BY <2>1 DEF From
  <2>3. l \in Prelude
    BY <2>1, <2>2 DEF Prelude, PreludeLines
  <2> QED BY <2>1, <2>2, <2>3 DEF IInv, ColdInv
<1> QED BY <1>1, Invariant, PTL

-----------------------------------------------------------------------------
\* What is left is counted in natural numbers.
CountedInv ==
  /\ StagesLeft \in Nat /\ OpsCount - j \in Nat /\ PlacesLeft \in Nat /\ LinesLeft \in Nat
  /\ Left \in [1 .. 5 -> Nat]

LEMMA Counted == IInv => CountedInv
<1> SUFFICES ASSUME IInv PROVE CountedInv
  OBVIOUS
<1>1. StagesLeft \in Nat /\ PlacesLeft \in Nat
  BY DEF StagesLeft, PlacesLeft
<1>2. OpsCount - j \in Nat
  BY LatAssumption DEF IInv, TypeOK
<1>3. LinesLeft \in Nat
  <2>1. k \in Nat /\ fn.lines \in Nat /\ (pc \in {"access", "back"} => k < fn.lines)
    BY FnType DEF IInv, TypeOK, CountInv, OpType
  <2> QED BY <2>1 DEF LinesLeft
<1>4. (IF pc = "access" THEN 1 ELSE 0) \in Nat
  OBVIOUS
<1> QED BY <1>1, <1>2, <1>3, <1>4, CountersOf DEF CountedInv, Left

LEMMA CountedNext == IInv' => CountedInv'
BY Counted, PTL

\* The first number to change falls.
LEMMA LeftFalls ==
  ASSUME IInv, IInv',
         \/ StagesLeft' < StagesLeft
         \/ StagesLeft' = StagesLeft /\ j' = j + 1
         \/ StagesLeft' = StagesLeft /\ j' = j /\ PlacesLeft' < PlacesLeft
         \/ StagesLeft' = StagesLeft /\ j' = j /\ PlacesLeft' = PlacesLeft
              /\ LinesLeft' < LinesLeft
         \/ StagesLeft' = StagesLeft /\ j' = j /\ PlacesLeft' = PlacesLeft
              /\ LinesLeft' = LinesLeft /\ pc = "access" /\ pc' # "access"
  PROVE  Descends(Left, Left')
<1> DEFINE a == StagesLeft
           b == OpsCount - j
           c == PlacesLeft
           d == LinesLeft
           e == IF pc = "access" THEN 1 ELSE 0
<1>1. /\ a \in Nat /\ b \in Nat /\ c \in Nat /\ d \in Nat /\ e \in Nat
      /\ a' \in Nat /\ b' \in Nat /\ c' \in Nat /\ d' \in Nat /\ e' \in Nat
  BY Counted, CountedNext DEF CountedInv
<1>2. Left = <<a, b, c, d, e>> /\ Left' = <<a', b', c', d', e'>>
  BY DEF Left
<1>3. j' = j + 1 => b' = b - 1
  BY LatAssumption DEF IInv, TypeOK
<1>4. j' = j => b' = b
  OBVIOUS
<1>5. pc = "access" /\ pc' # "access" => e' < e
  OBVIOUS
<1>6. /\ StagesLeft = a /\ StagesLeft' = a' /\ PlacesLeft = c /\ PlacesLeft' = c'
      /\ LinesLeft = d /\ LinesLeft' = d'
  OBVIOUS
<1>7. \/ a' < a
      \/ a' = a /\ b' = b - 1
      \/ a' = a /\ b' = b /\ c' < c
      \/ a' = a /\ b' = b /\ c' = c /\ d' < d
      \/ a' = a /\ b' = b /\ c' = c /\ d' = d /\ e' < e
  <2> HIDE DEF a, b, c, d, e
  <2> QED BY <1>3, <1>4, <1>5, <1>6
<1> HIDE DEF a, b, c, d, e
<1>8. Descends(<<a, b, c, d, e>>, <<a', b', c', d', e'>>)
  BY <1>1, <1>7 DEF Descends
<1> QED BY <1>2, <1>8

\* Inside an operation only the place, the lines and the access are counted.
LEMMA InsideMovesOn ==
  ASSUME IInv, IInv',
         Begin \/ Prepare \/ Settle \/ TimingBeg \/ Access \/ Back \/ TimingEnd
  PROVE  Descends(Left, Left')
<1>1. /\ k \in Nat /\ fn.lines \in Nat /\ fn' = fn /\ j' = j
      /\ pc \in {"access", "back"} => k < fn.lines
      /\ pc' \in {"access", "back"} => k' < fn.lines
  <2>1. fn' = fn /\ j' = j
    BY DEF fn, Begin, Prepare, Settle, TimingBeg, Access, Back, TimingEnd
  <2> QED BY <2>1, FnType DEF IInv, TypeOK, CountInv, OpType
<1>2. StagesLeft = 2 /\ StagesLeft' = 2
  BY DEF StagesLeft, Begin, Prepare, Settle, TimingBeg, Access, Back, TimingEnd, NextAccess
<1>3. CASE Begin \/ Prepare \/ Settle \/ TimingBeg \/ TimingEnd
  <2>1. PlacesLeft' < PlacesLeft
    BY <1>3 DEF PlacesLeft, Begin, Prepare, Settle, TimingBeg, TimingEnd, NextAccess
  <2> QED BY <1>1, <1>2, <2>1, LeftFalls
<1>4. CASE Access \/ Back
  <2>1. PlacesLeft = 3 /\ PlacesLeft' \in {3, 2}
    BY <1>4 DEF PlacesLeft, Access, Back, NextAccess
  <2>2. CASE pc' = "fence"
    BY <1>1, <1>2, <2>1, <2>2, LeftFalls DEF PlacesLeft
  <2>3. CASE pc' = "back"
    <3>1. pc = "access" /\ k' = k
      BY <1>4, <2>3 DEF Access, Back, NextAccess
    <3>2. LinesLeft' = LinesLeft
      BY <1>1, <2>3, <3>1 DEF LinesLeft
    <3> QED BY <1>1, <1>2, <2>1, <2>3, <3>1, <3>2, LeftFalls DEF PlacesLeft
  <2>4. CASE pc' = "access"
    <3>1. pc \in {"access", "back"} /\ k' = k + 1
      BY <1>4, <2>4 DEF Access, Back, NextAccess
    <3>2. LinesLeft' < LinesLeft
      BY <1>1, <2>4, <3>1 DEF LinesLeft
    <3> QED BY <1>1, <1>2, <2>1, <2>4, <3>1, <3>2, LeftFalls DEF PlacesLeft
  <2> QED BY <1>4, <2>2, <2>3, <2>4 DEF Access, Back, NextAccess
<1> QED BY <1>3, <1>4

LEMMA ThreadMovesOn ==
  ASSUME IInv, IInv', Thread
  PROVE  Descends(Left, Left')
<1>1. CASE Create \/ WarmUp \/ Report
  <2>1. StagesLeft' < StagesLeft
    BY <1>1 DEF StagesLeft, Create, WarmUp, Report
  <2> QED BY <2>1, LeftFalls
<1>2. CASE Sample
  <2>1. /\ pc = "sample" /\ j' = j + 1 /\ pc' \in {"addr", "report"}
    BY <1>2 DEF Sample, Following
  <2>2. CASE pc' = "addr"
    BY <2>1, <2>2, LeftFalls DEF StagesLeft
  <2>3. CASE pc' = "report"
    <3>1. StagesLeft' < StagesLeft
      BY <2>1, <2>3 DEF StagesLeft
    <3> QED BY <3>1, LeftFalls
  <2> QED BY <2>1, <2>2, <2>3
<1> QED BY <1>1, <1>2, InsideMovesOn DEF Thread

(***************************************************************************)
(* Whatever the table, the workset and the number of operations: the       *)
(* thread does not go round in a circle, and the hardware cannot make it.  *)
(***************************************************************************)
THEOREM ThreadOnlyMovesOn == Spec => EveryStepMovesOn
<1> DEFINE Moves ==
      /\ Left \in [1 .. 5 -> Nat]
      /\ Thread \/ Left' # Left => Descends(Left, Left')
<1>1. IInv /\ IInv' /\ [Next]_vars => [Moves]_vars
  <2> SUFFICES ASSUME IInv, IInv', [Next]_vars, vars' # vars PROVE Moves
    OBVIOUS
  <2>1. Thread => Descends(Left, Left')
    BY ThreadMovesOn
  <2>2. ASSUME NEW l \in Lines, Evict(l) \/ Complete(l) PROVE Left' = Left
    BY <2>2 DEF Evict, Complete, Left, StagesLeft, PlacesLeft, LinesLeft, fn
  <2> QED BY <2>1, <2>2, Counted DEF CountedInv, Next, Joined
<1>2. Spec => [][Moves]_vars
  BY Invariant, <1>1, PTL DEF Spec
<1> QED BY <1>2 DEF EveryStepMovesOn

=============================================================================
