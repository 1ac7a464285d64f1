---------------------------- MODULE ChasingProofs ----------------------------
(***************************************************************************)
(* init_chasing_index builds one cycle through every line, for every table *)
(* size and however often rdrand fails: the links made so far always form  *)
(* a simple path from line 0 to curr_pos.  The walks of the stores and the *)
(* loads then take the same trail through it in every block, for every     *)
(* size, skip and count, and the invariant says how far along it each is.  *)
(***************************************************************************)
EXTENDS ChasingWalk, FiniteSetTheorems, LoopOrderProofs, TLAPS

\* The number of links decides whether the loop goes on.
CountInv ==
  /\ pc \in {"pick", "failed"} => i < CSize - 1
  /\ pc = "done" => i = CSize - 1

IInv == TypeOK /\ CountInv /\ SimplePath

LEMMA InitIInv == Init => IInv
<1> SUFFICES ASSUME Init PROVE IInv
  OBVIOUS
<1>1. TypeOK /\ CountInv
  BY IndexAssumption DEF Init, TypeOK, CountInv, Continue, Positions
<1>2. SimplePath
  <2> DEFINE path == [m \in 0 .. 0 |-> 0]
  <2>1. path \in [0 .. i -> Positions] /\ PathSoFar(path)
    BY IndexAssumption DEF Init, PathSoFar, Positions
  <2> QED BY <2>1 DEF SimplePath
<1> QED BY <1>1, <1>2 DEF IInv

\* A link to a usable line extends the path by that line.
LEMMA AcceptExtends ==
  ASSUME IInv, NEW r \in Positions, Accept(r)
  PROVE  SimplePath'
<1> USE IndexAssumption
<1>1. /\ i \in Nat /\ curr \in Positions /\ r # curr /\ cindex[r] = 0 /\ i < CSize - 1
      /\ cindex \in [Positions -> Positions]
      /\ cindex' = [cindex EXCEPT ![curr] = r] /\ curr' = r /\ i' = i + 1
  BY DEF IInv, TypeOK, CountInv, Accept, Usable
<1>2. PICK path \in [0 .. i -> Positions] : PathSoFar(path)
  BY DEF IInv, SimplePath
<1> DEFINE longer == [m \in 0 .. i + 1 |-> IF m <= i THEN path[m] ELSE r]
<1>3. longer \in [0 .. i' -> Positions]
  BY <1>1, <1>2
\* The line is new: every line before the end of the path is linked.
<1>4. \A m \in 0 .. i : path[m] # r
  <2> SUFFICES ASSUME NEW m \in 0 .. i, path[m] = r PROVE FALSE
    OBVIOUS
  <2>1. m # i
    BY <1>1, <1>2 DEF PathSoFar
  <2>2. m \in 0 .. i - 1 /\ m + 1 \in 0 .. i /\ 0 \in 0 .. i /\ m + 1 # 0
    BY <1>1, <2>1
  <2>3. path[m + 1] = 0
    BY <1>1, <1>2, <2>2 DEF PathSoFar
  <2>4. path[0] = 0
    BY <1>2 DEF PathSoFar
  <2> QED BY <1>2, <2>2, <2>3, <2>4 DEF PathSoFar
<1>5. longer[0] = 0 /\ longer[i'] = curr'
  BY <1>1, <1>2 DEF PathSoFar
<1>6. \A m, n \in 0 .. i' : longer[m] = longer[n] => m = n
  BY <1>1, <1>2, <1>4 DEF PathSoFar
<1>7. \A m \in 0 .. i' - 1 : cindex'[longer[m]] = longer[m + 1]
  <2> SUFFICES ASSUME NEW m \in 0 .. i PROVE cindex'[path[m]] = longer[m + 1]
    BY <1>1
  <2>1. CASE m = i
    BY <1>1, <1>2, <2>1 DEF PathSoFar
  <2>2. CASE m < i
    <3>1. m \in 0 .. i - 1 /\ i \in 0 .. i /\ m # i
      BY <1>1, <2>2
    <3>2. path[m] # curr
      BY <1>2, <3>1 DEF PathSoFar
    <3> QED BY <1>1, <1>2, <3>1, <3>2 DEF PathSoFar
  <2> QED BY <1>1, <2>1, <2>2
<1>8. \A p \in Positions : cindex'[p] # 0 => \E m \in 0 .. i' - 1 : p = longer[m]
  <2> SUFFICES ASSUME NEW p \in Positions, cindex'[p] # 0
               PROVE  \E m \in 0 .. i : p = path[m]
    BY <1>1
  <2>1. CASE p = curr
    BY <1>1, <1>2, <2>1 DEF PathSoFar
  <2>2. CASE p # curr
    BY <1>1, <1>2, <2>2 DEF PathSoFar
  <2> QED BY <2>1, <2>2
<1>9. PICK next \in [0 .. i' -> Positions] : next = longer
  BY <1>3
<1> HIDE DEF longer
<1>10. PathSoFar(next)'
  BY <1>5, <1>6, <1>7, <1>8, <1>9 DEF PathSoFar
<1> QED BY <1>9, <1>10 DEF SimplePath

LEMMA NextIInv == IInv /\ [Next]_vars => IInv'
<1> SUFFICES ASSUME IInv, [Next]_vars PROVE IInv'
  OBVIOUS
<1> USE IndexAssumption
<1>1. CASE NoEntropy
  <2>1. TypeOK' /\ CountInv'
    BY <1>1 DEF NoEntropy, RetryAgain, IInv, TypeOK, CountInv
  <2>2. SimplePath'
    BY <1>1 DEF NoEntropy, IInv, SimplePath, PathSoFar
  <2> QED BY <2>1, <2>2 DEF IInv
<1>2. ASSUME NEW r \in Positions, Reject(r) PROVE IInv'
  BY <1>2 DEF Reject, IInv, TypeOK, CountInv, SimplePath, PathSoFar
<1>3. ASSUME NEW r \in Positions, Accept(r) PROVE IInv'
  <2>1. TypeOK'
    BY <1>3 DEF Accept, Continue, Positions, IInv, TypeOK, CountInv
  <2>2. CountInv'
    BY <1>3 DEF Accept, Continue, IInv, TypeOK, CountInv
  <2>3. SimplePath'
    BY <1>3, AcceptExtends
  <2> QED BY <2>1, <2>3, <2>2 DEF IInv
<1>4. CASE UNCHANGED vars
  BY <1>4 DEF vars, IInv, TypeOK, CountInv, SimplePath, PathSoFar
<1> QED BY <1>1, <1>2, <1>3, <1>4 DEF Next, Returned

\* The table is a simple path at every moment, whatever rdrand returns.
THEOREM PathInvariant == Spec => []IInv
BY InitIInv, NextIInv, PTL DEF Spec

\* Every variable keeps its type.
THEOREM TypeCorrect == Spec => []TypeOK
BY PathInvariant, PTL DEF IInv

\* A failed or unfinished table is a simple path from line 0.
THEOREM AlwaysAPath == Spec => []SimplePath
BY PathInvariant, PTL DEF IInv

-----------------------------------------------------------------------------
\* Pigeonhole: a path that meets CSize lines, none twice, meets them all.
LEMMA InjectiveWalkIsOnto ==
  ASSUME NEW path \in [Positions -> Positions],
         \A m, n \in Positions : path[m] = path[n] => m = n
  PROVE  \A p \in Positions : \E m \in Positions : path[m] = p
<1>1. IsFiniteSet(Positions)
  BY FS_Interval, IndexAssumption DEF Positions
<1>2. path \in Injection(Positions, Positions)
  BY DEF Injection, IsInjective
<1>3. path \in Surjection(Positions, Positions)
  BY <1>1, <1>2, FS_Injection
<1> QED BY <1>3 DEF Surjection

LEMMA FinishedIsCycle == IInv => SingleCycle
<1> SUFFICES ASSUME IInv, pc = "done"
             PROVE  \E path \in [Positions -> Positions] :
                      /\ path[0] = 0
                      /\ \A m, n \in Positions : path[m] = path[n] => m = n
                      /\ \A p \in Positions : \E m \in Positions : path[m] = p
                      /\ \A m \in Positions :
                           cindex[path[m]] = IF m = CSize - 1 THEN 0 ELSE path[m + 1]
  BY DEF SingleCycle
<1>1. i = CSize - 1 /\ 0 .. i = Positions /\ CSize - 1 \in Positions
  BY IndexAssumption DEF IInv, CountInv, Positions
<1>2. PICK path \in [Positions -> Positions] : PathSoFar(path)
  BY <1>1 DEF IInv, SimplePath
<1>5. path[0] = 0 /\ \A m, n \in Positions : path[m] = path[n] => m = n
  BY <1>1, <1>2 DEF PathSoFar
<1>6. path \in [Positions -> Positions]
  OBVIOUS
<1>3. \A p \in Positions : \E m \in Positions : path[m] = p
  BY <1>5, <1>6, InjectiveWalkIsOnto
<1>4. \A m \in Positions :
        cindex[path[m]] = IF m = CSize - 1 THEN 0 ELSE path[m + 1]
  <2> SUFFICES ASSUME NEW m \in Positions
               PROVE  cindex[path[m]] = IF m = CSize - 1 THEN 0 ELSE path[m + 1]
    OBVIOUS
  <2>1. CASE m = CSize - 1
    <3> SUFFICES ASSUME cindex[path[m]] # 0 PROVE FALSE
      BY <2>1
    <3>1. path[m] \in Positions
      BY <1>2
    <3>2. PICK n \in 0 .. i - 1 : path[m] = path[n]
      BY <1>2, <3>1 DEF PathSoFar
    <3>3. n \in 0 .. i /\ m \in 0 .. i /\ n # m
      BY <1>1, <2>1, IndexAssumption
    <3> QED BY <1>2, <3>2, <3>3 DEF PathSoFar
  <2>2. CASE m # CSize - 1
    <3>1. m \in 0 .. i - 1
      BY <1>1, <2>2, IndexAssumption DEF Positions
    <3> QED BY <1>2, <2>2, <3>1 DEF PathSoFar
  <2> QED BY <2>1, <2>2
<1> QED BY <1>3, <1>4, <1>5

\* The finished table is one cycle through every line.
THEOREM TableIsOneCycle == Spec => []SingleCycle
BY PathInvariant, FinishedIsCycle, PTL

LEMMA UnfinishedHasRoom == IInv => UsableLineLeft
<1> SUFFICES ASSUME IInv, pc = "pick", \A r \in Positions : ~Usable(r)
             PROVE  FALSE
  BY DEF UsableLineLeft
<1>1. i \in Nat /\ i < CSize - 1 /\ CSize \in Nat
  BY IndexAssumption DEF IInv, TypeOK, CountInv
<1>2. PICK path \in [0 .. i -> Positions] : PathSoFar(path)
  BY DEF IInv, SimplePath
<1>3. \A p \in Positions : \E m \in 0 .. i : path[m] = p
  <2> SUFFICES ASSUME NEW p \in Positions PROVE \E m \in 0 .. i : path[m] = p
    OBVIOUS
  <2>1. cindex[p] # 0 \/ p = curr
    BY DEF Usable
  <2> QED BY <1>1, <1>2, <2>1 DEF PathSoFar
<1>4. path \in Surjection(0 .. i, Positions)
  BY <1>2, <1>3 DEF Surjection
<1>5. IsFiniteSet(0 .. i) /\ Cardinality(0 .. i) = i + 1
  BY <1>1, FS_Interval
<1>6. Cardinality(Positions) = CSize
  BY <1>1, FS_Interval DEF Positions
<1>7. Cardinality(Positions) <= Cardinality(0 .. i)
  BY <1>4, <1>5, FS_Surjection
<1> QED BY <1>1, <1>5, <1>6, <1>7

\* The rejection loop always has a line it can accept.
THEOREM DrawCanSucceed == Spec => []UsableLineLeft
BY PathInvariant, UnfinishedHasRoom, PTL

\* A link that was made is never changed.
THEOREM LinksAreKept == Spec => LinksStay
<1>1. IInv /\ [Next]_vars => [\A p \in Positions : cindex[p] # 0 => cindex'[p] = cindex[p]]_vars
  <2> SUFFICES ASSUME IInv, Next
               PROVE  \A p \in Positions : cindex[p] # 0 => cindex'[p] = cindex[p]
    OBVIOUS
  <2>1. ASSUME NEW r \in Positions, Accept(r), NEW p \in Positions, cindex[p] # 0
        PROVE  cindex'[p] = cindex[p]
    <3>1. PICK path \in [0 .. i -> Positions] : PathSoFar(path)
      BY DEF IInv, SimplePath
    <3>2. i \in Nat /\ cindex \in [Positions -> Positions]
      BY DEF IInv, TypeOK
    <3>3. PICK m \in 0 .. i - 1 : p = path[m]
      BY <2>1, <3>1 DEF PathSoFar
    <3>4. p # curr
      BY <3>1, <3>2, <3>3 DEF PathSoFar
    <3> QED BY <2>1, <3>2, <3>4 DEF Accept
  <2> QED BY <2>1 DEF Next, NoEntropy, Reject, Returned, vars
<1> QED BY <1>1, PathInvariant, PTL DEF Spec, LinksStay

-----------------------------------------------------------------------------
(***************************************************************************)
(* The walks: the lines of the blocks.                                     *)
(***************************************************************************)
Blocks == 0 .. Count - 1
Line(b, p) == b * Skip + p

LEMMA WalkSizes ==
  /\ CSize \in Nat /\ CSize >= 1 /\ Skip \in Nat /\ Skip >= CSize
  /\ Count \in Nat /\ Count >= 1
  /\ \A s \in Sizes : s \in Nat /\ s >= 1
  BY IndexAssumption, WalkAssumption

LEMMA LineType ==
  ASSUME NEW b \in Blocks, NEW p \in Positions
  PROVE  Line(b, p) \in Lines
<1>1. b \in Nat /\ b <= Count - 1 /\ p \in Nat /\ p <= CSize - 1
  BY WalkSizes DEF Blocks, Positions
<1> DEFINE c == Count - 1
<1>2. c \in Nat /\ b <= c
  BY <1>1, WalkSizes
<1> HIDE DEF c
<1>3. b * Skip <= c * Skip /\ b * Skip \in Nat /\ c * Skip \in Nat
  BY <1>1, <1>2, WalkSizes
<1>4. c * Skip = Skip * (Count - 1)
  BY <1>2, WalkSizes DEF c
<1> QED
  BY <1>1, <1>3, <1>4, WalkSizes DEF Line, Lines

\* Blocks are at least a table apart, so a line is of one block and one position.
LEMMA LinesApart ==
  ASSUME NEW b \in Blocks, NEW c \in Blocks, NEW p \in Positions, NEW q \in Positions,
         Line(b, p) = Line(c, q)
  PROVE  b = c /\ p = q
<1>1. b \in Nat /\ c \in Nat /\ p \in Nat /\ q \in Nat /\ p < Skip /\ q < Skip
  BY WalkSizes DEF Blocks, Positions
<1>2. ASSUME NEW x \in Nat, NEW y \in Nat, x < y PROVE x * Skip + Skip <= y * Skip
  <2>1. (x + 1) * Skip <= y * Skip
    BY <1>2, WalkSizes
  <2>2. (x + 1) * Skip = x * Skip + Skip
    BY WalkSizes
  <2> QED
    BY <2>1, <2>2
<1>3. b * Skip \in Nat /\ c * Skip \in Nat
  BY <1>1, WalkSizes
<1>4. ~(b < c)
  <2> SUFFICES ASSUME b < c PROVE FALSE
    OBVIOUS
  <2>1. b * Skip + Skip <= c * Skip
    BY <1>1, <1>2
  <2> QED
    BY <1>1, <1>3, <2>1, WalkSizes DEF Line
<1>5. ~(c < b)
  <2> SUFFICES ASSUME c < b PROVE FALSE
    OBVIOUS
  <2>1. c * Skip + Skip <= b * Skip
    BY <1>1, <1>2
  <2> QED
    BY <1>1, <1>3, <2>1, WalkSizes DEF Line
<1>6. b = c
  BY <1>1, <1>4, <1>5
<1> QED
  BY <1>1, <1>3, <1>6 DEF Line

(***************************************************************************)
(* How often the first n lines of a trail are the line at position p.      *)
(***************************************************************************)
Met(w, n, p) == Cardinality({m \in 0 .. n - 1 : w[m] = p})

LEMMA MetNone == \A w, p : Met(w, 0, p) = 0
<1> SUFFICES ASSUME NEW w, NEW p PROVE Met(w, 0, p) = 0
  OBVIOUS
<1>1. {m \in 0 .. 0 - 1 : w[m] = p} = {}
  OBVIOUS
<1> QED
  BY <1>1, FS_EmptySet DEF Met

LEMMA MetType ==
  ASSUME NEW w, NEW n \in Nat, NEW p
  PROVE  IsFiniteSet({m \in 0 .. n - 1 : w[m] = p}) /\ Met(w, n, p) \in Nat
<1>1. IsFiniteSet(0 .. n - 1)
  BY FS_Interval
<1>2. IsFiniteSet({m \in 0 .. n - 1 : w[m] = p})
  BY <1>1, FS_Subset
<1> QED
  BY <1>2, FS_CardinalityType DEF Met

LEMMA MetNat ==
  ASSUME NEW w, NEW n \in Nat, NEW p
  PROVE  Met(w, n, p) \in Nat
BY MetType

LEMMA MetGrows ==
  ASSUME NEW w, NEW n \in Nat, NEW p
  PROVE  Met(w, n + 1, p) = Met(w, n, p) + IF w[n] = p THEN 1 ELSE 0
<1> DEFINE S == {m \in 0 .. n - 1 : w[m] = p}
           T == {m \in 0 .. (n + 1) - 1 : w[m] = p}
<1>1. IsFiniteSet(S) /\ Cardinality(S) \in Nat
  <2>1. IsFiniteSet(S)
    BY MetType
  <2> QED
    BY <2>1, FS_CardinalityType
<1>2. n \notin S
  OBVIOUS
<1>3. CASE w[n] = p
  <2>1. T = S \cup {n}
    BY <1>3
  <2>2. Cardinality(T) = Cardinality(S) + 1
    BY <1>1, <1>2, <2>1, FS_AddElement
  <2> QED
    BY <1>3, <2>2 DEF Met
<1>4. CASE w[n] # p
  <2>1. T = S
    BY <1>4
  <2> QED
    BY <1>1, <1>4, <2>1 DEF Met
<1> QED
  BY <1>3, <1>4

\* A trail that repeats no line meets a line once at most.
LEMMA MetOnce ==
  ASSUME NEW w, NEW n \in Nat, NEW p,
         \A l, m \in 0 .. n - 1 : w[l] = w[m] => l = m
  PROVE  /\ Met(w, n, p) <= 1
         /\ (\E m \in 0 .. n - 1 : w[m] = p) => Met(w, n, p) = 1
<1> DEFINE S == {m \in 0 .. n - 1 : w[m] = p}
<1>1. CASE S = {}
  <2>1. Met(w, n, p) = 0
    BY <1>1, FS_EmptySet DEF Met
  <2> QED
    BY <1>1, <2>1
<1>2. CASE S # {}
  <2>1. PICK m \in S : TRUE
    BY <1>2
  <2>2. S = {m}
    BY <2>1
  <2>3. Cardinality(S) = 1
    BY <2>2, FS_Singleton
  <2> QED
    BY <2>3 DEF Met
<1> QED
  BY <1>1, <1>2

-----------------------------------------------------------------------------
(***************************************************************************)
(* The invariant of the walks: one trail w through the table that both     *)
(* walks take in every block.                                              *)
(***************************************************************************)
WBase ==
  /\ phase \in {"index", "store", "load", "end"} /\ size \in Sizes
  /\ mem \in [Lines -> 0 .. CSize]
  /\ visits \in [{"store", "load"} -> [Lines -> Nat]]
  /\ block \in Blocks /\ done \in 0 .. size - 1 /\ pos \in Positions
  /\ phase \in {"index", "end"} => block = 0 /\ done = 0 /\ pos = 0
  /\ phase = "index" => \A ph \in {"store", "load"} : \A l \in Lines : visits[ph][l] = 0
  /\ phase # "index" => pc = "done"

\* How many lines of block b phase ph has accessed.
Steps(ph, b) ==
  IF phase = "index" \/ (phase = "store" /\ ph = "load") THEN 0
  ELSE IF phase # ph THEN size
  ELSE IF b < block THEN size ELSE IF b = block THEN done ELSE 0

Trail(w) ==
  /\ w[0] = 0
  /\ \A m \in 0 .. size - 2 : m < Steps("store", 0) => w[m + 1] = cindex[w[m]]
  /\ phase \in {"store", "load"} => pos = w[done]
  /\ \A b \in Blocks : \A m \in 0 .. size - 1 :
       m < Steps("store", b) => mem[Line(b, w[m])] = cindex[w[m]]
  /\ \A ph \in {"store", "load"} : \A b \in Blocks : \A p \in Positions :
       visits[ph][Line(b, p)] = Met(w, Steps(ph, b), p)
  /\ \A ph \in {"store", "load"} : \A l \in Lines :
       (\A b \in Blocks : \A p \in Positions : l # Line(b, p)) => visits[ph][l] = 0

WalkInv == \E w \in [0 .. size - 1 -> Positions] : Trail(w)

WInv == IInv /\ WBase /\ WalkInv

LEMMA StepsType ==
  ASSUME WBase, NEW ph \in {"store", "load"}, NEW b \in Blocks
  PROVE  /\ Steps(ph, b) \in 0 .. size /\ size \in Nat /\ size >= 1
         /\ Steps(ph, b) <= Steps("store", 0)
         /\ phase = ph => Steps(ph, block) = done
<1>1. /\ size \in Nat /\ size >= 1 /\ done \in 0 .. size - 1 /\ block \in Nat /\ b \in Nat
      /\ phase \in {"index", "store", "load", "end"}
  BY WalkSizes DEF WBase, Blocks
<1>2. CASE phase = "index"
  BY <1>1, <1>2 DEF Steps
<1>3. CASE phase = "store"
  BY <1>1, <1>3 DEF Steps
<1>4. CASE phase = "load"
  BY <1>1, <1>4 DEF Steps
<1>5. CASE phase = "end"
  BY <1>1, <1>5 DEF Steps
<1> QED
  BY <1>1, <1>2, <1>3, <1>4, <1>5

LEMMA InitWalk == WInit => WInv
<1> SUFFICES ASSUME WInit PROVE WInv
  OBVIOUS
<1>1. IInv
  BY InitIInv DEF WInit
<1>2. size \in Nat /\ size >= 1 /\ 0 \in 0 .. size - 1 /\ 0 \in Positions /\ 0 \in Blocks
  BY WalkSizes DEF WInit, Positions, Blocks
<1>3. WBase
  BY <1>2, WalkSizes DEF WInit, WBase, Stale
<1>4. WalkInv
  <2> DEFINE w == [m \in 0 .. size - 1 |-> 0]
  <2>1. w \in [0 .. size - 1 -> Positions] /\ w[0] = 0
    BY <1>2
  <2>2. \A ph \in {"store", "load"} : \A b \in Blocks : Steps(ph, b) = 0
    BY DEF WInit, Steps
  <2>3. phase = "index" /\ \A ph \in {"store", "load"} : \A l \in Lines : visits[ph][l] = 0
    BY DEF WInit
  <2> HIDE DEF w
  <2>4. Trail(w)
    BY <1>2, <2>1, <2>2, <2>3, MetNone, LineType DEF Trail
  <2> QED
    BY <2>1, <2>4 DEF WalkInv
<1> QED
  BY <1>1, <1>3, <1>4 DEF WInv

\* One step of the index leaves the lines alone.
LEMMA MakeIndexKeeps ==
  ASSUME WInv, MakeIndex
  PROVE  WInv'
<1>1. IInv'
  BY NextIInv DEF WInv, MakeIndex
<1>2. WBase'
  BY DEF WInv, WBase, MakeIndex
<1>3. WalkInv'
  <2> DEFINE w == [m \in 0 .. size - 1 |-> 0]
  <2>1. phase = "index" /\ block = 0 /\ done = 0 /\ pos = 0 /\ phase' \in {"index", "store"}
        /\ UNCHANGED <<size, block, done, pos, mem, visits>>
    BY DEF MakeIndex, WInv, WBase
  <2>2. size \in Nat /\ size >= 1 /\ 0 \in 0 .. size - 1 /\ 0 \in Positions /\ 0 \in Blocks
    BY WalkSizes DEF WInv, WBase, Positions, Blocks
  <2>3. w \in [0 .. size - 1 -> Positions] /\ w[0] = 0
    BY <2>2
  <2>4. \A ph \in {"store", "load"} : \A b \in Blocks : Steps(ph, b)' = 0
    BY <2>1 DEF Steps, Blocks
  <2>5. \A ph \in {"store", "load"} : \A l \in Lines : visits'[ph][l] = 0
    BY <2>1 DEF WInv, WBase
  <2>6. PICK v \in [0 .. size' - 1 -> Positions] : v[0] = 0
    BY <2>1, <2>3
  <2>7. Trail(v)'
    <3>1. phase' \in {"store", "load"} => pos' = v[done']
      BY <2>1, <2>6
    <3>2. \A m \in 0 .. size' - 2 : ~(m < Steps("store", 0)')
      BY <2>2, <2>4
    <3>3. \A b \in Blocks : \A m \in 0 .. size' - 1 : ~(m < Steps("store", b)')
      BY <2>4
    <3>4. \A ph \in {"store", "load"} : \A b \in Blocks : \A p \in Positions :
            visits'[ph][Line(b, p)] = Met(v, Steps(ph, b)', p)
      BY <2>4, <2>5, MetNone, LineType
    <3> QED
      BY <2>5, <2>6, <3>1, <3>2, <3>3, <3>4 DEF Trail
  <2> QED
    BY <2>6, <2>7 DEF WalkInv
<1> QED
  BY <1>1, <1>2, <1>3 DEF WInv

\* An access is one step more of the phase in its block, and changes no other count.
LEMMA StepsNext ==
  ASSUME WInv, phase \in {"store", "load"}, NEW nxt, Step(nxt),
         NEW ph \in {"store", "load"}, NEW b \in Blocks
  PROVE  Steps(ph, b)' = Steps(ph, b) + IF ph = phase /\ b = block THEN 1 ELSE 0
<1>1. /\ size \in Nat /\ size >= 1 /\ done \in 0 .. size - 1 /\ block \in Nat /\ b \in Nat
      /\ b < Count /\ block < Count /\ Count \in Nat /\ size' = size
  BY WalkSizes DEF WInv, WBase, Blocks, Step
<1>2. CASE done + 1 < size
  <2>1. done' = done + 1 /\ block' = block /\ phase' = phase
    BY <1>2 DEF Step, Again
  <2>2. CASE phase = "store"
    BY <1>1, <2>1, <2>2 DEF Steps
  <2>3. CASE phase = "load"
    BY <1>1, <2>1, <2>3 DEF Steps
  <2> QED
    BY <2>2, <2>3
<1>3. CASE ~(done + 1 < size) /\ block + 1 < Count
  <2>1. done' = 0 /\ block' = block + 1 /\ phase' = phase /\ done + 1 = size
    BY <1>1, <1>3 DEF Step, Again
  <2>2. CASE phase = "store"
    BY <1>1, <2>1, <2>2 DEF Steps
  <2>3. CASE phase = "load"
    BY <1>1, <2>1, <2>3 DEF Steps
  <2> QED
    BY <2>2, <2>3
<1>4. CASE ~(done + 1 < size) /\ ~(block + 1 < Count)
  <2>1. done' = 0 /\ block' = 0 /\ phase' = After(phase) /\ done + 1 = size /\ b <= block
    BY <1>1, <1>4 DEF Step, Again
  <2>2. CASE phase = "store"
    BY <1>1, <2>1, <2>2 DEF Steps, After
  <2>3. CASE phase = "load"
    BY <1>1, <2>1, <2>3 DEF Steps, After
  <2> QED
    BY <2>2, <2>3
<1> QED
  BY <1>2, <1>3, <1>4

\* The types after an access, whose successor is in the table.
LEMMA AccessBase ==
  ASSUME WInv, phase \in {"store", "load"}, NEW nxt \in Positions, Step(nxt),
         mem' \in [Lines -> 0 .. CSize]
  PROVE  WBase'
<1>1. /\ size \in Nat /\ size >= 1 /\ size \in Sizes /\ done \in 0 .. size - 1
      /\ block \in Nat /\ block < Count /\ Count \in Nat /\ pc = "done"
      /\ pos \in Positions /\ visits \in [{"store", "load"} -> [Lines -> Nat]]
  BY WalkSizes DEF WInv, WBase, Blocks
<1>2. size' = size /\ pc' = pc
  BY DEF Step, vars
<1>3. phase' \in {"store", "load", "end"} /\ block' \in Blocks
  BY <1>1, WalkSizes DEF Step, After, Blocks
<1>4. done' \in 0 .. size - 1 /\ pos' \in Positions
  BY <1>1, WalkSizes DEF Step, Again, Positions
<1>5. phase' = "end" => block' = 0 /\ done' = 0 /\ pos' = 0
  BY DEF Step, After
<1>6. visits' \in [{"store", "load"} -> [Lines -> Nat]]
  <2>1. Here \in Lines /\ block \in Blocks
    BY <1>1, LineType DEF WInv, WBase, Here, Line
  <2>2. visits[phase] \in [Lines -> Nat] /\ visits[phase][Here] + 1 \in Nat
    BY <1>1, <2>1
  <2>3. [visits[phase] EXCEPT ![Here] = @ + 1] \in [Lines -> Nat]
    BY <2>2
  <2>4. visits' = [visits EXCEPT ![phase] = [visits[phase] EXCEPT ![Here] = @ + 1]]
    BY <1>1 DEF Step
  <2> QED
    BY <1>1, <2>3, <2>4
<1> QED
  BY <1>1, <1>2, <1>3, <1>4, <1>5, <1>6 DEF WBase

\* The trail after an access: the first block's stores make it longer.
LEMMA AccessTrail ==
  ASSUME WInv, phase \in {"store", "load"}, Step(cindex[pos]),
         mem' = IF phase = "store" THEN [mem EXCEPT ![Here] = cindex[pos]] ELSE mem
  PROVE  WalkInv'
<1>1. /\ size \in Nat /\ size >= 1 /\ done \in 0 .. size - 1 /\ block \in Blocks
      /\ block \in Nat /\ pos \in Positions /\ pc = "done" /\ 0 \in Blocks
      /\ mem \in [Lines -> 0 .. CSize]
      /\ visits \in [{"store", "load"} -> [Lines -> Nat]]
      /\ cindex \in [Positions -> Positions]
  BY WalkSizes DEF WInv, WBase, Blocks, IInv, TypeOK
<1>2. PICK w \in [0 .. size - 1 -> Positions] : Trail(w)
  BY DEF WInv, WalkInv
<1>3. size' = size /\ cindex' = cindex /\ Here \in Lines /\ Here = Line(block, pos)
  BY <1>1, LineType DEF Step, vars, Here, Line
<1>4. pos = w[done]
  BY <1>2 DEF Trail
<1>5. \A ph \in {"store", "load"} : \A b \in Blocks :
        Steps(ph, b)' = Steps(ph, b) + IF ph = phase /\ b = block THEN 1 ELSE 0
  BY StepsNext
<1>6. \A ph \in {"store", "load"} : \A b \in Blocks :
        Steps(ph, b) \in 0 .. size /\ Steps(ph, b) <= Steps("store", 0)
  BY StepsType DEF WInv
<1>7. Steps(phase, block) = done
  BY StepsType, <1>1 DEF WInv
<1> DEFINE longer == phase = "store" /\ block = 0 /\ done + 1 < size
           x == IF longer THEN [w EXCEPT ![done + 1] = cindex[pos]] ELSE w
<1>8. PICK v \in [0 .. size - 1 -> Positions] : v = x
  BY <1>1, <1>2
<1>9. longer => v[done + 1] = cindex[pos]
  BY <1>1, <1>2, <1>8
<1>10. \A m \in 0 .. size - 1 : (longer => m # done + 1) => v[m] = w[m]
  BY <1>1, <1>2, <1>8
<1>11. phase = "load" \/ (phase = "store" /\ block # 0) => Steps("store", 0) = size
  BY <1>1 DEF Steps
<1>12. phase = "store" /\ block = 0 =>
         \A ph \in {"store", "load"} : \A b \in Blocks :
           Steps(ph, b) = IF ph = "store" /\ b = 0 THEN done ELSE 0
  BY <1>1 DEF Steps, Blocks
<1> HIDE DEF x
\* What was walked is walked as before.
<1>13. \A ph \in {"store", "load"} : \A b \in Blocks : \A m \in 0 .. Steps(ph, b)' - 1 :
         m \in 0 .. size - 1 /\ v[m] = w[m]
  <2> SUFFICES ASSUME NEW ph \in {"store", "load"}, NEW b \in Blocks,
                      NEW m \in 0 .. Steps(ph, b)' - 1
               PROVE  m \in 0 .. size - 1 /\ v[m] = w[m]
    OBVIOUS
  <2>1. m \in 0 .. size - 1
    BY <1>1, <1>5, <1>6, <1>7
  <2>2. longer => m < done + 1
    BY <1>1, <1>5, <1>12
  <2> QED
    BY <1>1, <1>10, <2>1, <2>2
<1>14. v[0] = 0
  BY <1>1, <1>2, <1>10 DEF Trail
<1>15. ASSUME NEW m \in 0 .. size - 2, m < Steps("store", 0)'
       PROVE  v[m + 1] = cindex[v[m]]
  <2>1. m \in 0 .. size - 1 /\ m + 1 \in 0 .. size - 1 /\ v[m] = w[m]
    <3>1. m \in 0 .. Steps("store", 0)' - 1
      BY <1>1, <1>5, <1>6, <1>15
    <3>2. m \in 0 .. size - 1 /\ v[m] = w[m]
      BY <1>1, <1>13, <3>1
    <3> QED
      BY <1>1, <3>2
  <2>2. CASE longer /\ m = done
    BY <1>4, <1>9, <2>1, <2>2
  <2>3. CASE ~(longer /\ m = done)
    <3>1. m < Steps("store", 0)
      BY <1>1, <1>5, <1>6, <1>7, <1>15, <2>3
    <3>2. longer => m + 1 # done + 1
      BY <1>1, <2>3
    <3>3. v[m + 1] = w[m + 1]
      BY <1>10, <2>1, <3>2
    <3> QED
      BY <1>2, <2>1, <3>1, <3>3 DEF Trail
  <2> QED
    BY <2>2, <2>3
<1>16. ASSUME phase' \in {"store", "load"}
       PROVE  pos' = v[done']
  <2>1. CASE done + 1 < size
    <3>1. done' = done + 1 /\ pos' = cindex[pos]
      BY <2>1 DEF Step, Again
    <3>2. CASE longer
      BY <1>9, <3>1, <3>2
    <3>3. CASE ~longer
      <4>1. done \in 0 .. size - 2 /\ done < Steps("store", 0) /\ done + 1 \in 0 .. size - 1
        BY <1>1, <1>11, <2>1, <3>3
      <4>2. w[done + 1] = cindex[pos]
        BY <1>2, <1>4, <4>1 DEF Trail
      <4> QED
        BY <1>10, <3>1, <3>3, <4>1, <4>2
    <3> QED
      BY <3>2, <3>3
  <2>2. CASE ~(done + 1 < size)
    BY <1>14, <2>2 DEF Step, Again
  <2> QED
    BY <2>1, <2>2
<1>17. ASSUME NEW b \in Blocks, NEW m \in 0 .. size - 1, m < Steps("store", b)'
       PROVE  mem'[Line(b, v[m])] = cindex[v[m]]
  <2>1. v[m] = w[m] /\ w[m] \in Positions /\ Line(b, w[m]) \in Lines
    <3>1. m \in 0 .. Steps("store", b)' - 1
      BY <1>5, <1>6, <1>17
    <3> QED
      BY <1>2, <1>13, <3>1, LineType
  <2>2. CASE phase = "store" /\ Line(b, w[m]) = Here
    <3>1. w[m] = pos
      BY <1>1, <1>3, <2>1, <2>2, LinesApart
    <3> QED
      BY <1>1, <1>3, <2>1, <2>2, <3>1
  <2>3. CASE ~(phase = "store" /\ Line(b, w[m]) = Here)
    <3>1. ~(phase = "store" /\ b = block /\ m = done)
      BY <1>3, <1>4, <2>3
    <3>2. m < Steps("store", b)
      BY <1>1, <1>5, <1>6, <1>7, <1>17, <3>1
    <3>3. mem[Line(b, w[m])] = cindex[w[m]]
      BY <1>2, <3>2 DEF Trail
    <3>4. mem'[Line(b, w[m])] = mem[Line(b, w[m])]
      BY <1>1, <1>3, <2>1, <2>3
    <3> QED
      BY <2>1, <3>3, <3>4
  <2> QED
    BY <2>2, <2>3
<1>18. ASSUME NEW ph \in {"store", "load"}, NEW b \in Blocks, NEW p \in Positions
       PROVE  visits'[ph][Line(b, p)] = Met(v, Steps(ph, b)', p)
  <2>1. Met(v, Steps(ph, b)', p) = Met(w, Steps(ph, b)', p)
    <3>1. PICK n : n = Steps(ph, b)'
      OBVIOUS
    <3>2. \A m \in 0 .. n - 1 : v[m] = w[m]
      BY <1>13, <3>1
    <3>3. {m \in 0 .. n - 1 : v[m] = p} = {m \in 0 .. n - 1 : w[m] = p}
      BY <3>2
    <3> QED
      BY <3>1, <3>3 DEF Met
  <2>2. visits[ph][Line(b, p)] = Met(w, Steps(ph, b), p) /\ Line(b, p) \in Lines
    BY <1>2, LineType DEF Trail
  <2>3. visits' = [visits EXCEPT ![phase][Here] = @ + 1]
    BY DEF Step
  <2>4. CASE ph = phase /\ b = block
    <3>1. Met(w, done + 1, p) = Met(w, done, p) + IF w[done] = p THEN 1 ELSE 0
      BY <1>1, MetGrows
    <3>2. Steps(ph, b)' = done + 1 /\ Steps(ph, b) = done
      BY <1>1, <1>5, <1>7, <2>4
    <3>3. Line(b, p) = Here <=> p = pos
      BY <1>1, <1>3, <2>4, LinesApart
    <3>4. visits[ph] \in [Lines -> Nat]
      BY <1>1
    <3>5. CASE p = pos
      BY <1>1, <1>3, <1>4, <2>1, <2>2, <2>3, <2>4, <3>1, <3>2, <3>3, <3>4, <3>5
    <3>6. CASE p # pos
      <4>1. visits'[ph][Line(b, p)] = visits[ph][Line(b, p)]
        BY <1>1, <1>3, <2>2, <2>3, <2>4, <3>3, <3>4, <3>6
      <4>2. Met(w, done, p) \in Nat
        BY <1>1, MetNat
      <4> QED
        BY <1>4, <2>1, <2>2, <3>1, <3>2, <3>6, <4>1, <4>2
    <3> QED
      BY <3>5, <3>6
  <2>5. CASE ~(ph = phase /\ b = block)
    <3>1. Steps(ph, b)' = Steps(ph, b)
      BY <1>5, <1>6, <2>5
    <3>2. ph # phase \/ Line(b, p) # Here
      BY <1>1, <1>3, <2>5, LinesApart
    <3>3. visits'[ph][Line(b, p)] = visits[ph][Line(b, p)]
      BY <1>1, <1>3, <2>2, <2>3, <3>2
    <3> QED
      BY <2>1, <2>2, <3>1, <3>3
  <2> QED
    BY <2>4, <2>5
<1>19. ASSUME NEW ph \in {"store", "load"}, NEW l \in Lines,
              \A b \in Blocks : \A p \in Positions : l # Line(b, p)
       PROVE  visits'[ph][l] = 0
  <2>1. l # Here /\ visits[ph][l] = 0
    BY <1>1, <1>2, <1>3, <1>19 DEF Trail
  <2> QED
    BY <1>1, <2>1 DEF Step
<1>20. Trail(v)'
  <2>1. \A m \in 0 .. size' - 2 : m < Steps("store", 0)' => v[m + 1] = cindex'[v[m]]
    BY <1>3, <1>15
  <2>2. \A b \in Blocks : \A m \in 0 .. size' - 1 :
          m < Steps("store", b)' => mem'[Line(b, v[m])] = cindex'[v[m]]
    BY <1>3, <1>17
  <2> QED
    BY <1>14, <1>16, <1>18, <1>19, <2>1, <2>2 DEF Trail
<1>21. v \in [0 .. size' - 1 -> Positions]
  BY <1>3, <1>8
<1> QED
  BY <1>20, <1>21 DEF WalkInv

\* A line of the block holds what the table says once it was stored.
LEMMA LoadReadsTheTable ==
  ASSUME WInv, phase = "load"
  PROVE  mem[Here] = cindex[pos] /\ cindex[pos] \in Positions
<1>1. PICK w \in [0 .. size - 1 -> Positions] : Trail(w)
  BY DEF WInv, WalkInv
<1>2. block \in Blocks /\ done \in 0 .. size - 1 /\ size \in Nat /\ pos \in Positions
  BY WalkSizes DEF WInv, WBase
<1>3. done < Steps("store", block)
  BY <1>2 DEF Steps
<1>4. pos = w[done] /\ mem[Line(block, w[done])] = cindex[w[done]]
  BY <1>1, <1>2, <1>3 DEF Trail
<1> QED
  BY <1>2, <1>4 DEF Here, Line, WInv, IInv, TypeOK

LEMMA WNextInv == WInv /\ [WNext]_<<vars, walk>> => WInv'
<1> SUFFICES ASSUME WInv, [WNext]_<<vars, walk>> PROVE WInv'
  OBVIOUS
<1>1. CASE MakeIndex
  BY <1>1, MakeIndexKeeps
<1>2. CASE Store
  <2>1. phase = "store" /\ Step(cindex[pos]) /\ mem' = [mem EXCEPT ![Here] = cindex[pos]]
    BY <1>2 DEF Store, Stored
  <2>2. cindex[pos] \in Positions /\ mem \in [Lines -> 0 .. CSize]
    BY DEF WInv, WBase, IInv, TypeOK
  <2>3. mem' \in [Lines -> 0 .. CSize]
    <3>1. cindex[pos] \in 0 .. CSize
      BY <2>2, WalkSizes DEF Positions
    <3> QED
      BY <2>1, <2>2, <3>1
  <2>4. WBase' /\ WalkInv'
    BY <2>1, <2>2, <2>3, AccessBase, AccessTrail
  <2>5. IInv'
    BY <2>1, NextIInv DEF Step, WInv
  <2> QED
    BY <2>4, <2>5 DEF WInv
<1>3. CASE Load
  <2>1. phase = "load" /\ Step(cindex[pos]) /\ mem' = mem /\ cindex[pos] \in Positions
    BY <1>3, LoadReadsTheTable DEF Load
  <2>2. mem' \in [Lines -> 0 .. CSize]
    BY <2>1 DEF WInv, WBase
  <2>3. WBase' /\ WalkInv'
    BY <2>1, <2>2, AccessBase, AccessTrail
  <2>4. IInv'
    BY <2>1, NextIInv DEF Step, WInv
  <2> QED
    BY <2>3, <2>4 DEF WInv
<1>4. CASE UNCHANGED <<vars, walk>>
  <2>1. IInv'
    BY <1>4, NextIInv DEF WInv
  <2>2. WBase'
    BY <1>4 DEF WInv, WBase, vars, walk
  <2>3. WalkInv'
    <3>1. PICK w \in [0 .. size - 1 -> Positions] : Trail(w)
      BY DEF WInv, WalkInv
    <3>2. \A ph, b : Steps(ph, b)' = Steps(ph, b)
      BY <1>4 DEF Steps, walk
    <3>3. Trail(w)'
      BY <1>4, <3>1, <3>2 DEF Trail, vars, walk
    <3> QED
      BY <1>4, <3>1, <3>3 DEF WalkInv, walk
  <2> QED
    BY <2>1, <2>2, <2>3 DEF WInv
<1> QED
  BY <1>1, <1>2, <1>3, <1>4 DEF WNext, Ended

\* The inductive invariant of the walks.
THEOREM WalkInvariant == WSpec => []WInv
BY InitWalk, WNextInv, PTL DEF WSpec

-----------------------------------------------------------------------------
\* No load follows a pointer that the stores have not put there.
THEOREM NothingStrays == WSpec => []NoStrayPointer
<1>1. WInv => NoStrayPointer
  BY LoadReadsTheTable DEF NoStrayPointer
<1> QED
  BY <1>1, WalkInvariant, PTL

\* The loads access what the stores have accessed.
THEOREM LoadsFollowStores == WSpec => []LoadsRetraceStores
<1>1. WInv => LoadsRetraceStores
  <2> SUFFICES ASSUME WInv, phase = "end" PROVE visits["load"] = visits["store"]
    BY DEF LoadsRetraceStores
  <2>1. PICK w \in [0 .. size - 1 -> Positions] : Trail(w)
    BY DEF WInv, WalkInv
  <2>2. visits["load"] \in [Lines -> Nat] /\ visits["store"] \in [Lines -> Nat]
    BY DEF WInv, WBase
  <2>3. \A b \in Blocks : Steps("load", b) = size /\ Steps("store", b) = size
    BY DEF Steps
  <2>4. ASSUME NEW l \in Lines PROVE visits["load"][l] = visits["store"][l]
    <3>1. CASE \A b \in Blocks : \A p \in Positions : l # Line(b, p)
      BY <2>1, <3>1 DEF Trail
    <3>2. ASSUME NEW b \in Blocks, NEW p \in Positions, l = Line(b, p)
          PROVE  visits["load"][l] = visits["store"][l]
      <4>1. /\ visits["load"][Line(b, p)] = Met(w, Steps("load", b), p)
            /\ visits["store"][Line(b, p)] = Met(w, Steps("store", b), p)
        BY <2>1 DEF Trail
      <4> QED
        BY <2>3, <3>2, <4>1
    <3> QED
      BY <3>1, <3>2
  <2> QED
    BY <2>2, <2>4
<1> QED
  BY <1>1, WalkInvariant, PTL

\* A trail no longer than the table is the beginning of the cycle: its steps repeat no
\* position, and a whole one meets them all.
LEMMA ShortTrail ==
  ASSUME WInv, phase # "index", size <= CSize,
         NEW w \in [0 .. size - 1 -> Positions], Trail(w)
  PROVE  /\ \A l, m \in 0 .. Steps("store", 0) - 1 : w[l] = w[m] => l = m
         /\ Steps("store", 0) = CSize =>
              \A p \in Positions : \E m \in 0 .. CSize - 1 : w[m] = p
<1>1. 0 \in Blocks /\ CSize \in Nat /\ size \in Nat
  BY WalkSizes DEF Blocks, WInv, WBase
<1>2. Steps("store", 0) \in 0 .. size
  BY <1>1, StepsType DEF WInv
<1>3. PICK path \in [Positions -> Positions] :
         /\ path[0] = 0
         /\ \A m, n \in Positions : path[m] = path[n] => m = n
         /\ \A p \in Positions : \E m \in Positions : path[m] = p
         /\ \A m \in Positions :
              cindex[path[m]] = IF m = CSize - 1 THEN 0 ELSE path[m + 1]
  BY FinishedIsCycle DEF WInv, WBase, SingleCycle
<1>4. PICK k \in Nat : k = Steps("store", 0) /\ k <= CSize /\ k <= size
  BY <1>1, <1>2
<1>5. w[0] = 0 /\ \A m \in 0 .. k - 2 : w[m + 1] = cindex[w[m]]
  BY <1>1, <1>4 DEF Trail
<1>6. \A m \in 0 .. k - 1 : w[m] = path[m]
  <2> DEFINE Bad == {m \in Nat : m < k /\ w[m] # path[m]}
  <2> SUFFICES ASSUME Bad # {} PROVE FALSE
    BY <1>4
  <2>1. PICK m \in Bad : \A n \in Bad : ~(<<n, m>> \in OpToRel(<, Nat))
    BY NatLessThanWellFounded, WFMin
  <2>2. \A n \in Bad : ~(n < m)
    BY <2>1 DEF OpToRel
  <2>3. m \in Nat /\ m < k /\ w[m] # path[m] /\ m # 0
    BY <1>3, <1>5, <2>1
  <2>4. m - 1 \in 0 .. k - 2 /\ m - 1 \in Nat /\ m - 1 < k /\ m - 1 < m /\ (m - 1) + 1 = m
    BY <1>4, <2>3
  <2>5. w[m - 1] = path[m - 1]
    BY <2>2, <2>4
  <2>6. m - 1 \in Positions /\ m - 1 # CSize - 1
    BY <1>1, <1>4, <2>3, <2>4 DEF Positions
  <2>7. path[m] = cindex[path[m - 1]] /\ w[m] = cindex[w[m - 1]]
    BY <1>3, <1>5, <2>4, <2>6
  <2> QED
    BY <2>3, <2>5, <2>7
<1>7. \A m \in 0 .. k - 1 : m \in Positions
  BY <1>1, <1>4 DEF Positions
<1> QED
  BY <1>3, <1>4, <1>6, <1>7 DEF Positions

\* A walk of the whole table meets every line of every block, once.
THEOREM FullWalkIsComplete == WSpec => []FullWalkMeetsEveryLine
<1>1. WInv => FullWalkMeetsEveryLine
  <2> SUFFICES ASSUME WInv, phase = "end", size = CSize,
                      NEW b \in 0 .. Count - 1, NEW p \in Positions
               PROVE  visits["load"][b * Skip + p] = 1
    BY DEF FullWalkMeetsEveryLine
  <2>1. PICK w \in [0 .. size - 1 -> Positions] : Trail(w)
    BY DEF WInv, WalkInv
  <2>2. b \in Blocks /\ size \in Nat /\ Steps("load", b) = size /\ Steps("store", 0) = size
    BY WalkSizes DEF Steps, Blocks
  <2>3. /\ \A l, m \in 0 .. Steps("store", 0) - 1 : w[l] = w[m] => l = m
        /\ \A q \in Positions : \E m \in 0 .. CSize - 1 : w[m] = q
    <3>1. size <= CSize /\ phase # "index" /\ Steps("store", 0) = CSize
      BY <2>2
    <3> QED
      BY <2>1, <3>1, ShortTrail
  <2>4. Met(w, size, p) = 1
    <3>1. \A l, m \in 0 .. size - 1 : w[l] = w[m] => l = m
      BY <2>2, <2>3
    <3>2. \E m \in 0 .. size - 1 : w[m] = p
      BY <2>3
    <3> QED
      BY <2>2, <3>1, <3>2, MetOnce
  <2>5. visits["load"][Line(b, p)] = Met(w, Steps("load", b), p)
    BY <2>1, <2>2 DEF Trail
  <2> QED
    BY <2>2, <2>4, <2>5 DEF Line
<1> QED
  BY <1>1, WalkInvariant, PTL

\* A walk no longer than the table accesses no line twice.
THEOREM ShortWalksRepeatNothing == WSpec => []NoLineTwice
<1>1. WInv => NoLineTwice
  <2> SUFFICES ASSUME WInv, size <= CSize, NEW ph \in {"store", "load"}, NEW l \in Lines
               PROVE  visits[ph][l] <= 1
    BY DEF NoLineTwice
  <2>1. PICK w \in [0 .. size - 1 -> Positions] : Trail(w)
    BY DEF WInv, WalkInv
  <2>2. CASE \A b \in Blocks : \A p \in Positions : l # Line(b, p)
    BY <2>1, <2>2 DEF Trail
  <2>3. ASSUME NEW b \in Blocks, NEW p \in Positions, l = Line(b, p)
        PROVE  visits[ph][l] <= 1
    <3>1. CASE phase = "index"
      BY <3>1 DEF WInv, WBase
    <3>2. CASE phase # "index"
      <4>1. \A i1, i2 \in 0 .. Steps("store", 0) - 1 : w[i1] = w[i2] => i1 = i2
        BY <2>1, <3>2, ShortTrail
      <4>2. PICK n \in Nat : n = Steps(ph, b) /\ n <= Steps("store", 0)
        BY StepsType DEF WInv
      <4>3. 0 \in Blocks /\ Steps("store", 0) \in Nat
        BY WalkSizes, StepsType DEF WInv, Blocks
      <4>4. \A i1, i2 \in 0 .. n - 1 : w[i1] = w[i2] => i1 = i2
        BY <4>1, <4>2, <4>3
      <4>5. Met(w, n, p) <= 1
        BY <4>4, MetOnce
      <4>6. visits[ph][Line(b, p)] = Met(w, Steps(ph, b), p)
        BY <2>1 DEF Trail
      <4> QED
        BY <2>3, <4>2, <4>5, <4>6
    <3> QED
      BY <3>1, <3>2
  <2> QED
    BY <2>2, <2>3
<1> QED
  BY <1>1, WalkInvariant, PTL

-----------------------------------------------------------------------------
(***************************************************************************)
(* Links, blocks and lines run down.                                       *)
(***************************************************************************)
CountedInv ==
  /\ PhasesLeft \in Nat /\ LinksLeft \in Nat /\ BlocksLeft \in Nat /\ LinesLeft \in Nat
  /\ Left \in [1 .. 4 -> Nat]

LEMMA Counted == WInv => CountedInv
<1> SUFFICES ASSUME WInv PROVE CountedInv
  OBVIOUS
<1>1. PhasesLeft \in Nat
  BY DEF PhasesLeft
<1>2. LinksLeft \in Nat
  <2>1. i \in 0 .. CSize - 1 /\ CSize \in Nat
    BY WalkSizes DEF WInv, IInv, TypeOK
  <2> QED BY <2>1 DEF LinksLeft
<1>3. BlocksLeft \in Nat /\ LinesLeft \in Nat
  <2>1. block \in 0 .. Count - 1 /\ Count \in Nat /\ done \in 0 .. size - 1 /\ size \in Nat
    BY WalkSizes DEF WInv, WBase, Blocks
  <2> QED BY <2>1 DEF BlocksLeft, LinesLeft
<1> QED BY <1>1, <1>2, <1>3, CountersOf DEF CountedInv, Left

\* The first number to change falls.
LEMMA LeftFalls ==
  ASSUME \/ PhasesLeft' < PhasesLeft
         \/ PhasesLeft' = PhasesLeft /\ LinksLeft' < LinksLeft
         \/ PhasesLeft' = PhasesLeft /\ LinksLeft' = LinksLeft /\ BlocksLeft' < BlocksLeft
         \/ PhasesLeft' = PhasesLeft /\ LinksLeft' = LinksLeft /\ BlocksLeft' = BlocksLeft
              /\ LinesLeft' < LinesLeft
  PROVE  Descends(Left, Left')
BY DEF Descends, Left

\* A number that falls is another one.
LEMMA DescentChanges ==
  ASSUME CountedInv, Descends(Left, Left')
  PROVE  Left' # Left
<1>1. PICK k \in DOMAIN Left : Left'[k] < Left[k]
  BY DEF Descends
<1>2. Left[k] \in Nat
  BY <1>1 DEF CountedInv
<1> QED BY <1>1, <1>2

\* A link leaves fewer links, or the walks.
LEMMA AcceptMovesOn ==
  ASSUME WInv, MakeIndex, NEW r \in Positions, Accept(r)
  PROVE  Descends(Left, Left')
<1>1. /\ phase = "index" /\ pc = "pick" /\ i' = i + 1
      /\ \/ pc' = "pick" /\ phase' = "index"
         \/ phase' = "store"
      /\ i \in Int /\ CSize \in Int
  BY WalkSizes DEF MakeIndex, Accept, Continue, WInv, IInv, TypeOK
<1>2. CASE phase' = "store"
  <2>1. PhasesLeft = 3 /\ PhasesLeft' = 2
    BY <1>1, <1>2 DEF PhasesLeft
  <2>2. PhasesLeft' < PhasesLeft
    BY <2>1
  <2> QED BY <2>2, LeftFalls
<1>3. CASE pc' = "pick" /\ phase' = "index"
  <2>1. PhasesLeft' = PhasesLeft
    BY <1>1, <1>3 DEF PhasesLeft
  <2>2. LinksLeft = CSize - i /\ LinksLeft' = CSize - (i + 1)
    BY <1>1, <1>3 DEF LinksLeft
  <2>3. LinksLeft' < LinksLeft
    BY <1>1, <2>2
  <2> QED BY <2>1, <2>3, LeftFalls
<1> QED BY <1>1, <1>2, <1>3

\* Another step of init_chasing_index leaves as much, or ends the whole.
LEMMA OtherIndexSteps ==
  ASSUME WInv, MakeIndex, \A r \in Positions : ~Accept(r)
  PROVE  Left' = Left \/ Descends(Left, Left')
<1>1. /\ phase = "index" /\ i' = i
      /\ \/ pc = "done" /\ pc' = "done" /\ phase' = "store"
         \/ pc # "done" /\ pc' = pc /\ phase' = "index"
         \/ pc = "pick" /\ pc' = "failed" /\ phase' = "index"
  BY DEF MakeIndex, Next, NoEntropy, Reject, Returned, vars
<1>2. CASE phase' = "store"
  <2>1. PhasesLeft = 3 /\ PhasesLeft' = 2
    BY <1>1, <1>2 DEF PhasesLeft
  <2>2. PhasesLeft' < PhasesLeft
    BY <2>1
  <2> QED BY <2>2, LeftFalls
<1>3. CASE pc' = pc /\ phase' = "index"
  BY <1>1, <1>3 DEF Left, PhasesLeft, LinksLeft, BlocksLeft, LinesLeft, MakeIndex
<1>4. CASE pc = "pick" /\ pc' = "failed" /\ phase' = "index"
  <2>1. PhasesLeft' = PhasesLeft
    BY <1>1, <1>4 DEF PhasesLeft
  <2>2. i \in 0 .. CSize - 1 /\ CSize \in Nat
    BY WalkSizes DEF WInv, IInv, TypeOK
  <2>3. LinksLeft = CSize - i /\ LinksLeft' = 0
    BY <1>4 DEF LinksLeft
  <2>4. LinksLeft' < LinksLeft
    BY <2>2, <2>3
  <2> QED BY <2>1, <2>4, LeftFalls
<1> QED BY <1>1, <1>2, <1>3, <1>4

\* An access leaves fewer lines of its block, fewer blocks, or the next phase.
LEMMA AccessMovesOn ==
  ASSUME WInv, Store \/ Load
  PROVE  Descends(Left, Left')
<1>1. PICK nxt : Step(nxt)
  BY DEF Store, Load
<1>2. /\ phase \in {"store", "load"} /\ UNCHANGED <<pc, i, size>>
      /\ block \in Int /\ Count \in Int /\ done \in Int /\ size \in Int
  BY <1>1, WalkSizes DEF Store, Load, Step, vars, WInv, WBase, Blocks
<1>3. LinksLeft' = LinksLeft
  BY <1>2 DEF LinksLeft
<1>4. CASE done + 1 < size
  <2>1. done' = done + 1 /\ block' = block /\ phase' = phase
    BY <1>1, <1>4 DEF Step, Again
  <2>2. PhasesLeft' = PhasesLeft /\ BlocksLeft' = BlocksLeft
    BY <2>1 DEF PhasesLeft, BlocksLeft
  <2>3. LinesLeft = size - done /\ LinesLeft' = size - (done + 1)
    BY <1>2, <2>1 DEF LinesLeft
  <2>4. LinesLeft' < LinesLeft
    BY <1>2, <2>3
  <2> QED BY <1>3, <2>2, <2>4, LeftFalls
<1>5. CASE ~(done + 1 < size) /\ block + 1 < Count
  <2>1. block' = block + 1 /\ phase' = phase
    BY <1>1, <1>5 DEF Step, Again
  <2>2. PhasesLeft' = PhasesLeft
    BY <2>1 DEF PhasesLeft
  <2>3. BlocksLeft = Count - block /\ BlocksLeft' = Count - (block + 1)
    BY <1>2, <2>1 DEF BlocksLeft
  <2>4. BlocksLeft' < BlocksLeft
    BY <1>2, <2>3
  <2> QED BY <1>3, <2>2, <2>4, LeftFalls
<1>6. CASE ~(done + 1 < size) /\ ~(block + 1 < Count)
  <2>1. phase' = After(phase)
    BY <1>1, <1>6 DEF Step, Again
  <2>2. \/ PhasesLeft = 2 /\ PhasesLeft' = 1
        \/ PhasesLeft = 1 /\ PhasesLeft' = 0
    BY <1>2, <2>1 DEF PhasesLeft, After
  <2>3. PhasesLeft' < PhasesLeft
    BY <2>2
  <2> QED BY <2>3, LeftFalls
<1> QED BY <1>4, <1>5, <1>6

(***************************************************************************)
(* Whatever the sizes: neither the table nor the walks go round in a       *)
(* circle, so with LoopsComeToRest a run makes finitely many links and     *)
(* accesses.  That a draw can always succeed is DrawCanSucceed.            *)
(***************************************************************************)
THEOREM WalksOnlyMoveOn == WSpec => EveryStepMovesOn
<1> DEFINE Moves ==
      /\ Left \in [1 .. 4 -> Nat]
      /\ Left' # Left => Descends(Left, Left')
      /\ Store \/ Load \/ (\E r \in Positions : Accept(r)) => Left' # Left
<1>1. WInv /\ [WNext]_<<vars, walk>> => [Moves]_<<vars, walk>>
  <2> SUFFICES ASSUME WInv, WNext, <<vars, walk>>' # <<vars, walk>> PROVE Moves
    OBVIOUS
  <2>1. CASE Store \/ Load
    BY <2>1, AccessMovesOn, DescentChanges, Counted DEF CountedInv
  <2>2. CASE MakeIndex /\ \E r \in Positions : Accept(r)
    BY <2>2, AcceptMovesOn, DescentChanges, Counted DEF CountedInv
  <2>3. CASE MakeIndex /\ \A r \in Positions : ~Accept(r)
    <3>1. ~Store /\ ~Load
      BY <2>3 DEF MakeIndex, Store, Load
    <3> QED BY <2>3, <3>1, OtherIndexSteps, Counted DEF CountedInv
  <2> QED BY <2>1, <2>2, <2>3 DEF WNext, Ended
<1>2. WSpec => [][Moves]_<<vars, walk>>
  BY WalkInvariant, <1>1, PTL DEF WSpec
<1> QED BY <1>2 DEF EveryStepMovesOn

=============================================================================
