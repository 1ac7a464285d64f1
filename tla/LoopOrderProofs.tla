--------------------------- MODULE LoopOrderProofs ---------------------------
(***************************************************************************)
(* Theorems about LoopOrder: loops that only run down come to a rest.      *)
(***************************************************************************)
EXTENDS LoopOrder, WellFoundedInduction, TLAPS

\* The order of the library's theorem on n loops.
Below(n) == LexProductOrdering(OpToRel(<, Nat), Nat, n)

\* Descending is going below.
LEMMA DescendsIsBelow ==
  ASSUME NEW n \in Nat, NEW p \in [1 .. n -> Nat], NEW q \in [1 .. n -> Nat],
         Descends(p, q)
  PROVE  <<q, p>> \in Below(n)
<1>1. PICK i \in 1 .. n : q[i] < p[i] /\ \A k \in 1 .. n : k < i => q[k] = p[k]
  BY DEF Descends
<1>2. <<q[i], p[i]>> \in OpToRel(<, Nat)
  BY <1>1 DEF OpToRel
<1>3. \A k \in 1 .. (i - 1) : q[k] = p[k]
  BY <1>1
<1>4. <<q, p>> \in [1 .. n -> Nat] \X [1 .. n -> Nat]
  OBVIOUS
<1> QED BY <1>2, <1>3, <1>4 DEF Below, LexProductOrdering

\* A set of natural numbers that is not empty has a least element.
LEMMA LeastOf ==
  ASSUME NEW T, T \subseteq Nat, T # {}
  PROVE  \E x \in T : \A y \in T : x <= y
<1>1. PICK x \in T : \A y \in T : ~ (<<y, x>> \in OpToRel(<, Nat))
  BY NatLessThanWellFounded, WFMin
<1>2. \A y \in T : ~ (y < x)
  BY <1>1 DEF OpToRel
<1> QED BY <1>2

\* Two loops descend when one does.
LEMMA TwoLoops ==
  ASSUME NEW a \in Nat, NEW b \in Nat, NEW p \in Nat, NEW q \in Nat,
         \/ p < a
         \/ p = a /\ q < b
  PROVE  Descends(<<a, b>>, <<p, q>>)
BY DEF Descends

\* Tuples of natural numbers are what LoopsComeToRest is about.
LEMMA CountersOf ==
  ASSUME NEW a \in Nat, NEW b \in Nat, NEW c \in Nat, NEW d \in Nat, NEW e \in Nat
  PROVE  /\ <<a, b>> \in [1 .. 2 -> Nat]
         /\ <<a, b, c>> \in [1 .. 3 -> Nat]
         /\ <<a, b, c, d>> \in [1 .. 4 -> Nat]
         /\ <<a, b, c, d, e>> \in [1 .. 5 -> Nat]
OBVIOUS

(***************************************************************************)
(* A thread that only ever runs down does so finitely often: from some     *)
(* point of any infinite sequence on, it does not move.                    *)
(***************************************************************************)
THEOREM LoopsComeToRest ==
  ASSUME NEW n \in Nat, NEW left \in [Nat -> [1 .. n -> Nat]],
         \A t \in Nat : left[t + 1] = left[t] \/ Descends(left[t], left[t + 1])
  PROVE  \E m \in Nat : \A t \in Nat : t >= m => left[t] = left[m]
<1> DEFINE Seen == {left[t] : t \in Nat}
<1>1. IsWellFoundedOn(Below(n), [1 .. n -> Nat])
  BY NatLessThanWellFounded, WFLexProductOrdering DEF Below
<1>2. Seen \subseteq [1 .. n -> Nat] /\ Seen # {}
  <2>1. left[0] \in Seen
    OBVIOUS
  <2> QED BY <2>1
<1>3. PICK x \in Seen : \A y \in Seen : ~ (<<y, x>> \in Below(n))
  <2> HIDE DEF Seen
  <2> QED BY <1>1, <1>2, WFMin
<1>4. PICK m \in Nat : left[m] = x
  OBVIOUS
<1>5. ASSUME NEW late \in Nat, late >= m, left[late] # left[m]
      PROVE  FALSE
  <2> DEFINE Moved == {t \in Nat : t >= m /\ left[t] # left[m]}
  <2>1. Moved \subseteq Nat /\ Moved # {}
    BY <1>5
  <2>2. PICK t \in Moved : \A s \in Moved : t <= s
    <3> HIDE DEF Moved
    <3> QED BY <2>1, LeastOf
  <2>3. t - 1 \in Nat /\ t - 1 >= m /\ t - 1 \notin Moved
    <3>1. t \in Nat /\ t >= m /\ t # m
      OBVIOUS
    <3> QED BY <3>1, <2>2
  <2>4. left[t - 1] = left[m] /\ left[(t - 1) + 1] = left[t]
    BY <2>3
  <2>5. Descends(left[m], left[t])
    BY <2>3, <2>4
  <2>6. <<left[t], left[m]>> \in Below(n)
    BY <2>5, DescendsIsBelow
  <2> QED BY <2>6, <1>3, <1>4
<1> QED BY <1>5

=============================================================================
