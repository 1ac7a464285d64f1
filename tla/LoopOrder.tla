------------------------------ MODULE LoopOrder ------------------------------
(***************************************************************************)
(* The order in which nested loops and the stages of a script run down.    *)
(* What a thread has left to do is a tuple of natural numbers, outermost   *)
(* loop first; it descends when a number becomes smaller and all numbers   *)
(* before it stay, whatever the inner loops start again from.              *)
(***************************************************************************)
EXTENDS Naturals

Descends(p, q) ==
  \E i \in DOMAIN p : q[i] < p[i] /\ \A k \in DOMAIN p : k < i => q[k] = p[k]

=============================================================================
