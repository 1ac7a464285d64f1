------------------------------ MODULE BwPromise ------------------------------
(***************************************************************************)
(* What a bandwidth measurement promises to whoever reads its figure:      *)
(* every worker completes its warm-up and its Passes timed passes, one at  *)
(* a time and in any order among the workers, and only then is the figure  *)
(* reported.  Once it is, nothing more happens.                            *)
(***************************************************************************)
EXTENDS Naturals

CONSTANTS NumThreads, Passes

VARIABLES
  done,      \* done[w]: passes worker w has completed
  reported   \* the end time has been taken

Init ==
  /\ done = [w \in 0 .. NumThreads - 1 |-> 0]
  /\ reported = FALSE

CompletePass(w) ==
  /\ ~reported /\ done[w] <= Passes
  /\ done' = [done EXCEPT ![w] = @ + 1]
  /\ UNCHANGED reported

Report ==
  /\ ~reported
  /\ \A w \in 0 .. NumThreads - 1 : done[w] = Passes + 1
  /\ reported' = TRUE
  /\ UNCHANGED done

Next == Report \/ \E w \in 0 .. NumThreads - 1 : CompletePass(w)

Safety == Init /\ [][Next]_<<done, reported>>

Spec == Safety /\ WF_<<done, reported>>(Next)

=============================================================================
