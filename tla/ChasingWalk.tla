----------------------------- MODULE ChasingWalk -----------------------------
(***************************************************************************)
(* Pointer chasing end to end: init_chasing_index makes the table,         *)
(* chasing_storeclwb writes it into blocks of the region, walking it, and  *)
(* chasing_loadnt walks the blocks by the pointers it finds in memory.     *)
(* Addresses are in cache lines; a line holds the pointer in its first     *)
(* eight bytes.  Both loops test after the body.  The fence macros between *)
(* blocks are empty in this code (memaccess.cc:30-31), so nothing is said  *)
(* about when the blocks become durable.                                   *)
(***************************************************************************)
EXTENDS ChasingIndex, LoopOrder

CONSTANTS Sizes,   \* lines walked per block, size / 64
          Skip,    \* lines between the starts of two blocks, skip / 64
          Count    \* blocks, the parameter count

\* Blocks do not overlap: a line stored for two blocks holds one pointer only.
ASSUME WalkAssumption ==
  /\ \A s \in Sizes : s \in Nat /\ s >= 1
  /\ Skip \in Nat /\ Skip >= CSize
  /\ Count \in Nat /\ Count >= 1

Lines == 0 .. Skip * (Count - 1) + CSize - 1

\* What a line that no store of this run has written may point to.
Stale == CSize

VARIABLES phase,   \* "store" or "load" once the table is there, then "end"
          size,    \* accesssize
          block,   \* r11: blocks finished, whose start r8 is block * Skip
          done,    \* r10: lines of the block walked
          pos,     \* r12: the position in the table
          mem,     \* the pointer each line holds
          visits   \* visits[ph][l]: how often phase ph accessed line l

walk == <<phase, size, block, done, pos, mem, visits>>

WInit ==
  /\ Init
  /\ phase = "index"
  /\ size \in Sizes
  /\ block = 0 /\ done = 0 /\ pos = 0
  /\ mem = [l \in Lines |-> Stale]
  /\ visits = [ph \in {"store", "load"} |-> [l \in Lines |-> 0]]

\* One step of init_chasing_index; the walks follow a table that it returned.
MakeIndex ==
  /\ phase = "index" /\ Next
  /\ phase' = IF pc' = "done" THEN "store" ELSE phase
  /\ UNCHANGED <<size, block, done, pos, mem, visits>>

\* r9 + r12 * 64.
Here == block * Skip + pos

After(ph) == IF ph = "store" THEN "load" ELSE "end"

\* Mutated: the load loop runs one line longer than the store loop.
AgainLoadOneMore(d) == IF phase = "load" THEN d < size ELSE d + 1 < size

\* cmp accesssize: is there another line of the block after d + 1 of them?
Again(d) == d + 1 < size

\* The ends of the two loops, after the line at pos was accessed and next read
\* from it: xor r10 and r12, add skip, inc r11, cmp count.
Step(next) ==
  /\ visits' = [visits EXCEPT ![phase][Here] = @ + 1]
  /\ IF Again(done)
     THEN done' = done + 1 /\ pos' = next /\ UNCHANGED <<block, phase>>
     ELSE /\ done' = 0 /\ pos' = 0
          /\ IF block + 1 < Count
             THEN block' = block + 1 /\ phase' = phase
             ELSE block' = 0 /\ phase' = After(phase)
  /\ UNCHANGED <<size, vars>>

\* Mutated: the line gets its own position instead of its successor.
StoredPosition == pos

\* What chasing_storeclwb writes into the line at pos, and follows.
Stored == cindex[pos]

Store ==
  /\ phase = "store"
  /\ mem' = [mem EXCEPT ![Here] = Stored]
  /\ Step(cindex[pos])

Load ==
  /\ phase = "load"
  /\ UNCHANGED mem
  /\ Step(mem[Here])

Ended == (phase = "end" \/ pc = "failed") /\ UNCHANGED <<vars, walk>>

WNext == MakeIndex \/ Store \/ Load \/ Ended

WSpec ==
  /\ WInit /\ [][WNext]_<<vars, walk>>
  /\ \A r \in Positions : WF_<<vars, walk>>(MakeIndex /\ Accept(r))
  /\ WF_<<vars, walk>>(Store) /\ WF_<<vars, walk>>(Load)

-----------------------------------------------------------------------------
\* The walk never follows a pointer that this run did not store: it stays in
\* its block although it trusts what memory holds (memaccess.cc:696-711).
NoStrayPointer == phase = "load" => mem[Here] \in Positions

\* When the walks are over, the loads have accessed exactly the lines that the
\* stores have, equally often (the two loops of memaccess.cc:653-716 agree).
LoadsRetraceStores == phase = "end" => visits["load"] = visits["store"]

\* A walk of csize lines accesses every line of every block once: no line is
\* served twice from a cache, and none is left out.
FullWalkMeetsEveryLine ==
  phase = "end" /\ size = CSize =>
    \A b \in 0 .. Count - 1 : \A p \in Positions : visits["load"][b * Skip + p] = 1

\* A walk shorter than the table accesses no line twice, in any block.
NoLineTwice ==
  size <= CSize => \A ph \in {"store", "load"} : \A l \in Lines : visits[ph][l] <= 1

\* A table that was built is walked to the end.
WalksEnd == <>(phase = "end" \/ pc = "failed")

(***************************************************************************)
(* What is left to do: the phases, the links, and what the two loops have  *)
(* still to count.                                                         *)
(***************************************************************************)
PhasesLeft == CASE phase = "index" -> 3 [] phase = "store" -> 2 [] phase = "load" -> 1 [] OTHER -> 0

LinksLeft == IF pc = "pick" THEN CSize - i ELSE 0

BlocksLeft == IF phase \in {"store", "load"} THEN Count - block ELSE 0

LinesLeft == IF phase \in {"store", "load"} THEN size - done ELSE 0

Left == << PhasesLeft, LinksLeft, BlocksLeft, LinesLeft >>

(***************************************************************************)
(* Nothing goes round in a circle: each link and each access leaves less   *)
(* to do, and a position that is drawn again, or a failed rdrand, undoes   *)
(* nothing (memaccess.cc:629-716).                                         *)
(***************************************************************************)
EveryStepMovesOn ==
  [][/\ Left \in [1 .. 4 -> Nat]
     /\ Left' # Left => Descends(Left, Left')
     /\ Store \/ Load \/ (\E r \in Positions : Accept(r)) => Left' # Left]_<<vars, walk>>
=============================================================================
