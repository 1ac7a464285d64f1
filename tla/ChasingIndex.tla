---------------------------- MODULE ChasingIndex ----------------------------
(***************************************************************************)
(* init_chasing_index and get_rand (memaccess.cc): a table of CSize        *)
(* entries, zeroed first, is turned into one cycle through all of them by  *)
(* drawing random successors.  0 means "no successor yet", and it is also  *)
(* the successor that closes the cycle.                                    *)
(***************************************************************************)
EXTENDS Integers

CONSTANTS CSize,     \* csize: entries of the table
          MaxRetry   \* RDRAND_MAX_RETRY: how often one rdrand is tried

\* The callers of the original suite build tables of two lines and more;
\* csize - 1 is unsigned, so an empty table would run the loop 2^64 - 1 times.
ASSUME IndexAssumption ==
  /\ CSize \in Nat /\ CSize >= 1
  /\ MaxRetry \in Nat /\ MaxRetry >= 1

Positions == 0 .. CSize - 1

VARIABLES pc,      \* "pick", "failed" (returned 1) or "done" (returned 0)
          cindex,  \* the table
          curr,    \* curr_pos
          i,       \* links made
          tries    \* i of get_rand: rdrand attempts that found no entropy

vars == <<pc, cindex, curr, i, tries>>

\* Mutated: the loop bound is csize.
ContinueOnceMore(n) == IF n < CSize THEN "pick" ELSE "done"

\* Mutated: the loop bound is csize - 2.
ContinueOnceLess(n) == IF n < CSize - 2 THEN "pick" ELSE "done"

\* The loop head: are there links left to make?
Continue(n) == IF n < CSize - 1 THEN "pick" ELSE "done"

\* memset; the loop does not run for a table of one entry.
Init ==
  /\ pc = Continue(0)
  /\ cindex = [p \in Positions |-> 0]
  /\ curr = 0
  /\ i = 0
  /\ tries = 0

\* The loop of get_rand: is there an attempt left after t + 1 failures?
RetryAgain(t) == t + 1 < MaxRetry

\* rdrand had no entropy; the last of MaxRetry failures is returned as 1.
NoEntropy ==
  /\ pc = "pick"
  /\ IF RetryAgain(tries)
     THEN tries' = tries + 1 /\ pc' = pc
     ELSE tries' = tries /\ pc' = "failed"
  /\ UNCHANGED <<cindex, curr, i>>

\* Mutated: the current position is not excluded.
UsableIfUnlinked(r) == cindex[r] = 0

\* The condition of the do-while is false: r is a position nothing links yet.
Usable(r) == cindex[r] = 0 /\ r # curr

\* rdrand succeeds with r, which is drawn again ...
Reject(r) ==
  /\ pc = "pick" /\ ~Usable(r)
  /\ tries' = 0
  /\ UNCHANGED <<pc, cindex, curr, i>>

\* ... or linked behind the current position.
Accept(r) ==
  /\ pc = "pick" /\ Usable(r)
  /\ cindex' = [cindex EXCEPT ![curr] = r]
  /\ curr' = r
  /\ i' = i + 1
  /\ tries' = 0
  /\ pc' = Continue(i + 1)

Returned == pc \in {"failed", "done"} /\ UNCHANGED vars

Next ==
  \/ NoEntropy
  \/ \E r \in Positions : Reject(r) \/ Accept(r)
  \/ Returned

\* The processor's random numbers reach every position again and again: a
\* position that stays usable is drawn some time.
Spec == Init /\ [][Next]_vars /\ \A r \in Positions : WF_vars(Accept(r))

-----------------------------------------------------------------------------
\* Every variable has its type, in memaccess.cc:629-651.
TypeOK ==
  /\ pc \in {"pick", "failed", "done"}
  /\ cindex \in [Positions -> Positions]
  /\ curr \in Positions
  /\ i \in 0 .. CSize - 1
  /\ tries \in 0 .. MaxRetry - 1

\* walk is the simple path of the i links made so far: it starts at line 0, ends
\* at curr_pos, meets no line twice, and nothing off it is linked.
PathSoFar(walk) ==
  /\ walk[0] = 0 /\ walk[i] = curr
  /\ \A m, n \in 0 .. i : walk[m] = walk[n] => m = n
  /\ \A m \in 0 .. i - 1 : cindex[walk[m]] = walk[m + 1]
  /\ \A p \in Positions : cindex[p] # 0 => \E m \in 0 .. i - 1 : p = walk[m]

\* While links are being made, and also when get_rand gives up half-way, the
\* table is one simple path (memaccess.cc:638-648).
SimplePath == \E walk \in [0 .. i -> Positions] : PathSoFar(walk)

\* The finished table is a single cycle: some walk from line 0 follows the
\* table, meets every line exactly once, and the last line leads back to 0,
\* because it keeps the 0 that memset left there (memaccess.cc:636).
SingleCycle ==
  pc = "done" =>
    \E walk \in [Positions -> Positions] :
      /\ walk[0] = 0
      /\ \A m, n \in Positions : walk[m] = walk[n] => m = n
      /\ \A p \in Positions : \E m \in Positions : walk[m] = p
      /\ \A m \in Positions :
           cindex[walk[m]] = IF m = CSize - 1 THEN 0 ELSE walk[m + 1]

\* While links are missing there is a line left that the do-while accepts: the
\* rejection loop can always leave (memaccess.cc:640-644).
UsableLineLeft == pc = "pick" => \E r \in Positions : Usable(r)

\* A link, once made, is never changed: a later draw cannot cut the path.
LinksStay ==
  [][\A p \in Positions : cindex[p] # 0 => cindex'[p] = cindex[p]]_vars
=============================================================================
