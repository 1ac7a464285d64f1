----------------------------- MODULE MCLatBench -----------------------------
(* Tables of operations and character offsets for the runs of LatBench. *)
EXTENDS LatBench

\* The table of the program, and tables with the other functions of common.hpp:
\* four lines, flushed or left dirty stores, and the functions without a prelude.
TableOfTheProgram == {bench_func_64byte}
LongTable == <<load_fence(4), store_clwb(4), nstore_fence(4)>>
CachedTable == <<store_fence(2), store_clflush(2), store_fence(4)>>
BareTable == <<baseline, repeat_ntstore(4), repeat_load(4)>>
AllTables == TableOfTheProgram \cup {LongTable, CachedTable, BareTable}

\* A signed char shifted right by six bits.
SignedCharLines == -2 .. 1
NoChar == {0}

AllAsked == {"read", "write-nt", "write-store+clwb"}
=============================================================================
