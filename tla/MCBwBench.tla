------------------------------ MODULE MCBwBench ------------------------------
(***************************************************************************)
(* Model checking of BwBench, and the figure the measurement reports.      *)
(***************************************************************************)
EXTENDS BwBench, FiniteSetsExt

\* Lines touched between the begin and the end time.
TimedLines == MapThenSumSet(LAMBDA l : hits[l], Lines)

\* num_threads*100*2 in gigabytes: each timed pass counted as one workset.
ReportedLines == NumThreads * Passes * Workset

(***************************************************************************)
(* "each thread writes 2GB" (benchmark.cc:205): the volume the bandwidth   *)
(* is computed from is the volume moved between the two clock readings.    *)
(***************************************************************************)
ReportIsTimedVolume == mainpc = "done" => TimedLines = ReportedLines

=============================================================================
