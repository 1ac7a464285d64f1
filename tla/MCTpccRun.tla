------------------------------ MODULE MCTpccRun ------------------------------
(* Configurations for the runs of TpccRun. *)
EXTENDS TpccRun

Ssd == [place |-> "data", wal |-> FALSE, known |-> TRUE]
Pmem == [place |-> "pmem", wal |-> FALSE, known |-> TRUE]
DoubleSsd == [place |-> "data", wal |-> TRUE, known |-> TRUE]
PmemSsd == [place |-> "pmem", wal |-> TRUE, known |-> TRUE]
Unknown == [place |-> "data", wal |-> FALSE, known |-> FALSE]

AllConfigs == {Ssd, Pmem, DoubleSsd, PmemSsd, Unknown}
SsdOnly == {Ssd}
=============================================================================
