--------------------------- MODULE MCOutboxRelay ---------------------------
(* Instances of OutboxRelay for TLC. *)
EXTENDS OutboxRelay

\* Every key has a partition of its own, or all keys share one.
MCPartitionEach(ev) == ev
MCPartitionOne(ev) == CHOOSE p \in Partitions : TRUE

=============================================================================
