------------------------------ MODULE MCPipeline ------------------------------
(* Instances of Pipeline for TLC. *)
EXTENDS Pipeline

CONSTANTS plain, other

MCTitles == {plain, other}
MCClean(title) == title
MCStrip(title) == title
MCIds == 1..MaxRequests

\* Topics with a single partition each, the broker's default.
MCPartitionOf(ev) == ev.topic

=============================================================================
