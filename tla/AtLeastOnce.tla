----------------------------- MODULE AtLeastOnce -----------------------------
(***************************************************************************)
(* What an outbox relay promises, with nothing of how it gets there:       *)
(* committed rows reach their partition one or more times, and a row is    *)
(* confirmed only when its partition holds it.                             *)
(***************************************************************************)
EXTENDS Integers, Sequences

CONSTANTS Events, Partitions, PartitionOf(_)

VARIABLES outbox, visible, published, log

absVars == <<outbox, visible, published, log>>

Delivered == {e \in visible :
                \E i \in 1..Len(log[PartitionOf(outbox[e])]) :
                    log[PartitionOf(outbox[e])][i] = e}

Init ==
    /\ outbox = <<>>
    /\ visible = {}
    /\ published = {}
    /\ log = [p \in Partitions |-> <<>>]

Record ==
    /\ \E ev \in Events : outbox' = Append(outbox, ev)
    /\ UNCHANGED <<visible, published, log>>

\* A row whose transaction writes nothing else the relay could see in between.
RecordCommitted ==
    /\ \E ev \in Events : outbox' = Append(outbox, ev)
    /\ visible' = visible \cup {Len(outbox) + 1}
    /\ UNCHANGED <<published, log>>

Commit ==
    /\ \E e \in 1..Len(outbox) : visible' = visible \cup {e}
    /\ UNCHANGED <<outbox, published, log>>

Deliver ==
    /\ \E e \in visible :
           log' = [log EXCEPT ![PartitionOf(outbox[e])] = Append(@, e)]
    /\ UNCHANGED <<outbox, visible, published>>

Confirm ==
    /\ \E S \in SUBSET Delivered : published' = published \cup S
    /\ UNCHANGED <<outbox, visible, log>>

Next == Record \/ RecordCommitted \/ Commit \/ Deliver \/ Confirm

Spec == Init /\ [][Next]_absVars

=============================================================================
