------------------------------- MODULE Pipeline -------------------------------
(***************************************************************************)
(* The system end to end: PostsApi writes posts and outbox rows, the relay *)
(* moves the rows to Kafka, RelatedConsumer applies the records.  Of the   *)
(* relay only what OutboxRelay is shown to provide is used: committed rows *)
(* are appended at least once, a key's creates and its updates in row      *)
(* order.  Deletes of one slug may come in any order, which is more than   *)
(* RowOrderKept allows: there only overlapping ones do.                    *)
(***************************************************************************)
EXTENDS RelatedConsumer

CONSTANTS
    Workers,      \* gunicorn workers of the posts service
    Operations,   \* the requests clients send
    MaxRequests,  \* bound: requests that pass their first read
    MaxCopies     \* bound: times a row is published

\* What PostsApi assumes; every id it may give out is one of Ids; and a record's
\* partition is chosen by its key.
ASSUME RequestsAssumption ==
    /\ Operations \subseteq {"create", "update", "destroy"}
    /\ MaxRequests \in Nat /\ Renames \in BOOLEAN
    /\ 1..MaxRequests \subseteq Ids
ASSUME KeyAssumption ==
    \A a, b \in Event : a.topic = b.topic /\ a.slug = b.slug => PartitionOf(a) = PartitionOf(b)

VARIABLES posts, nextId, task, requests

Api == INSTANCE PostsApi

apiVars == <<posts, nextId, task, requests>>
consumerVars == <<post, processed, refused, owner, position, committed, pc, msg,
                  snap, faults>>
pipelineVars == <<apiVars, outbox, log, consumerVars>>

PipelineInit ==
    /\ Init
    /\ Api!Init

-----------------------------------------------------------------------------

Copies(e) ==
    LET p == PartitionOf(outbox[e]) IN Cardinality({i \in 1..Len(log[p]) : log[p][i] = e})

\* Rows of the same topic and key.
SameKey(e, f) == outbox[e].topic = outbox[f].topic /\ outbox[e].slug = outbox[f].slug

\* An earlier row f whose record comes before the first one of row e.
MustFollow(e, f) == SameKey(e, f) /\ outbox[e].topic # TopicDeleted

\* A request handler of the posts service takes a step.
ApiStep ==
    /\ Api!Next
    /\ UNCHANGED <<log, consumerVars>>

\* The relay has the broker append a row, for the first time or again.
Publish(e) ==
    /\ Copies(e) < MaxCopies
    /\ \A f \in 1..(e - 1) : MustFollow(e, f) => Copies(f) > 0
    /\ log' = [log EXCEPT ![PartitionOf(outbox[e])] = Append(@, e)]
    /\ UNCHANGED <<apiVars, outbox, consumerVars>>

\* The consumer group takes a step.
GroupStep ==
    /\ ConsumerNext
    /\ UNCHANGED apiVars

PipelineNext ==
    \/ ApiStep
    \/ \E e \in Rows : Publish(e)
    \/ GroupStep

PipelineSpec == PipelineInit /\ [][PipelineNext]_pipelineVars

\* The relay publishes every row at least once (EventuallyPublished of
\* OutboxRelay) and consumers keep going; clients and faults owe nothing.
PipelineFairness ==
    /\ WF_pipelineVars(\E e \in Rows : Copies(e) = 0 /\ Publish(e))
    /\ \A c \in Consumers : WF_pipelineVars(ConsumerStep(c) /\ UNCHANGED apiVars)

FairPipelineSpec == PipelineSpec /\ PipelineFairness

-----------------------------------------------------------------------------
(* Properties. *)

\* Every recorded event is in Kafka, and every record has been handled.
Quiet ==
    /\ \A e \in Rows : Copies(e) > 0
    /\ \A p \in Partitions : position[p] = Len(log[p])
    /\ \A c \in Consumers : ~Busy(c)

\* The related service has the posts of the posts service.
Converged ==
    /\ DOMAIN post = DOMAIN posts
    /\ \A id \in DOMAIN posts :
           post[id].slug = posts[id].slug /\ post[id].title = posts[id].title

Agree == Converged /\ Mutual(post) /\ NoDangling(post)

\* Once all events have travelled, both services have the same posts and the
\* related scores are those of the current titles, whatever was duplicated,
\* replayed or handled before an event of another topic it depends on...
AgreeWhenQuiet == Quiet => Agree

Deleting == \E e \in Rows : outbox[e].topic = TopicDeleted

\* ... which is so as long as no delete has been recorded.
ConvergesWhenQuiet == Quiet /\ ~Deleting => Agree

\* Without deletes the copies do become equal, and stay so once clients are done.
EventuallyConverges == <>[](Deleting \/ Converged)

=============================================================================
