--------------------------- MODULE RelatedConsumer ---------------------------
(***************************************************************************)
(* The Kafka consumer of the related service, services/related/consumer.py:*)
(* one or more processes of one consumer group apply post events to the    *)
(* post table and commit their offsets by hand, after the database.        *)
(*                                                                         *)
(* A Kafka record is the index of its outbox row, which is what the        *)
(* event_id header carries.  handle() takes two steps, what it reads and   *)
(* what its commit writes: under READ COMMITTED another process may write  *)
(* in between.  The reads of one handler are one snapshot, although two    *)
(* statements of it may see different commits of another member; with one  *)
(* consumer nobody else writes the table, and what the properties of       *)
(* several say turns on processed_events and offsets, not on what a        *)
(* handler has read.                                                       *)
(***************************************************************************)
EXTENDS RelatedTable, Sequences, FiniteSets

CONSTANTS
    Consumers,       \* consumer processes of the group
    Ids,             \* post ids
    Renames,         \* whether an update may carry a new slug
    Partitions,      \* Kafka topic-partitions
    PartitionOf(_),  \* the partition an event's topic and key select
    MaxEvents,       \* bound: events recorded
    MaxRecords,      \* bound: records of one partition
    MaxFaults,       \* bound: faults in a behaviour
    Faults           \* the kinds of fault that may happen

Event == [topic : Topics, id : Ids, slug : Slugs, title : Titles \cup {NoTitle}]

ASSUME ConsumersAssumption == Consumers # {}
ASSUME BoundsAssumption == MaxEvents \in Nat /\ MaxRecords \in Nat /\ MaxFaults \in Nat
ASSUME FaultsAssumption == Faults \subseteq {"crash", "dbError", "rebalance"}
ASSUME PartitionAssumption == \A ev \in Event : PartitionOf(ev) \in Partitions

VARIABLES
    outbox,     \* the rows of posts_outboxevent, for what a record contains
    log,        \* per partition, the records the broker holds
    post,       \* the post table
    processed,  \* the processed_events table
    refused,    \* history: events for which handle() has returned False
    owner,      \* per partition, the group member it is assigned to
    position,   \* per partition, its owner's position: records yielded so far
    committed,  \* per partition, the group's committed offset
    pc,         \* per consumer, where in the loop of main() it is
    msg,        \* per consumer, the record it is handling
    snap,       \* per consumer, the post table its transaction has read
    faults      \* number of faults so far

kafkaVars == <<outbox, log>>
dbVars == <<post, processed>>
groupVars == <<owner, position, committed>>
vars == <<outbox, log, post, processed, refused, owner, position, committed,
          pc, msg, snap, faults>>

Rows == 1..Len(outbox)
NoMessage == [part |-> NoTitle, eid |-> 0]
Tables == UNION {[S -> Row] : S \in SUBSET Ids}

\* What the group and the event bookkeeping range over...
GroupTypeOK ==
    /\ outbox \in Seq(Event)
    /\ log \in [Partitions -> Seq(Rows)]
    /\ processed \in SUBSET Rows
    /\ refused \in SUBSET Rows
    /\ owner \in [Partitions -> Consumers]
    /\ position \in [Partitions -> Nat]
    /\ committed \in [Partitions -> Nat]
    /\ \A p \in Partitions : committed[p] <= position[p] /\ position[p] <= Len(log[p])
    /\ pc \in [Consumers -> {"poll", "read", "write", "commit"}]
    /\ msg \in [Consumers -> [part : Partitions, eid : Rows] \cup {NoMessage}]
    /\ faults \in Nat

\* ... and the tables.
TypeOK ==
    /\ GroupTypeOK
    /\ post \in Tables
    /\ snap \in [Consumers -> Tables]

Init ==
    /\ outbox = <<>>
    /\ log = [p \in Partitions |-> <<>>]
    /\ post = EmptyTable
    /\ processed = {}
    /\ refused = {}
    /\ owner \in [Partitions -> Consumers]
    /\ position = [p \in Partitions |-> 0]
    /\ committed = [p \in Partitions |-> 0]
    /\ pc = [c \in Consumers |-> "poll"]
    /\ msg = [c \in Consumers |-> NoMessage]
    /\ snap = [c \in Consumers |-> EmptyTable]
    /\ faults = 0

Busy(c) == pc[c] # "poll"

Fault(kind) ==
    /\ kind \in Faults
    /\ faults < MaxFaults
    /\ faults' = faults + 1

-----------------------------------------------------------------------------
(* The database transaction of handle(). *)

\* The columns the session found changed are written over the current row.
MergedRow(old, new, cur) ==
    [title   |-> IF new.title = old.title THEN cur.title ELSE new.title,
     slug    |-> IF new.slug = old.slug THEN cur.slug ELSE new.slug,
     related |-> IF new.related = old.related THEN cur.related ELSE new.related]

Inserted(s, n) == DOMAIN n \ DOMAIN s
Deleted(s, n) == DOMAIN s \ DOMAIN n
Dirty(s, n) == {id \in DOMAIN s \cap DOMAIN n : s[id] # n[id]}

\* The table after the session, which read s and changed it to n, has flushed
\* its INSERTs, UPDATEs and DELETEs into the current table.
Flush(s, n) ==
    [id \in (DOMAIN post \ Deleted(s, n)) \cup Inserted(s, n) |->
        IF id \in Inserted(s, n) THEN n[id]
        ELSE IF id \in Dirty(s, n) THEN MergedRow(s[id], n[id], post[id])
        ELSE post[id]]

\* The post table rejects the UPDATEs and INSERTs: its primary key or the index on
\* slug (IntegrityError), or an UPDATE that matches no row (StaleDataError).
PostsRejected(s, n) ==
    \/ Inserted(s, n) \cap DOMAIN post # {}
    \/ ~(Dirty(s, n) \subseteq DOMAIN post)
    \/ ~SlugsUnique(Flush(s, n))

\* Mutant: processed_events has no primary key.
FlushFailsOnPostsOnly(s, n, e) == PostsRejected(s, n)

\* The commit fails on the event_id of processed_events or on the post table.
FlushFails(s, n, e) == e \in processed \/ PostsRejected(s, n)

\* What the handler makes of what it read.
Handled(c) == Handle(snap[c], outbox[msg[c].eid])

-----------------------------------------------------------------------------
(* The loop of main(). *)

\* The iterator yields the next record of a partition and moves the position.
Poll(c, p) ==
    /\ ~Busy(c)
    /\ owner[p] = c
    /\ position[p] < Len(log[p])
    /\ position' = [position EXCEPT ![p] = @ + 1]
    /\ msg' = [msg EXCEPT ![c] = [part |-> p, eid |-> log[p][position[p] + 1]]]
    /\ pc' = [pc EXCEPT ![c] = "read"]
    /\ UNCHANGED <<kafkaVars, dbVars, refused, owner, committed, snap, faults>>

\* handle() finds the event in processed_events and returns True, or reads the
\* posts its handler needs.
Read(c) ==
    /\ pc[c] = "read"
    /\ IF msg[c].eid \in processed
         THEN pc' = [pc EXCEPT ![c] = "commit"] /\ UNCHANGED snap
         ELSE pc' = [pc EXCEPT ![c] = "write"] /\ snap' = [snap EXCEPT ![c] = post]
    /\ UNCHANGED <<kafkaVars, dbVars, refused, groupVars, msg, faults>>

\* db.session.commit() writes the posts and the processed_events row.
Write(c) ==
    /\ pc[c] = "write"
    /\ ~FlushFails(snap[c], Handled(c), msg[c].eid)
    /\ post' = Flush(snap[c], Handled(c))
    /\ processed' = processed \cup {msg[c].eid}
    /\ pc' = [pc EXCEPT ![c] = "commit"]
    /\ snap' = [snap EXCEPT ![c] = EmptyTable]
    /\ UNCHANGED <<kafkaVars, refused, groupVars, msg, faults>>

\* The except clause: rollback, and handle() returns False, so main() goes on to
\* the next message without an offset commit.
Refuse(c) ==
    /\ refused' = refused \cup {msg[c].eid}
    /\ pc' = [pc EXCEPT ![c] = "poll"]
    /\ msg' = [msg EXCEPT ![c] = NoMessage]
    /\ snap' = [snap EXCEPT ![c] = EmptyTable]
    /\ UNCHANGED <<kafkaVars, dbVars, groupVars>>

ApplyFails(c) ==
    /\ pc[c] = "write"
    /\ FlushFails(snap[c], Handled(c), msg[c].eid)
    /\ Refuse(c)
    /\ UNCHANGED faults

\* The database fails, or this transaction is the victim of a deadlock.
DatabaseError(c) ==
    /\ pc[c] \in {"read", "write"}
    /\ Fault("dbError")
    /\ Refuse(c)

\* Mutant: a new member starts at the end of the partition (latest).
ResumeAtEnd(p) == Len(log[p])

\* Mutant: the first record after the committed offset is left out.
ResumeAfter(p) == committed[p] + 1

\* Where a newly assigned partition is read from (auto_offset_reset=earliest
\* when nothing is committed).
ResumeAt(p) == committed[p]

Restart(c) ==
    /\ pc' = [pc EXCEPT ![c] = "poll"]
    /\ msg' = [msg EXCEPT ![c] = NoMessage]
    /\ snap' = [snap EXCEPT ![c] = EmptyTable]

\* Its partitions are read again from the committed offsets.
Rewound(c) == [p \in Partitions |-> IF owner[p] = c THEN ResumeAt(p) ELSE position[p]]

\* consumer.commit() commits the position of every assigned partition.
CommitOffsets(c) ==
    /\ pc[c] = "commit"
    /\ owner[msg[c].part] = c
    /\ committed' = [p \in Partitions |-> IF owner[p] = c THEN position[p] ELSE committed[p]]
    /\ Restart(c)
    /\ UNCHANGED <<kafkaVars, dbVars, refused, owner, position, faults>>

\* The group has moved on without this member: CommitFailedError leaves main()
\* and the container is restarted.
CommitFails(c) ==
    /\ pc[c] = "commit"
    /\ owner[msg[c].part] # c
    /\ Restart(c)
    /\ UNCHANGED <<kafkaVars, dbVars, refused, groupVars, faults>>

\* The process dies at any point, or stops on SIGTERM between two messages, and
\* is restarted.
Crash(c) ==
    /\ Fault("crash")
    /\ Restart(c)
    /\ position' = Rewound(c)
    /\ UNCHANGED <<kafkaVars, dbVars, refused, owner, committed>>

\* A rebalance: members in the middle of a message are too slow to rejoin and
\* are left out; the others start from the committed offsets.
Rebalance ==
    /\ Fault("rebalance")
    /\ owner' \in [Partitions -> {c \in Consumers : ~Busy(c)}]
    /\ position' = [p \in Partitions |-> ResumeAt(p)]
    /\ UNCHANGED <<kafkaVars, dbVars, refused, committed, pc, msg, snap>>

\* One step of consumer c.
ConsumerStep(c) ==
    \/ \E p \in Partitions : Poll(c, p)
    \/ Read(c) \/ Write(c) \/ ApplyFails(c)
    \/ CommitOffsets(c) \/ CommitFails(c)

\* What may happen to the group.
Disturb ==
    \/ \E c \in Consumers : DatabaseError(c) \/ Crash(c)
    \/ Rebalance

ConsumerNext == Disturb \/ \E c \in Consumers : ConsumerStep(c)

-----------------------------------------------------------------------------
(* The records the posts service and the relay send (external here). *)

\* Ids are created once; the other events are of a post that was created, with
\* a slug it has had or, for a rename, with a new one.
MayRecord(ev) ==
    /\ ev.title = NoTitle <=> ev.topic = TopicDeleted
    /\ IF ev.topic = TopicCreated
         THEN \A k \in Rows : outbox[k].id # ev.id
         ELSE \E k \in Rows :
                /\ outbox[k].id = ev.id
                /\ \/ outbox[k].slug = ev.slug
                   \/ Renames /\ ev.topic = TopicUpdated

Deliver(ev) ==
    /\ Len(outbox) < MaxEvents
    /\ Len(log[PartitionOf(ev)]) < MaxRecords
    /\ MayRecord(ev)
    /\ outbox' = Append(outbox, ev)
    /\ log' = [log EXCEPT ![PartitionOf(ev)] = Append(@, Len(outbox) + 1)]
    /\ UNCHANGED <<dbVars, refused, groupVars, pc, msg, snap, faults>>

\* The relay publishes a row once more.
Redeliver(e) ==
    /\ Len(log[PartitionOf(outbox[e])]) < MaxRecords
    /\ log' = [log EXCEPT ![PartitionOf(outbox[e])] = Append(@, e)]
    /\ UNCHANGED <<outbox, dbVars, refused, groupVars, pc, msg, snap, faults>>

Next ==
    \/ \E ev \in Event : Deliver(ev)
    \/ \E e \in Rows : Redeliver(e)
    \/ ConsumerNext

Spec == Init /\ [][Next]_vars

-----------------------------------------------------------------------------
(* Properties. *)

\* No offset is committed past a record that was neither applied nor refused:
\* with members crashing between the database and the offset commit, evicted
\* while busy and starting over, no record is passed over in silence.
CommittedIsHandled ==
    \A p \in Partitions : \A i \in 1..committed[p] : log[p][i] \in processed \cup refused

\* The stronger statement the comments of handle() make: a record that was not
\* applied is not committed, hence redelivered.
CommittedIsApplied ==
    \A p \in Partitions : \A i \in 1..committed[p] : log[p][i] \in processed

\* The effect of an event on the post table happens once, however often the
\* record is delivered and whoever handles it, two members at a time included.
AppliedOnce ==
    [][post' # post => \E e \in Rows \ processed : processed' = processed \cup {e}]_vars

\* The events of the post carry different slugs.
Renamed(id) ==
    \E j, k \in Rows : outbox[j].id = id /\ outbox[k].id = id /\ outbox[j].slug # outbox[k].slug

OldSlugs == {outbox[k].slug : k \in {l \in Rows : Renamed(outbox[l].id)}}

\* A post that was not renamed has its score in every other post, of their
\* current titles, in whatever order the events of the topics arrive.
RelatesBothWays == \A id \in DOMAIN post : ~Renamed(id) => Referenced(post, id)

\* No post refers to a slug that no post has, other than one that a rename has
\* left behind.
ReferencesExist == NoDanglingBut(post, OldSlugs)

=============================================================================
