----------------------------- MODULE OutboxRelay -----------------------------
(***************************************************************************)
(* The outbox relay, services/relay/relay.py: one or more processes move   *)
(* rows of posts_outboxevent into Kafka.  Each pass is one database        *)
(* transaction: claim a batch FOR UPDATE SKIP LOCKED, hand every row to    *)
(* the producer, wait for the broker, mark the acknowledged rows.          *)
(*                                                                         *)
(* A row is named by its index in outbox (its created_at order); the index *)
(* also stands for the UUID the relay sends as the event_id header, so a   *)
(* Kafka record is the index of the row it was published from.             *)
(* created_at is taken inside the API's transaction, so rows of different  *)
(* posts may become visible in another order; writes to one post wait for  *)
(* each other on its row lock.  The exception is a destroy: one that finds *)
(* its post gone locks nothing, and one whose post was renamed after it    *)
(* was read records the old slug, so rows of topic posts_post_deleted may  *)
(* be open beside each other under the same key.                           *)
(***************************************************************************)
EXTENDS Integers, Sequences, FiniteSets

CONSTANTS
    Relays,          \* relay processes
    Events,          \* a row's topic and key, all the relay looks at
    Deletes,         \* those of them of the topic posts_post_deleted
    Partitions,      \* Kafka topic-partitions
    PartitionOf(_),  \* the partition a row's topic and key select
    BatchSize,       \* RELAY_BATCH_SIZE
    MaxEvents,       \* bound: rows the API inserts
    MaxFaults,       \* bound: faults in a behaviour
    MaxStops,        \* bound: SIGTERMs in a behaviour
    Faults           \* the kinds of fault that may happen

FaultKinds == {"ackLost", "sendFails", "passFails", "crash", "connLost"}

ASSUME BatchSizeAssumption == BatchSize \in Nat \ {0}
ASSUME BoundsAssumption == MaxEvents \in Nat /\ MaxFaults \in Nat /\ MaxStops \in Nat
ASSUME FaultsAssumption == Faults \subseteq FaultKinds
ASSUME DeletesAssumption == Deletes \subseteq Events
ASSUME PartitionAssumption == \A ev \in Events : PartitionOf(ev) \in Partitions

VARIABLES
    outbox,     \* the rows in created_at order
    open,       \* rows whose API transaction has not ended
    visible,    \* rows whose API transaction has committed
    overlapped, \* history: pairs <<e, f>> of one topic and key, f recorded
                \* while the transaction of e was open
    published,  \* rows whose published_at is set
    log,        \* per partition, the records the broker has appended
    batch,      \* per relay, the rows its open transaction has locked
    unsent,     \* per relay, the rows of the batch not yet given to send()
    acked,      \* per relay, the rows whose future has succeeded
    failed,     \* per relay, the rows whose future raised KafkaError
    late,       \* per relay, the rows a pass whose connection is gone has not
                \* yet given to send()
    queue,      \* per relay and partition, what the producer still has to send
    conn,       \* per relay, whether its database connection is usable
    running,    \* per relay, _running
    faults,     \* number of faults so far
    stops       \* number of SIGTERMs so far

apiVars == <<outbox, open, visible, overlapped>>
passVars == <<batch, unsent, acked, failed, late>>
procVars == <<conn, running>>
vars == <<outbox, open, visible, overlapped, published, log, batch, unsent, acked, failed,
          late, queue, conn, running, faults, stops>>

Rows == 1..Len(outbox)
TopicPartition(e) == PartitionOf(outbox[e])

\* A queued record; live is FALSE once the pass that sent it has given up on
\* its future (the record stays in the producer's buffer all the same).
QueueEntry == [eid : Nat, live : BOOLEAN]
EmptyQueue == [p \in Partitions |-> <<>>]

TypeOK ==
    /\ outbox \in Seq(Events)
    /\ open \in SUBSET Rows
    /\ visible \in SUBSET Rows
    /\ overlapped \in SUBSET (Rows \X Rows)
    /\ published \in SUBSET visible
    /\ log \in [Partitions -> Seq(Nat)]
    /\ batch \in [Relays -> SUBSET visible]
    /\ unsent \in [Relays -> SUBSET visible]
    /\ acked \in [Relays -> SUBSET visible]
    /\ failed \in [Relays -> SUBSET visible]
    /\ late \in [Relays -> SUBSET visible]
    /\ queue \in [Relays -> [Partitions -> Seq(QueueEntry)]]
    /\ conn \in [Relays -> BOOLEAN]
    /\ running \in [Relays -> BOOLEAN]
    /\ faults \in Nat
    /\ stops \in Nat

Init ==
    /\ outbox = <<>>
    /\ open = {}
    /\ visible = {}
    /\ overlapped = {}
    /\ published = {}
    /\ log = [p \in Partitions |-> <<>>]
    /\ batch = [r \in Relays |-> {}]
    /\ unsent = [r \in Relays |-> {}]
    /\ acked = [r \in Relays |-> {}]
    /\ failed = [r \in Relays |-> {}]
    /\ late = [r \in Relays |-> {}]
    /\ queue = [r \in Relays |-> EmptyQueue]
    /\ conn = [r \in Relays |-> TRUE]
    /\ running = [r \in Relays |-> TRUE]
    /\ faults = 0
    /\ stops = 0

-----------------------------------------------------------------------------
(* The rows a claim may take, and the choices a pass makes over them. *)

\* Rows some open transaction holds a row lock on.
Locked == UNION {batch[r] : r \in Relays}

\* Mutant: a plain FOR UPDATE-less SELECT, so two relays take the same rows.
ClaimableIgnoringLocks == visible \ published
\* Mutant: the relay also reads rows whose transaction is still open.
ClaimableUncommitted == (Rows \ published) \ Locked
\* Mutant: a cursor instead of published_at IS NULL, so a failed row is passed.
ClaimableAfterLast == {e \in visible \ Locked : \A f \in published : f < e}

\* WHERE published_at IS NULL ... FOR UPDATE SKIP LOCKED
Claimable == (visible \ published) \ Locked

\* ORDER BY created_at LIMIT n
Oldest(S, n) == {e \in S : Cardinality({f \in S : f < e}) < n}

\* Mutant: the batch handed to the producer newest first.
NewestOf(S) == {e \in S : \A f \in S : f <= e}

\* The next row of the for loop of publish_batch, of the rows S it has left.
NextToSend(S) == {e \in S : \A f \in S : e <= f}

\* Every future of the pass is done, so flush() and the get() loop return.
Resolved(r) == unsent[r] = {} /\ batch[r] \subseteq acked[r] \cup failed[r]

\* Mutant: the whole batch is marked, delivered or not.
DeliveredOrNot(r) == batch[r]

\* What publish_batch returns.
Delivered(r) == acked[r]

-----------------------------------------------------------------------------
(* Faults are gated by kind and by the bound on their number. *)

Fault(kind) ==
    /\ kind \in Faults
    /\ faults < MaxFaults
    /\ faults' = faults + 1

\* The end of conn.transaction(): the row locks are released and the pass's
\* bookkeeping is gone.
EndPass(r) ==
    /\ batch' = [batch EXCEPT ![r] = {}]
    /\ unsent' = [unsent EXCEPT ![r] = {}]
    /\ acked' = [acked EXCEPT ![r] = {}]
    /\ failed' = [failed EXCEPT ![r] = {}]

\* What is queued in the producer outlives the pass, but no future of a later
\* pass is resolved by it.
Orphaned(q) == [p \in Partitions |->
                  [i \in 1..Len(q[p]) |-> [eid |-> q[p][i].eid, live |-> FALSE]]]

-----------------------------------------------------------------------------
(* The actions. *)

\* record_event inside an API transaction.  The transaction holds the row lock
\* of its post, so no other one is open on the same key, unless it is a destroy:
\* its post.delete() may find no row to lock, or a post of another slug by now.
RecordEvent(ev) ==
    /\ Len(outbox) < MaxEvents
    /\ ev \in Deletes \/ \A e \in open : outbox[e] # ev
    /\ outbox' = Append(outbox, ev)
    /\ open' = open \cup {Len(outbox) + 1}
    /\ overlapped' = overlapped \cup {e \in open : outbox[e] = ev} \X {Len(outbox) + 1}
    /\ UNCHANGED <<visible, published, log, passVars, queue, procVars, faults, stops>>

\* The API's transaction commits, or rolls back and the row is never seen.
EndTransaction(e, commits) ==
    /\ e \in open
    /\ open' = open \ {e}
    /\ visible' = IF commits THEN visible \cup {e} ELSE visible
    /\ UNCHANGED <<outbox, overlapped, published, log, passVars, queue, procVars, faults,
                   stops>>

\* run_once opens its transaction and claim_batch returns rows.  A pass that
\* finds none returns 0 and sleeps, which changes nothing.
ClaimBatch(r) ==
    /\ running[r] /\ conn[r] /\ batch[r] = {}
    /\ Claimable # {}
    /\ batch' = [batch EXCEPT ![r] = Oldest(Claimable, BatchSize)]
    /\ unsent' = [unsent EXCEPT ![r] = Oldest(Claimable, BatchSize)]
    /\ UNCHANGED <<apiVars, published, log, acked, failed, late, queue, procVars,
                   faults, stops>>

\* producer.send() of one row: it goes to the buffer of its partition.
Buffer(r, e, live) ==
    queue' = [queue EXCEPT ![r][TopicPartition(e)] = Append(@, [eid |-> e, live |-> live])]

Send(r) ==
    /\ \E e \in NextToSend(unsent[r]) :
       /\ unsent' = [unsent EXCEPT ![r] = @ \ {e}]
       /\ Buffer(r, e, TRUE)
    /\ UNCHANGED <<apiVars, published, log, batch, acked, failed, late, procVars,
                   faults, stops>>

\* publish_batch does not use the connection: after its loss the loop sends the
\* rest of the batch, in a pass that can no longer mark anything.
SendLate(r) ==
    /\ \E e \in NextToSend(late[r]) :
       /\ late' = [late EXCEPT ![r] = @ \ {e}]
       /\ Buffer(r, e, FALSE)
    /\ UNCHANGED <<apiVars, published, log, batch, unsent, acked, failed, procVars,
                   faults, stops>>

\* The broker appends the record at the head of a partition's buffer.
AppendHead(r, p) ==
    /\ queue[r][p] # <<>>
    /\ log' = [log EXCEPT ![p] = Append(@, Head(queue[r][p]).eid)]

\* The future of the head record is resolved and the next one moves up
\* (max_in_flight_requests_per_connection=1: nothing overtakes the head).
ResolveHead(r, p, result) ==
    result' = IF Head(queue[r][p]).live
                THEN [result EXCEPT ![r] = @ \cup {Head(queue[r][p]).eid}]
                ELSE result

\* The broker appends the record and its acknowledgement arrives.
Acknowledge(r, p) ==
    /\ AppendHead(r, p)
    /\ ResolveHead(r, p, acked)
    /\ queue' = [queue EXCEPT ![r][p] = Tail(@)]
    /\ UNCHANGED <<apiVars, published, batch, unsent, failed, late, procVars, faults,
                   stops>>

\* The broker appends the record and the acknowledgement is lost: the producer
\* keeps the record and sends it again (retries=5).
AcknowledgementLost(r, p) ==
    /\ AppendHead(r, p)
    /\ Fault("ackLost")
    /\ UNCHANGED <<apiVars, published, passVars, queue, procVars, stops>>

\* The producer gives the record up: its future raises KafkaError.
SendFails(r, p) ==
    /\ queue[r][p] # <<>>
    /\ Fault("sendFails")
    /\ ResolveHead(r, p, failed)
    /\ queue' = [queue EXCEPT ![r][p] = Tail(@)]
    /\ UNCHANGED <<apiVars, published, log, batch, unsent, acked, late, procVars, stops>>

\* mark_published and the commit of the pass.
MarkPublished(r) ==
    /\ batch[r] # {} /\ Resolved(r)
    /\ published' = published \cup Delivered(r)
    /\ EndPass(r)
    /\ UNCHANGED <<apiVars, log, late, queue, procVars, faults, stops>>

\* An exception leaves the pass: send() raises (no metadata, buffer full) or
\* mark_published does.  The transaction rolls back, main() logs and sleeps.
PassFails(r) ==
    /\ unsent[r] # {} \/ late[r] # {} \/ (batch[r] # {} /\ Resolved(r))
    /\ Fault("passFails")
    /\ EndPass(r)
    /\ late' = [late EXCEPT ![r] = {}]
    /\ queue' = [queue EXCEPT ![r] = Orphaned(@)]
    /\ UNCHANGED <<apiVars, published, log, procVars, stops>>

\* The database connection drops.  The server rolls the transaction back and
\* releases its row locks; the pass goes on until mark_published raises (what
\* its futures return no longer matters).  main() keeps the closed connection and
\* every later pass raises.
ConnectionLost(r) ==
    /\ conn[r]
    /\ Fault("connLost")
    /\ conn' = [conn EXCEPT ![r] = FALSE]
    /\ EndPass(r)
    /\ late' = [late EXCEPT ![r] = unsent[r]]
    /\ queue' = [queue EXCEPT ![r] = Orphaned(@)]
    /\ UNCHANGED <<apiVars, published, log, running, stops>>

\* A new process (restart: unless-stopped): new producer, new connection.
Fresh(r) ==
    /\ late' = [late EXCEPT ![r] = {}]
    /\ queue' = [queue EXCEPT ![r] = EmptyQueue]
    /\ conn' = [conn EXCEPT ![r] = TRUE]
    /\ running' = [running EXCEPT ![r] = TRUE]

\* The process dies at any point and is restarted.
Crash(r) ==
    /\ Fault("crash")
    /\ EndPass(r)
    /\ Fresh(r)
    /\ UNCHANGED <<apiVars, published, log, stops>>

\* SIGTERM: _stop clears _running, the batch in flight goes on.
Stop(r) ==
    /\ running[r]
    /\ stops < MaxStops
    /\ stops' = stops + 1
    /\ running' = [running EXCEPT ![r] = FALSE]
    /\ UNCHANGED <<apiVars, published, log, passVars, queue, conn, faults>>

\* Mutant: the process leaves at once, without finishing the batch.
MayExitAtOnce(r) == ~running[r]

\* main() leaves its loop between two passes and producer.flush() has returned.
MayExit(r) == ~running[r] /\ batch[r] = {} /\ late[r] = {} /\ queue[r] = EmptyQueue

\* The process exits and is started again.
Exit(r) ==
    /\ MayExit(r)
    /\ EndPass(r)
    /\ Fresh(r)
    /\ UNCHANGED <<apiVars, published, log, faults, stops>>

\* One step of relay r.
RelayStep(r) ==
    \/ ClaimBatch(r)
    \/ Send(r)
    \/ SendLate(r)
    \/ \E p \in Partitions : Acknowledge(r, p)
    \/ MarkPublished(r)
    \/ Exit(r)

\* What the environment may do to relay r.
Disturb(r) ==
    \/ \E p \in Partitions : AcknowledgementLost(r, p)
    \/ \E p \in Partitions : SendFails(r, p)
    \/ PassFails(r)
    \/ ConnectionLost(r)
    \/ Crash(r)
    \/ Stop(r)

Next ==
    \/ \E ev \in Events : RecordEvent(ev)
    \/ \E e \in Rows, commits \in BOOLEAN : EndTransaction(e, commits)
    \/ \E r \in Relays : RelayStep(r) \/ Disturb(r)

Spec == Init /\ [][Next]_vars

\* A relay that is up keeps polling, sending and marking, and the producer's
\* sender thread keeps transmitting; clients, faults and signals owe nothing.
Fairness ==
    \A r \in Relays :
        /\ WF_vars(ClaimBatch(r))
        /\ WF_vars(Send(r))
        /\ WF_vars(SendLate(r))
        /\ \A p \in Partitions : WF_vars(Acknowledge(r, p))
        /\ WF_vars(MarkPublished(r))
        /\ WF_vars(Exit(r))

FairSpec == Spec /\ Fairness

-----------------------------------------------------------------------------
(* Properties. *)

InLog(e) == \E i \in 1..Len(log[TopicPartition(e)]) : log[TopicPartition(e)][i] = e

\* A row is marked published only once the broker has its record: whatever
\* fails between send(), flush() and the commit of mark_published, no event is
\* recorded as delivered that Kafka does not hold.
PublishedIsInLog == \A e \in published : InLog(e)

Copies(e) == Cardinality({i \in 1..Len(log[TopicPartition(e)]) :
                              log[TopicPartition(e)][i] = e})

\* Duplicates come from faults alone: several relays polling the same table, and
\* any number of SIGTERMs, publish a row once (SKIP LOCKED, and _stop finishing
\* the batch); each fault accounts for at most one further copy of a row.
DuplicatesNeedFaults == \A e \in visible : Copies(e) <= 1 + faults

\* The rows of one topic and key first appear in Kafka in the order of the
\* outbox, so a key's events of one topic cannot overtake each other on the way.
\* Only two destroys of one slug whose transactions overlapped may do so: then
\* the later row can be visible, and published, before the earlier one.
RowOrderKept ==
    \A p \in Partitions : \A j \in 1..Len(log[p]) : \A e \in visible :
        (outbox[e] = outbox[log[p][j]] /\ e < log[p][j] /\ <<e, log[p][j]>> \notin overlapped)
            => \E i \in 1..(j - 1) : log[p][i] = e

\* The relay implements the at-least-once promise of AtLeastOnce: every append
\* is of a committed row to its own partition, never of a row that was rolled
\* back, and rows are confirmed only when delivered.
Abstract == INSTANCE AtLeastOnce
AtLeastOnceDelivery == Abstract!Spec

\* Every committed row is eventually published, through any finite number of
\* broker failures, failed passes, crashes and restarts.
EventuallyPublished ==
    \A e \in 1..MaxEvents : (e \in visible) ~> (e \in published)

=============================================================================
