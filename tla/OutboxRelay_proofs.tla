------------------------- MODULE OutboxRelay_proofs -------------------------
(***************************************************************************)
(* Proofs about OutboxRelay: for any number of relays, rows, partitions,   *)
(* any batch size and any number of faults, every row marked published is  *)
(* in Kafka, a row has at most one copy more than there were faults, and   *)
(* the relay implements AtLeastOnce; one relay keeps the order of a key.   *)
(*                                                                         *)
(* PublishedIsInLog is not inductive: MarkPublished copies acked rows, so  *)
(* acked rows have to be in the log, and Acknowledge acknowledges what is  *)
(* at the head of a buffer, so buffered records have to be of committed    *)
(* rows and in the buffer of their own partition.                          *)
(***************************************************************************)
EXTENDS OutboxRelay, FiniteSetTheorems, TLAPS

\* The producer buffers committed rows, each for its own partition.
QueuedIsVisible ==
    \A r \in Relays, p \in Partitions : \A i \in 1..Len(queue[r][p]) :
        /\ queue[r][p][i].eid \in visible
        /\ TopicPartition(queue[r][p][i].eid) = p

\* A future succeeds only for a record the broker holds.
AckedIsInLog == \A r \in Relays : \A e \in acked[r] : InLog(e)

IInv == TypeOK /\ QueuedIsVisible /\ AckedIsInLog /\ PublishedIsInLog

\* The rows the API adds or ends leave what is known of visible rows alone.
LEMMA RowsKept ==
    ASSUME TypeOK, NEW e \in visible, NEW ev \in Events,
           outbox' = Append(outbox, ev)
    PROVE  outbox'[e] = outbox[e] /\ e \in 1..Len(outbox') /\ e \in Nat
BY DEF TypeOK, Rows

\* A committed row selects a partition.
LEMMA PartitionOfVisible ==
    ASSUME TypeOK, NEW e \in visible
    PROVE  TopicPartition(e) \in Partitions
BY PartitionAssumption DEF TypeOK, Rows, TopicPartition

\* The initial state satisfies the invariant.
LEMMA InitIInv == Init => IInv
<1> SUFFICES ASSUME Init PROVE IInv
  OBVIOUS
<1>1. TypeOK
  BY DEF Init, TypeOK, Rows, EmptyQueue, QueueEntry
<1>2. QueuedIsVisible
  BY DEF Init, QueuedIsVisible, EmptyQueue
<1>3. AckedIsInLog /\ PublishedIsInLog
  BY DEF Init, AckedIsInLog, PublishedIsInLog
<1> QED BY <1>1, <1>2, <1>3 DEF IInv

\* The log only grows: what it holds it keeps, and it gains the head h of the
\* buffer.
LEMMA AppendKeeps ==
    ASSUME TypeOK, QueuedIsVisible, NEW r \in Relays, NEW p \in Partitions,
           AppendHead(r, p), UNCHANGED outbox,
           NEW h, h = Head(queue[r][p]).eid
    PROVE  /\ h \in visible
           /\ TopicPartition(h) = p
           /\ log' = [log EXCEPT ![p] = Append(log[p], h)]
           /\ log' \in [Partitions -> Seq(Nat)]
           /\ \A e \in visible : InLog(e) => InLog(e)'
           /\ InLog(h)'
<1>1. queue[r][p] \in Seq(QueueEntry) /\ Len(queue[r][p]) > 0
  BY DEF TypeOK, AppendHead
<1>2. Head(queue[r][p]) = queue[r][p][1] /\ 1 \in 1..Len(queue[r][p])
  BY <1>1
<1>3. h \in visible /\ TopicPartition(h) = p
  BY <1>2 DEF QueuedIsVisible
<1>4. h \in Nat
  <2>1. queue[r][p][1] \in QueueEntry
    BY <1>1, <1>2
  <2> QED BY <2>1, <1>2 DEF QueueEntry
<1>5. log' = [log EXCEPT ![p] = Append(log[p], h)] /\ log[p] \in Seq(Nat)
  BY DEF AppendHead, TypeOK
<1>6. log' \in [Partitions -> Seq(Nat)]
  BY <1>4, <1>5 DEF TypeOK
<1>7. ASSUME NEW e \in visible, InLog(e) PROVE InLog(e)'
  <2>1. TopicPartition(e) \in Partitions /\ TopicPartition(e)' = TopicPartition(e)
    BY PartitionOfVisible DEF TopicPartition
  <2>2. PICK i \in 1..Len(log[TopicPartition(e)]) : log[TopicPartition(e)][i] = e
    BY <1>7 DEF InLog
  <2>3. i \in 1..Len(log'[TopicPartition(e)]) /\ log'[TopicPartition(e)][i] = e
    BY <2>1, <2>2, <1>4, <1>5 DEF TypeOK
  <2> QED BY <2>1, <2>3 DEF InLog
<1>8. InLog(h)'
  <2>1. TopicPartition(h)' = p
    BY <1>3 DEF TopicPartition
  <2>2. Len(log[p]) + 1 \in 1..Len(log'[p]) /\ log'[p][Len(log[p]) + 1] = h
    BY <1>4, <1>5 DEF TypeOK
  <2> QED BY <2>1, <2>2 DEF InLog
<1> QED BY <1>3, <1>5, <1>6, <1>7, <1>8

\* The elements of a tail.
LEMMA TailElements ==
    ASSUME NEW S, NEW s \in Seq(S), s # <<>>
    PROVE  /\ Tail(s) \in Seq(S)
           /\ \A i \in 1..Len(Tail(s)) : i + 1 \in 1..Len(s) /\ Tail(s)[i] = s[i + 1]
<1>1. Len(s) > 0 /\ Tail(s) \in Seq(S) /\ Len(Tail(s)) = Len(s) - 1
  OBVIOUS
<1> QED BY <1>1

\* Taking the head off a buffer leaves records that were in it.
LEMMA TailKeeps ==
    ASSUME TypeOK, QueuedIsVisible, NEW r \in Relays, NEW p \in Partitions,
           queue[r][p] # <<>>,
           queue' = [queue EXCEPT ![r][p] = Tail(queue[r][p])],
           UNCHANGED <<outbox, visible>>
    PROVE  /\ queue' \in [Relays -> [Partitions -> Seq(QueueEntry)]]
           /\ QueuedIsVisible'
<1>1. queue[r][p] \in Seq(QueueEntry) /\ Len(queue[r][p]) > 0
  BY DEF TypeOK
<1>2. queue' \in [Relays -> [Partitions -> Seq(QueueEntry)]]
  BY <1>1 DEF TypeOK
<1>3. ASSUME NEW s \in Relays, NEW q \in Partitions, NEW i \in 1..Len(queue'[s][q])
      PROVE  queue'[s][q][i].eid \in visible /\ TopicPartition(queue'[s][q][i].eid) = q
  <2>1. CASE s = r /\ q = p
    <3>1. queue'[s][q] = Tail(queue[r][p])
      BY <2>1 DEF TypeOK
    <3>2. i + 1 \in 1..Len(queue[r][p]) /\ queue'[s][q][i] = queue[r][p][i + 1]
      BY <3>1, <1>1, TailElements
    <3> QED BY <3>2, <2>1 DEF QueuedIsVisible
  <2>2. CASE ~(s = r /\ q = p)
    <3>1. queue'[s][q] = queue[s][q]
      BY <2>2 DEF TypeOK
    <3> QED BY <3>1 DEF QueuedIsVisible
  <2> QED BY <2>1, <2>2
<1>4. \A e : TopicPartition(e)' = TopicPartition(e)
  BY DEF TopicPartition
<1> QED BY <1>2, <1>3, <1>4 DEF QueuedIsVisible

\* A relay's set of resolved rows gains at most h.
LEMMA ResolvedGains ==
    ASSUME NEW S, NEW f \in [Relays -> SUBSET S], NEW h \in S, NEW r \in Relays,
           NEW g, g = f \/ g = [f EXCEPT ![r] = f[r] \cup {h}]
    PROVE  /\ g \in [Relays -> SUBSET S]
           /\ \A s \in Relays : \A e \in g[s] : e \in f[s] \/ e = h
<1>1. CASE g = f
  BY <1>1
<1>2. CASE g = [f EXCEPT ![r] = f[r] \cup {h}]
  <2>1. g \in [Relays -> SUBSET S]
    BY <1>2
  <2>2. \A s \in Relays : \A e \in g[s] : e \in f[s] \/ e = h
    BY <1>2
  <2> QED BY <2>1, <2>2
<1> QED BY <1>1, <1>2

\* Without a change of outbox and log, rows are where they were.
LEMMA LogFrame ==
    ASSUME UNCHANGED <<outbox, log>>
    PROVE  \A e : (InLog(e)' <=> InLog(e)) /\ TopicPartition(e)' = TopicPartition(e)
BY DEF InLog, TopicPartition

\* Orphaned records are the records that were buffered.
LEMMA OrphanedKeeps ==
    ASSUME TypeOK, QueuedIsVisible, NEW r \in Relays,
           queue' = [queue EXCEPT ![r] = Orphaned(queue[r])],
           UNCHANGED <<outbox, visible>>
    PROVE  /\ queue' \in [Relays -> [Partitions -> Seq(QueueEntry)]]
           /\ QueuedIsVisible'
<1>1. ASSUME NEW p \in Partitions
      PROVE  /\ Orphaned(queue[r])[p] \in Seq(QueueEntry)
             /\ Len(Orphaned(queue[r])[p]) = Len(queue[r][p])
             /\ \A i \in 1..Len(queue[r][p]) :
                    Orphaned(queue[r])[p][i].eid = queue[r][p][i].eid
  <2>1. queue[r][p] \in Seq(QueueEntry)
    BY <1>1 DEF TypeOK
  <2>2. \A i \in 1..Len(queue[r][p]) :
            [eid |-> queue[r][p][i].eid, live |-> FALSE] \in QueueEntry
    <3>1. \A i \in 1..Len(queue[r][p]) : queue[r][p][i] \in QueueEntry
      BY <2>1
    <3> QED BY <3>1 DEF QueueEntry
  <2>3. Orphaned(queue[r])[p] =
            [i \in 1..Len(queue[r][p]) |-> [eid |-> queue[r][p][i].eid, live |-> FALSE]]
    BY <1>1 DEF Orphaned
  <2>4. Len(queue[r][p]) \in Nat
    BY <2>1
  <2> QED BY <2>2, <2>3, <2>4
<1>2. Orphaned(queue[r]) \in [Partitions -> Seq(QueueEntry)]
  BY <1>1 DEF Orphaned
<1>3. queue' \in [Relays -> [Partitions -> Seq(QueueEntry)]]
  BY <1>2 DEF TypeOK
<1>4. ASSUME NEW s \in Relays, NEW p \in Partitions, NEW i \in 1..Len(queue'[s][p])
      PROVE  queue'[s][p][i].eid \in visible /\ TopicPartition(queue'[s][p][i].eid) = p
  <2>1. CASE s = r
    <3>1. queue'[s][p] = Orphaned(queue[r])[p]
      BY <2>1 DEF TypeOK
    <3>2. i \in 1..Len(queue[r][p]) /\ queue'[s][p][i].eid = queue[r][p][i].eid
      BY <3>1, <1>1
    <3> QED BY <3>2 DEF QueuedIsVisible
  <2>2. CASE s # r
    BY <2>2 DEF TypeOK, QueuedIsVisible
  <2> QED BY <2>1, <2>2
<1> QED BY <1>3, <1>4 DEF QueuedIsVisible, TopicPartition

\* The API's steps add rows and make rows visible, and touch nothing else.
LEMMA ApiStepIInv ==
    ASSUME IInv,
           \/ \E ev \in Events : RecordEvent(ev)
           \/ \E e \in Rows, commits \in BOOLEAN : EndTransaction(e, commits)
    PROVE  IInv'
<1>1. ASSUME NEW ev \in Events, RecordEvent(ev) PROVE IInv'
  <2>1. outbox' = Append(outbox, ev) /\ visible' = visible
    BY <1>1 DEF RecordEvent
  <2>2. Rows \subseteq Rows' /\ Len(outbox) + 1 \in Rows'
    BY <2>1 DEF IInv, TypeOK, Rows
  <2>3. TypeOK'
    <3>1. overlapped' \subseteq Rows' \X Rows'
      BY <1>1, <2>2 DEF IInv, TypeOK, RecordEvent
    <3> QED BY <1>1, <2>2, <3>1 DEF IInv, TypeOK, RecordEvent, passVars, procVars
  <2>4. \A e \in visible : TopicPartition(e)' = TopicPartition(e)
    BY <2>1, RowsKept DEF IInv, TopicPartition
  <2>5. \A e \in visible : InLog(e) => InLog(e)'
    BY <1>1, <2>4 DEF InLog, RecordEvent
  <2>6. QueuedIsVisible'
    BY <1>1, <2>4 DEF IInv, QueuedIsVisible, RecordEvent
  <2>7. AckedIsInLog' /\ PublishedIsInLog'
    BY <1>1, <2>5 DEF IInv, TypeOK, AckedIsInLog, PublishedIsInLog, RecordEvent, passVars
  <2> QED BY <2>3, <2>6, <2>7 DEF IInv
<1>2. ASSUME NEW e \in Rows, NEW commits \in BOOLEAN, EndTransaction(e, commits)
      PROVE  IInv'
  <2>1. visible \subseteq visible' /\ visible' \subseteq Rows
    BY <1>2 DEF IInv, TypeOK, EndTransaction
  <2>2. TypeOK'
    BY <1>2, <2>1 DEF IInv, TypeOK, EndTransaction, passVars, procVars, Rows
  <2>3. QueuedIsVisible' /\ AckedIsInLog' /\ PublishedIsInLog'
    BY <1>2, <2>1, LogFrame
       DEF IInv, QueuedIsVisible, AckedIsInLog, PublishedIsInLog, EndTransaction, passVars
  <2> QED BY <2>2, <2>3 DEF IInv
<1> QED BY <1>1, <1>2

\* The end of a pass keeps acknowledged rows a subset of the rows in the log.
LEMMA EndPassKeeps ==
    ASSUME IInv, NEW r \in Relays, EndPass(r), UNCHANGED <<outbox, log>>
    PROVE  /\ AckedIsInLog'
           /\ batch' \in [Relays -> SUBSET visible]
           /\ unsent' \in [Relays -> SUBSET visible]
           /\ acked' \in [Relays -> SUBSET visible]
           /\ failed' \in [Relays -> SUBSET visible]
<1>1. \A s \in Relays : acked'[s] \subseteq acked[s]
  BY DEF IInv, TypeOK, EndPass
<1> QED BY <1>1, LogFrame DEF IInv, TypeOK, EndPass, AckedIsInLog

\* A buffer that is given a committed row of its partition.
LEMMA BufferKeeps ==
    ASSUME TypeOK, QueuedIsVisible, NEW r \in Relays, NEW e \in visible, NEW live \in BOOLEAN,
           Buffer(r, e, live), UNCHANGED <<outbox, visible>>
    PROVE  /\ queue' \in [Relays -> [Partitions -> Seq(QueueEntry)]]
           /\ QueuedIsVisible'
<1>1. e \in Nat
  BY DEF TypeOK, Rows
<1>2. PICK q \in Partitions : q = TopicPartition(e)
  BY PartitionOfVisible
<1> DEFINE x == [eid |-> e, live |-> live]
<1>3. x \in QueueEntry
  BY <1>1 DEF QueueEntry
<1>4. queue' = [queue EXCEPT ![r][q] = Append(@, x)]
  BY <1>2 DEF Buffer
<1>5. queue' \in [Relays -> [Partitions -> Seq(QueueEntry)]]
  BY <1>3, <1>4 DEF TypeOK
<1>6. ASSUME NEW s \in Relays, NEW p \in Partitions, NEW i \in 1..Len(queue'[s][p])
      PROVE  queue'[s][p][i].eid \in visible /\ TopicPartition(queue'[s][p][i].eid) = p
  <2>1. queue[s][p] \in Seq(QueueEntry)
    BY DEF TypeOK
  <2>2. CASE s = r /\ p = q
    <3>1. queue'[s][p] = Append(queue[s][p], x)
      BY <1>4, <2>2 DEF TypeOK
    <3>2. \/ i \in 1..Len(queue[s][p]) /\ queue'[s][p][i] = queue[s][p][i]
          \/ queue'[s][p][i] = x
      BY <1>3, <2>1, <3>1
    <3> QED BY <1>2, <2>2, <3>2 DEF QueuedIsVisible
  <2>3. CASE ~(s = r /\ p = q)
    <3>1. queue'[s][p] = queue[s][p]
      BY <1>4, <2>3 DEF TypeOK
    <3> QED BY <3>1 DEF QueuedIsVisible
  <2> QED BY <2>2, <2>3
<1> QED BY <1>5, <1>6 DEF QueuedIsVisible, TopicPartition

\* Every step of a relay keeps the invariant.
LEMMA RelayStepIInv ==
    ASSUME IInv, NEW r \in Relays, RelayStep(r)
    PROVE  IInv'
<1> USE DEF IInv
<1>1. ASSUME ClaimBatch(r) PROVE IInv'
  <2>1. Oldest(Claimable, BatchSize) \subseteq visible
    BY DEF Oldest, Claimable
  <2>2. TypeOK'
    BY <1>1, <2>1 DEF TypeOK, ClaimBatch, procVars, apiVars, Rows
  <2>3. QueuedIsVisible' /\ AckedIsInLog' /\ PublishedIsInLog'
    BY <1>1, LogFrame
       DEF ClaimBatch, apiVars, QueuedIsVisible, AckedIsInLog, PublishedIsInLog
  <2> QED BY <2>2, <2>3
<1>2. ASSUME Send(r) PROVE IInv'
  <2>1. PICK e \in NextToSend(unsent[r]) :
            unsent' = [unsent EXCEPT ![r] = @ \ {e}] /\ Buffer(r, e, TRUE)
    BY <1>2 DEF Send
  <2>2. UNCHANGED <<outbox, open, visible, overlapped, log, published, acked>> /\ e \in visible
    BY <1>2 DEF Send, apiVars, NextToSend, TypeOK
  <2>3. queue' \in [Relays -> [Partitions -> Seq(QueueEntry)]] /\ QueuedIsVisible'
    BY <2>1, <2>2, BufferKeeps
  <2>4. TypeOK'
    BY <1>2, <2>1, <2>2, <2>3 DEF TypeOK, Send, procVars, Rows
  <2>5. AckedIsInLog' /\ PublishedIsInLog'
    BY <2>2, LogFrame DEF AckedIsInLog, PublishedIsInLog
  <2> QED BY <2>3, <2>4, <2>5
<1>6. ASSUME SendLate(r) PROVE IInv'
  <2>1. PICK e \in NextToSend(late[r]) :
            late' = [late EXCEPT ![r] = @ \ {e}] /\ Buffer(r, e, FALSE)
    BY <1>6 DEF SendLate
  <2>2. UNCHANGED <<outbox, open, visible, overlapped, log, published, acked>> /\ e \in visible
    BY <1>6 DEF SendLate, apiVars, NextToSend, TypeOK
  <2>3. queue' \in [Relays -> [Partitions -> Seq(QueueEntry)]] /\ QueuedIsVisible'
    BY <2>1, <2>2, BufferKeeps
  <2>4. TypeOK'
    BY <1>6, <2>1, <2>2, <2>3 DEF TypeOK, SendLate, procVars, Rows
  <2>5. AckedIsInLog' /\ PublishedIsInLog'
    BY <2>2, LogFrame DEF AckedIsInLog, PublishedIsInLog
  <2> QED BY <2>3, <2>4, <2>5
<1>3. ASSUME NEW p \in Partitions, Acknowledge(r, p) PROVE IInv'
  <2>1. PICK h : h = Head(queue[r][p]).eid
    OBVIOUS
  <2>2. AppendHead(r, p) /\ UNCHANGED outbox /\ visible' = visible
    BY <1>3 DEF Acknowledge, apiVars
  <2>3. /\ h \in visible
        /\ log' \in [Partitions -> Seq(Nat)]
        /\ \A e \in visible : InLog(e) => InLog(e)'
        /\ InLog(h)'
    BY <2>1, <2>2, AppendKeeps
  <2>4. queue' \in [Relays -> [Partitions -> Seq(QueueEntry)]] /\ QueuedIsVisible'
    BY <1>3, <2>2, TailKeeps DEF Acknowledge, AppendHead
  <2>5. acked' = acked \/ acked' = [acked EXCEPT ![r] = acked[r] \cup {h}]
    BY <1>3, <2>1 DEF Acknowledge, ResolveHead
  <2>6. acked' \in [Relays -> SUBSET visible] /\ AckedIsInLog'
    <3>0. acked \in [Relays -> SUBSET visible]
      BY DEF TypeOK
    <3>1. /\ acked' \in [Relays -> SUBSET visible]
          /\ \A s \in Relays : \A e \in acked'[s] : e \in acked[s] \/ e = h
      BY <2>3, <2>5, <3>0, ResolvedGains
    <3>2. ASSUME NEW s \in Relays, NEW e \in acked'[s] PROVE InLog(e)'
      <4>1. e \in acked[s] \/ e = h
        BY <3>1
      <4>2. e \in acked[s] => e \in visible /\ InLog(e)
        BY DEF TypeOK, AckedIsInLog
      <4> QED BY <4>1, <4>2, <2>3
    <3> QED BY <3>1, <3>2 DEF AckedIsInLog
  <2>7. TypeOK'
    BY <1>3, <2>3, <2>4, <2>6 DEF TypeOK, Acknowledge, procVars, apiVars, Rows
  <2>8. PublishedIsInLog'
    BY <1>3, <2>3 DEF TypeOK, PublishedIsInLog, Acknowledge
  <2> QED BY <2>4, <2>6, <2>7, <2>8
<1>4. ASSUME MarkPublished(r) PROVE IInv'
  <2>1. UNCHANGED <<outbox, log, visible, queue>> /\ EndPass(r)
    BY <1>4 DEF MarkPublished, apiVars
  <2>2. TypeOK'
    BY <1>4, <2>1, EndPassKeeps DEF TypeOK, MarkPublished, Delivered, procVars, apiVars, Rows
  <2>3. QueuedIsVisible'
    BY <2>1, LogFrame DEF QueuedIsVisible
  <2>4. PublishedIsInLog'
    BY <1>4, <2>1, LogFrame DEF MarkPublished, Delivered, AckedIsInLog, PublishedIsInLog
  <2> QED BY <2>1, <2>2, <2>3, <2>4, EndPassKeeps
<1>5. ASSUME Exit(r) PROVE IInv'
  <2>1. UNCHANGED <<outbox, log, visible, published>> /\ EndPass(r) /\ Fresh(r)
    BY <1>5 DEF Exit, apiVars
  <2>2. TypeOK'
    BY <1>5, <2>1, EndPassKeeps
       DEF TypeOK, Exit, Fresh, EmptyQueue, apiVars, Rows
  <2>3. QueuedIsVisible'
    BY <2>1, LogFrame DEF QueuedIsVisible, Fresh, EmptyQueue, TypeOK
  <2>4. PublishedIsInLog'
    BY <2>1, LogFrame DEF PublishedIsInLog
  <2> QED BY <2>1, <2>2, <2>3, <2>4, EndPassKeeps
<1> QED BY <1>1, <1>2, <1>3, <1>4, <1>5, <1>6 DEF RelayStep

\* Every fault and signal keeps the invariant.
LEMMA DisturbIInv ==
    ASSUME IInv, NEW r \in Relays, Disturb(r)
    PROVE  IInv'
<1> USE DEF IInv
<1>1. ASSUME NEW p \in Partitions, AcknowledgementLost(r, p) PROVE IInv'
  <2>1. PICK h : h = Head(queue[r][p]).eid
    OBVIOUS
  <2>2. /\ AppendHead(r, p)
        /\ UNCHANGED <<apiVars, published, passVars, queue, procVars, stops>>
        /\ faults' = faults + 1
    BY <1>1 DEF AcknowledgementLost, apiVars, Fault
  <2>3. /\ log' \in [Partitions -> Seq(Nat)]
        /\ \A e \in visible : InLog(e) => InLog(e)'
    BY <2>1, <2>2, AppendKeeps DEF apiVars
  <2>4. TypeOK'
    BY <2>2, <2>3 DEF TypeOK, apiVars, passVars, procVars, Rows
  <2>5. QueuedIsVisible'
    BY <2>2 DEF QueuedIsVisible, TopicPartition, apiVars
  <2>6. AckedIsInLog' /\ PublishedIsInLog'
    BY <2>2, <2>3 DEF TypeOK, AckedIsInLog, PublishedIsInLog, apiVars, passVars
  <2> QED BY <2>4, <2>5, <2>6
<1>2. ASSUME NEW p \in Partitions, SendFails(r, p) PROVE IInv'
  <2>1. PICK h : h = Head(queue[r][p]).eid
    OBVIOUS
  <2>2. /\ UNCHANGED <<outbox, open, visible, overlapped, published, log, batch, unsent, acked>>
        /\ UNCHANGED <<late, conn, running, stops>>
        /\ faults' = faults + 1
        /\ failed' = failed \/ failed' = [failed EXCEPT ![r] = failed[r] \cup {h}]
    BY <1>2, <2>1 DEF SendFails, apiVars, Fault, ResolveHead, procVars
  <2>3. queue' \in [Relays -> [Partitions -> Seq(QueueEntry)]] /\ QueuedIsVisible'
    BY <1>2, <2>2, TailKeeps DEF SendFails
  <2>4. h \in visible
    <3>1. queue[r][p] \in Seq(QueueEntry) /\ queue[r][p] # <<>>
      BY <1>2 DEF TypeOK, SendFails
    <3>2. Head(queue[r][p]) = queue[r][p][1] /\ 1 \in 1..Len(queue[r][p])
      BY <3>1
    <3> QED BY <2>1, <3>2 DEF QueuedIsVisible
  <2>5. TypeOK'
    <3>1. failed \in [Relays -> SUBSET visible]
      BY DEF TypeOK
    <3>2. failed' \in [Relays -> SUBSET visible]
      BY <2>2, <2>4, <3>1, ResolvedGains
    <3> QED BY <2>2, <2>3, <3>2 DEF TypeOK, Rows
  <2>6. AckedIsInLog' /\ PublishedIsInLog'
    BY <2>2, LogFrame DEF AckedIsInLog, PublishedIsInLog
  <2> QED BY <2>3, <2>5, <2>6
<1>3. ASSUME PassFails(r) \/ ConnectionLost(r) PROVE IInv'
  <2>1. /\ UNCHANGED <<outbox, open, visible, overlapped, published, log, running, stops>>
        /\ conn' \in [Relays -> BOOLEAN]
        /\ late' \in [Relays -> SUBSET visible]
        /\ EndPass(r)
        /\ faults' = faults + 1
        /\ queue' = [queue EXCEPT ![r] = Orphaned(queue[r])]
    BY <1>3 DEF TypeOK, PassFails, ConnectionLost, apiVars, procVars, Fault
  <2>2. queue' \in [Relays -> [Partitions -> Seq(QueueEntry)]] /\ QueuedIsVisible'
    BY <2>1, OrphanedKeeps
  <2>3. TypeOK'
    BY <2>1, <2>2, EndPassKeeps DEF TypeOK, Rows
  <2>4. PublishedIsInLog'
    BY <2>1, LogFrame DEF PublishedIsInLog
  <2> QED BY <2>1, <2>2, <2>3, <2>4, EndPassKeeps
<1>4. ASSUME Crash(r) PROVE IInv'
  <2>1. /\ UNCHANGED <<outbox, open, visible, overlapped, published, log, stops>>
        /\ EndPass(r) /\ Fresh(r)
        /\ faults' = faults + 1
    BY <1>4 DEF Crash, apiVars, Fault
  <2>2. TypeOK'
    BY <2>1, EndPassKeeps DEF TypeOK, Fresh, EmptyQueue, Rows
  <2>3. QueuedIsVisible'
    BY <2>1, LogFrame DEF QueuedIsVisible, Fresh, EmptyQueue, TypeOK
  <2>4. PublishedIsInLog'
    BY <2>1, LogFrame DEF PublishedIsInLog
  <2> QED BY <2>1, <2>2, <2>3, <2>4, EndPassKeeps
<1>5. ASSUME Stop(r) PROVE IInv'
  <2>1. /\ UNCHANGED <<outbox, open, visible, overlapped, published, log, passVars, queue, conn,
                      faults>>
        /\ stops' = stops + 1
        /\ running' = [running EXCEPT ![r] = FALSE]
    BY <1>5 DEF Stop, apiVars
  <2>2. TypeOK'
    BY <2>1 DEF TypeOK, passVars, Rows
  <2>3. QueuedIsVisible' /\ AckedIsInLog' /\ PublishedIsInLog'
    BY <2>1, LogFrame DEF QueuedIsVisible, AckedIsInLog, PublishedIsInLog, passVars
  <2> QED BY <2>2, <2>3
<1> QED BY <1>1, <1>2, <1>3, <1>4, <1>5 DEF Disturb

\* The invariant is inductive.
LEMMA StepIInv == IInv /\ [Next]_vars => IInv'
<1> SUFFICES ASSUME IInv, [Next]_vars PROVE IInv'
  OBVIOUS
<1>1. CASE UNCHANGED vars
  BY <1>1 DEF vars, IInv, TypeOK, QueuedIsVisible, AckedIsInLog, PublishedIsInLog,
              InLog, TopicPartition, Rows
<1>2. CASE Next
  BY <1>2, ApiStepIInv, RelayStepIInv, DisturbIInv DEF Next
<1> QED BY <1>1, <1>2

\* The inductive invariant holds in every reachable state.
LEMMA IInvHolds == Spec => []IInv
<1> QED BY InitIInv, StepIInv, PTL DEF Spec

\* The type invariant of OutboxRelay: claimed, sent, acknowledged and published
\* rows are rows the API has committed.
THEOREM TypeCorrect == Spec => []TypeOK
<1>1. IInv => TypeOK
  BY DEF IInv
<1> QED BY <1>1, IInvHolds, PTL

\* publish_batch and mark_published never record as published a row that the
\* broker does not hold, for any number of relays and any faults.
THEOREM NoEventLost == Spec => []PublishedIsInLog
<1>1. IInv => PublishedIsInLog
  BY DEF IInv
<1> QED BY <1>1, IInvHolds, PTL

\* Every step of the relay is a step of AtLeastOnce or leaves its variables.
LEMMA StepRefines ==
    ASSUME IInv, [Next]_vars
    PROVE  [Abstract!Next]_(Abstract!absVars)
<1> USE DEF IInv
<1>1. ASSUME UNCHANGED <<outbox, visible, published, log>>
      PROVE  [Abstract!Next]_(Abstract!absVars)
  BY <1>1 DEF Abstract!absVars
<1>2. ASSUME NEW ev \in Events, RecordEvent(ev) PROVE Abstract!Next
  BY <1>2 DEF RecordEvent, Abstract!Next, Abstract!Record
<1>3. ASSUME NEW e \in Rows, NEW commits \in BOOLEAN, EndTransaction(e, commits)
      PROVE  [Abstract!Next]_(Abstract!absVars)
  BY <1>3 DEF EndTransaction, Abstract!Next, Abstract!Commit, Abstract!absVars, Rows
<1>4. ASSUME NEW r \in Relays, NEW p \in Partitions, AppendHead(r, p),
             UNCHANGED <<outbox, visible, published>>
      PROVE  Abstract!Next
  <2>1. PICK h : h = Head(queue[r][p]).eid
    OBVIOUS
  <2>2. h \in visible /\ TopicPartition(h) = p
        /\ log' = [log EXCEPT ![p] = Append(log[p], h)]
    BY <1>4, <2>1, AppendKeeps
  <2> QED BY <1>4, <2>2 DEF Abstract!Next, Abstract!Deliver, TopicPartition
<1>5. ASSUME NEW r \in Relays, MarkPublished(r) PROVE Abstract!Next
  <2>1. acked[r] \subseteq Abstract!Delivered
    BY DEF TypeOK, AckedIsInLog, InLog, TopicPartition, Abstract!Delivered
  <2> QED BY <1>5, <2>1
          DEF MarkPublished, Delivered, apiVars, Abstract!Next, Abstract!Confirm
<1>6. ASSUME NEW r \in Relays, RelayStep(r)
      PROVE  [Abstract!Next]_(Abstract!absVars)
  <2>1. CASE ClaimBatch(r) \/ Send(r) \/ SendLate(r) \/ Exit(r)
    BY <2>1, <1>1 DEF ClaimBatch, Send, SendLate, Exit, apiVars
  <2>2. CASE \E p \in Partitions : Acknowledge(r, p)
    BY <2>2, <1>4 DEF Acknowledge, apiVars
  <2> QED BY <2>1, <2>2, <1>5, <1>6 DEF RelayStep
<1>7. ASSUME NEW r \in Relays, Disturb(r)
      PROVE  [Abstract!Next]_(Abstract!absVars)
  <2>1. CASE \E p \in Partitions : AcknowledgementLost(r, p)
    BY <2>1, <1>4 DEF AcknowledgementLost, apiVars
  <2>2. CASE \E p \in Partitions : SendFails(r, p)
    BY <2>2, <1>1 DEF SendFails, apiVars
  <2>3. CASE PassFails(r) \/ ConnectionLost(r) \/ Crash(r) \/ Stop(r)
    BY <2>3, <1>1 DEF PassFails, ConnectionLost, Crash, Stop, apiVars
  <2> QED BY <2>1, <2>2, <2>3, <1>7 DEF Disturb
<1>8. CASE UNCHANGED vars
  BY <1>8, <1>1 DEF vars
<1> QED BY <1>2, <1>3, <1>6, <1>7, <1>8 DEF Next

\* The relay implements the at-least-once promise: every append is of a
\* committed row to its own partition, and only delivered rows are confirmed.
THEOREM RelayDelivers == Spec => AtLeastOnceDelivery
<1>1. Init => Abstract!Init
  BY DEF Init, Abstract!Init
<1>2. IInv /\ [Next]_vars => [Abstract!Next]_(Abstract!absVars)
  BY StepRefines
<1> QED BY <1>1, <1>2, IInvHolds, PTL DEF Spec, AtLeastOnceDelivery, Abstract!Spec

-----------------------------------------------------------------------------
(* Order.  With one relay whose producer gives no record up, what a producer *)
(* holds is in row order behind what the log has.                            *)

\* A relay that is alone, and a producer that retries for as long as it takes.
OneRelay == "sendFails" \notin Faults /\ \E r : Relays = {r}

\* Row e precedes row f of the same topic and key, whose transaction began after
\* that of e had ended.
Before(e, f) == e < f /\ outbox[e] = outbox[f] /\ <<e, f>> \notin overlapped

\* The log holds committed rows, each in its own partition.
LoggedIsVisible ==
    \A p \in Partitions : \A j \in 1..Len(log[p]) :
        log[p][j] \in visible /\ TopicPartition(log[p][j]) = p

\* A row has been committed or rolled back before the next one of its key.
EndedInOrder ==
    /\ open \cap visible = {}
    /\ \A e, f \in Rows : Before(e, f) => e \notin open

\* A batch has every older row of a key that is not published yet.
BatchClosed ==
    \A r \in Relays :
        /\ unsent[r] \subseteq batch[r]
        /\ \A f \in batch[r] : \A e \in visible : Before(e, f) => e \in published \cup batch[r]

\* Row e is in buffer q before position n.
Ahead(q, e, n) == \E i \in 1..(n - 1) : q[i].eid = e

\* What a pass has sent is on its way or in the log.
SentIsUnderWay ==
    \A r \in Relays, p \in Partitions : \A e \in batch[r] \ unsent[r] :
        TopicPartition(e) = p => InLog(e) \/ Ahead(queue[r][p], e, Len(queue[r][p]) + 1)

\* What precedes a row that a pass sends late is late too, on its way or in the
\* log.
LateClosed ==
    \A r \in Relays, p \in Partitions : \A f \in late[r] : \A e \in visible :
        (Before(e, f) /\ TopicPartition(e) = p)
            => e \in late[r] \/ InLog(e) \/ Ahead(queue[r][p], e, Len(queue[r][p]) + 1)

\* What a buffered row has to follow is in the log or ahead of it.
QueueInOrder ==
    \A r \in Relays, p \in Partitions : \A i \in 1..Len(queue[r][p]) : \A e \in visible :
        Before(e, queue[r][p][i].eid) => InLog(e) \/ Ahead(queue[r][p], e, i)

OInv == /\ IInv
        /\ LoggedIsVisible
        /\ EndedInOrder
        /\ BatchClosed
        /\ SentIsUnderWay
        /\ LateClosed
        /\ QueueInOrder
        /\ RowOrderKept

\* What precedes a member of the n oldest of S in S is one of them too.
LEMMA OldestClosed ==
    ASSUME NEW m \in Nat, NEW S \in SUBSET (1..m), NEW n \in Nat,
           NEW f \in Oldest(S, n), NEW e \in S, e < f
    PROVE  e \in Oldest(S, n)
<1> DEFINE L == {g \in S : g < e}
           M == {g \in S : g < f}
<1>1. IsFiniteSet(M)
  <2>1. IsFiniteSet(1..m)
    BY FS_Interval
  <2>2. M \in SUBSET (1..m)
    OBVIOUS
  <2> HIDE DEF M
  <2> QED BY <2>1, <2>2, FS_Subset
<1>2. L \in SUBSET M
  <2>1. 1..m \subseteq Int
    OBVIOUS
  <2>2. e \in Int /\ f \in Int
    BY <2>1 DEF Oldest
  <2>3. \A g \in S : g < e => g < f
    BY <2>1, <2>2
  <2> QED BY <2>3
<1> HIDE DEF L, M
<1>3. Cardinality(L) <= Cardinality(M) /\ IsFiniteSet(L)
  BY <1>1, <1>2, FS_Subset
<1>4. Cardinality(L) \in Nat /\ Cardinality(M) \in Nat
  BY <1>1, <1>3, FS_CardinalityType
<1>5. Cardinality(M) < n
  BY DEF Oldest, M
<1>6. Cardinality(L) < n
  BY <1>3, <1>4, <1>5
<1> QED BY <1>6 DEF Oldest, L

\* Rows are numbers.
LEMMA VisibleAreRows ==
    ASSUME IInv
    PROVE  /\ visible \subseteq Rows
           /\ Rows \subseteq Nat
           /\ \A r \in Relays : /\ batch[r] \subseteq visible /\ unsent[r] \subseteq visible
                               /\ late[r] \subseteq visible
           /\ \A r \in Relays, p \in Partitions : Len(queue[r][p]) \in Nat
           /\ \A p \in Partitions : Len(log[p]) \in Nat
BY DEF IInv, TypeOK, Rows

\* The initial state satisfies the invariant of one relay.
LEMMA InitOInv == Init => OInv
<1> SUFFICES ASSUME Init PROVE OInv
  OBVIOUS
<1>1. IInv
  BY InitIInv
<1>2. LoggedIsVisible /\ RowOrderKept
  BY DEF Init, LoggedIsVisible, RowOrderKept
<1>3. EndedInOrder /\ BatchClosed /\ SentIsUnderWay /\ LateClosed
  BY DEF Init, EndedInOrder, BatchClosed, SentIsUnderWay, LateClosed, Rows
<1>4. QueueInOrder
  BY DEF Init, QueueInOrder, EmptyQueue
<1> QED BY <1>1, <1>2, <1>3, <1>4 DEF OInv

\* A new row comes after all rows of its key, and overlaps those that are open.
LEMMA RecordEventOrder ==
    ASSUME OInv, NEW ev \in Events, RecordEvent(ev)
    PROVE  OInv'
<1> DEFINE n == Len(outbox) + 1
<1>1. IInv'
  BY ApiStepIInv DEF OInv
<1>2. /\ outbox' = Append(outbox, ev) /\ open' = open \cup {n}
      /\ UNCHANGED <<visible, published, log, queue, batch, unsent, late>>
      /\ overlapped' = overlapped \cup {e \in open : outbox[e] = ev} \X {n}
  BY DEF RecordEvent, passVars
<1>3. /\ outbox \in Seq(Events) /\ n \in Nat /\ Rows' = Rows \cup {n} /\ n \notin Rows
      /\ visible \subseteq Rows /\ open \subseteq Rows
      /\ \A e \in Rows : outbox'[e] = outbox[e] /\ e < n
      /\ outbox'[n] = ev
  BY <1>2 DEF OInv, IInv, TypeOK, Rows
<1>0. \A e, f \in Rows : Before(e, f)' <=> Before(e, f)
  <2>1. \A e, f \in Rows : <<e, f>> \in overlapped' <=> <<e, f>> \in overlapped
    <3> HIDE DEF n
    <3> QED BY <1>2, <1>3
  <2>2. \A e \in Rows : outbox'[e] = outbox[e]
    BY <1>3
  <2> SUFFICES ASSUME NEW e \in Rows, NEW f \in Rows PROVE Before(e, f)' <=> Before(e, f)
    OBVIOUS
  <2>3. outbox'[e] = outbox[e] /\ outbox'[f] = outbox[f]
    BY <2>2
  <2>4. <<e, f>> \in overlapped' <=> <<e, f>> \in overlapped
    BY <2>1
  <2> QED BY <2>3, <2>4 DEF Before
<1>4. \A e \in visible : /\ TopicPartition(e)' = TopicPartition(e)
                         /\ InLog(e)' <=> InLog(e)
                         /\ \A f \in visible : Before(e, f)' <=> Before(e, f)
  <2>1. \A e \in visible : TopicPartition(e)' = TopicPartition(e)
    BY <1>3 DEF TopicPartition
  <2>2. \A e \in visible : InLog(e)' <=> InLog(e)
    BY <1>2, <2>1 DEF InLog
  <2>3. \A e, f \in visible : Before(e, f)' <=> Before(e, f)
    BY <1>0, <1>3
  <2> QED BY <2>1, <2>2, <2>3
<1>5. LoggedIsVisible'
  BY <1>2, <1>4 DEF OInv, LoggedIsVisible
<1>6. EndedInOrder'
  <2>1. open' \cap visible' = {}
    BY <1>2, <1>3 DEF OInv, EndedInOrder
  <2>2. ASSUME NEW e \in Rows', NEW f \in Rows', Before(e, f)'
        PROVE  e \notin open'
    <3>1. e \in Rows /\ e # n
      <4>1. e < f
        BY <2>2 DEF Before
      <4> QED BY <1>3, <4>1 DEF Rows
    <3>2. CASE f \in Rows
      <4>1. Before(e, f)
        BY <1>0, <2>2, <3>1, <3>2
      <4> QED BY <1>2, <3>1, <3>2, <4>1 DEF OInv, EndedInOrder
    <3>3. CASE f = n
      <4>1. outbox[e] = ev /\ <<e, n>> \notin overlapped'
        BY <1>3, <2>2, <3>1, <3>3 DEF Before
      <4> HIDE DEF n
      <4> QED BY <1>2, <3>1, <4>1
    <3> QED BY <1>3, <3>2, <3>3
  <2> QED BY <2>1, <2>2 DEF EndedInOrder
<1>7. BatchClosed'
  BY <1>2, <1>4, VisibleAreRows DEF OInv, BatchClosed
<1>8. SentIsUnderWay'
  BY <1>2, <1>4, VisibleAreRows DEF OInv, SentIsUnderWay
<1>9. QueueInOrder'
  BY <1>2, <1>4 DEF OInv, IInv, QueuedIsVisible, QueueInOrder
<1>10. RowOrderKept'
  <2>1. UNCHANGED <<log, visible>>
    BY <1>2
  <2>2. \A p \in Partitions : \A j \in 1..Len(log[p]) : log[p][j] \in visible
    BY DEF OInv, LoggedIsVisible
  <2> SUFFICES ASSUME NEW p \in Partitions, NEW j \in 1..Len(log[p]), NEW e \in visible,
                      NEW f \in visible, f = log[p][j], Before(e, f)'
               PROVE  \E i \in 1..(j - 1) : log[p][i] = e
    BY <2>1, <2>2 DEF RowOrderKept, Before
  <2>3. Before(e, f)
    BY <1>4
  <2> QED BY <2>3 DEF OInv, RowOrderKept, Before
<1>11. LateClosed'
  BY <1>2, <1>4, VisibleAreRows DEF OInv, LateClosed
<1> QED BY <1>1, <1>5, <1>6, <1>7, <1>8, <1>9, <1>10, <1>11 DEF OInv

\* A row that is committed now has no later row of its key to precede.
LEMMA EndTransactionOrder ==
    ASSUME OInv, NEW x \in Rows, NEW commits \in BOOLEAN, EndTransaction(x, commits)
    PROVE  OInv'
<1>1. IInv'
  BY ApiStepIInv DEF OInv
<1>2. /\ UNCHANGED <<outbox, overlapped, published, log, queue, batch, unsent, late>>
      /\ x \in open /\ open' = open \ {x}
      /\ visible \subseteq visible' /\ visible' \subseteq visible \cup {x}
  BY DEF EndTransaction, passVars
<1>3. \A e, f : /\ TopicPartition(e)' = TopicPartition(e)
                /\ InLog(e)' <=> InLog(e)
                /\ Before(e, f)' <=> Before(e, f)
  BY <1>2 DEF TopicPartition, InLog, Before
<1>4. \A e \in visible', f \in visible : Before(e, f) => e \in visible
  BY <1>2, VisibleAreRows DEF OInv, EndedInOrder
<1>5. LoggedIsVisible'
  BY <1>2, <1>3 DEF OInv, LoggedIsVisible
<1>6. EndedInOrder'
  BY <1>2, <1>3 DEF OInv, EndedInOrder, Rows
<1>7. BatchClosed'
  BY <1>2, <1>3, <1>4, VisibleAreRows DEF OInv, BatchClosed
<1>8. SentIsUnderWay'
  BY <1>2, <1>3 DEF OInv, SentIsUnderWay
<1>9. QueueInOrder'
  BY <1>2, <1>3, <1>4 DEF OInv, IInv, QueuedIsVisible, QueueInOrder
<1>10. RowOrderKept'
  <2>1. \A p \in Partitions : \A j \in 1..Len(log[p]) : \A e \in visible' :
            Before(e, log[p][j]) => e \in visible
    BY <1>4 DEF OInv, LoggedIsVisible
  <2> QED BY <1>2, <2>1 DEF OInv, RowOrderKept, Before
<1>11. LateClosed'
  BY <1>2, <1>3, <1>4, VisibleAreRows DEF OInv, LateClosed
<1> QED BY <1>1, <1>5, <1>6, <1>7, <1>8, <1>9, <1>10, <1>11 DEF OInv

\* What is appended is a committed row of the partition.
LEMMA AppendLogged ==
    ASSUME IInv, LoggedIsVisible, NEW r \in Relays, NEW p \in Partitions, AppendHead(r, p),
           UNCHANGED <<outbox, visible>>
    PROVE  LoggedIsVisible'
<1> DEFINE h == Head(queue[r][p]).eid
           n == Len(log[p])
<1>1. /\ h \in visible /\ TopicPartition(h) = p
      /\ log' = [log EXCEPT ![p] = Append(log[p], h)]
  BY AppendKeeps DEF IInv
<1>2. /\ n \in Nat /\ Len(log'[p]) = n + 1 /\ log'[p][n + 1] = h
      /\ \A j \in 1..n : log'[p][j] = log[p][j]
      /\ \A q \in Partitions : q # p => log'[q] = log[q]
  BY <1>1 DEF IInv, TypeOK
<1> SUFFICES ASSUME NEW q \in Partitions, NEW j \in 1..Len(log'[q])
             PROVE  log'[q][j] \in visible /\ TopicPartition(log'[q][j]) = q
  BY DEF LoggedIsVisible, TopicPartition
<1>3. CASE q # p \/ j \in 1..n
  BY <1>2, <1>3 DEF LoggedIsVisible
<1>4. CASE q = p /\ j = n + 1
  BY <1>1, <1>2, <1>4
<1>5. CASE q = p
  <2>1. j \in 1..(n + 1) /\ n \in Nat
    BY <1>2, <1>5
  <2>2. j \in 1..n \/ j = n + 1
    <3> HIDE DEF n
    <3> QED BY <2>1
  <2> QED BY <1>3, <1>4, <1>5, <2>2
<1> QED BY <1>3, <1>5

\* What an append of the head of a buffer means for the order of the log.
LEMMA AppendOrder ==
    ASSUME OInv, NEW r \in Relays, NEW p \in Partitions, AppendHead(r, p),
           UNCHANGED <<outbox, visible, overlapped>>,
           NEW h, h = Head(queue[r][p]).eid
    PROVE  /\ \A e \in visible : InLog(e) => InLog(e)'
           /\ InLog(h)'
           /\ LoggedIsVisible'
           /\ RowOrderKept'
<1>1. /\ h \in visible /\ TopicPartition(h) = p
      /\ log' = [log EXCEPT ![p] = Append(log[p], h)]
      /\ \A e \in visible : InLog(e) => InLog(e)'
      /\ InLog(h)'
  BY AppendKeeps DEF OInv, IInv
<1> DEFINE n == Len(log[p])
<1>2. /\ n \in Nat /\ Len(log'[p]) = n + 1 /\ log'[p][n + 1] = h
      /\ \A j \in 1..n : log'[p][j] = log[p][j]
      /\ \A q \in Partitions : q # p => log'[q] = log[q]
  BY <1>1 DEF OInv, IInv, TypeOK
<1>3. LoggedIsVisible'
  BY AppendLogged DEF OInv
<1>4. RowOrderKept'
  <2> SUFFICES ASSUME NEW q \in Partitions, NEW j \in 1..Len(log'[q]), NEW e \in visible,
                      Before(e, log'[q][j])
               PROVE  \E i \in 1..(j - 1) : log'[q][i] = e
    BY DEF RowOrderKept, Before
  <2>1. CASE q # p
    BY <1>2, <2>1 DEF OInv, RowOrderKept, Before
  <2>2. CASE q = p /\ j \in 1..n
    <3>1. PICK i \in 1..(j - 1) : log[q][i] = e
      BY <1>2, <2>2 DEF OInv, RowOrderKept, Before
    <3> QED BY <1>2, <2>2, <3>1
  <2>3. CASE q = p /\ j = n + 1
    <3>1. queue[r][p] \in Seq(QueueEntry) /\ queue[r][p] # <<>>
      BY DEF OInv, IInv, TypeOK, AppendHead
    <3>2. 1 \in 1..Len(queue[r][p]) /\ queue[r][p][1].eid = h
      BY <3>1
    <3>3. Before(e, h)
      BY <1>2, <2>3
    <3>4. InLog(e)
      BY <3>2, <3>3 DEF OInv, QueueInOrder, Ahead
    <3>5. TopicPartition(e) = p
      BY <1>1, <3>3 DEF TopicPartition, Before
    <3>6. PICK i \in 1..n : log[p][i] = e
      BY <3>4, <3>5 DEF InLog
    <3> QED BY <1>2, <2>3, <3>6
  <2>4. CASE q = p
    <3>1. j \in 1..(n + 1) /\ n \in Nat
      BY <1>2, <2>4
    <3>2. j \in 1..n \/ j = n + 1
      <4> HIDE DEF n
      <4> QED BY <3>1
    <3> QED BY <2>2, <2>3, <2>4, <3>2
  <2> QED BY <2>1, <2>4
<1> QED BY <1>1, <1>3, <1>4

\* The head of a buffer leaves it for the log.
LEMMA AcknowledgeOrder ==
    ASSUME OInv, NEW r \in Relays, NEW p \in Partitions, Acknowledge(r, p)
    PROVE  OInv'
<1>1. PICK h : h = Head(queue[r][p]).eid
  OBVIOUS
<1>2. /\ UNCHANGED <<outbox, open, visible, overlapped, published, batch, unsent, late>>
      /\ AppendHead(r, p) /\ queue[r][p] # <<>>
      /\ queue' = [queue EXCEPT ![r][p] = Tail(queue[r][p])]
  BY DEF Acknowledge, AppendHead, apiVars
<1>3. /\ \A e \in visible : InLog(e) => InLog(e)'
      /\ InLog(h)' /\ LoggedIsVisible' /\ RowOrderKept'
  BY <1>1, <1>2, AppendOrder
<1>4. IInv'
  BY RelayStepIInv DEF OInv, RelayStep
<1>5. EndedInOrder' /\ BatchClosed'
  BY <1>2 DEF OInv, EndedInOrder, BatchClosed, Before, Rows
<1>6. \A e : TopicPartition(e)' = TopicPartition(e)
  BY <1>2 DEF TopicPartition
<1> DEFINE q == queue[r][p]
<1>7. /\ q \in Seq(QueueEntry) /\ Len(q) \in Nat \ {0} /\ q[1].eid = h
      /\ queue'[r][p] = Tail(q)
      /\ Len(Tail(q)) = Len(q) - 1 /\ \A i \in 1..(Len(q) - 1) : Tail(q)[i] = q[i + 1]
  BY <1>1, <1>2 DEF OInv, IInv, TypeOK
<1>8. \A s \in Relays, t \in Partitions : ~(s = r /\ t = p) => queue'[s][t] = queue[s][t]
  BY <1>2 DEF OInv, IInv, TypeOK
<1>9. ASSUME NEW e \in visible, NEW n \in 1..(Len(q) + 1), InLog(e) \/ Ahead(q, e, n)
      PROVE  InLog(e)' \/ Ahead(Tail(q), e, n - 1)
  <2>1. CASE InLog(e)
    BY <1>3, <2>1
  <2>2. CASE Ahead(q, e, n)
    <3>1. PICK i \in 1..(n - 1) : q[i].eid = e
      BY <2>2 DEF Ahead
    <3>2. CASE i = 1
      BY <1>3, <1>7, <3>1, <3>2
    <3>3. CASE i # 1
      <4>1. i - 1 \in 1..((n - 1) - 1) /\ i - 1 \in 1..(Len(q) - 1) /\ (i - 1) + 1 = i
        BY <1>7, <3>1, <3>3
      <4>2. Tail(q)[i - 1].eid = e
        BY <1>7, <3>1, <4>1
      <4> QED BY <4>1, <4>2 DEF Ahead
    <3> QED BY <3>2, <3>3
  <2> QED BY <1>9, <2>1, <2>2
<1>10. ASSUME NEW s \in Relays, NEW t \in Partitions, NEW e \in visible,
              InLog(e) \/ Ahead(queue[s][t], e, Len(queue[s][t]) + 1)
       PROVE  InLog(e)' \/ Ahead(queue'[s][t], e, Len(queue'[s][t]) + 1)
  <2>3. CASE s = r /\ t = p
    <3>1. Len(q) + 1 \in 1..(Len(q) + 1) /\ Len(Tail(q)) + 1 = (Len(q) + 1) - 1
      BY <1>7
    <3>2. InLog(e)' \/ Ahead(Tail(q), e, (Len(q) + 1) - 1)
      BY <1>9, <1>10, <2>3, <3>1
    <3> QED BY <1>7, <2>3, <3>1, <3>2
  <2>4. CASE ~(s = r /\ t = p)
    BY <1>3, <1>8, <1>10, <2>4
  <2> QED BY <2>3, <2>4
<1>12. SentIsUnderWay' /\ LateClosed'
  <2>1. SentIsUnderWay'
    BY <1>2, <1>6, <1>10, VisibleAreRows DEF OInv, SentIsUnderWay
  <2>2. LateClosed'
    <3> SUFFICES ASSUME NEW s \in Relays, NEW t \in Partitions, NEW f \in late[s],
                        NEW e \in visible, Before(e, f), TopicPartition(e) = t
                 PROVE  e \in late[s] \/ InLog(e)'
                            \/ Ahead(queue'[s][t], e, Len(queue'[s][t]) + 1)
      BY <1>2, <1>6 DEF LateClosed, Before
    <3> QED BY <1>10 DEF OInv, LateClosed
  <2> QED BY <2>1, <2>2
<1>11. QueueInOrder'
  <2> SUFFICES ASSUME NEW s \in Relays, NEW t \in Partitions,
                      NEW i \in 1..Len(queue'[s][t]), NEW e \in visible,
                      Before(e, queue'[s][t][i].eid)
               PROVE  InLog(e)' \/ Ahead(queue'[s][t], e, i)
    <3>1. UNCHANGED <<outbox, visible, overlapped>>
      BY <1>2
    <3> QED BY <3>1 DEF QueueInOrder, Before
  <2>1. CASE s = r /\ t = p
    <3>0. queue'[s][t] = Tail(q) /\ i \in 1..(Len(q) - 1)
      BY <1>7, <2>1
    <3>1. i + 1 \in 1..Len(q) /\ queue'[s][t][i] = q[i + 1] /\ (i + 1) - 1 = i
          /\ i + 1 \in 1..(Len(q) + 1)
      BY <1>7, <3>0
    <3>2. InLog(e) \/ Ahead(q, e, i + 1)
      BY <2>1, <3>1 DEF OInv, QueueInOrder
    <3>3. InLog(e)' \/ Ahead(Tail(q), e, (i + 1) - 1)
      BY <1>9, <3>1, <3>2
    <3> QED BY <3>0, <3>1, <3>3
  <2>2. CASE ~(s = r /\ t = p)
    <3>1. queue'[s][t] = queue[s][t]
      BY <1>8, <2>2
    <3>2. InLog(e) \/ Ahead(queue[s][t], e, i)
      BY <3>1 DEF OInv, QueueInOrder
    <3> QED BY <1>3, <3>1, <3>2
  <2> QED BY <2>1, <2>2
<1> QED BY <1>3, <1>4, <1>5, <1>11, <1>12 DEF OInv

\* A claim of the only relay takes every unpublished row that precedes one of
\* its rows.
LEMMA ClaimOrder ==
    ASSUME OInv, NEW r, Relays = {r}, ClaimBatch(r)
    PROVE  OInv'
<1> DEFINE B == Oldest(Claimable, BatchSize)
<1>1. IInv'
  BY RelayStepIInv DEF OInv, RelayStep
<1>2. /\ UNCHANGED <<outbox, open, visible, overlapped, published, log, queue, late>>
      /\ batch[r] = {} /\ batch'[r] = B /\ unsent'[r] = B
  BY DEF ClaimBatch, apiVars, OInv, IInv, TypeOK
<1>3. Claimable = visible \ published
  <2>1. Locked = {}
    BY <1>2 DEF Locked
  <2> QED BY <2>1 DEF Claimable
<1>4. Len(outbox) \in Nat /\ Claimable \in SUBSET (1..Len(outbox))
      /\ B \subseteq Claimable /\ BatchSize \in Nat
  BY <1>3, BatchSizeAssumption DEF OInv, IInv, TypeOK, Rows, Oldest
<1>5. ASSUME NEW f \in B, NEW e \in visible, Before(e, f) PROVE e \in published \cup B
  <2>1. CASE e \in published
    BY <2>1
  <2>2. CASE e \notin published
    <3>1. e \in Claimable /\ e < f
      BY <1>3, <1>5, <2>2 DEF Before
    <3> QED BY <1>4, <3>1, OldestClosed
  <2> QED BY <2>1, <2>2
<1>6. BatchClosed'
  BY <1>2, <1>5 DEF BatchClosed, Before
<1>7. SentIsUnderWay'
  BY <1>2 DEF SentIsUnderWay
<1>8. LoggedIsVisible' /\ EndedInOrder' /\ RowOrderKept' /\ QueueInOrder' /\ LateClosed'
  BY <1>2 DEF OInv, LoggedIsVisible, EndedInOrder, RowOrderKept, QueueInOrder, LateClosed,
              InLog, TopicPartition, Before, Rows
<1> QED BY <1>1, <1>6, <1>7, <1>8 DEF OInv

\* A row may go to the buffer once the rows that precede it have gone there.
LEMMA BufferOrder ==
    ASSUME OInv, NEW r \in Relays, NEW x \in visible, NEW live \in BOOLEAN,
           NEW p \in Partitions, p = TopicPartition(x), Buffer(r, x, live),
           UNCHANGED <<outbox, visible, overlapped, log>>,
           \A e \in visible : Before(e, x) =>
               InLog(e) \/ Ahead(queue[r][p], e, Len(queue[r][p]) + 1)
    PROVE  /\ QueueInOrder'
           /\ Ahead(queue'[r][p], x, Len(queue'[r][p]) + 1)
           /\ \A s \in Relays, t \in Partitions : \A e :
                  Ahead(queue[s][t], e, Len(queue[s][t]) + 1)
                      => Ahead(queue'[s][t], e, Len(queue'[s][t]) + 1)
<1> DEFINE q == queue[r][p]
           z == [eid |-> x, live |-> live]
<1>1. x \in Nat /\ z \in QueueEntry
  BY VisibleAreRows DEF OInv, QueueEntry
<1>2. queue' = [queue EXCEPT ![r][p] = Append(@, z)]
  BY DEF Buffer
<1>3. queue'[r][p] = Append(q, z) /\ q \in Seq(QueueEntry) /\ Len(q) \in Nat
  BY <1>2 DEF OInv, IInv, TypeOK
<1>4. \A s \in Relays, t \in Partitions : ~(s = r /\ t = p) => queue'[s][t] = queue[s][t]
  BY <1>2 DEF OInv, IInv, TypeOK
<1>5. /\ Len(Append(q, z)) = Len(q) + 1 /\ Append(q, z)[Len(q) + 1].eid = x
      /\ \A i \in 1..Len(q) : Append(q, z)[i] = q[i]
  BY <1>1, <1>3
<1>6. \A e : \A n \in 1..(Len(q) + 1) : Ahead(Append(q, z), e, n) <=> Ahead(q, e, n)
  <2> SUFFICES ASSUME NEW e, NEW n \in 1..(Len(q) + 1)
               PROVE  Ahead(Append(q, z), e, n) <=> Ahead(q, e, n)
    OBVIOUS
  <2>1. \A i \in 1..(n - 1) : Append(q, z)[i] = q[i]
    BY <1>3, <1>5
  <2> QED BY <2>1 DEF Ahead
<1>7. Ahead(queue'[r][p], x, Len(queue'[r][p]) + 1)
  <2>1. Len(q) + 1 \in 1..((Len(q) + 2) - 1)
    BY <1>3
  <2>2. Ahead(Append(q, z), x, Len(q) + 2)
    BY <1>5, <2>1 DEF Ahead
  <2>3. Len(q) + 2 = Len(Append(q, z)) + 1
    BY <1>3, <1>5
  <2> QED BY <1>3, <2>2, <2>3
<1>8. ASSUME NEW s \in Relays, NEW t \in Partitions, NEW e,
             Ahead(queue[s][t], e, Len(queue[s][t]) + 1)
      PROVE  Ahead(queue'[s][t], e, Len(queue'[s][t]) + 1)
  <2>1. CASE s = r /\ t = p
    <3>1. PICK i \in 1..((Len(q) + 1) - 1) : q[i].eid = e
      BY <1>8, <2>1 DEF Ahead
    <3>2. i \in 1..((Len(Append(q, z)) + 1) - 1) /\ Append(q, z)[i].eid = e
      BY <1>3, <1>5, <3>1
    <3> QED BY <1>3, <2>1, <3>2 DEF Ahead
  <2>2. CASE ~(s = r /\ t = p)
    BY <1>4, <1>8, <2>2
  <2> QED BY <2>1, <2>2
<1>9. \A e : InLog(e)' <=> InLog(e)
  BY DEF InLog, TopicPartition
<1>10. QueueInOrder'
  <2> SUFFICES ASSUME NEW s \in Relays, NEW t \in Partitions,
                      NEW i \in 1..Len(queue'[s][t]), NEW e \in visible,
                      Before(e, queue'[s][t][i].eid)
               PROVE  InLog(e) \/ Ahead(queue'[s][t], e, i)
    BY <1>9 DEF QueueInOrder, Before
  <2>1. CASE s = r /\ t = p /\ i \in 1..Len(q)
    <3>1. Before(e, q[i].eid) /\ i \in 1..(Len(q) + 1)
      BY <1>3, <1>5, <2>1
    <3>2. InLog(e) \/ Ahead(q, e, i)
      BY <2>1, <3>1 DEF OInv, QueueInOrder
    <3> QED BY <1>3, <1>6, <2>1, <3>1, <3>2
  <2>2. CASE s = r /\ t = p /\ i = Len(q) + 1
    <3>1. Before(e, x)
      BY <1>3, <1>5, <2>2
    <3>2. InLog(e) \/ Ahead(q, e, Len(q) + 1)
      BY <3>1
    <3>3. Len(q) + 1 \in 1..(Len(q) + 1)
      BY <1>3
    <3> QED BY <1>3, <1>6, <2>2, <3>2, <3>3
  <2>3. CASE ~(s = r /\ t = p)
    BY <1>4, <2>3 DEF OInv, QueueInOrder
  <2> QED BY <1>3, <1>5, <2>1, <2>2, <2>3
<1> QED BY <1>7, <1>8, <1>10

\* What is sent next follows the rows of its key that were sent before.
LEMMA SendOrder ==
    ASSUME OInv, NEW r \in Relays, Send(r)
    PROVE  OInv'
<1>1. PICK x \in NextToSend(unsent[r]) :
          unsent' = [unsent EXCEPT ![r] = @ \ {x}] /\ Buffer(r, x, TRUE)
  BY DEF Send
<1>2. IInv'
  BY RelayStepIInv DEF OInv, RelayStep
<1>3. UNCHANGED <<outbox, open, visible, overlapped, published, log, batch, late>>
  BY DEF Send, apiVars
<1>4. /\ x \in unsent[r] /\ x \in visible /\ x \in Nat /\ x \in batch[r]
      /\ \A f \in unsent[r] : x <= f
  BY VisibleAreRows DEF OInv, BatchClosed, NextToSend
<1>5. PICK p \in Partitions : p = TopicPartition(x)
  BY <1>4, PartitionOfVisible DEF OInv, IInv
<1>6. \A s \in Relays : unsent'[s] \subseteq unsent[s] /\ unsent[s] \subseteq unsent'[s] \cup {x}
      /\ (s # r => unsent'[s] = unsent[s])
  BY <1>1 DEF OInv, IInv, TypeOK
<1>7. ASSUME NEW e \in visible, Before(e, x)
      PROVE  InLog(e) \/ Ahead(queue[r][p], e, Len(queue[r][p]) + 1)
  <2>1. e \in published \/ e \in batch[r]
    BY <1>4, <1>7 DEF OInv, BatchClosed
  <2>2. CASE e \in published
    BY <2>2 DEF OInv, IInv, PublishedIsInLog
  <2>3. CASE e \in batch[r]
    <3>1. e < x /\ e \in Nat /\ TopicPartition(e) = p
      BY <1>5, <1>7, VisibleAreRows DEF OInv, Before, TopicPartition
    <3>2. e \notin unsent[r]
      BY <1>4, <3>1
    <3> QED BY <2>3, <3>1, <3>2 DEF OInv, SentIsUnderWay
  <2> QED BY <2>1, <2>2, <2>3
<1>8. /\ QueueInOrder'
      /\ Ahead(queue'[r][p], x, Len(queue'[r][p]) + 1)
      /\ \A s \in Relays, t \in Partitions : \A e :
             Ahead(queue[s][t], e, Len(queue[s][t]) + 1)
                 => Ahead(queue'[s][t], e, Len(queue'[s][t]) + 1)
  BY <1>1, <1>3, <1>4, <1>5, <1>7, BufferOrder
<1>9. LoggedIsVisible' /\ EndedInOrder' /\ RowOrderKept' /\ BatchClosed'
  BY <1>3, <1>6 DEF OInv, LoggedIsVisible, EndedInOrder, RowOrderKept, BatchClosed,
                    TopicPartition, Before, Rows
<1>10. \A e : (InLog(e)' <=> InLog(e)) /\ TopicPartition(e)' = TopicPartition(e)
  BY <1>3 DEF InLog, TopicPartition
<1>11. SentIsUnderWay'
  <2> SUFFICES ASSUME NEW s \in Relays, NEW t \in Partitions,
                      NEW e \in batch[s] \ unsent'[s], TopicPartition(e) = t
               PROVE  InLog(e) \/ Ahead(queue'[s][t], e, Len(queue'[s][t]) + 1)
    BY <1>3, <1>10 DEF SentIsUnderWay
  <2>1. CASE e \in unsent[s]
    BY <1>5, <1>6, <1>8, <2>1
  <2>2. CASE e \notin unsent[s]
    BY <1>8, <2>2 DEF OInv, SentIsUnderWay
  <2> QED BY <2>1, <2>2
<1>12. LateClosed'
  BY <1>3, <1>8, <1>10 DEF OInv, LateClosed, Before
<1> QED BY <1>2, <1>8, <1>9, <1>11, <1>12 DEF OInv

\* Nor does a row sent late overtake one.
LEMMA SendLateOrder ==
    ASSUME OInv, NEW r \in Relays, SendLate(r)
    PROVE  OInv'
<1>1. PICK x \in NextToSend(late[r]) :
          late' = [late EXCEPT ![r] = @ \ {x}] /\ Buffer(r, x, FALSE)
  BY DEF SendLate
<1>2. IInv'
  BY RelayStepIInv DEF OInv, RelayStep
<1>3. UNCHANGED <<outbox, open, visible, overlapped, published, log, batch, unsent>>
  BY DEF SendLate, apiVars
<1>4. /\ x \in late[r] /\ x \in visible /\ x \in Nat
      /\ \A f \in late[r] : x <= f
  BY VisibleAreRows DEF OInv, NextToSend
<1>5. PICK p \in Partitions : p = TopicPartition(x)
  BY <1>4, PartitionOfVisible DEF OInv, IInv
<1>6. \A s \in Relays : late'[s] \subseteq late[s] /\ late[s] \subseteq late'[s] \cup {x}
      /\ (s # r => late'[s] = late[s])
  BY <1>1 DEF OInv, IInv, TypeOK
<1>7. ASSUME NEW e \in visible, Before(e, x)
      PROVE  InLog(e) \/ Ahead(queue[r][p], e, Len(queue[r][p]) + 1)
  <2>1. e < x /\ e \in Nat /\ TopicPartition(e) = p
    BY <1>5, <1>7, VisibleAreRows DEF OInv, Before, TopicPartition
  <2>2. e \notin late[r]
    BY <1>4, <2>1
  <2> QED BY <1>4, <1>7, <2>1, <2>2 DEF OInv, LateClosed
<1>8. /\ QueueInOrder'
      /\ Ahead(queue'[r][p], x, Len(queue'[r][p]) + 1)
      /\ \A s \in Relays, t \in Partitions : \A e :
             Ahead(queue[s][t], e, Len(queue[s][t]) + 1)
                 => Ahead(queue'[s][t], e, Len(queue'[s][t]) + 1)
  BY <1>1, <1>3, <1>4, <1>5, <1>7, BufferOrder
<1>9. LoggedIsVisible' /\ EndedInOrder' /\ RowOrderKept' /\ BatchClosed'
  BY <1>3 DEF OInv, LoggedIsVisible, EndedInOrder, RowOrderKept, BatchClosed,
              TopicPartition, Before, Rows
<1>10. \A e : (InLog(e)' <=> InLog(e)) /\ TopicPartition(e)' = TopicPartition(e)
  BY <1>3 DEF InLog, TopicPartition
<1>11. SentIsUnderWay'
  BY <1>3, <1>8, <1>10 DEF OInv, SentIsUnderWay
<1>12. LateClosed'
  <2> SUFFICES ASSUME NEW s \in Relays, NEW t \in Partitions, NEW f \in late'[s],
                      NEW e \in visible, Before(e, f), TopicPartition(e) = t,
                      e \notin late'[s]
               PROVE  InLog(e) \/ Ahead(queue'[s][t], e, Len(queue'[s][t]) + 1)
    BY <1>3, <1>10 DEF LateClosed, Before
  <2>1. CASE e \in late[s]
    BY <1>5, <1>6, <1>8, <2>1
  <2>2. CASE e \notin late[s]
    BY <1>6, <1>8, <2>2 DEF OInv, LateClosed
  <2> QED BY <2>1, <2>2
<1> QED BY <1>2, <1>8, <1>9, <1>11, <1>12 DEF OInv

\* A lost acknowledgement leaves the buffer as it is.
LEMMA AcknowledgementLostOrder ==
    ASSUME OInv, NEW r \in Relays, NEW p \in Partitions, AcknowledgementLost(r, p)
    PROVE  OInv'
<1>1. PICK h : h = Head(queue[r][p]).eid
  OBVIOUS
<1>2. /\ UNCHANGED <<outbox, open, visible, overlapped, published, batch, unsent, late, queue>>
      /\ AppendHead(r, p)
  BY DEF AcknowledgementLost, apiVars, passVars
<1>3. /\ \A e \in visible : InLog(e) => InLog(e)'
      /\ LoggedIsVisible' /\ RowOrderKept'
  BY <1>1, <1>2, AppendOrder
<1>4. IInv'
  BY DisturbIInv DEF OInv, Disturb
<1>5. EndedInOrder' /\ BatchClosed'
  BY <1>2 DEF OInv, EndedInOrder, BatchClosed, Before, Rows
<1>6. SentIsUnderWay'
  BY <1>2, <1>3, VisibleAreRows DEF OInv, SentIsUnderWay, TopicPartition
<1>7. QueueInOrder'
  BY <1>2, <1>3 DEF OInv, QueueInOrder, Before
<1>8. LateClosed'
  BY <1>2, <1>3 DEF OInv, LateClosed, Before, TopicPartition
<1> QED BY <1>3, <1>4, <1>5, <1>6, <1>7, <1>8 DEF OInv

\* The end of the only relay's pass leaves the buffered rows in their order.
LEMMA EndPassOrder ==
    ASSUME OInv, IInv', NEW r, Relays = {r}, EndPass(r),
           UNCHANGED <<outbox, open, visible, overlapped, log>>, published \subseteq published',
           \/ queue' = queue /\ late' = late
           \/ /\ queue' = [queue EXCEPT ![r] = Orphaned(queue[r])]
              /\ late'[r] = {} \/ late'[r] = unsent[r]
           \/ queue' = [queue EXCEPT ![r] = EmptyQueue] /\ late'[r] = {}
    PROVE  OInv'
<1>1. batch'[r] = {} /\ unsent'[r] = {}
  BY DEF EndPass, OInv, IInv, TypeOK
<1>2. LoggedIsVisible' /\ EndedInOrder' /\ RowOrderKept'
  BY DEF OInv, LoggedIsVisible, EndedInOrder, RowOrderKept, TopicPartition, Before, Rows
<1>3. BatchClosed' /\ SentIsUnderWay'
  BY <1>1 DEF BatchClosed, SentIsUnderWay
<1>4. \A p \in Partitions : \A i \in 1..Len(queue'[r][p]) :
          /\ i \in 1..Len(queue[r][p])
          /\ \A h \in 1..i : queue'[r][p][h].eid = queue[r][p][h].eid
  <2> SUFFICES ASSUME NEW p \in Partitions, NEW i \in 1..Len(queue'[r][p])
               PROVE  /\ i \in 1..Len(queue[r][p])
                      /\ \A h \in 1..i : queue'[r][p][h].eid = queue[r][p][h].eid
    OBVIOUS
  <2>1. queue[r][p] \in Seq(QueueEntry) /\ queue \in [Relays -> [Partitions -> Seq(QueueEntry)]]
    BY DEF OInv, IInv, TypeOK
  <2>2. CASE queue' = queue
    BY <2>1, <2>2
  <2>3. CASE queue' = [queue EXCEPT ![r] = Orphaned(queue[r])]
    <3>1. queue'[r][p] = [k \in 1..Len(queue[r][p]) |->
                             [eid |-> queue[r][p][k].eid, live |-> FALSE]]
      BY <2>1, <2>3 DEF Orphaned
    <3>2. Len(queue'[r][p]) = Len(queue[r][p])
      BY <2>1, <3>1
    <3> QED BY <2>1, <3>1, <3>2
  <2>4. CASE queue' = [queue EXCEPT ![r] = EmptyQueue]
    BY <2>1, <2>4 DEF EmptyQueue
  <2> QED BY <2>2, <2>3, <2>4
<1>5. QueueInOrder'
  <2> SUFFICES ASSUME NEW p \in Partitions, NEW i \in 1..Len(queue'[r][p]),
                      NEW e \in visible, Before(e, queue'[r][p][i].eid)
               PROVE  InLog(e) \/ Ahead(queue'[r][p], e, i)
    BY DEF QueueInOrder, Before, InLog, TopicPartition
  <2>1. i \in 1..Len(queue[r][p]) /\ Before(e, queue[r][p][i].eid)
    BY <1>4
  <2>2. InLog(e) \/ Ahead(queue[r][p], e, i)
    BY <2>1 DEF OInv, QueueInOrder
  <2>3. ASSUME Ahead(queue[r][p], e, i) PROVE Ahead(queue'[r][p], e, i)
    <3>1. PICK h \in 1..(i - 1) : queue[r][p][h].eid = e
      BY <2>3 DEF Ahead
    <3>2. h \in 1..i
      BY <3>1
    <3> QED BY <1>4, <3>1, <3>2 DEF Ahead
  <2> QED BY <2>2, <2>3
<1>6. LateClosed'
  <2>1. CASE queue' = queue /\ late' = late
    BY <2>1 DEF OInv, LateClosed, Before, InLog, TopicPartition
  <2>2. CASE late'[r] = {}
    BY <2>2 DEF LateClosed
  <2>3. CASE queue' = [queue EXCEPT ![r] = Orphaned(queue[r])] /\ late'[r] = unsent[r]
    <3> SUFFICES ASSUME NEW p \in Partitions, NEW f \in unsent[r], NEW e \in visible,
                        Before(e, f), TopicPartition(e) = p, e \notin unsent[r]
                 PROVE  InLog(e) \/ Ahead(queue'[r][p], e, Len(queue'[r][p]) + 1)
      BY <2>3 DEF LateClosed, Before, InLog, TopicPartition
    <3>1. e \in published \/ e \in batch[r]
      BY DEF OInv, BatchClosed
    <3>2. InLog(e) \/ Ahead(queue[r][p], e, Len(queue[r][p]) + 1)
      BY <3>1 DEF OInv, IInv, PublishedIsInLog, SentIsUnderWay
    <3>3. ASSUME Ahead(queue[r][p], e, Len(queue[r][p]) + 1)
          PROVE  Ahead(queue'[r][p], e, Len(queue'[r][p]) + 1)
      <4>1. queue[r][p] \in Seq(QueueEntry)
            /\ queue \in [Relays -> [Partitions -> Seq(QueueEntry)]]
        BY DEF OInv, IInv, TypeOK
      <4>2. queue'[r][p] = [k \in 1..Len(queue[r][p]) |->
                               [eid |-> queue[r][p][k].eid, live |-> FALSE]]
        BY <2>3, <4>1 DEF Orphaned
      <4>3. Len(queue'[r][p]) = Len(queue[r][p]) /\ Len(queue[r][p]) \in Nat
        BY <4>1, <4>2
      <4>4. PICK i \in 1..((Len(queue[r][p]) + 1) - 1) : queue[r][p][i].eid = e
        BY <3>3 DEF Ahead
      <4>5. i \in 1..Len(queue[r][p]) /\ queue'[r][p][i].eid = e
        BY <4>2, <4>3, <4>4
      <4> QED BY <4>3, <4>4, <4>5 DEF Ahead
    <3> QED BY <3>2, <3>3
  <2> QED BY <2>1, <2>2, <2>3
<1> QED BY <1>2, <1>3, <1>5, <1>6 DEF OInv

\* The invariant of one relay is inductive.
LEMMA StepOInv == OneRelay /\ OInv /\ [Next]_vars => OInv'
<1> SUFFICES ASSUME OneRelay, OInv, [Next]_vars PROVE OInv'
  OBVIOUS
<1>1. PICK r : Relays = {r}
  BY DEF OneRelay
<1>2. IInv'
  BY StepIInv DEF OInv
<1>3. ASSUME UNCHANGED <<apiVars, published, log, batch, unsent, late, queue>>
      PROVE  OInv'
  BY <1>2, <1>3 DEF OInv, LoggedIsVisible, EndedInOrder, BatchClosed, SentIsUnderWay,
                    LateClosed, QueueInOrder, RowOrderKept, TopicPartition, InLog, Before,
                    Rows, apiVars
<1>4. CASE UNCHANGED vars
  BY <1>3, <1>4 DEF vars, apiVars
<1>5. ASSUME NEW ev \in Events, RecordEvent(ev) PROVE OInv'
  BY <1>5, RecordEventOrder
<1>6. ASSUME NEW e \in Rows, NEW commits \in BOOLEAN, EndTransaction(e, commits) PROVE OInv'
  BY <1>6, EndTransactionOrder
<1>7. CASE RelayStep(r)
  <2>1. CASE MarkPublished(r)
    BY <1>1, <1>2, <2>1, EndPassOrder DEF MarkPublished, apiVars
  <2>2. CASE Exit(r)
    <3>1. late'[r] = {}
      BY <1>1, <2>2 DEF Exit, Fresh, OInv, IInv, TypeOK
    <3> QED BY <1>1, <1>2, <2>2, <3>1, EndPassOrder DEF Exit, Fresh, apiVars
  <2> QED BY <1>1, <1>7, <2>1, <2>2, ClaimOrder, SendOrder, SendLateOrder, AcknowledgeOrder
          DEF RelayStep
<1>8. CASE Disturb(r)
  <2>1. CASE \E p \in Partitions : SendFails(r, p)
    BY <2>1 DEF SendFails, Fault, OneRelay
  <2>2. CASE PassFails(r) \/ ConnectionLost(r)
    <3>1. late'[r] = {} \/ late'[r] = unsent[r]
      BY <1>1, <2>2 DEF PassFails, ConnectionLost, OInv, IInv, TypeOK
    <3> QED BY <1>1, <1>2, <2>2, <3>1, EndPassOrder DEF PassFails, ConnectionLost, apiVars
  <2>3. CASE Crash(r)
    <3>1. late'[r] = {}
      BY <1>1, <2>3 DEF Crash, Fresh, OInv, IInv, TypeOK
    <3> QED BY <1>1, <1>2, <2>3, <3>1, EndPassOrder DEF Crash, Fresh, apiVars
  <2>4. CASE Stop(r)
    BY <1>3, <2>4 DEF Stop, passVars
  <2> QED BY <1>1, <1>8, <2>1, <2>2, <2>3, <2>4, AcknowledgementLostOrder DEF Disturb
<1> QED BY <1>1, <1>4, <1>5, <1>6, <1>7, <1>8 DEF Next

\* One relay whose producer keeps trying publishes the rows of a topic and key
\* in their order, those of overlapping destroys aside, through lost
\* acknowledgements, lost connections, failed passes and crashes.
THEOREM OrderKept == Spec => [](OneRelay => RowOrderKept)
<1>1. Init => (OneRelay => OInv)
  BY InitOInv
<1>2. (OneRelay => OInv) /\ [Next]_vars => (OneRelay => OInv)'
  BY StepOInv DEF OneRelay
<1>3. (OneRelay => OInv) => (OneRelay => RowOrderKept)
  BY DEF OInv
<1> QED BY <1>1, <1>2, <1>3, PTL DEF Spec

-----------------------------------------------------------------------------
(* Duplicates.  The records of a row in the log, those on their way in any   *)
(* producer's buffer, those that passes without a connection have yet to     *)
(* send, and the one a later pass may still send, are together at most one   *)
(* more than there were faults.                                              *)

\* A row is held by one relay at a time, unpublished, and answered when sent.
HeldOnce ==
    \A r \in Relays :
        /\ unsent[r] \subseteq batch[r]
        /\ acked[r] \cup failed[r] \subseteq batch[r] \ unsent[r]
        /\ batch[r] \cap published = {}
        /\ \A s \in Relays : r # s => batch[r] \cap batch[s] = {}

\* A buffered record with a live future is of a row the pass has sent and has no
\* answer for yet.
LiveIsUnanswered ==
    \A r \in Relays, p \in Partitions : \A i \in 1..Len(queue[r][p]) :
        queue[r][p][i].live =>
            queue[r][p][i].eid \in batch[r] \ (unsent[r] \cup acked[r] \cup failed[r])

\* It is the only one of its row.
Once(q) ==
    \A i, j \in 1..Len(q) : (q[i].live /\ q[j].live /\ q[i].eid = q[j].eid) => i = j

LiveOnce == \A r \in Relays, p \in Partitions : Once(queue[r][p])

\* Where row e stands in the buffers q for partition p.
QueuedAt(q, p, e) ==
    {x \in Relays \X Nat : x[2] \in 1..Len(q[x[1]][p]) /\ q[x[1]][p][x[2]].eid = e}

InFlight(e) == QueuedAt(queue, TopicPartition(e), e)

\* The relays whose pass has lost its connection and is yet to send row e.
LateIn(e) == {r \in Relays : e \in late[r]}

\* Some pass, this one or a later one, will give row e to send().
ToBeSent(e) ==
    e \notin published /\ \A r \in Relays : e \in batch[r] => e \in unsent[r] \cup failed[r]

One(b) == IF b THEN 1 ELSE 0

Accounted ==
    \A e \in visible :
        /\ IsFiniteSet(InFlight(e)) /\ IsFiniteSet(LateIn(e))
        /\ Copies(e) + Cardinality(InFlight(e)) + Cardinality(LateIn(e)) + One(ToBeSent(e))
               <= 1 + faults

DInv == /\ IInv
        /\ LoggedIsVisible
        /\ HeldOnce
        /\ LiveIsUnanswered
        /\ LiveOnce
        /\ Accounted

\* Taking the head off a buffer moves the others up.
LEMMA TailMoves ==
    ASSUME TypeOK, NEW r \in Relays, NEW p \in Partitions, queue[r][p] # <<>>,
           queue' = [queue EXCEPT ![r][p] = Tail(queue[r][p])]
    PROVE  /\ queue[r][p] \in Seq(QueueEntry) /\ Len(queue[r][p]) \in Nat \ {0}
           /\ Head(queue[r][p]) = queue[r][p][1]
           /\ Len(queue'[r][p]) = Len(queue[r][p]) - 1
           /\ \A i \in 1..Len(queue'[r][p]) :
                  i + 1 \in 1..Len(queue[r][p]) /\ queue'[r][p][i] = queue[r][p][i + 1]
           /\ \A s \in Relays, q \in Partitions :
                  ~(s = r /\ q = p) => queue'[s][q] = queue[s][q]
<1>1. queue[r][p] \in Seq(QueueEntry) /\ Len(queue[r][p]) \in Nat \ {0}
  BY DEF TypeOK
<1>2. queue'[r][p] = Tail(queue[r][p])
  BY DEF TypeOK
<1>3. \A s \in Relays, q \in Partitions :
          ~(s = r /\ q = p) => queue'[s][q] = queue[s][q]
  BY DEF TypeOK
<1>4. Head(queue[r][p]) = queue[r][p][1] /\ Len(Tail(queue[r][p])) = Len(queue[r][p]) - 1
  BY <1>1
<1>5. \A i \in 1..Len(Tail(queue[r][p])) :
          i + 1 \in 1..Len(queue[r][p]) /\ Tail(queue[r][p])[i] = queue[r][p][i + 1]
  BY TailElements
<1> QED BY <1>1, <1>2, <1>3, <1>4, <1>5

\* What send() does to the buffers.
LEMMA BufferShape ==
    ASSUME TypeOK, NEW r \in Relays, NEW x \in visible, NEW live \in BOOLEAN,
           NEW p \in Partitions, p = TopicPartition(x), Buffer(r, x, live)
    PROVE  /\ Len(queue[r][p]) \in Nat
           /\ Len(queue'[r][p]) = Len(queue[r][p]) + 1
           /\ queue'[r][p][Len(queue[r][p]) + 1] = [eid |-> x, live |-> live]
           /\ \A i \in 1..Len(queue[r][p]) : queue'[r][p][i] = queue[r][p][i]
           /\ \A s \in Relays, t \in Partitions :
                  ~(s = r /\ t = p) => queue'[s][t] = queue[s][t]
<1> DEFINE z == [eid |-> x, live |-> live]
<1>1. z \in QueueEntry
  BY DEF TypeOK, Rows, QueueEntry
<1>2. queue'[r][p] = Append(queue[r][p], z) /\ queue[r][p] \in Seq(QueueEntry)
  BY DEF Buffer, TypeOK
<1>3. \A s \in Relays, t \in Partitions : ~(s = r /\ t = p) => queue'[s][t] = queue[s][t]
  BY DEF Buffer, TypeOK
<1> HIDE DEF z
<1>4. /\ Len(queue[r][p]) \in Nat /\ Len(queue'[r][p]) = Len(queue[r][p]) + 1
      /\ queue'[r][p][Len(queue[r][p]) + 1] = z
      /\ \A i \in 1..Len(queue[r][p]) : queue'[r][p][i] = queue[r][p][i]
  BY <1>1, <1>2
<1> QED BY <1>3, <1>4 DEF z

\* A shorter buffer repeats no live record.
LEMMA OnceTail ==
    ASSUME NEW q \in Seq(QueueEntry), q # <<>>, Once(q)
    PROVE  Once(Tail(q))
<1>1. \A i \in 1..Len(Tail(q)) : i + 1 \in 1..Len(q) /\ Tail(q)[i] = q[i + 1]
  BY TailElements
<1>2. Len(Tail(q)) \in Nat
  OBVIOUS
<1> HIDE DEF QueueEntry
<1> SUFFICES ASSUME NEW i \in 1..Len(Tail(q)), NEW j \in 1..Len(Tail(q)),
                    Tail(q)[i].live, Tail(q)[j].live, Tail(q)[i].eid = Tail(q)[j].eid
             PROVE  i = j
  BY DEF Once
<1>3. /\ i + 1 \in 1..Len(q) /\ j + 1 \in 1..Len(q)
      /\ q[i + 1].live /\ q[j + 1].live /\ q[i + 1].eid = q[j + 1].eid
  BY <1>1
<1>4. i + 1 = j + 1
  BY <1>3 DEF Once
<1> QED BY <1>2, <1>4

\* The head's row is the head's alone.
LEMMA OnceHead ==
    ASSUME NEW q, Once(q), NEW i \in 1..Len(q), i # 1, 1 \in 1..Len(q), q[1].live, q[i].live
    PROVE  q[i].eid # q[1].eid
BY DEF Once

\* Nor does a buffer that gets a record of a row it has no live record of.
LEMMA OnceAppend ==
    ASSUME NEW q, NEW s, Len(q) \in Nat, Len(s) = Len(q) + 1, Once(q),
           \A i \in 1..Len(q) : s[i] = q[i],
           \A i \in 1..Len(q) : q[i].live => q[i].eid # s[Len(q) + 1].eid
    PROVE  Once(s)
<1> SUFFICES ASSUME NEW i \in 1..Len(s), NEW j \in 1..Len(s),
                    s[i].live, s[j].live, s[i].eid = s[j].eid
             PROVE  i = j
  BY DEF Once
<1>1. CASE i \in 1..Len(q) /\ j \in 1..Len(q)
  BY <1>1 DEF Once
<1>2. CASE i = Len(q) + 1 \/ j = Len(q) + 1
  BY <1>2
<1> QED BY <1>1, <1>2

\* Nor one that gets a record nobody waits for.
LEMMA OnceAppendLate ==
    ASSUME NEW q, NEW s, Len(q) \in Nat, Len(s) = Len(q) + 1, Once(q),
           \A i \in 1..Len(q) : s[i] = q[i], ~s[Len(q) + 1].live
    PROVE  Once(s)
<1> SUFFICES ASSUME NEW i \in 1..Len(s), NEW j \in 1..Len(s),
                    s[i].live, s[j].live, s[i].eid = s[j].eid
             PROVE  i = j
  BY DEF Once
<1>1. i \in 1..Len(q) /\ j \in 1..Len(q)
  OBVIOUS
<1> QED BY <1>1 DEF Once

\* An answer goes to a row the pass has sent, once.
LEMMA ResolveHeld ==
    ASSUME IInv, HeldOnce, LiveIsUnanswered, LiveOnce, NEW r \in Relays, NEW p \in Partitions,
           queue[r][p] # <<>>,
           queue' = [queue EXCEPT ![r][p] = Tail(queue[r][p])],
           UNCHANGED <<batch, unsent, published>>,
           \/ ResolveHead(r, p, acked) /\ failed' = failed
           \/ ResolveHead(r, p, failed) /\ acked' = acked
    PROVE  HeldOnce' /\ LiveIsUnanswered' /\ LiveOnce'
<1> DEFINE q == queue[r][p]
           x == q[1].eid
<1>0. /\ Len(q) \in Nat \ {0} /\ Head(q) = q[1]
      /\ Len(queue'[r][p]) = Len(q) - 1
      /\ \A i \in 1..Len(queue'[r][p]) : i + 1 \in 1..Len(q) /\ queue'[r][p][i] = q[i + 1]
      /\ \A s \in Relays, t \in Partitions : ~(s = r /\ t = p) => queue'[s][t] = queue[s][t]
  <2>1. TypeOK
    BY DEF IInv
  <2> QED BY <2>1, TailMoves
<1>1. 1 \in 1..Len(q)
  BY <1>0
<1>2. /\ TopicPartition(x) = p
      /\ q[1].live => x \in batch[r] \ (unsent[r] \cup acked[r] \cup failed[r])
  BY <1>1 DEF IInv, QueuedIsVisible, LiveIsUnanswered
<1>3. /\ acked \in [Relays -> SUBSET visible] /\ failed \in [Relays -> SUBSET visible]
  BY DEF IInv, TypeOK
<1>4. /\ \A s \in Relays : s # r => acked'[s] = acked[s] /\ failed'[s] = failed[s]
      /\ ~q[1].live => acked' = acked /\ failed' = failed
      /\ q[1].live => acked'[r] \cup failed'[r] = acked[r] \cup failed[r] \cup {x}
  BY <1>0, <1>3 DEF ResolveHead
<1>5. HeldOnce'
  BY <1>2, <1>4 DEF HeldOnce
<1>6. LiveOnce'
  <2>1. queue'[r][p] = Tail(q) /\ q \in Seq(QueueEntry)
    BY DEF IInv, TypeOK
  <2>2. Once(Tail(q))
    BY <2>1, OnceTail DEF LiveOnce
  <2>3. ASSUME NEW s \in Relays, NEW t \in Partitions PROVE Once(queue'[s][t])
    <3>1. CASE s = r /\ t = p
      BY <2>1, <2>2, <3>1
    <3>2. CASE ~(s = r /\ t = p)
      BY <1>0, <3>2 DEF LiveOnce
    <3> QED BY <3>1, <3>2
  <2> QED BY <2>3 DEF LiveOnce
<1>7. LiveIsUnanswered'
  <2> SUFFICES ASSUME NEW s \in Relays, NEW t \in Partitions,
                      NEW i \in 1..Len(queue'[s][t]), queue'[s][t][i].live
               PROVE  queue'[s][t][i].eid
                          \in batch[s] \ (unsent[s] \cup acked'[s] \cup failed'[s])
    BY DEF LiveIsUnanswered
  <2>1. CASE s # r
    <3>1. queue'[s][t] = queue[s][t] /\ acked'[s] = acked[s] /\ failed'[s] = failed[s]
      BY <1>0, <1>4, <2>1
    <3> QED BY <3>1 DEF LiveIsUnanswered
  <2>2. CASE s = r
    <3> DEFINE y == queue'[s][t][i].eid
    <3>1. /\ y \in batch[r] \ (unsent[r] \cup acked[r] \cup failed[r])
          /\ q[1].live => y # x
      <4>1. CASE t # p
        <5>1. queue'[s][t] = queue[r][t]
          BY <1>0, <2>2, <4>1
        <5>2. TopicPartition(y) = t
          BY <5>1 DEF IInv, QueuedIsVisible
        <5> QED BY <1>2, <4>1, <5>1, <5>2 DEF LiveIsUnanswered
      <4>2. CASE t = p
        <5>0. i + 1 \in 1..Len(q) /\ i + 1 # 1 /\ queue'[s][t][i] = q[i + 1]
          <6>1. i \in 1..Len(queue'[r][p])
            BY <2>2, <4>2
          <6> QED BY <1>0, <2>2, <4>2, <6>1
        <5>1. y = q[i + 1].eid /\ q[i + 1].live
          BY <5>0
        <5>2. y \in batch[r] \ (unsent[r] \cup acked[r] \cup failed[r])
          BY <5>0, <5>1 DEF LiveIsUnanswered
        <5>3. ASSUME q[1].live, y = x PROVE FALSE
          <6>1. Once(q) /\ q[1].live
            BY <5>3 DEF LiveOnce
          <6>2. q[i + 1].eid # q[1].eid
            BY <1>1, <5>0, <5>1, <6>1, OnceHead
          <6> QED BY <5>1, <5>3, <6>2
        <5> QED BY <5>2, <5>3
      <4> QED BY <4>1, <4>2
    <3> HIDE DEF y
    <3>2. y \notin acked'[r] \cup failed'[r]
      <4>1. CASE q[1].live
        BY <1>4, <3>1, <4>1
      <4>2. CASE ~q[1].live
        BY <1>4, <3>1, <4>2
      <4> QED BY <4>1, <4>2
    <3> QED BY <2>2, <3>1, <3>2 DEF y
  <2> QED BY <2>1, <2>2
<1> QED BY <1>5, <1>6, <1>7

\* A pass ends with no live record left in the buffer.
LEMMA EndPassHeld ==
    ASSUME IInv, HeldOnce, LiveIsUnanswered, LiveOnce, NEW r \in Relays, EndPass(r),
           published' \in {published, published \cup acked[r]},
           \/ queue' = queue /\ Resolved(r)
           \/ queue' = [queue EXCEPT ![r] = Orphaned(queue[r])]
           \/ queue' = [queue EXCEPT ![r] = EmptyQueue]
    PROVE  HeldOnce' /\ LiveIsUnanswered' /\ LiveOnce'
<1>1. /\ batch'[r] = {} /\ unsent'[r] = {} /\ acked'[r] = {} /\ failed'[r] = {}
      /\ \A s \in Relays : s # r => /\ batch'[s] = batch[s] /\ unsent'[s] = unsent[s]
                                    /\ acked'[s] = acked[s] /\ failed'[s] = failed[s]
  BY DEF EndPass, IInv, TypeOK
<1>2. \A s \in Relays : s # r => batch[s] \cap acked[r] = {}
  BY DEF HeldOnce
<1>3. HeldOnce'
  BY <1>1, <1>2 DEF HeldOnce
<1>4. queue \in [Relays -> [Partitions -> Seq(QueueEntry)]]
  BY DEF IInv, TypeOK
<1>5. \A s \in Relays : s # r => queue'[s] = queue[s]
  BY <1>4
<1>6. ASSUME NEW p \in Partitions, NEW i \in 1..Len(queue'[r][p]) PROVE ~queue'[r][p][i].live
  <2>1. queue[r][p] \in Seq(QueueEntry)
    BY <1>4
  <2>2. CASE queue' = queue /\ Resolved(r)
    BY <1>6, <2>2 DEF Resolved, LiveIsUnanswered
  <2>3. CASE queue' = [queue EXCEPT ![r] = Orphaned(queue[r])]
    <3>1. queue'[r][p] = [k \in 1..Len(queue[r][p]) |->
                             [eid |-> queue[r][p][k].eid, live |-> FALSE]]
      BY <1>4, <2>3 DEF Orphaned
    <3> QED BY <1>6, <2>1, <3>1
  <2>4. CASE queue' = [queue EXCEPT ![r] = EmptyQueue]
    BY <1>4, <1>6, <2>4 DEF EmptyQueue
  <2> QED BY <2>2, <2>3, <2>4
<1>7. LiveIsUnanswered'
  <2> SUFFICES ASSUME NEW s \in Relays, NEW p \in Partitions, NEW i \in 1..Len(queue'[s][p]),
                      queue'[s][p][i].live
               PROVE  queue'[s][p][i].eid
                          \in batch'[s] \ (unsent'[s] \cup acked'[s] \cup failed'[s])
    BY DEF LiveIsUnanswered
  <2>1. s # r
    BY <1>6
  <2> QED BY <1>1, <1>5, <2>1 DEF LiveIsUnanswered
<1>8. LiveOnce'
  BY <1>5, <1>6 DEF LiveOnce, Once
<1> QED BY <1>3, <1>7, <1>8

\* Claims lock rows nobody holds, and every step answers only what was sent.
LEMMA StepHeld ==
    ASSUME IInv, HeldOnce, LiveIsUnanswered, LiveOnce, [Next]_vars
    PROVE  HeldOnce' /\ LiveIsUnanswered' /\ LiveOnce'
<1>1. ASSUME UNCHANGED <<published, batch, unsent, acked, failed, queue>>
      PROVE  HeldOnce' /\ LiveIsUnanswered' /\ LiveOnce'
  BY <1>1 DEF HeldOnce, LiveIsUnanswered, LiveOnce
<1>2. ASSUME NEW r \in Relays, ClaimBatch(r) PROVE HeldOnce' /\ LiveIsUnanswered' /\ LiveOnce'
  <2> DEFINE B == Oldest(Claimable, BatchSize)
  <2>1. /\ UNCHANGED <<published, acked, failed, queue>> /\ batch[r] = {}
        /\ batch'[r] = B /\ unsent'[r] = B
        /\ \A s \in Relays : s # r => batch'[s] = batch[s] /\ unsent'[s] = unsent[s]
    BY <1>2 DEF ClaimBatch, IInv, TypeOK
  <2>2. B \cap published = {} /\ \A s \in Relays : B \cap batch[s] = {}
    BY DEF Oldest, Claimable, Locked
  <2>3. acked[r] = {} /\ failed[r] = {}
    BY <2>1 DEF HeldOnce
  <2> HIDE DEF B
  <2>4. HeldOnce'
    BY <2>1, <2>2, <2>3 DEF HeldOnce
  <2>5. LiveIsUnanswered' /\ LiveOnce'
    BY <2>1 DEF LiveIsUnanswered, LiveOnce
  <2> QED BY <2>4, <2>5
<1>3. ASSUME NEW r \in Relays, Send(r) PROVE HeldOnce' /\ LiveIsUnanswered' /\ LiveOnce'
  <2>1. PICK x \in NextToSend(unsent[r]) :
            unsent' = [unsent EXCEPT ![r] = @ \ {x}] /\ Buffer(r, x, TRUE)
    BY <1>3 DEF Send
  <2>11. x \in visible
    BY DEF IInv, TypeOK, NextToSend
  <2>0. PICK p \in Partitions : p = TopicPartition(x)
    BY <2>11, PartitionOfVisible DEF IInv
  <2> DEFINE q == queue[r][p]
             z == [eid |-> x, live |-> TRUE]
  <2>2. UNCHANGED <<published, batch, acked, failed>>
    BY <1>3 DEF Send
  <2>3. x \in unsent[r] /\ x \in batch[r] /\ x \in Nat /\ p \in Partitions
    BY VisibleAreRows DEF NextToSend, HeldOnce
  <2>4. /\ \A s \in Relays : s # r => unsent'[s] = unsent[s]
        /\ unsent'[r] = unsent[r] \ {x}
    BY <2>1 DEF IInv, TypeOK
  <2>5. /\ Len(q) \in Nat /\ Len(queue'[r][p]) = Len(q) + 1 /\ queue'[r][p][Len(q) + 1] = z
        /\ \A i \in 1..Len(q) : queue'[r][p][i] = q[i]
        /\ \A s \in Relays, t \in Partitions : ~(s = r /\ t = p) => queue'[s][t] = queue[s][t]
    BY <2>0, <2>1, <2>11, BufferShape DEF IInv
  <2>6. HeldOnce'
    BY <2>2, <2>3, <2>4 DEF HeldOnce
  <2>7. \A k \in 1..Len(q) : q[k].live =>
            q[k].eid \in batch[r] \ (unsent[r] \cup acked[r] \cup failed[r]) /\ q[k].eid # x
    BY <2>3 DEF LiveIsUnanswered
  <2>8. \A k \in 1..Len(queue'[r][p]) :
            \/ k \in 1..Len(q) /\ queue'[r][p][k] = q[k]
            \/ k = Len(q) + 1 /\ queue'[r][p][k].eid = x
    BY <2>5
  <2>9. LiveIsUnanswered'
    <3> SUFFICES ASSUME NEW s \in Relays, NEW t \in Partitions,
                        NEW i \in 1..Len(queue'[s][t]), queue'[s][t][i].live
                 PROVE  queue'[s][t][i].eid
                            \in batch[s] \ (unsent'[s] \cup acked[s] \cup failed[s])
      BY <2>2 DEF LiveIsUnanswered
    <3>1. CASE ~(s = r /\ t = p)
      BY <2>4, <2>5, <3>1 DEF LiveIsUnanswered
    <3>2. CASE s = r /\ t = p
      <4>1. x \notin acked[r] \cup failed[r]
        BY <2>3 DEF HeldOnce
      <4> QED BY <2>3, <2>4, <2>7, <2>8, <3>2, <4>1
    <3> QED BY <3>1, <3>2
  <2>10. LiveOnce'
    <3>1. Once(q)
      BY <2>3 DEF LiveOnce
    <3>2. /\ Len(q) \in Nat /\ Len(queue'[r][p]) = Len(q) + 1
          /\ \A i \in 1..Len(q) : queue'[r][p][i] = q[i]
          /\ \A i \in 1..Len(q) : q[i].live => q[i].eid # queue'[r][p][Len(q) + 1].eid
      BY <2>5, <2>7
    <3>3. Once(queue'[r][p])
      BY <3>1, <3>2, OnceAppend
    <3>4. ASSUME NEW s \in Relays, NEW t \in Partitions PROVE Once(queue'[s][t])
      <4>1. CASE s = r /\ t = p
        BY <3>3, <4>1
      <4>2. CASE ~(s = r /\ t = p)
        BY <2>5, <4>2 DEF LiveOnce
      <4> QED BY <4>1, <4>2
    <3> QED BY <3>4 DEF LiveOnce
  <2> QED BY <2>6, <2>9, <2>10
<1>4. ASSUME NEW r \in Relays, NEW p \in Partitions, Acknowledge(r, p) \/ SendFails(r, p)
      PROVE  HeldOnce' /\ LiveIsUnanswered' /\ LiveOnce'
  BY <1>4, ResolveHeld DEF Acknowledge, SendFails, AppendHead
<1>5. ASSUME NEW r \in Relays,
             \/ MarkPublished(r) \/ Exit(r) \/ PassFails(r) \/ ConnectionLost(r) \/ Crash(r)
      PROVE  HeldOnce' /\ LiveIsUnanswered' /\ LiveOnce'
  <2>1. CASE MarkPublished(r)
    BY <2>1, EndPassHeld DEF MarkPublished, Delivered
  <2>2. CASE Exit(r) \/ Crash(r)
    BY <2>2, EndPassHeld DEF Exit, Crash, Fresh
  <2>3. CASE PassFails(r) \/ ConnectionLost(r)
    BY <2>3, EndPassHeld DEF PassFails, ConnectionLost
  <2> QED BY <1>5, <2>1, <2>2, <2>3
<1>6. ASSUME NEW r \in Relays, Stop(r) \/ \E p \in Partitions : AcknowledgementLost(r, p)
      PROVE  HeldOnce' /\ LiveIsUnanswered' /\ LiveOnce'
  BY <1>1, <1>6 DEF Stop, AcknowledgementLost, passVars
<1>7. ASSUME NEW ev \in Events, RecordEvent(ev) PROVE HeldOnce' /\ LiveIsUnanswered' /\ LiveOnce'
  BY <1>1, <1>7 DEF RecordEvent, passVars
<1>8. ASSUME NEW e \in Rows, NEW commits \in BOOLEAN, EndTransaction(e, commits)
      PROVE  HeldOnce' /\ LiveIsUnanswered' /\ LiveOnce'
  BY <1>1, <1>8 DEF EndTransaction, passVars
<1>9. CASE UNCHANGED vars
  BY <1>1, <1>9 DEF vars, passVars
<1>10. ASSUME NEW r \in Relays, SendLate(r) PROVE HeldOnce' /\ LiveIsUnanswered' /\ LiveOnce'
  <2>1. PICK x \in NextToSend(late[r]) : Buffer(r, x, FALSE)
    BY <1>10 DEF SendLate
  <2>2. UNCHANGED <<published, batch, unsent, acked, failed>>
    BY <1>10 DEF SendLate
  <2>3. x \in visible
    BY DEF IInv, TypeOK, NextToSend
  <2>4. PICK p \in Partitions : p = TopicPartition(x)
    BY <2>3, PartitionOfVisible DEF IInv
  <2>5. /\ Len(queue[r][p]) \in Nat
        /\ Len(queue'[r][p]) = Len(queue[r][p]) + 1
        /\ queue'[r][p][Len(queue[r][p]) + 1] = [eid |-> x, live |-> FALSE]
        /\ \A i \in 1..Len(queue[r][p]) : queue'[r][p][i] = queue[r][p][i]
        /\ \A s \in Relays, t \in Partitions :
               ~(s = r /\ t = p) => queue'[s][t] = queue[s][t]
    BY <2>1, <2>3, <2>4, BufferShape DEF IInv
  <2>6. ~queue'[r][p][Len(queue[r][p]) + 1].live
    BY <2>5
  <2>7. LiveIsUnanswered'
    <3> SUFFICES ASSUME NEW s \in Relays, NEW t \in Partitions,
                        NEW i \in 1..Len(queue'[s][t]), queue'[s][t][i].live
                 PROVE  queue'[s][t][i].eid
                            \in batch[s] \ (unsent[s] \cup acked[s] \cup failed[s])
      BY <2>2 DEF LiveIsUnanswered
    <3>1. i \in 1..Len(queue[s][t]) /\ queue'[s][t][i] = queue[s][t][i]
      BY <2>5, <2>6
    <3> QED BY <3>1 DEF LiveIsUnanswered
  <2>8. Once(queue'[r][p])
    <3>1. Once(queue[r][p])
      BY DEF LiveOnce
    <3> QED BY <2>5, <2>6, <3>1, OnceAppendLate
  <2>9. LiveOnce'
    <3> SUFFICES ASSUME NEW s \in Relays, NEW t \in Partitions PROVE Once(queue'[s][t])
      BY DEF LiveOnce
    <3>1. CASE s = r /\ t = p
      BY <2>8, <3>1
    <3>2. CASE ~(s = r /\ t = p)
      BY <2>5, <3>2 DEF LiveOnce
    <3> QED BY <3>1, <3>2
  <2> QED BY <2>2, <2>7, <2>9 DEF HeldOnce
<1> QED BY <1>2, <1>3, <1>4, <1>5, <1>6, <1>7, <1>8, <1>9, <1>10 DEF Next, RelayStep, Disturb

\* Where a sequence has e.
At(s, e) == {i \in 1..Len(s) : s[i] = e}

\* A sequence has e once more when e is appended to it.
LEMMA AtAppend ==
    ASSUME NEW s \in Seq(Nat), NEW h \in Nat, NEW e
    PROVE  /\ Cardinality(At(s, e)) \in Nat
           /\ Cardinality(At(Append(s, h), e)) = Cardinality(At(s, e)) + One(h = e)
<1>1. Len(s) \in Nat /\ Len(Append(s, h)) = Len(s) + 1
      /\ Append(s, h)[Len(s) + 1] = h /\ \A i \in 1..Len(s) : Append(s, h)[i] = s[i]
  OBVIOUS
<1>2. IsFiniteSet(At(s, e))
  <2>1. IsFiniteSet(1..Len(s))
    BY <1>1, FS_Interval
  <2>2. At(s, e) \in SUBSET (1..Len(s))
    BY DEF At
  <2> QED BY <2>1, <2>2, FS_Subset
<1>3. Cardinality(At(s, e)) \in Nat
  BY <1>2, FS_CardinalityType
<1>4. CASE h = e
  <2>1. At(Append(s, h), e) = At(s, e) \cup {Len(s) + 1}
    BY <1>1, <1>4 DEF At
  <2>2. Len(s) + 1 \notin At(s, e)
    BY <1>1 DEF At
  <2>3. Cardinality(At(s, e) \cup {Len(s) + 1}) = Cardinality(At(s, e)) + 1
    BY <1>2, <2>2, FS_AddElement
  <2> QED BY <1>3, <1>4, <2>1, <2>3 DEF One
<1>5. CASE h # e
  <2>1. At(Append(s, h), e) = At(s, e)
    BY <1>1, <1>5 DEF At
  <2> QED BY <1>3, <1>5, <2>1 DEF One
<1> QED BY <1>4, <1>5, <1>3

\* An append makes one more copy of one row.
LEMMA CopiesAppend ==
    ASSUME IInv, NEW e \in visible, NEW p \in Partitions, NEW h \in visible,
           TopicPartition(h) = p, log' = [log EXCEPT ![p] = Append(log[p], h)],
           UNCHANGED outbox
    PROVE  Copies(e)' = Copies(e) + One(h = e)
<1>1. PICK t \in Partitions : t = TopicPartition(e)
  BY PartitionOfVisible DEF IInv
<1>2. log \in [Partitions -> Seq(Nat)] /\ h \in Nat
  BY VisibleAreRows DEF IInv, TypeOK
<1>3. Copies(e) = Cardinality(At(log[t], e)) /\ Copies(e)' = Cardinality(At(log'[t], e))
  BY <1>1 DEF Copies, At, TopicPartition
<1>4. log[t] \in Seq(Nat)
  BY <1>2
<1>5. CASE t = p
  <2>1. log'[t] = Append(log[t], h)
    BY <1>2, <1>5
  <2> QED BY <1>2, <1>3, <1>4, <2>1, AtAppend
<1>6. CASE t # p
  <2>1. log'[t] = log[t] /\ h # e
    BY <1>1, <1>2, <1>6
  <2>2. Cardinality(At(log[t], e)) \in Nat
    BY <1>2, <1>4, AtAppend
  <2>3. One(h = e) = 0
    BY <2>1 DEF One
  <2> QED BY <1>3, <2>1, <2>2, <2>3
<1> QED BY <1>5, <1>6

\* The number of copies is a number.
LEMMA CopiesNat ==
    ASSUME IInv, NEW e \in visible
    PROVE  Copies(e) \in Nat
<1>1. PICK t \in Partitions : t = TopicPartition(e)
  BY PartitionOfVisible DEF IInv
<1>2. log[t] \in Seq(Nat)
  BY DEF IInv, TypeOK
<1>3. Copies(e) = Cardinality(At(log[t], e))
  BY <1>1 DEF Copies, At
<1> QED BY <1>2, <1>3, AtAppend

\* Without its head a buffer has one record less.
LEMMA QueuedAtTail ==
    ASSUME NEW q, NEW n, NEW r \in Relays, NEW p, NEW e,
           Len(q[r][p]) \in Nat \ {0}, Len(n[r][p]) = Len(q[r][p]) - 1,
           \A i \in 1..Len(n[r][p]) : n[r][p][i] = q[r][p][i + 1],
           \A s \in Relays : s # r => n[s][p] = q[s][p],
           IsFiniteSet(QueuedAt(q, p, e))
    PROVE  /\ IsFiniteSet(QueuedAt(n, p, e))
           /\ Cardinality(QueuedAt(n, p, e)) + One(q[r][p][1].eid = e)
                  <= Cardinality(QueuedAt(q, p, e))
<1> DEFINE Q == QueuedAt(q, p, e)
           N == QueuedAt(n, p, e)
           S == Q \ {<<r, 1>>}
           f == [x \in S |-> IF x[1] = r THEN <<r, x[2] - 1>> ELSE x]
<1>1. \A x \in S : f[x] \in N
  <2> SUFFICES ASSUME NEW x \in S PROVE f[x] \in N
    OBVIOUS
  <2>1. x \in Relays \X Nat /\ x[2] \in 1..Len(q[x[1]][p]) /\ q[x[1]][p][x[2]].eid = e
    BY DEF QueuedAt
  <2>2. CASE x[1] = r
    <3>1. x[2] # 1 /\ x = <<x[1], x[2]>>
      BY <2>1, <2>2
    <3> DEFINE k == x[2] - 1
    <3>2. k \in 1..Len(n[r][p]) /\ k \in Nat /\ k + 1 = x[2]
      BY <2>1, <2>2, <3>1
    <3>3. n[r][p][k].eid = e
      BY <2>1, <2>2, <3>2
    <3>4. <<r, k>> \in N
      BY <3>2, <3>3 DEF QueuedAt
    <3> QED BY <2>2, <3>4
  <2>3. CASE x[1] # r
    <3>1. n[x[1]][p] = q[x[1]][p]
      BY <2>1, <2>3
    <3>2. x \in N
      BY <2>1, <3>1 DEF QueuedAt
    <3> QED BY <2>3, <3>2
  <2> QED BY <2>2, <2>3
<1>2. \A y \in N : \E x \in S : f[x] = y
  <2> SUFFICES ASSUME NEW y \in N PROVE \E x \in S : f[x] = y
    OBVIOUS
  <2>1. /\ y \in Relays \X Nat /\ y = <<y[1], y[2]>>
        /\ y[2] \in 1..Len(n[y[1]][p]) /\ n[y[1]][p][y[2]].eid = e
    BY DEF QueuedAt
  <2>2. CASE y[1] = r
    <3> DEFINE x == <<r, y[2] + 1>>
    <3>1. /\ y[2] \in Nat \ {0} /\ y[2] + 1 \in Nat /\ y[2] + 1 \in 1..Len(q[r][p])
          /\ y[2] + 1 # 1 /\ (y[2] + 1) - 1 = y[2]
      BY <2>1, <2>2
    <3>2. q[r][p][y[2] + 1].eid = e
      BY <2>1, <2>2
    <3>3. x \in S
      BY <3>1, <3>2 DEF QueuedAt
    <3>4. f[x] = <<r, (y[2] + 1) - 1>>
      BY <3>3
    <3> QED BY <2>1, <2>2, <3>1, <3>3, <3>4
  <2>3. CASE y[1] # r
    <3>1. n[y[1]][p] = q[y[1]][p]
      BY <2>1, <2>3
    <3>2. y \in S
      BY <2>1, <2>3, <3>1 DEF QueuedAt
    <3>3. f[y] = y
      BY <2>3, <3>2
    <3> QED BY <3>2, <3>3
  <2> QED BY <2>2, <2>3
<1>3. f \in Surjection(S, N)
  BY <1>1, <1>2 DEF Surjection
<1>4. /\ IsFiniteSet(S) /\ Cardinality(Q) \in Nat
      /\ Cardinality(S) = IF <<r, 1>> \in Q THEN Cardinality(Q) - 1 ELSE Cardinality(Q)
  <2> HIDE DEF Q
  <2> QED BY FS_RemoveElement, FS_CardinalityType DEF Q
<1>5. IsFiniteSet(N) /\ Cardinality(N) <= Cardinality(S)
  <2> HIDE DEF f, S, N
  <2> QED BY <1>3, <1>4, FS_Surjection
<1>6. Cardinality(N) \in Nat
  BY <1>5, FS_CardinalityType
<1>7. q[r][p][1].eid = e => <<r, 1>> \in Q
  <2>1. 1 \in 1..Len(q[r][p]) /\ 1 \in Nat
    OBVIOUS
  <2> QED BY <2>1 DEF QueuedAt
<1> HIDE DEF S, N, Q
<1>8. CASE q[r][p][1].eid = e
  <2>1. One(q[r][p][1].eid = e) = 1 /\ Cardinality(S) = Cardinality(Q) - 1
    BY <1>4, <1>7, <1>8 DEF One
  <2>2. Cardinality(N) + 1 <= Cardinality(Q)
    BY <1>4, <1>5, <1>6, <2>1
  <2> QED BY <1>5, <2>1, <2>2 DEF N, Q
<1>9. CASE q[r][p][1].eid # e
  <2>1. One(q[r][p][1].eid = e) = 0
    BY <1>9 DEF One
  <2>2. Cardinality(N) + 0 <= Cardinality(Q)
    BY <1>4, <1>5, <1>6
  <2> QED BY <1>5, <2>1, <2>2 DEF N, Q
<1> QED BY <1>8, <1>9

\* With a new record it has one more.
LEMMA QueuedAtAppend ==
    ASSUME NEW q, NEW n, NEW r \in Relays, NEW p, NEW e,
           Len(q[r][p]) \in Nat, Len(n[r][p]) = Len(q[r][p]) + 1,
           \A i \in 1..Len(q[r][p]) : n[r][p][i] = q[r][p][i],
           \A s \in Relays : s # r => n[s][p] = q[s][p],
           IsFiniteSet(QueuedAt(q, p, e))
    PROVE  /\ IsFiniteSet(QueuedAt(n, p, e))
           /\ Cardinality(QueuedAt(n, p, e))
                  <= Cardinality(QueuedAt(q, p, e)) + One(n[r][p][Len(q[r][p]) + 1].eid = e)
<1> DEFINE Q == QueuedAt(q, p, e)
           N == QueuedAt(n, p, e)
           z == <<r, Len(q[r][p]) + 1>>
<1>1. ASSUME NEW x \in N PROVE x \in Q \/ (x = z /\ n[r][p][Len(q[r][p]) + 1].eid = e)
  <2>1. /\ x \in Relays \X Nat /\ x = <<x[1], x[2]>>
        /\ x[2] \in 1..Len(n[x[1]][p]) /\ n[x[1]][p][x[2]].eid = e
    BY DEF QueuedAt
  <2>2. CASE x[1] # r
    <3>1. n[x[1]][p] = q[x[1]][p]
      BY <2>1, <2>2
    <3> QED BY <2>1, <3>1 DEF QueuedAt
  <2>3. CASE x[1] = r /\ x[2] \in 1..Len(q[r][p])
    BY <2>1, <2>3 DEF QueuedAt
  <2>4. CASE x[1] = r /\ x[2] \notin 1..Len(q[r][p])
    <3>1. x[2] = Len(q[r][p]) + 1
      BY <2>1, <2>4
    <3> QED BY <2>1, <2>4, <3>1
  <2> QED BY <2>2, <2>3, <2>4
<1> HIDE DEF Q, N, z
<1>2. IsFiniteSet(Q)
  BY DEF Q
<1>3. Cardinality(Q) \in Nat
  BY <1>2, FS_CardinalityType
<1>4. CASE n[r][p][Len(q[r][p]) + 1].eid = e
  <2>1. N \in SUBSET (Q \cup {z})
    BY <1>1
  <2>2. IsFiniteSet(Q \cup {z})
        /\ Cardinality(Q \cup {z}) = IF z \in Q THEN Cardinality(Q) ELSE Cardinality(Q) + 1
    BY <1>2, FS_AddElement
  <2>3. IsFiniteSet(N) /\ Cardinality(N) <= Cardinality(Q \cup {z})
    BY <2>1, <2>2, FS_Subset
  <2>4. Cardinality(N) \in Nat
    BY <2>3, FS_CardinalityType
  <2>5. Cardinality(N) <= Cardinality(Q) + 1
    BY <1>3, <2>2, <2>3, <2>4
  <2>6. One(n[r][p][Len(q[r][p]) + 1].eid = e) = 1
    BY <1>4 DEF One
  <2> QED BY <2>3, <2>5, <2>6 DEF N, Q
<1>5. CASE n[r][p][Len(q[r][p]) + 1].eid # e
  <2>1. N \in SUBSET Q
    BY <1>1, <1>5
  <2>2. IsFiniteSet(N) /\ Cardinality(N) <= Cardinality(Q)
    BY <1>2, <2>1, FS_Subset
  <2>3. One(n[r][p][Len(q[r][p]) + 1].eid = e) = 0
    BY <1>5 DEF One
  <2>4. Cardinality(N) <= Cardinality(Q) + 0
    BY <1>3, <2>2
  <2> QED BY <2>2, <2>3, <2>4 DEF N, Q
<1> QED BY <1>4, <1>5

\* The three counts are numbers.
LEMMA CountsNat ==
    ASSUME IInv, Accounted, NEW e \in visible
    PROVE  /\ Copies(e) \in Nat /\ Cardinality(InFlight(e)) \in Nat
           /\ Cardinality(LateIn(e)) \in Nat
           /\ One(ToBeSent(e)) \in 0..1 /\ faults \in Nat
<1>1. IsFiniteSet(InFlight(e)) /\ IsFiniteSet(LateIn(e))
  BY DEF Accounted
<1>2. Cardinality(InFlight(e)) \in Nat /\ Cardinality(LateIn(e)) \in Nat
  BY <1>1, FS_CardinalityType
<1>3. One(ToBeSent(e)) \in 0..1
  BY DEF One
<1> QED BY <1>2, <1>3, CopiesNat DEF IInv, TypeOK

\* Fewer passes are to send a row late.
LEMMA LateFewer ==
    ASSUME Accounted, NEW e \in visible, LateIn(e)' \subseteq LateIn(e)
    PROVE  /\ IsFiniteSet(LateIn(e)') /\ Cardinality(LateIn(e)') \in Nat
           /\ Cardinality(LateIn(e)') <= Cardinality(LateIn(e))
<1>1. IsFiniteSet(LateIn(e)) /\ LateIn(e)' \in SUBSET LateIn(e)
  BY DEF Accounted
<1>2. IsFiniteSet(LateIn(e)') /\ Cardinality(LateIn(e)') <= Cardinality(LateIn(e))
  BY <1>1, FS_Subset
<1> QED BY <1>2, FS_CardinalityType

\* Nothing of the log or the buffers changes and no row is freed.
LEMMA AccountedFrame ==
    ASSUME IInv, IInv', Accounted, UNCHANGED <<outbox, visible, log, faults>>,
           \A e \in visible : InFlight(e)' \subseteq InFlight(e),
           \A e \in visible : LateIn(e)' \subseteq LateIn(e),
           \A e \in visible : ToBeSent(e)' => ToBeSent(e)
    PROVE  Accounted'
<1> SUFFICES ASSUME NEW e \in visible
             PROVE  /\ IsFiniteSet(InFlight(e)') /\ IsFiniteSet(LateIn(e)')
                    /\ Copies(e)' + Cardinality(InFlight(e)') + Cardinality(LateIn(e)')
                           + One(ToBeSent(e)') <= 1 + faults
  BY DEF Accounted
<1>1. Copies(e)' = Copies(e)
  BY DEF Copies, TopicPartition
<1>2. IsFiniteSet(InFlight(e))
      /\ Copies(e) + Cardinality(InFlight(e)) + Cardinality(LateIn(e)) + One(ToBeSent(e))
             <= 1 + faults
  BY DEF Accounted
<1>3. InFlight(e)' \in SUBSET InFlight(e)
  OBVIOUS
<1>4. IsFiniteSet(InFlight(e)') /\ Cardinality(InFlight(e)') <= Cardinality(InFlight(e))
  BY <1>2, <1>3, FS_Subset
<1>5. Cardinality(InFlight(e)') \in Nat
  BY <1>4, FS_CardinalityType
<1>6. One(ToBeSent(e)') <= One(ToBeSent(e)) /\ One(ToBeSent(e)') \in 0..1
  BY DEF One
<1>7. /\ IsFiniteSet(LateIn(e)') /\ Cardinality(LateIn(e)') \in Nat
      /\ Cardinality(LateIn(e)') <= Cardinality(LateIn(e))
  BY LateFewer
<1> QED BY <1>1, <1>2, <1>4, <1>5, <1>6, <1>7, CountsNat

\* A fault pays for one row that has to be sent again.
LEMMA AccountedFault ==
    ASSUME IInv, Accounted, UNCHANGED <<outbox, visible, log>>, faults' = faults + 1,
           \A e \in visible : IsFiniteSet(InFlight(e)')
                              /\ Cardinality(InFlight(e)') <= Cardinality(InFlight(e)),
           \A e \in visible : LateIn(e)' \subseteq LateIn(e)
    PROVE  Accounted'
<1> SUFFICES ASSUME NEW e \in visible
             PROVE  /\ IsFiniteSet(InFlight(e)') /\ IsFiniteSet(LateIn(e)')
                    /\ Copies(e)' + Cardinality(InFlight(e)') + Cardinality(LateIn(e)')
                           + One(ToBeSent(e)') <= 1 + (faults + 1)
  BY DEF Accounted
<1>1. Copies(e)' = Copies(e)
  BY DEF Copies, TopicPartition
<1>2. Copies(e) + Cardinality(InFlight(e)) + Cardinality(LateIn(e)) + One(ToBeSent(e))
             <= 1 + faults
  BY DEF Accounted
<1>3. IsFiniteSet(InFlight(e)') /\ Cardinality(InFlight(e)') <= Cardinality(InFlight(e))
  OBVIOUS
<1>4. Cardinality(InFlight(e)') \in Nat
  BY <1>3, FS_CardinalityType
<1>5. One(ToBeSent(e)') \in 0..1
  BY DEF One
<1>6. /\ IsFiniteSet(LateIn(e)') /\ Cardinality(LateIn(e)') \in Nat
      /\ Cardinality(LateIn(e)') <= Cardinality(LateIn(e))
  BY LateFewer
<1> QED BY <1>1, <1>2, <1>3, <1>4, <1>5, <1>6, CountsNat

\* What leaves a buffer by its head is one record of the head's row less.
LEMMA InFlightTail ==
    ASSUME IInv, Accounted, NEW e \in visible, NEW r \in Relays, NEW p \in Partitions,
           queue[r][p] # <<>>, queue' = [queue EXCEPT ![r][p] = Tail(queue[r][p])],
           UNCHANGED outbox, NEW h, h = Head(queue[r][p]).eid
    PROVE  /\ IsFiniteSet(InFlight(e)')
           /\ Cardinality(InFlight(e)') \in Nat
           /\ Cardinality(InFlight(e)') + One(h = e) <= Cardinality(InFlight(e))
<1>1. PICK t \in Partitions : t = TopicPartition(e)
  BY PartitionOfVisible DEF IInv
<1>2. /\ queue[r][p] \in Seq(QueueEntry) /\ Len(queue[r][p]) \in Nat \ {0}
      /\ Head(queue[r][p]) = queue[r][p][1]
      /\ Len(queue'[r][p]) = Len(queue[r][p]) - 1
      /\ \A i \in 1..Len(queue'[r][p]) : queue'[r][p][i] = queue[r][p][i + 1]
      /\ \A s \in Relays, q \in Partitions :
             ~(s = r /\ q = p) => queue'[s][q] = queue[s][q]
  <2>1. TypeOK
    BY DEF IInv
  <2> QED BY <2>1, TailMoves
<1>3. InFlight(e) = QueuedAt(queue, t, e) /\ InFlight(e)' = QueuedAt(queue', t, e)
  BY <1>1 DEF InFlight, TopicPartition
<1>4. IsFiniteSet(InFlight(e))
  BY DEF Accounted
<1>5. CASE t = p
  <2>1. /\ IsFiniteSet(QueuedAt(queue', p, e))
        /\ Cardinality(QueuedAt(queue', p, e)) + One(queue[r][p][1].eid = e)
               <= Cardinality(QueuedAt(queue, p, e))
    <3>1. \A s \in Relays : s # r => queue'[s][p] = queue[s][p]
      BY <1>2
    <3>2. IsFiniteSet(QueuedAt(queue, p, e))
      BY <1>3, <1>4, <1>5
    <3>3. /\ Len(queue[r][p]) \in Nat \ {0} /\ Len(queue'[r][p]) = Len(queue[r][p]) - 1
          /\ \A i \in 1..Len(queue'[r][p]) : queue'[r][p][i] = queue[r][p][i + 1]
      BY <1>2
    <3> QED BY <3>1, <3>2, <3>3, QueuedAtTail
  <2>2. Cardinality(QueuedAt(queue', p, e)) \in Nat
    BY <2>1, FS_CardinalityType
  <2> QED BY <1>2, <1>3, <1>5, <2>1, <2>2
<1>6. CASE t # p
  <2>1. \A s \in Relays : queue'[s][t] = queue[s][t]
    BY <1>2, <1>6
  <2>2. QueuedAt(queue', t, e) = QueuedAt(queue, t, e)
    BY <2>1 DEF QueuedAt
  <2>3. 1 \in 1..Len(queue[r][p])
    BY <1>2
  <2>4. TopicPartition(h) = p
    <3>1. TopicPartition(queue[r][p][1].eid) = p
      BY <2>3 DEF IInv, QueuedIsVisible
    <3>2. h = queue[r][p][1].eid
      BY <1>2
    <3> QED BY <3>1, <3>2
  <2>5. h # e
    BY <1>1, <1>6, <2>4
  <2>6. One(h = e) = 0
    BY <2>5 DEF One
  <2>7. Cardinality(InFlight(e)) \in Nat
    BY <1>4, FS_CardinalityType
  <2> QED BY <1>3, <1>4, <2>2, <2>6, <2>7
<1> QED BY <1>5, <1>6

\* The end of a pass adds nothing to the buffers.
LEMMA InFlightFewer ==
    ASSUME IInv, Accounted, NEW r \in Relays, UNCHANGED <<outbox, visible>>,
           \/ queue' = queue
           \/ queue' = [queue EXCEPT ![r] = Orphaned(queue[r])]
           \/ queue' = [queue EXCEPT ![r] = EmptyQueue]
    PROVE  \A e \in visible : /\ InFlight(e)' \subseteq InFlight(e)
                              /\ IsFiniteSet(InFlight(e)')
                              /\ Cardinality(InFlight(e)') <= Cardinality(InFlight(e))
<1>1. queue \in [Relays -> [Partitions -> Seq(QueueEntry)]]
  BY DEF IInv, TypeOK
<1>2. ASSUME NEW s \in Relays, NEW t \in Partitions, NEW i \in 1..Len(queue'[s][t])
      PROVE  i \in 1..Len(queue[s][t]) /\ queue'[s][t][i].eid = queue[s][t][i].eid
  <2>1. CASE queue' = queue \/ s # r
    BY <1>1, <1>2, <2>1
  <2>2. CASE s = r /\ queue' = [queue EXCEPT ![r] = Orphaned(queue[r])]
    <3>1. queue'[s][t] = [k \in 1..Len(queue[r][t]) |->
                             [eid |-> queue[r][t][k].eid, live |-> FALSE]]
      BY <1>1, <2>2 DEF Orphaned
    <3>2. queue[r][t] \in Seq(QueueEntry)
      BY <1>1
    <3>3. Len(queue'[s][t]) = Len(queue[r][t])
      BY <3>1, <3>2
    <3> QED BY <1>2, <2>2, <3>1, <3>3
  <2>3. CASE s = r /\ queue' = [queue EXCEPT ![r] = EmptyQueue]
    BY <1>1, <1>2, <2>3 DEF EmptyQueue
  <2> QED BY <2>1, <2>2, <2>3
<1>3. ASSUME NEW e \in visible PROVE InFlight(e)' \subseteq InFlight(e)
  <2>1. PICK t \in Partitions : t = TopicPartition(e)
    BY PartitionOfVisible DEF IInv
  <2>2. InFlight(e) = QueuedAt(queue, t, e) /\ InFlight(e)' = QueuedAt(queue', t, e)
    BY <2>1 DEF InFlight, TopicPartition
  <2>3. QueuedAt(queue', t, e) \subseteq QueuedAt(queue, t, e)
    BY <1>2 DEF QueuedAt
  <2> QED BY <2>2, <2>3
<1>4. ASSUME NEW e \in visible
      PROVE  /\ IsFiniteSet(InFlight(e)')
             /\ Cardinality(InFlight(e)') <= Cardinality(InFlight(e))
  <2>1. IsFiniteSet(InFlight(e)) /\ InFlight(e)' \in SUBSET InFlight(e)
    BY <1>3 DEF Accounted
  <2> QED BY <2>1, FS_Subset
<1> QED BY <1>3, <1>4

\* A new row is not committed, and takes nothing from those that are.
LEMMA RecordEventAccounted ==
    ASSUME IInv, IInv', Accounted, NEW ev \in Events, RecordEvent(ev)
    PROVE  Accounted'
<1>1. /\ outbox' = Append(outbox, ev)
      /\ UNCHANGED <<visible, published, log, batch, unsent, failed, late, queue, faults>>
  BY DEF RecordEvent, passVars
<1> SUFFICES ASSUME NEW e \in visible
             PROVE  /\ IsFiniteSet(InFlight(e)') /\ IsFiniteSet(LateIn(e)')
                    /\ Copies(e)' + Cardinality(InFlight(e)') + Cardinality(LateIn(e)')
                           + One(ToBeSent(e)') <= 1 + faults
  BY <1>1 DEF Accounted
<1>2. TopicPartition(e)' = TopicPartition(e)
  BY <1>1, RowsKept DEF IInv, TopicPartition
<1>3. /\ Copies(e)' = Copies(e) /\ InFlight(e)' = InFlight(e) /\ LateIn(e)' = LateIn(e)
      /\ ToBeSent(e)' = ToBeSent(e)
  BY <1>1, <1>2 DEF Copies, InFlight, LateIn, ToBeSent
<1> QED BY <1>3 DEF Accounted

\* A row that is committed now has not been sent.
LEMMA EndTransactionAccounted ==
    ASSUME IInv, LoggedIsVisible, Accounted,
           NEW x \in Rows, NEW commits \in BOOLEAN, EndTransaction(x, commits)
    PROVE  Accounted'
<1>1. /\ UNCHANGED <<outbox, published, log, batch, unsent, failed, late, queue, faults>>
      /\ visible' \subseteq visible \cup {x}
  BY DEF EndTransaction, passVars
<1> SUFFICES ASSUME NEW e \in visible'
             PROVE  /\ IsFiniteSet(InFlight(e)') /\ IsFiniteSet(LateIn(e)')
                    /\ Copies(e)' + Cardinality(InFlight(e)') + Cardinality(LateIn(e)')
                           + One(ToBeSent(e)') <= 1 + faults
  BY <1>1 DEF Accounted
<1>2. /\ Copies(e)' = Copies(e) /\ InFlight(e)' = InFlight(e) /\ LateIn(e)' = LateIn(e)
      /\ ToBeSent(e)' = ToBeSent(e)
  BY <1>1 DEF Copies, InFlight, LateIn, ToBeSent, TopicPartition
<1>3. CASE e \in visible
  BY <1>2, <1>3 DEF Accounted
<1>4. CASE e \notin visible
  <2>1. e \in Rows
    BY <1>1, <1>4
  <2>2. PICK t \in Partitions : t = TopicPartition(e)
    BY <2>1, PartitionAssumption DEF IInv, TypeOK, Rows, TopicPartition
  <2>3. At(log[t], e) = {}
    BY <1>4 DEF At, LoggedIsVisible
  <2>4. QueuedAt(queue, t, e) = {}
    BY <1>4 DEF QueuedAt, IInv, QueuedIsVisible
  <2>5. Copies(e) = 0 /\ Cardinality(InFlight(e)) = 0 /\ IsFiniteSet(InFlight(e))
    BY <2>2, <2>3, <2>4, FS_EmptySet DEF Copies, At, InFlight
  <2>8. LateIn(e) = {}
    BY <1>4, VisibleAreRows DEF LateIn
  <2>9. Cardinality(LateIn(e)) = 0 /\ IsFiniteSet(LateIn(e))
    BY <2>8, FS_EmptySet
  <2>6. One(ToBeSent(e)) \in 0..1 /\ faults \in Nat
    BY DEF One, IInv, TypeOK
  <2>7. 0 + 0 + 0 + One(ToBeSent(e)) <= 1 + faults
    BY <2>6
  <2> QED BY <1>2, <2>5, <2>7, <2>9
<1> QED BY <1>3, <1>4

\* What is given to send() is at most one record of its row more.
LEMMA InFlightBuffer ==
    ASSUME IInv, Accounted, NEW e \in visible, NEW r \in Relays, NEW x \in visible,
           NEW live \in BOOLEAN, Buffer(r, x, live), UNCHANGED outbox
    PROVE  /\ IsFiniteSet(InFlight(e)') /\ Cardinality(InFlight(e)') \in Nat
           /\ Cardinality(InFlight(e)') <= Cardinality(InFlight(e)) + One(x = e)
<1>1. PICK p \in Partitions : p = TopicPartition(x)
  BY PartitionOfVisible DEF IInv
<1>2. /\ Len(queue[r][p]) \in Nat
      /\ Len(queue'[r][p]) = Len(queue[r][p]) + 1
      /\ queue'[r][p][Len(queue[r][p]) + 1] = [eid |-> x, live |-> live]
      /\ \A i \in 1..Len(queue[r][p]) : queue'[r][p][i] = queue[r][p][i]
      /\ \A s \in Relays, t \in Partitions : ~(s = r /\ t = p) => queue'[s][t] = queue[s][t]
  BY <1>1, BufferShape DEF IInv
<1>3. queue'[r][p][Len(queue[r][p]) + 1].eid = x
  BY <1>2
<1>4. IsFiniteSet(InFlight(e))
  BY DEF Accounted
<1>5. PICK t \in Partitions : t = TopicPartition(e)
  BY PartitionOfVisible DEF IInv
<1>6. InFlight(e) = QueuedAt(queue, t, e) /\ InFlight(e)' = QueuedAt(queue', t, e)
  BY <1>5 DEF InFlight, TopicPartition
<1>7. CASE t = p
  <2>1. \A s \in Relays : s # r => queue'[s][p] = queue[s][p]
    BY <1>2
  <2>2. IsFiniteSet(QueuedAt(queue, p, e))
    BY <1>4, <1>6, <1>7
  <2>3. /\ IsFiniteSet(QueuedAt(queue', p, e))
        /\ Cardinality(QueuedAt(queue', p, e)) <=
              Cardinality(QueuedAt(queue, p, e))
                  + One(queue'[r][p][Len(queue[r][p]) + 1].eid = e)
    BY <1>2, <2>1, <2>2, QueuedAtAppend
  <2>4. Cardinality(QueuedAt(queue', p, e)) \in Nat
    BY <2>3, FS_CardinalityType
  <2> QED BY <1>3, <1>6, <1>7, <2>3, <2>4
<1>8. CASE t # p
  <2>1. \A s \in Relays : queue'[s][t] = queue[s][t]
    BY <1>2, <1>8
  <2>2. QueuedAt(queue', t, e) = QueuedAt(queue, t, e)
    BY <2>1 DEF QueuedAt
  <2>3. x # e
    BY <1>1, <1>5, <1>8
  <2>4. One(x = e) = 0 /\ Cardinality(InFlight(e)) \in Nat
    BY <1>4, <2>3, FS_CardinalityType DEF One
  <2> QED BY <1>4, <1>6, <2>2, <2>4
<1> QED BY <1>7, <1>8

\* Handing a row over turns one that is to be sent into one on its way.
LEMMA SendAccounted ==
    ASSUME IInv, HeldOnce, Accounted, NEW r \in Relays, Send(r)
    PROVE  Accounted'
<1>1. PICK x \in NextToSend(unsent[r]) :
          unsent' = [unsent EXCEPT ![r] = @ \ {x}] /\ Buffer(r, x, TRUE)
  BY DEF Send
<1>2. UNCHANGED <<outbox, visible, published, log, batch, failed, late, faults>>
  BY DEF Send, apiVars
<1>3. /\ x \in unsent[r] /\ x \in batch[r] /\ x \in visible
      /\ x \notin published /\ x \notin failed[r]
      /\ \A s \in Relays : s # r => x \notin batch[s]
  BY VisibleAreRows DEF NextToSend, HeldOnce
<1>4. /\ unsent'[r] = unsent[r] \ {x}
      /\ \A s \in Relays : s # r => unsent'[s] = unsent[s]
  BY <1>1 DEF IInv, TypeOK
<1> SUFFICES ASSUME NEW e \in visible
             PROVE  /\ IsFiniteSet(InFlight(e)') /\ IsFiniteSet(LateIn(e)')
                    /\ Copies(e)' + Cardinality(InFlight(e)') + Cardinality(LateIn(e)')
                           + One(ToBeSent(e)') <= 1 + faults
  BY <1>2 DEF Accounted
<1>5. Copies(e)' = Copies(e) /\ LateIn(e)' = LateIn(e)
  BY <1>2 DEF Copies, TopicPartition, LateIn
<1>6. /\ IsFiniteSet(LateIn(e))
      /\ Copies(e) + Cardinality(InFlight(e)) + Cardinality(LateIn(e)) + One(ToBeSent(e))
             <= 1 + faults
  BY DEF Accounted
<1>7. /\ IsFiniteSet(InFlight(e)') /\ Cardinality(InFlight(e)') \in Nat
      /\ Cardinality(InFlight(e)') <= Cardinality(InFlight(e)) + One(x = e)
  BY <1>1, <1>2, <1>3, InFlightBuffer
<1>8. One(ToBeSent(e)') + One(x = e) <= One(ToBeSent(e))
  <2>1. CASE e = x
    <3>1. ToBeSent(x)
      BY <1>3 DEF ToBeSent
    <3>2. ~ToBeSent(x)'
      BY <1>2, <1>3, <1>4 DEF ToBeSent
    <3> QED BY <2>1, <3>1, <3>2 DEF One
  <2>2. CASE e # x
    <3>1. ToBeSent(e)' => ToBeSent(e)
      BY <1>2, <1>4, <2>2 DEF ToBeSent
    <3> QED BY <2>2, <3>1 DEF One
  <2> QED BY <2>1, <2>2
<1>9. One(ToBeSent(e)') \in 0..1 /\ One(x = e) \in 0..1
  BY DEF One
<1> QED BY <1>5, <1>6, <1>7, <1>8, <1>9, CountsNat

\* Handing a row over late turns one that a pass was still to send into one on
\* its way.
LEMMA SendLateAccounted ==
    ASSUME IInv, Accounted, NEW r \in Relays, SendLate(r)
    PROVE  Accounted'
<1>1. PICK x \in NextToSend(late[r]) :
          late' = [late EXCEPT ![r] = @ \ {x}] /\ Buffer(r, x, FALSE)
  BY DEF SendLate
<1>2. UNCHANGED <<outbox, visible, published, log, batch, unsent, failed, faults>>
  BY DEF SendLate, apiVars
<1>3. x \in late[r] /\ x \in visible
  BY VisibleAreRows DEF NextToSend
<1>4. /\ late'[r] = late[r] \ {x}
      /\ \A s \in Relays : s # r => late'[s] = late[s]
  BY <1>1 DEF IInv, TypeOK
<1> SUFFICES ASSUME NEW e \in visible
             PROVE  /\ IsFiniteSet(InFlight(e)') /\ IsFiniteSet(LateIn(e)')
                    /\ Copies(e)' + Cardinality(InFlight(e)') + Cardinality(LateIn(e)')
                           + One(ToBeSent(e)') <= 1 + faults
  BY <1>2 DEF Accounted
<1>5. Copies(e)' = Copies(e) /\ ToBeSent(e)' = ToBeSent(e)
  BY <1>2 DEF Copies, TopicPartition, ToBeSent
<1>6. /\ IsFiniteSet(LateIn(e))
      /\ Copies(e) + Cardinality(InFlight(e)) + Cardinality(LateIn(e)) + One(ToBeSent(e))
             <= 1 + faults
  BY DEF Accounted
<1>7. /\ IsFiniteSet(InFlight(e)') /\ Cardinality(InFlight(e)') \in Nat
      /\ Cardinality(InFlight(e)') <= Cardinality(InFlight(e)) + One(x = e)
  BY <1>1, <1>2, <1>3, InFlightBuffer
<1>8. /\ IsFiniteSet(LateIn(e)')
      /\ Cardinality(LateIn(e)') + One(x = e) <= Cardinality(LateIn(e))
  <2>1. CASE e = x
    <3>1. LateIn(e)' = LateIn(e) \ {r} /\ r \in LateIn(e)
      BY <1>3, <1>4, <2>1 DEF LateIn
    <3>2. IsFiniteSet(LateIn(e) \ {r})
          /\ Cardinality(LateIn(e) \ {r}) = Cardinality(LateIn(e)) - 1
      BY <1>6, <3>1, FS_RemoveElement
    <3> QED BY <2>1, <3>1, <3>2, CountsNat DEF One
  <2>2. CASE e # x
    <3>1. LateIn(e)' = LateIn(e)
      BY <1>4, <2>2 DEF LateIn
    <3>2. One(x = e) = 0
      BY <2>2 DEF One
    <3> QED BY <1>6, <3>1, <3>2, CountsNat
  <2> QED BY <2>1, <2>2
<1>9. Cardinality(LateIn(e)') \in Nat /\ One(x = e) \in 0..1
  BY <1>8, FS_CardinalityType DEF One
<1> QED BY <1>5, <1>6, <1>7, <1>8, <1>9, CountsNat

\* A lost connection frees rows of a pass that goes on sending: those it has not
\* sent were to be sent before, the others may be sent again.
LEMMA ConnectionLostAccounted ==
    ASSUME IInv, HeldOnce, Accounted, NEW r \in Relays, ConnectionLost(r)
    PROVE  Accounted'
<1>1. /\ UNCHANGED <<outbox, visible, published, log>> /\ faults' = faults + 1
      /\ queue' = [queue EXCEPT ![r] = Orphaned(queue[r])]
      /\ late'[r] = unsent[r]
      /\ \A s \in Relays : s # r => late'[s] = late[s]
  BY DEF ConnectionLost, Fault, apiVars, IInv, TypeOK
<1> SUFFICES ASSUME NEW e \in visible
             PROVE  /\ IsFiniteSet(InFlight(e)') /\ IsFiniteSet(LateIn(e)')
                    /\ Copies(e)' + Cardinality(InFlight(e)') + Cardinality(LateIn(e)')
                           + One(ToBeSent(e)') <= 1 + (faults + 1)
  BY <1>1 DEF Accounted
<1>2. Copies(e)' = Copies(e)
  BY <1>1 DEF Copies, TopicPartition
<1>3. /\ IsFiniteSet(LateIn(e))
      /\ Copies(e) + Cardinality(InFlight(e)) + Cardinality(LateIn(e)) + One(ToBeSent(e))
             <= 1 + faults
  BY DEF Accounted
<1>4. IsFiniteSet(InFlight(e)') /\ Cardinality(InFlight(e)') <= Cardinality(InFlight(e))
  BY <1>1, InFlightFewer
<1>5. Cardinality(InFlight(e)') \in Nat
  BY <1>4, FS_CardinalityType
<1>6. One(ToBeSent(e)') \in 0..1
  BY DEF One
<1>7. CASE e \in unsent[r]
  <2>1. One(ToBeSent(e)) = 1
    BY <1>7 DEF HeldOnce, ToBeSent, One
  <2>2. LateIn(e)' \in SUBSET (LateIn(e) \cup {r})
    BY <1>1 DEF LateIn
  <2>3. IsFiniteSet(LateIn(e) \cup {r})
        /\ Cardinality(LateIn(e) \cup {r})
               = IF r \in LateIn(e) THEN Cardinality(LateIn(e)) ELSE Cardinality(LateIn(e)) + 1
    BY <1>3, FS_AddElement
  <2>4. IsFiniteSet(LateIn(e)') /\ Cardinality(LateIn(e)') <= Cardinality(LateIn(e) \cup {r})
    BY <2>2, <2>3, FS_Subset
  <2>5. Cardinality(LateIn(e)') \in Nat
    BY <2>4, FS_CardinalityType
  <2>6. Cardinality(LateIn(e)') <= Cardinality(LateIn(e)) + 1
    BY <2>3, <2>4, <2>5, CountsNat
  <2> QED BY <1>2, <1>3, <1>4, <1>5, <1>6, <2>1, <2>4, <2>5, <2>6, CountsNat
<1>8. CASE e \notin unsent[r]
  <2>1. LateIn(e)' \subseteq LateIn(e)
    BY <1>1, <1>8 DEF LateIn
  <2>2. /\ IsFiniteSet(LateIn(e)') /\ Cardinality(LateIn(e)') \in Nat
        /\ Cardinality(LateIn(e)') <= Cardinality(LateIn(e))
    BY <2>1, LateFewer
  <2> QED BY <1>2, <1>3, <1>4, <1>5, <1>6, <2>2, CountsNat
<1> QED BY <1>7, <1>8

\* A record on its way becomes one in the log.
LEMMA AcknowledgeAccounted ==
    ASSUME IInv, Accounted, NEW r \in Relays, NEW p \in Partitions, Acknowledge(r, p)
    PROVE  Accounted'
<1>1. PICK h : h = Head(queue[r][p]).eid
  OBVIOUS
<1>2. /\ UNCHANGED <<outbox, visible, published, batch, unsent, failed, late, faults>>
      /\ AppendHead(r, p) /\ queue[r][p] # <<>>
      /\ queue' = [queue EXCEPT ![r][p] = Tail(queue[r][p])]
  BY DEF Acknowledge, AppendHead, apiVars
<1>3. /\ h \in visible /\ TopicPartition(h) = p
      /\ log' = [log EXCEPT ![p] = Append(log[p], h)]
  BY <1>1, <1>2, AppendKeeps DEF IInv
<1> SUFFICES ASSUME NEW e \in visible
             PROVE  /\ IsFiniteSet(InFlight(e)') /\ IsFiniteSet(LateIn(e)')
                    /\ Copies(e)' + Cardinality(InFlight(e)') + Cardinality(LateIn(e)')
                           + One(ToBeSent(e)') <= 1 + faults
  BY <1>2 DEF Accounted
<1>4. Copies(e)' = Copies(e) + One(h = e)
  BY <1>2, <1>3, CopiesAppend
<1>5. /\ IsFiniteSet(InFlight(e)') /\ Cardinality(InFlight(e)') \in Nat
      /\ Cardinality(InFlight(e)') + One(h = e) <= Cardinality(InFlight(e))
  BY <1>1, <1>2, InFlightTail
<1>6. ToBeSent(e)' = ToBeSent(e) /\ LateIn(e)' = LateIn(e) /\ IsFiniteSet(LateIn(e))
  BY <1>2 DEF ToBeSent, LateIn, Accounted
<1>7. Copies(e) + Cardinality(InFlight(e)) + Cardinality(LateIn(e)) + One(ToBeSent(e))
             <= 1 + faults
  BY DEF Accounted
<1>8. One(h = e) \in 0..1
  BY DEF One
<1> QED BY <1>4, <1>5, <1>6, <1>7, <1>8, CountsNat

\* A lost acknowledgement leaves a copy in the log and one on its way.
LEMMA AcknowledgementLostAccounted ==
    ASSUME IInv, Accounted, NEW r \in Relays, NEW p \in Partitions, AcknowledgementLost(r, p)
    PROVE  Accounted'
<1>1. PICK h : h = Head(queue[r][p]).eid
  OBVIOUS
<1>2. /\ UNCHANGED <<outbox, visible, published, batch, unsent, failed, late, queue>>
      /\ AppendHead(r, p) /\ faults' = faults + 1
  BY DEF AcknowledgementLost, Fault, apiVars, passVars
<1>3. /\ h \in visible /\ TopicPartition(h) = p
      /\ log' = [log EXCEPT ![p] = Append(log[p], h)]
  BY <1>1, <1>2, AppendKeeps DEF IInv
<1> SUFFICES ASSUME NEW e \in visible
             PROVE  /\ IsFiniteSet(InFlight(e)') /\ IsFiniteSet(LateIn(e)')
                    /\ Copies(e)' + Cardinality(InFlight(e)') + Cardinality(LateIn(e)')
                           + One(ToBeSent(e)') <= 1 + (faults + 1)
  BY <1>2 DEF Accounted
<1>4. Copies(e)' = Copies(e) + One(h = e)
  BY <1>2, <1>3, CopiesAppend
<1>5. InFlight(e)' = InFlight(e) /\ LateIn(e)' = LateIn(e) /\ ToBeSent(e)' = ToBeSent(e)
  BY <1>2 DEF InFlight, LateIn, ToBeSent, TopicPartition
<1>6. IsFiniteSet(InFlight(e)) /\ IsFiniteSet(LateIn(e))
      /\ Copies(e) + Cardinality(InFlight(e)) + Cardinality(LateIn(e)) + One(ToBeSent(e))
             <= 1 + faults
  BY DEF Accounted
<1>7. One(h = e) \in 0..1
  BY DEF One
<1> QED BY <1>4, <1>5, <1>6, <1>7, CountsNat

\* The initial state satisfies the invariant of all relays.
LEMMA InitDInv == Init => DInv
<1> SUFFICES ASSUME Init PROVE DInv
  OBVIOUS
<1>1. IInv
  BY InitIInv
<1>2. LoggedIsVisible /\ Accounted
  BY DEF Init, LoggedIsVisible, Accounted
<1>3. HeldOnce
  BY DEF Init, HeldOnce
<1>4. LiveIsUnanswered /\ LiveOnce
  BY DEF Init, LiveIsUnanswered, LiveOnce, Once, EmptyQueue
<1> QED BY <1>1, <1>2, <1>3, <1>4 DEF DInv

\* The invariant of all relays is inductive.
LEMMA StepDInv == DInv /\ [Next]_vars => DInv'
<1> SUFFICES ASSUME DInv, [Next]_vars PROVE DInv'
  OBVIOUS
<1> USE DEF DInv
<1>1. IInv' /\ HeldOnce' /\ LiveIsUnanswered' /\ LiveOnce'
  BY StepIInv, StepHeld
<1>2. ASSUME UNCHANGED <<outbox, log>>, visible \subseteq visible' PROVE LoggedIsVisible'
  BY <1>2 DEF LoggedIsVisible, TopicPartition
<1>3. ASSUME UNCHANGED <<outbox, visible, log, queue, faults, published, batch, unsent, failed,
                         late>>
      PROVE  DInv'
  <2>1. \A e \in visible : /\ InFlight(e)' \subseteq InFlight(e)
                           /\ LateIn(e)' \subseteq LateIn(e)
                           /\ ToBeSent(e)' => ToBeSent(e)
    BY <1>3 DEF InFlight, LateIn, ToBeSent, TopicPartition
  <2> QED BY <1>1, <1>2, <1>3, <2>1, AccountedFrame
<1>4. CASE UNCHANGED vars
  BY <1>3, <1>4 DEF vars, passVars
<1>5. ASSUME NEW ev \in Events, RecordEvent(ev) PROVE DInv'
  <2>1. Accounted'
    BY <1>1, <1>5, RecordEventAccounted
  <2>2. \A e \in visible : TopicPartition(e)' = TopicPartition(e)
    BY <1>5, RowsKept DEF RecordEvent, TopicPartition, IInv
  <2>3. LoggedIsVisible'
    BY <1>5, <2>2 DEF RecordEvent, LoggedIsVisible
  <2> QED BY <1>1, <2>1, <2>3
<1>6. ASSUME NEW x \in Rows, NEW commits \in BOOLEAN, EndTransaction(x, commits) PROVE DInv'
  <2>1. Accounted'
    BY <1>6, EndTransactionAccounted
  <2>2. LoggedIsVisible'
    BY <1>2, <1>6 DEF EndTransaction
  <2> QED BY <1>1, <2>1, <2>2
<1>7. ASSUME NEW r \in Relays, ClaimBatch(r) PROVE DInv'
  <2>1. /\ UNCHANGED <<outbox, visible, log, queue, faults, published, failed, late>>
        /\ batch[r] = {}
    BY <1>7 DEF ClaimBatch, apiVars
  <2>2. \A s \in Relays : s # r => batch'[s] = batch[s] /\ unsent'[s] = unsent[s]
    BY <1>7 DEF ClaimBatch, IInv, TypeOK
  <2>3. ASSUME NEW e \in visible, ToBeSent(e)' PROVE ToBeSent(e)
    BY <2>1, <2>2, <2>3 DEF ToBeSent
  <2>4. \A e \in visible : InFlight(e)' \subseteq InFlight(e) /\ LateIn(e)' \subseteq LateIn(e)
    BY <2>1 DEF InFlight, LateIn, TopicPartition
  <2>5. Accounted'
    BY <1>1, <2>1, <2>3, <2>4, AccountedFrame
  <2> QED BY <1>1, <1>2, <2>1, <2>5
<1>8. ASSUME NEW r \in Relays, Send(r) PROVE DInv'
  <2>1. Accounted'
    BY <1>8, SendAccounted
  <2>2. LoggedIsVisible'
    BY <1>2, <1>8 DEF Send, apiVars
  <2> QED BY <1>1, <2>1, <2>2
<1>9. ASSUME NEW r \in Relays, NEW p \in Partitions, Acknowledge(r, p) PROVE DInv'
  <2>1. Accounted'
    BY <1>9, AcknowledgeAccounted
  <2>2. LoggedIsVisible'
    BY <1>9, AppendLogged DEF Acknowledge, apiVars
  <2> QED BY <1>1, <2>1, <2>2
<1>10. ASSUME NEW r \in Relays, NEW p \in Partitions, AcknowledgementLost(r, p) PROVE DInv'
  <2>1. Accounted'
    BY <1>10, AcknowledgementLostAccounted
  <2>2. LoggedIsVisible'
    BY <1>10, AppendLogged DEF AcknowledgementLost, apiVars
  <2> QED BY <1>1, <2>1, <2>2
<1>11. ASSUME NEW r \in Relays, NEW p \in Partitions, SendFails(r, p) PROVE DInv'
  <2>1. PICK h : h = Head(queue[r][p]).eid
    OBVIOUS
  <2>2. /\ UNCHANGED <<outbox, visible, log, late>> /\ faults' = faults + 1
        /\ queue[r][p] # <<>>
        /\ queue' = [queue EXCEPT ![r][p] = Tail(queue[r][p])]
    BY <1>11 DEF SendFails, Fault, apiVars
  <2>3. ASSUME NEW e \in visible
        PROVE  /\ IsFiniteSet(InFlight(e)')
               /\ Cardinality(InFlight(e)') <= Cardinality(InFlight(e))
    <3>1. /\ IsFiniteSet(InFlight(e)') /\ Cardinality(InFlight(e)') \in Nat
          /\ Cardinality(InFlight(e)') + One(h = e) <= Cardinality(InFlight(e))
      BY <2>1, <2>2, InFlightTail
    <3>2. One(h = e) \in 0..1
      BY DEF One
    <3> QED BY <3>1, <3>2, CountsNat
  <2>5. \A e \in visible : LateIn(e)' \subseteq LateIn(e)
    BY <2>2 DEF LateIn
  <2>4. Accounted'
    BY <2>2, <2>3, <2>5, AccountedFault
  <2> QED BY <1>1, <1>2, <2>2, <2>4
<1>12. ASSUME NEW r \in Relays, PassFails(r) \/ Crash(r) PROVE DInv'
  <2>1. /\ UNCHANGED <<outbox, visible, log>> /\ faults' = faults + 1
        /\ \/ queue' = [queue EXCEPT ![r] = Orphaned(queue[r])]
           \/ queue' = [queue EXCEPT ![r] = EmptyQueue]
    BY <1>12 DEF PassFails, Crash, Fresh, Fault, apiVars
  <2>3. \A e \in visible : LateIn(e)' \subseteq LateIn(e)
    BY <1>12 DEF PassFails, Crash, Fresh, LateIn, IInv, TypeOK
  <2>2. Accounted'
    BY <2>1, <2>3, InFlightFewer, AccountedFault
  <2> QED BY <1>1, <1>2, <2>1, <2>2
<1>13. ASSUME NEW r \in Relays, MarkPublished(r) PROVE DInv'
  <2>1. /\ UNCHANGED <<outbox, visible, log, queue, faults, late>>
        /\ published' = published \cup acked[r] /\ Resolved(r) /\ EndPass(r)
    BY <1>13 DEF MarkPublished, Delivered, apiVars
  <2>2. \A s \in Relays : s # r => /\ batch'[s] = batch[s] /\ unsent'[s] = unsent[s]
                                   /\ failed'[s] = failed[s]
    BY <2>1 DEF EndPass, IInv, TypeOK
  <2>3. ASSUME NEW e \in visible, ToBeSent(e)' PROVE ToBeSent(e)
    <3>1. e \in batch[r] => e \in failed[r]
      BY <2>1, <2>3 DEF ToBeSent, Resolved
    <3> QED BY <2>1, <2>2, <2>3, <3>1 DEF ToBeSent
  <2>4. \A e \in visible : InFlight(e)' \subseteq InFlight(e) /\ LateIn(e)' \subseteq LateIn(e)
    BY <2>1 DEF InFlight, LateIn, TopicPartition
  <2>5. Accounted'
    BY <1>1, <2>1, <2>3, <2>4, AccountedFrame
  <2> QED BY <1>1, <1>2, <2>1, <2>5
<1>14. ASSUME NEW r \in Relays, Exit(r) PROVE DInv'
  <2>1. /\ UNCHANGED <<outbox, visible, log, published, faults>> /\ batch[r] = {} /\ EndPass(r)
        /\ queue' = [queue EXCEPT ![r] = EmptyQueue]
    BY <1>14 DEF Exit, MayExit, Fresh, apiVars
  <2>2. \A s \in Relays : s # r => /\ batch'[s] = batch[s] /\ unsent'[s] = unsent[s]
                                   /\ failed'[s] = failed[s]
    BY <2>1 DEF EndPass, IInv, TypeOK
  <2>3. ASSUME NEW e \in visible, ToBeSent(e)' PROVE ToBeSent(e)
    BY <2>1, <2>2, <2>3 DEF ToBeSent
  <2>5. \A e \in visible : LateIn(e)' \subseteq LateIn(e)
    BY <1>14 DEF Exit, Fresh, LateIn, IInv, TypeOK
  <2>4. Accounted'
    BY <1>1, <2>1, <2>3, <2>5, InFlightFewer, AccountedFrame
  <2> QED BY <1>1, <1>2, <2>1, <2>4
<1>15. ASSUME NEW r \in Relays, Stop(r) PROVE DInv'
  BY <1>3, <1>15 DEF Stop, apiVars, passVars
<1>16. ASSUME NEW r \in Relays, SendLate(r) PROVE DInv'
  <2>1. Accounted'
    BY <1>16, SendLateAccounted
  <2>2. LoggedIsVisible'
    BY <1>2, <1>16 DEF SendLate, apiVars
  <2> QED BY <1>1, <2>1, <2>2
<1>17. ASSUME NEW r \in Relays, ConnectionLost(r) PROVE DInv'
  <2>1. Accounted'
    BY <1>17, ConnectionLostAccounted
  <2>2. LoggedIsVisible'
    BY <1>2, <1>17 DEF ConnectionLost, apiVars
  <2> QED BY <1>1, <2>1, <2>2
<1> QED BY <1>4, <1>5, <1>6, <1>7, <1>8, <1>9, <1>10, <1>11, <1>12, <1>13, <1>14, <1>15,
           <1>16, <1>17
        DEF Next, RelayStep, Disturb

\* For any number of relays, a row is in Kafka at most once more than there were
\* faults: SKIP LOCKED and an orderly SIGTERM publish nothing twice.
THEOREM DuplicatesBounded == Spec => []DuplicatesNeedFaults
<1>1. DInv => DuplicatesNeedFaults
  <2> SUFFICES ASSUME DInv, NEW e \in visible PROVE Copies(e) <= 1 + faults
    BY DEF DuplicatesNeedFaults
  <2>1. Copies(e) + Cardinality(InFlight(e)) + Cardinality(LateIn(e)) + One(ToBeSent(e))
             <= 1 + faults
    BY DEF DInv, Accounted
  <2> QED BY <2>1, CountsNat DEF DInv
<1> QED BY <1>1, InitDInv, StepDInv, PTL DEF Spec

=============================================================================
