----------------------- MODULE RelatedConsumer_proofs -----------------------
(***************************************************************************)
(* Proofs about RelatedConsumer: for any number of consumers, partitions   *)
(* and events, and any number of crashes, rebalances and database errors,  *)
(* no offset is committed past an unhandled record, and the effect of an   *)
(* event happens once; and one consumer keeps the posts' scores mutual.    *)
(*                                                                         *)
(* CommittedIsHandled is not inductive: CommitOffsets commits the position *)
(* of every partition of a member, so the records below a position have to *)
(* be handled, all but the one the partition's owner is working on; and a  *)
(* member about to commit has handled its own.                             *)
(***************************************************************************)
EXTENDS RelatedConsumer, RelatedTable_proofs

Settled(e) == e \in processed \cup refused

Working(c) == pc[c] \in {"read", "write"}

\* A member that is not polling has a record in hand.
BusyHasMessage ==
    \A c \in Consumers : Busy(c) => msg[c] \in [part : Partitions, eid : Rows]

\* Below a position everything is settled but what the owner works on.
PassedIsSettled ==
    \A p \in Partitions : \A i \in 1..position[p] :
        \/ Settled(log[p][i])
        \/ Working(owner[p]) /\ msg[owner[p]].eid = log[p][i]

\* Offsets are committed only once the record in hand is settled.
CommittingIsSettled ==
    \A c \in Consumers : pc[c] = "commit" => Settled(msg[c].eid)

IInv == /\ GroupTypeOK
        /\ BusyHasMessage
        /\ PassedIsSettled
        /\ CommittingIsSettled
        /\ CommittedIsHandled

\* The initial states satisfy the invariant.
LEMMA InitIInv == Init => IInv
<1> SUFFICES ASSUME Init PROVE IInv
  OBVIOUS
<1>1. GroupTypeOK
  BY DEF Init, GroupTypeOK, Rows
<1>2. BusyHasMessage /\ PassedIsSettled /\ CommittingIsSettled /\ CommittedIsHandled
  BY DEF Init, BusyHasMessage, Busy, PassedIsSettled, CommittingIsSettled, CommittedIsHandled
<1> QED BY <1>1, <1>2 DEF IInv

\* A record at the end of a log, or a new row of the outbox, leaves the invariant
\* alone.
LEMMA RecordsGrowIInv ==
    ASSUME IInv,
           UNCHANGED <<dbVars, refused, groupVars, pc, msg, faults>>,
           outbox' \in Seq(Event), Rows \subseteq Rows',
           \/ log' = log
           \/ \E q \in Partitions, e \in Rows' : log' = [log EXCEPT ![q] = Append(log[q], e)]
    PROVE  IInv'
<1> USE DEF IInv
<1>1. UNCHANGED <<dbVars, refused, groupVars, pc, msg, faults>>
  OBVIOUS
<1>2. outbox' \in Seq(Event) /\ Rows \subseteq Rows'
  OBVIOUS
<1>3. ASSUME NEW p \in Partitions
      PROVE  /\ log'[p] \in Seq(Rows')
             /\ Len(log[p]) <= Len(log'[p])
             /\ \A i \in 1..Len(log[p]) : log'[p][i] = log[p][i]
  <2>1. log[p] \in Seq(Rows) /\ log[p] \in Seq(Rows')
    BY <1>2 DEF GroupTypeOK
  <2>2. CASE log' = log
    BY <2>1, <2>2
  <2>3. ASSUME NEW q \in Partitions, NEW e \in Rows', log' = [log EXCEPT ![q] = Append(log[q], e)]
        PROVE  /\ log'[p] \in Seq(Rows')
               /\ Len(log[p]) <= Len(log'[p])
               /\ \A i \in 1..Len(log[p]) : log'[p][i] = log[p][i]
    <3>1. CASE p = q
      <4>1. log'[p] = Append(log[p], e)
        BY <2>3, <3>1 DEF GroupTypeOK
      <4> QED BY <4>1, <2>1, <2>3
    <3>2. CASE p # q
      <4>1. log'[p] = log[p]
        BY <2>3, <3>2 DEF GroupTypeOK
      <4> QED BY <4>1, <2>1
    <3> QED BY <3>1, <3>2
  <2> QED BY <2>2, <2>3
<1>4. log' \in [Partitions -> Seq(Rows')]
  <2>1. log' = [p \in Partitions |-> log'[p]]
    BY DEF GroupTypeOK
  <2> QED BY <1>3, <2>1
<1>5. ASSUME NEW p \in Partitions
      PROVE  /\ committed[p] \in Nat /\ position[p] \in Nat /\ Len(log[p]) \in Nat
             /\ committed[p] <= position[p] /\ position[p] <= Len(log[p])
  BY <1>5 DEF GroupTypeOK
<1>6. GroupTypeOK'
  <2>1. ASSUME NEW p \in Partitions
        PROVE  committed'[p] <= position'[p] /\ position'[p] <= Len(log'[p])
    <3>1. Len(log'[p]) \in Nat
      BY <1>3
    <3> QED BY <3>1, <1>1, <1>3, <1>5 DEF groupVars
  <2> QED BY <1>1, <1>2, <1>4, <2>1 DEF GroupTypeOK, dbVars, groupVars
<1>7. BusyHasMessage' /\ CommittingIsSettled'
  BY <1>1, <1>2 DEF BusyHasMessage, Busy, CommittingIsSettled, Settled, dbVars
<1>8. PassedIsSettled'
  <2> SUFFICES ASSUME NEW p \in Partitions, NEW i \in 1..position[p]
               PROVE  \/ Settled(log'[p][i])
                      \/ Working(owner[p]) /\ msg[owner[p]].eid = log'[p][i]
    BY <1>1 DEF PassedIsSettled, Settled, Working, groupVars, dbVars
  <2>1. log'[p][i] = log[p][i]
    BY <1>3, <1>5
  <2> QED BY <2>1 DEF PassedIsSettled
<1>9. CommittedIsHandled'
  <2> SUFFICES ASSUME NEW p \in Partitions, NEW i \in 1..committed[p]
               PROVE  log'[p][i] \in processed \cup refused
    BY <1>1 DEF CommittedIsHandled, groupVars, dbVars
  <2>1. log'[p][i] = log[p][i]
    BY <1>3, <1>5
  <2> QED BY <2>1 DEF CommittedIsHandled
<1> QED BY <1>6, <1>7, <1>8, <1>9

\* New records at the end of the logs leave the invariant alone.
LEMMA LogGrowsIInv ==
    ASSUME IInv,
           \/ \E ev \in Event : Deliver(ev)
           \/ \E e \in Rows : Redeliver(e)
    PROVE  IInv'
<1>1. UNCHANGED <<dbVars, refused, groupVars, pc, msg, faults>>
  BY DEF Deliver, Redeliver
<1>2. CASE \E ev \in Event : Deliver(ev)
  <2>1. PICK ev \in Event : Deliver(ev)
    BY <1>2
  <2>2. outbox' = Append(outbox, ev) /\ outbox \in Seq(Event) /\ Len(outbox) \in Nat
    BY <2>1 DEF Deliver, IInv, GroupTypeOK
  <2>3. outbox' \in Seq(Event) /\ Rows \subseteq Rows' /\ Len(outbox) + 1 \in Rows'
    BY <2>2 DEF Rows
  <2>4. \E q \in Partitions, e \in Rows' : log' = [log EXCEPT ![q] = Append(log[q], e)]
    BY <2>1, <2>3, PartitionAssumption DEF Deliver
  <2> QED BY <1>1, <2>3, <2>4, RecordsGrowIInv
<1>3. CASE \E e \in Rows : Redeliver(e)
  <2>1. PICK e \in Rows : Redeliver(e)
    BY <1>3
  <2>2. outbox \in Seq(Event) /\ outbox[e] \in Event /\ outbox' = outbox /\ Rows' = Rows
    BY <2>1 DEF IInv, GroupTypeOK, Rows, Redeliver
  <2>3. \E q \in Partitions, f \in Rows' : log' = [log EXCEPT ![q] = Append(log[q], f)]
    BY <2>1, <2>2, PartitionAssumption DEF Redeliver
  <2> QED BY <1>1, <2>2, <2>3, RecordsGrowIInv
<1> QED BY <1>2, <1>3

\* handle() returning False settles the record in hand.
LEMMA RefuseIInv ==
    ASSUME IInv, NEW c \in Consumers, Working(c), Refuse(c), faults' \in Nat
    PROVE  IInv'
<1> USE DEF IInv
<1>1. msg[c].eid \in Rows
  BY DEF BusyHasMessage, Busy, Working
<1>2. /\ refused' = refused \cup {msg[c].eid}
      /\ pc' = [pc EXCEPT ![c] = "poll"]
      /\ msg' = [msg EXCEPT ![c] = NoMessage]
      /\ UNCHANGED <<outbox, log, post, processed, owner, position, committed>>
  BY DEF Refuse, kafkaVars, dbVars, groupVars
<1>3. GroupTypeOK'
  BY <1>1, <1>2 DEF GroupTypeOK, Rows
<1>4. BusyHasMessage' /\ CommittingIsSettled'
  BY <1>2 DEF GroupTypeOK, BusyHasMessage, Busy, CommittingIsSettled, Settled, Rows
<1>5. PassedIsSettled'
  <2> SUFFICES ASSUME NEW p \in Partitions, NEW i \in 1..position[p]
               PROVE  \/ Settled(log[p][i])'
                      \/ Working(owner[p])' /\ msg'[owner[p]].eid = log[p][i]
    BY <1>2 DEF PassedIsSettled
  <2>1. CASE owner[p] = c
    BY <1>2, <2>1 DEF PassedIsSettled, Settled
  <2>2. CASE owner[p] # c
    BY <1>2, <2>2 DEF GroupTypeOK, PassedIsSettled, Settled, Working
  <2> QED BY <2>1, <2>2
<1>6. CommittedIsHandled'
  BY <1>2 DEF CommittedIsHandled
<1> QED BY <1>3, <1>4, <1>5, <1>6

\* Every step of a consumer keeps the invariant.
LEMMA ConsumerStepIInv ==
    ASSUME IInv, NEW c \in Consumers, ConsumerStep(c)
    PROVE  IInv'
<1> USE DEF IInv
<1>1. ASSUME NEW p \in Partitions, Poll(c, p) PROVE IInv'
  <2> DEFINE e == log[p][position[p] + 1]
  <2>1. /\ pc[c] = "poll" /\ owner[p] = c
        /\ position[p] < Len(log[p])
        /\ position' = [position EXCEPT ![p] = position[p] + 1]
        /\ msg' = [msg EXCEPT ![c] = [part |-> p, eid |-> e]]
        /\ pc' = [pc EXCEPT ![c] = "read"]
        /\ UNCHANGED <<outbox, log, post, processed, refused, owner, committed, faults>>
    BY <1>1 DEF Poll, Busy, kafkaVars, dbVars
  <2>2. e \in Rows /\ position[p] \in Nat /\ Len(log[p]) \in Nat
    BY <2>1 DEF GroupTypeOK
  <2>3. position' \in [Partitions -> Nat]
    BY <2>1, <2>2 DEF GroupTypeOK
  <2>4. \A q \in Partitions : committed[q] <= position'[q] /\ position'[q] <= Len(log[q])
    BY <2>1, <2>2 DEF GroupTypeOK
  <2>5. [part |-> p, eid |-> e] \in [part : Partitions, eid : Rows]
    BY <2>2
  <2>6. msg' \in [Consumers -> [part : Partitions, eid : Rows] \cup {NoMessage}]
    BY <2>1, <2>5 DEF GroupTypeOK
  <2>7. GroupTypeOK'
    BY <2>1, <2>3, <2>4, <2>6 DEF GroupTypeOK, Rows
  <2>8. BusyHasMessage'
    BY <2>1, <2>5 DEF GroupTypeOK, BusyHasMessage, Busy, Rows
  <2>9. CommittingIsSettled' /\ CommittedIsHandled'
    BY <2>1 DEF GroupTypeOK, CommittingIsSettled, Settled, CommittedIsHandled
  <2>10. PassedIsSettled'
    <3> SUFFICES ASSUME NEW q \in Partitions, NEW i \in 1..position'[q]
                 PROVE  \/ Settled(log[q][i])
                        \/ Working(owner[q])' /\ msg'[owner[q]].eid = log[q][i]
      BY <2>1 DEF PassedIsSettled, Settled
    <3>1. CASE q = p /\ i = position[p] + 1
      BY <3>1, <2>1 DEF GroupTypeOK, Working
    <3>2. CASE ~(q = p /\ i = position[p] + 1)
      <4>1. i \in 1..position[q]
        BY <3>2, <2>1, <2>2 DEF GroupTypeOK
      <4>2. CASE owner[q] = c
        BY <4>1, <4>2, <2>1 DEF PassedIsSettled, Working
      <4>3. CASE owner[q] # c
        BY <4>1, <4>3, <2>1 DEF GroupTypeOK, PassedIsSettled, Working
      <4> QED BY <4>2, <4>3
    <3> QED BY <3>1, <3>2
  <2> QED BY <2>7, <2>8, <2>9, <2>10
<1>2. ASSUME Read(c) PROVE IInv'
  <2>1. /\ pc[c] = "read"
        /\ \/ msg[c].eid \in processed /\ pc' = [pc EXCEPT ![c] = "commit"]
           \/ pc' = [pc EXCEPT ![c] = "write"]
        /\ UNCHANGED <<outbox, log, post, processed, refused, owner, position, committed,
                       msg, faults>>
    BY <1>2 DEF Read, kafkaVars, dbVars, groupVars
  <2>2. GroupTypeOK'
    BY <2>1 DEF GroupTypeOK, Rows
  <2>3. BusyHasMessage' /\ CommittingIsSettled' /\ CommittedIsHandled'
    BY <2>1 DEF GroupTypeOK, BusyHasMessage, Busy, CommittingIsSettled, Settled,
                CommittedIsHandled, Rows
  <2>4. PassedIsSettled'
    <3> SUFFICES ASSUME NEW p \in Partitions, NEW i \in 1..position[p]
                 PROVE  \/ Settled(log[p][i])
                        \/ Working(owner[p])' /\ msg[owner[p]].eid = log[p][i]
      BY <2>1 DEF PassedIsSettled, Settled
    <3>1. CASE owner[p] = c /\ msg[c].eid \in processed
      BY <3>1 DEF PassedIsSettled, Settled
    <3>2. CASE owner[p] # c \/ msg[c].eid \notin processed
      BY <3>2, <2>1 DEF GroupTypeOK, PassedIsSettled, Working
    <3> QED BY <3>1, <3>2
  <2> QED BY <2>2, <2>3, <2>4
<1>3. ASSUME Write(c) PROVE IInv'
  <2>1. /\ pc[c] = "write"
        /\ processed' = processed \cup {msg[c].eid}
        /\ pc' = [pc EXCEPT ![c] = "commit"]
        /\ UNCHANGED <<outbox, log, refused, owner, position, committed, msg, faults>>
    BY <1>3 DEF Write, kafkaVars, groupVars
  <2>2. msg[c].eid \in Rows
    BY <2>1 DEF BusyHasMessage, Busy
  <2>3. GroupTypeOK'
    BY <2>1, <2>2 DEF GroupTypeOK, Rows
  <2>4. BusyHasMessage' /\ CommittingIsSettled' /\ CommittedIsHandled'
    BY <2>1 DEF GroupTypeOK, BusyHasMessage, Busy, CommittingIsSettled, Settled,
                CommittedIsHandled, Rows
  <2>5. PassedIsSettled'
    BY <2>1 DEF GroupTypeOK, PassedIsSettled, Working, Settled
  <2> QED BY <2>3, <2>4, <2>5
<1>4. ASSUME ApplyFails(c) PROVE IInv'
  BY <1>4, RefuseIInv DEF ApplyFails, Working, GroupTypeOK
<1>5. ASSUME CommitOffsets(c) PROVE IInv'
  <2>1. /\ pc[c] = "commit"
        /\ committed' = [p \in Partitions |->
                            IF owner[p] = c THEN position[p] ELSE committed[p]]
        /\ pc' = [pc EXCEPT ![c] = "poll"]
        /\ msg' = [msg EXCEPT ![c] = NoMessage]
        /\ UNCHANGED <<outbox, log, post, processed, refused, owner, position, faults>>
    BY <1>5 DEF CommitOffsets, Restart, kafkaVars, dbVars
  <2>2. GroupTypeOK'
    BY <2>1 DEF GroupTypeOK, Rows
  <2>3. BusyHasMessage' /\ CommittingIsSettled'
    BY <2>1 DEF GroupTypeOK, BusyHasMessage, Busy, CommittingIsSettled, Settled, Rows
  <2>4. PassedIsSettled'
    BY <2>1 DEF GroupTypeOK, PassedIsSettled, Working, Settled
  <2>5. CommittedIsHandled'
    <3> SUFFICES ASSUME NEW p \in Partitions, NEW i \in 1..committed'[p]
                 PROVE  Settled(log[p][i])
      BY <2>1 DEF CommittedIsHandled, Settled
    <3>1. CASE owner[p] = c
      BY <3>1, <2>1 DEF PassedIsSettled, Working
    <3>2. CASE owner[p] # c
      BY <3>2, <2>1 DEF CommittedIsHandled, Settled
    <3> QED BY <3>1, <3>2
  <2> QED BY <2>2, <2>3, <2>4, <2>5
<1>6. ASSUME CommitFails(c) PROVE IInv'
  <2>1. /\ pc[c] = "commit"
        /\ pc' = [pc EXCEPT ![c] = "poll"]
        /\ msg' = [msg EXCEPT ![c] = NoMessage]
        /\ UNCHANGED <<outbox, log, post, processed, refused, owner, position, committed,
                       faults>>
    BY <1>6 DEF CommitFails, Restart, kafkaVars, dbVars, groupVars
  <2>2. GroupTypeOK'
    BY <2>1 DEF GroupTypeOK, Rows
  <2>3. BusyHasMessage' /\ CommittingIsSettled' /\ CommittedIsHandled'
    BY <2>1 DEF GroupTypeOK, BusyHasMessage, Busy, CommittingIsSettled, Settled,
                CommittedIsHandled, Rows
  <2>4. PassedIsSettled'
    BY <2>1 DEF GroupTypeOK, PassedIsSettled, Working, Settled
  <2> QED BY <2>2, <2>3, <2>4
<1> QED BY <1>1, <1>2, <1>3, <1>4, <1>5, <1>6 DEF ConsumerStep

\* Crashes, rebalances and database errors keep the invariant.
LEMMA DisturbIInv ==
    ASSUME IInv, Disturb
    PROVE  IInv'
<1> USE DEF IInv
<1>1. ASSUME NEW c \in Consumers, DatabaseError(c) PROVE IInv'
  BY <1>1, RefuseIInv DEF DatabaseError, Fault, Working, GroupTypeOK
<1>2. ASSUME NEW c \in Consumers, Crash(c) PROVE IInv'
  <2>1. /\ pc' = [pc EXCEPT ![c] = "poll"]
        /\ msg' = [msg EXCEPT ![c] = NoMessage]
        /\ position' = [p \in Partitions |->
                           IF owner[p] = c THEN committed[p] ELSE position[p]]
        /\ faults' = faults + 1
        /\ UNCHANGED <<outbox, log, post, processed, refused, owner, committed>>
    BY <1>2 DEF Crash, Fault, Restart, Rewound, ResumeAt, kafkaVars, dbVars
  <2>2. \A p \in Partitions : committed[p] <= position'[p] /\ position'[p] <= Len(log[p])
    <3> SUFFICES ASSUME NEW p \in Partitions
                 PROVE  committed[p] <= position'[p] /\ position'[p] <= Len(log[p])
      OBVIOUS
    <3>1. /\ committed[p] \in Nat /\ position[p] \in Nat /\ Len(log[p]) \in Nat
          /\ committed[p] <= position[p] /\ position[p] <= Len(log[p])
      BY DEF GroupTypeOK
    <3> QED BY <3>1, <2>1
  <2>3. GroupTypeOK'
    BY <2>1, <2>2 DEF GroupTypeOK, Rows
  <2>4. BusyHasMessage' /\ CommittingIsSettled' /\ CommittedIsHandled'
    BY <2>1 DEF GroupTypeOK, BusyHasMessage, Busy, CommittingIsSettled, Settled,
                CommittedIsHandled, Rows
  <2>5. PassedIsSettled'
    <3> SUFFICES ASSUME NEW p \in Partitions, NEW i \in 1..position'[p]
                 PROVE  \/ Settled(log[p][i])
                        \/ Working(owner[p])' /\ msg'[owner[p]].eid = log[p][i]
      BY <2>1 DEF PassedIsSettled, Settled
    <3>1. CASE owner[p] = c
      BY <3>1, <2>1 DEF CommittedIsHandled, Settled
    <3>2. CASE owner[p] # c
      BY <3>2, <2>1 DEF GroupTypeOK, PassedIsSettled, Working
    <3> QED BY <3>1, <3>2
  <2> QED BY <2>3, <2>4, <2>5
<1>3. ASSUME Rebalance PROVE IInv'
  <2>1. /\ owner' \in [Partitions -> Consumers]
        /\ position' = [p \in Partitions |-> committed[p]]
        /\ faults' = faults + 1
        /\ UNCHANGED <<outbox, log, post, processed, refused, committed, pc, msg>>
    BY <1>3 DEF Rebalance, Fault, ResumeAt, kafkaVars, dbVars
  <2>2. GroupTypeOK'
    <3>1. ASSUME NEW p \in Partitions
          PROVE  committed[p] <= position'[p] /\ position'[p] <= Len(log[p])
      <4>1. /\ committed[p] \in Nat /\ position[p] \in Nat /\ Len(log[p]) \in Nat
            /\ committed[p] <= position[p] /\ position[p] <= Len(log[p])
        BY DEF GroupTypeOK
      <4> QED BY <4>1, <2>1
    <3> QED BY <2>1, <3>1 DEF GroupTypeOK, Rows
  <2>3. BusyHasMessage' /\ CommittingIsSettled' /\ CommittedIsHandled'
    BY <2>1 DEF BusyHasMessage, Busy, CommittingIsSettled, Settled, CommittedIsHandled, Rows
  <2>4. PassedIsSettled'
    BY <2>1 DEF PassedIsSettled, CommittedIsHandled, Settled
  <2> QED BY <2>2, <2>3, <2>4
<1> QED BY <1>1, <1>2, <1>3 DEF Disturb

\* The invariant is inductive.
LEMMA StepIInv == IInv /\ [Next]_vars => IInv'
<1> SUFFICES ASSUME IInv, [Next]_vars PROVE IInv'
  OBVIOUS
<1>1. CASE UNCHANGED vars
  BY <1>1 DEF vars, IInv, GroupTypeOK, BusyHasMessage, Busy, PassedIsSettled, Working,
              CommittingIsSettled, Settled, CommittedIsHandled, Rows
<1>2. CASE Next
  BY <1>2, LogGrowsIInv, ConsumerStepIInv, DisturbIInv DEF Next, ConsumerNext
<1> QED BY <1>1, <1>2

\* The inductive invariant holds in every reachable state.
LEMMA IInvHolds == Spec => []IInv
<1> QED BY InitIInv, StepIInv, PTL DEF Spec

\* consumer.commit() never passes over a record that handle() has neither
\* applied nor refused, whoever crashes, is evicted or starts over.
THEOREM NoSilentSkip == Spec => []CommittedIsHandled
<1>1. IInv => CommittedIsHandled
  BY DEF IInv
<1> QED BY <1>1, IInvHolds, PTL

\* A change of the post table comes with the first and only processed_events
\* row of one event.
LEMMA StepAppliesOnce ==
    ASSUME IInv, [Next]_vars
    PROVE  [post' # post => \E e \in Rows \ processed : processed' = processed \cup {e}]_vars
<1>1. ASSUME NEW c \in Consumers, Write(c)
      PROVE  \E e \in Rows \ processed : processed' = processed \cup {e}
  <2>1. msg[c].eid \in Rows
    BY <1>1 DEF IInv, BusyHasMessage, Busy, Write
  <2>2. msg[c].eid \notin processed /\ processed' = processed \cup {msg[c].eid}
    BY <1>1 DEF Write, FlushFails, PostsRejected
  <2> QED BY <2>1, <2>2
<1>2. ASSUME NEW c \in Consumers, ConsumerStep(c), ~Write(c) PROVE post' = post
  BY <1>2 DEF ConsumerStep, Poll, Read, ApplyFails, Refuse, CommitOffsets, CommitFails, dbVars
<1>3. ASSUME Disturb PROVE post' = post
  BY <1>3 DEF Disturb, DatabaseError, Refuse, Crash, Rebalance, dbVars
<1>4. ASSUME NEW ev \in Event, Deliver(ev) PROVE post' = post
  BY <1>4 DEF Deliver, dbVars
<1>5. ASSUME NEW e \in Rows, Redeliver(e) PROVE post' = post
  BY <1>5 DEF Redeliver, dbVars
<1> QED BY <1>1, <1>2, <1>3, <1>4, <1>5 DEF Next, ConsumerNext, vars

\* handle() applies an event at most once, two members handling it at the same
\* time included.
THEOREM EffectOnce == Spec => AppliedOnce
<1>1. IInv /\ [Next]_vars =>
        [post' # post => \E e \in Rows \ processed : processed' = processed \cup {e}]_vars
  BY StepAppliesOnce
<1> QED BY <1>1, IInvHolds, PTL DEF Spec, AppliedOnce

-----------------------------------------------------------------------------
(* The tables.  Every member's handler works on a table and makes a table,   *)
(* and what a session flushes into the current table leaves it one.          *)

\* Tables holds the tables of posts with ids in Ids.
LEMMA TablesAre ==
    ASSUME NEW t
    PROVE  t \in Tables <=> IsTable(t) /\ DOMAIN t \subseteq Ids
<1>1. t \in Tables <=> \E S \in SUBSET Ids : t \in [S -> Row]
  BY DEF Tables
<1>2. ASSUME NEW S \in SUBSET Ids, t \in [S -> Row]
      PROVE  IsTable(t) /\ DOMAIN t \subseteq Ids
  BY <1>2 DEF IsTable
<1>3. ASSUME IsTable(t) PROVE t \in [DOMAIN t -> Row]
  BY <1>3 DEF IsTable
<1> QED BY <1>1, <1>2, <1>3

\* The table before the first event.
LEMMA EmptyIsTable == EmptyTable \in Tables
<1>1. DOMAIN EmptyTable = {} /\ EmptyTable = [id \in DOMAIN EmptyTable |-> EmptyTable[id]]
  BY DEF EmptyTable
<1> QED BY <1>1, TablesAre DEF IsTable

\* The recorded events are ones the handlers know.
EventsKnown == \A k \in Rows : IsEvent(outbox[k]) /\ outbox[k].id \in Ids

TInv == IInv /\ TypeOK /\ EventsKnown

\* A flush writes rows made of the columns of rows.
LEMMA FlushIsTable ==
    ASSUME post \in Tables, NEW s \in Tables, NEW n \in Tables
    PROVE  Flush(s, n) \in Tables
<1> DEFINE new == Flush(s, n)
<1>1. /\ IsTable(post) /\ IsTable(s) /\ IsTable(n)
      /\ DOMAIN post \subseteq Ids /\ DOMAIN n \subseteq Ids
  BY TablesAre
<1>2. /\ DOMAIN new = (DOMAIN post \ Deleted(s, n)) \cup Inserted(s, n)
      /\ new = [id \in DOMAIN new |-> new[id]]
      /\ \A id \in DOMAIN new :
           new[id] = IF id \in Inserted(s, n) THEN n[id]
                     ELSE IF id \in Dirty(s, n) THEN MergedRow(s[id], n[id], post[id])
                     ELSE post[id]
  BY DEF Flush
<1> HIDE DEF new
<1>3. ASSUME NEW old \in Row, NEW r \in Row, NEW cur \in Row
      PROVE  MergedRow(old, r, cur) \in Row
  BY DEF MergedRow, Row
<1>4. \A id \in DOMAIN new : new[id] \in Row
  <2> SUFFICES ASSUME NEW id \in DOMAIN new PROVE new[id] \in Row
    OBVIOUS
  <2>1. CASE id \in Inserted(s, n)
    BY <1>1, <1>2, <2>1 DEF Inserted, IsTable
  <2>2. CASE id \notin Inserted(s, n) /\ id \in Dirty(s, n)
    <3>1. s[id] \in Row /\ n[id] \in Row /\ post[id] \in Row
      BY <1>1, <1>2, <2>2 DEF Dirty, IsTable
    <3> QED BY <1>2, <1>3, <2>2, <3>1
  <2>3. CASE id \notin Inserted(s, n) /\ id \notin Dirty(s, n)
    BY <1>1, <1>2, <2>3 DEF IsTable
  <2> QED BY <2>1, <2>2, <2>3
<1>5. DOMAIN new \subseteq Ids
  BY <1>1, <1>2 DEF Inserted
<1> QED BY <1>2, <1>4, <1>5, TablesAre DEF new, IsTable

\* What a member's handler makes of what it has read is a table.
LEMMA HandledIsTable ==
    ASSUME TInv, NEW c \in Consumers, Busy(c)
    PROVE  /\ msg[c].eid \in Rows
           /\ IsEvent(outbox[msg[c].eid]) /\ outbox[msg[c].eid].id \in Ids
           /\ Handled(c) \in Tables
<1>1. msg[c].eid \in Rows
  BY DEF TInv, IInv, BusyHasMessage
<1>2. IsEvent(outbox[msg[c].eid]) /\ outbox[msg[c].eid].id \in Ids
  BY <1>1 DEF TInv, EventsKnown
<1>3. IsTable(snap[c]) /\ DOMAIN snap[c] \subseteq Ids
  BY TablesAre DEF TInv, TypeOK
<1>4. IsTable(Handled(c)) /\ DOMAIN Handled(c) \subseteq Ids
  BY <1>2, <1>3, HandleIsTable DEF Handled
<1> QED BY <1>1, <1>2, <1>4, TablesAre

\* The initial states have tables.
LEMMA InitTInv == Init => TInv
<1> SUFFICES ASSUME Init PROVE TInv
  OBVIOUS
<1>1. post \in Tables /\ snap \in [Consumers -> Tables]
  BY EmptyIsTable DEF Init
<1>2. EventsKnown
  BY DEF Init, EventsKnown, Rows
<1> QED BY <1>1, <1>2, InitIInv DEF TInv, TypeOK, IInv

\* The step adds rows at the end of the outbox, if any.
LEMMA EventsStep ==
    ASSUME TInv, [Next]_vars
    PROVE  /\ EventsKnown'
           /\ Rows \subseteq Rows' /\ \A k \in Rows : outbox'[k] = outbox[k]
<1> USE DEF TInv, TypeOK, GroupTypeOK
<1>1. ASSUME NEW ev \in Event, Deliver(ev)
      PROVE  /\ EventsKnown'
             /\ Rows \subseteq Rows' /\ \A k \in Rows : outbox'[k] = outbox[k]
  <2>1. outbox' = Append(outbox, ev) /\ outbox \in Seq(Event) /\ Len(outbox) \in Nat
    BY <1>1 DEF Deliver
  <2>2. /\ Rows' = Rows \cup {Len(outbox) + 1}
        /\ outbox'[Len(outbox) + 1] = ev
        /\ \A k \in Rows : outbox'[k] = outbox[k]
    BY <2>1 DEF Rows
  <2>3. IsEvent(ev) /\ ev.id \in Ids
    BY <1>1 DEF Deliver, MayRecord, Event, IsEvent
  <2> QED BY <2>2, <2>3 DEF EventsKnown
<1>2. ASSUME outbox' = outbox
      PROVE  /\ EventsKnown'
             /\ Rows \subseteq Rows' /\ \A k \in Rows : outbox'[k] = outbox[k]
  BY <1>2 DEF EventsKnown, Rows
<1>3. ASSUME NEW c \in Consumers, ConsumerStep(c) PROVE outbox' = outbox
  BY <1>3 DEF ConsumerStep, Poll, Read, Write, ApplyFails, Refuse, CommitOffsets,
     CommitFails, kafkaVars
<1>4. ASSUME Disturb PROVE outbox' = outbox
  BY <1>4 DEF Disturb, DatabaseError, Refuse, Crash, Rebalance, kafkaVars
<1>5. ASSUME NEW e \in Rows, Redeliver(e) PROVE outbox' = outbox
  BY <1>5 DEF Redeliver
<1> QED BY <1>1, <1>2, <1>3, <1>4, <1>5 DEF Next, ConsumerNext, vars

\* What a step does to the tables: a transaction commits, or is begun or
\* forgotten by one member, or nothing.
LEMMA TablesStep ==
    ASSUME [Next]_vars
    PROVE  \/ \E c \in Consumers : Write(c)
           \/ \E c \in Consumers : Read(c)
           \/ /\ post' = post
              /\ \/ UNCHANGED <<pc, snap>>
                 \/ \E c \in Consumers :
                      \/ snap' = snap /\ pc' = [pc EXCEPT ![c] = "read"]
                      \/ /\ snap' = [snap EXCEPT ![c] = EmptyTable]
                         /\ pc' = [pc EXCEPT ![c] = "poll"]
<1>1. ASSUME NEW c \in Consumers, ConsumerStep(c), ~Write(c), ~Read(c)
      PROVE  /\ post' = post
             /\ \/ snap' = snap /\ pc' = [pc EXCEPT ![c] = "read"]
                \/ /\ snap' = [snap EXCEPT ![c] = EmptyTable]
                   /\ pc' = [pc EXCEPT ![c] = "poll"]
  BY <1>1 DEF ConsumerStep, Poll, ApplyFails, Refuse, CommitOffsets, CommitFails, Restart,
     dbVars
<1>2. ASSUME NEW c \in Consumers, DatabaseError(c) \/ Crash(c)
      PROVE  /\ post' = post
             /\ snap' = [snap EXCEPT ![c] = EmptyTable]
             /\ pc' = [pc EXCEPT ![c] = "poll"]
  BY <1>2 DEF DatabaseError, Refuse, Crash, Restart, dbVars
<1>3. ASSUME Rebalance PROVE UNCHANGED <<post, pc, snap>>
  BY <1>3 DEF Rebalance, dbVars
<1>4. ASSUME NEW ev \in Event, Deliver(ev) PROVE UNCHANGED <<post, pc, snap>>
  BY <1>4 DEF Deliver, dbVars
<1>5. ASSUME NEW e \in Rows, Redeliver(e) PROVE UNCHANGED <<post, pc, snap>>
  BY <1>5 DEF Redeliver, dbVars
<1> QED BY <1>1, <1>2, <1>3, <1>4, <1>5 DEF Next, ConsumerNext, Disturb, vars

\* Every step leaves tables.
LEMMA StepTInv == TInv /\ [Next]_vars => TInv'
<1> SUFFICES ASSUME TInv, [Next]_vars PROVE TInv'
  OBVIOUS
<1>1. IInv' /\ EventsKnown'
  BY StepIInv, EventsStep DEF TInv
<1>2. post \in Tables /\ snap \in [Consumers -> Tables]
  BY DEF TInv, TypeOK, GroupTypeOK
<1>3. ASSUME NEW c \in Consumers, Write(c)
      PROVE  post' \in Tables /\ snap' \in [Consumers -> Tables]
  <2>1. Handled(c) \in Tables
    BY <1>3, HandledIsTable DEF Write, Busy
  <2>2. post' = Flush(snap[c], Handled(c)) /\ snap' = [snap EXCEPT ![c] = EmptyTable]
    BY <1>3 DEF Write
  <2>3. post' \in Tables
    BY <1>2, <2>1, <2>2, FlushIsTable
  <2> QED BY <1>2, <2>2, <2>3, EmptyIsTable
<1>4. ASSUME NEW c \in Consumers, Read(c)
      PROVE  post' \in Tables /\ snap' \in [Consumers -> Tables]
  BY <1>2, <1>4 DEF Read, dbVars
<1>5. post' \in Tables /\ snap' \in [Consumers -> Tables]
  BY <1>2, <1>3, <1>4, TablesStep, EmptyIsTable
<1> QED BY <1>1, <1>5 DEF TInv, TypeOK, IInv

\* There are tables in every reachable state.
LEMMA TInvHolds == Spec => []TInv
BY InitTInv, StepTInv, PTL DEF Spec

\* The types of the group's bookkeeping and of every table, for any number of
\* members whose sessions interleave.
THEOREM TypeCorrect == Spec => []TypeOK
<1>1. TInv => TypeOK
  BY DEF TInv
<1> QED BY <1>1, TInvHolds, PTL

-----------------------------------------------------------------------------
(* One consumer.  What a session has read is then what it writes over, and   *)
(* the handlers keep the scores of posts that keep their slugs.              *)

\* One process in the group.
Alone == \E c : Consumers = {c}

\* A post in the table has the slug of an event of its own.
SlugRecorded ==
    \A i \in DOMAIN post : \E k \in Rows : outbox[k].id = i /\ outbox[k].slug = post[i].slug

\* What the session has read is still in the table.
SnapCurrent == \A c \in Consumers : pc[c] = "write" => snap[c] = post

RInv == /\ TInv
        /\ SlugRecorded
        /\ SnapCurrent
        /\ SlugsUnique(post)
        /\ RelatesBothWays
        /\ ReferencesExist

\* A session that has read the current table writes what its handler made.
LEMMA FlushCurrent ==
    ASSUME IsTable(post), NEW n, IsTable(n)
    PROVE  Flush(post, n) = n
<1> DEFINE new == Flush(post, n)
<1>1. /\ DOMAIN new = DOMAIN n
      /\ new = [id \in DOMAIN new |-> new[id]]
      /\ \A id \in DOMAIN new :
           new[id] = IF id \in Inserted(post, n) THEN n[id]
                     ELSE IF id \in Dirty(post, n) THEN MergedRow(post[id], n[id], post[id])
                     ELSE post[id]
  BY DEF Flush, Inserted, Deleted
<1> HIDE DEF new
<1>2. ASSUME NEW old \in Row, NEW r \in Row
      PROVE  MergedRow(old, r, old) = r
  <2>1. r = [title |-> r.title, slug |-> r.slug, related |-> r.related]
    BY DEF Row
  <2> QED BY <2>1 DEF MergedRow
<1>3. \A id \in DOMAIN n : new[id] = n[id]
  <2> SUFFICES ASSUME NEW id \in DOMAIN n PROVE new[id] = n[id]
    OBVIOUS
  <2>1. CASE id \in Inserted(post, n)
    BY <1>1, <2>1
  <2>2. CASE id \notin Inserted(post, n) /\ id \in Dirty(post, n)
    <3>1. post[id] \in Row /\ n[id] \in Row
      BY <2>2 DEF Dirty, IsTable
    <3> QED BY <1>1, <1>2, <2>2, <3>1
  <2>3. CASE id \notin Inserted(post, n) /\ id \notin Dirty(post, n)
    BY <1>1, <2>3 DEF Inserted, Dirty
  <2> QED BY <2>1, <2>2, <2>3
<1>4. new = [id \in DOMAIN n |-> n[id]]
  BY <1>1, <1>3
<1> QED BY <1>4 DEF new, IsTable

\* The empty table relates nothing wrongly.
LEMMA InitRInv == Init => RInv
<1> SUFFICES ASSUME Init PROVE RInv
  OBVIOUS
<1>1. DOMAIN post = {}
  BY DEF Init, EmptyTable
<1>2. SlugRecorded /\ SlugsUnique(post) /\ RelatesBothWays /\ ReferencesExist
  BY <1>1 DEF SlugRecorded, SlugsUnique, RelatesBothWays, ReferencesExist, NoDanglingBut
<1>3. SnapCurrent
  BY DEF Init, SnapCurrent
<1> QED BY <1>2, <1>3, InitTInv DEF RInv

\* A rename stays recorded.
LEMMA RenamedStays ==
    ASSUME Rows \subseteq Rows', \A k \in Rows : outbox'[k] = outbox[k]
    PROVE  /\ \A id : Renamed(id) => Renamed(id)'
           /\ OldSlugs \subseteq OldSlugs'
<1>1. ASSUME NEW id, Renamed(id) PROVE Renamed(id)'
  BY <1>1 DEF Renamed
<1>2. ASSUME NEW k \in Rows, Renamed(outbox[k].id) PROVE outbox[k].slug \in OldSlugs'
  <2>1. PICK id : id = outbox[k].id
    OBVIOUS
  <2>2. Renamed(id)' /\ k \in Rows' /\ outbox'[k] = outbox[k]
    BY <1>1, <1>2, <2>1
  <2> QED BY <2>1, <2>2 DEF OldSlugs
<1> QED BY <1>1, <1>2 DEF OldSlugs

\* With the table, the others go on being related.
LEMMA TableRests ==
    ASSUME SlugRecorded, SlugsUnique(post), RelatesBothWays, ReferencesExist, post' = post,
           Rows \subseteq Rows', \A k \in Rows : outbox'[k] = outbox[k]
    PROVE  SlugRecorded' /\ SlugsUnique(post)' /\ RelatesBothWays' /\ ReferencesExist'
<1>1. /\ \A id : Renamed(id) => Renamed(id)'
      /\ OldSlugs \subseteq OldSlugs'
  BY RenamedStays
<1>2. SlugRecorded' /\ SlugsUnique(post)'
  BY DEF SlugRecorded, SlugsUnique
<1>3. RelatesBothWays'
  BY <1>1 DEF RelatesBothWays, Referenced
<1>4. ReferencesExist'
  BY <1>1 DEF ReferencesExist, NoDanglingBut
<1> QED BY <1>2, <1>3, <1>4

\* What the one consumer is about to write is what its handler makes of the
\* current table: a table whose posts have slugs of their own events.
LEMMA WritesHandled ==
    ASSUME RInv, NEW c \in Consumers, pc[c] = "write"
    PROVE  /\ msg[c].eid \in Rows /\ IsEvent(outbox[msg[c].eid])
           /\ IsTable(post) /\ snap[c] = post
           /\ Flush(snap[c], Handled(c)) = Handle(post, outbox[msg[c].eid])
           /\ \A i \in DOMAIN Handle(post, outbox[msg[c].eid]) : \E k \in Rows :
                outbox[k].id = i /\ outbox[k].slug = Handle(post, outbox[msg[c].eid])[i].slug
<1> DEFINE ev == outbox[msg[c].eid]
           n == Handle(post, ev)
<1>1. snap[c] = post /\ Busy(c)
  BY DEF RInv, SnapCurrent, Busy
<1>2. msg[c].eid \in Rows /\ IsEvent(ev)
  BY <1>1, HandledIsTable DEF RInv
<1>3. IsTable(post)
  BY TablesAre DEF RInv, TInv, TypeOK
<1>4. IsTable(n)
  BY <1>2, <1>3, HandleIsTable
<1>5. Flush(snap[c], Handled(c)) = n
  BY <1>1, <1>3, <1>4, FlushCurrent DEF Handled
<1>6. \A i \in DOMAIN n : \E k \in Rows : outbox[k].id = i /\ outbox[k].slug = n[i].slug
  <2> SUFFICES ASSUME NEW i \in DOMAIN n
               PROVE  \E k \in Rows : outbox[k].id = i /\ outbox[k].slug = n[i].slug
    OBVIOUS
  <2>1. \/ i = ev.id /\ n[i].slug = ev.slug
        \/ i \in DOMAIN post /\ n[i].slug = post[i].slug
    BY <1>2, <1>3, HandleSlugs
  <2> QED BY <1>2, <2>1 DEF RInv, SlugRecorded
<1> QED BY <1>1, <1>2, <1>3, <1>5, <1>6

\* A transaction of the one consumer.
LEMMA WriteRelates ==
    ASSUME Alone, RInv, NEW c \in Consumers, Write(c)
    PROVE  SlugRecorded' /\ SlugsUnique(post') /\ RelatesBothWays' /\ ReferencesExist'
<1> PICK ev : ev = outbox[msg[c].eid]
  OBVIOUS
<1> PICK n : n = Handle(post, ev)
  OBVIOUS
<1>1. pc[c] = "write" /\ outbox' = outbox
  BY DEF Write, kafkaVars
<1>2. /\ msg[c].eid \in Rows /\ IsEvent(ev) /\ IsTable(post)
      /\ \A i \in DOMAIN n : \E k \in Rows : outbox[k].id = i /\ outbox[k].slug = n[i].slug
  BY <1>1, WritesHandled
<1>3. Flush(snap[c], Handled(c)) = n
  BY <1>1, WritesHandled
<1>4. post' = n /\ SlugsUnique(n)
  BY <1>3 DEF Write, FlushFails, PostsRejected
<1>5. ASSUME NEW j \in DOMAIN n, ~Renamed(j) PROVE Referenced(n, j)
  <2>1. j = ev.id /\ j \in DOMAIN post => ev.slug = post[j].slug
    BY <1>2, <1>5 DEF RInv, SlugRecorded, Renamed
  <2>2. j \in DOMAIN post => Referenced(post, j)
    BY <1>5 DEF RInv, RelatesBothWays
  <2>3. SlugsUnique(post) /\ SlugsUnique(Handle(post, ev)) /\ j \in DOMAIN Handle(post, ev)
    BY <1>4, <1>5 DEF RInv
  <2>4. Referenced(Handle(post, ev), j)
    BY <1>2, <2>1, <2>2, <2>3, HandleReferences
  <2> QED BY <2>4
<1>6. NoDanglingBut(n, OldSlugs)
  <2>1. ev.id \in DOMAIN post => post[ev.id].slug \in {ev.slug} \cup OldSlugs
    <3> SUFFICES ASSUME ev.id \in DOMAIN post, post[ev.id].slug # ev.slug
                 PROVE  post[ev.id].slug \in OldSlugs
      OBVIOUS
    <3>1. PICK k \in Rows : outbox[k].id = ev.id /\ outbox[k].slug = post[ev.id].slug
      BY DEF RInv, SlugRecorded
    <3>2. Renamed(outbox[k].id)
      BY <1>2, <3>1 DEF Renamed
    <3> QED BY <3>1, <3>2 DEF OldSlugs
  <2>2. /\ SlugsUnique(post) /\ SlugsUnique(Handle(post, ev))
        /\ NoDanglingBut(post, OldSlugs)
    BY <1>4 DEF RInv, ReferencesExist
  <2>3. NoDanglingBut(Handle(post, ev), OldSlugs)
    BY <1>2, <2>1, <2>2, HandleDangles
  <2> QED BY <2>3
<1>7. Rows' = Rows /\ OldSlugs' = OldSlugs /\ \A id : Renamed(id)' <=> Renamed(id)
  BY <1>1 DEF Rows, OldSlugs, Renamed
<1>8. RelatesBothWays'
  BY <1>4, <1>5, <1>7 DEF RelatesBothWays, Referenced
<1>9. ReferencesExist'
  BY <1>4, <1>6, <1>7 DEF ReferencesExist, NoDanglingBut
<1> QED BY <1>1, <1>2, <1>4, <1>7, <1>8, <1>9 DEF SlugRecorded

\* Every step of one consumer keeps the posts related.
LEMMA StepRInv == Alone /\ RInv /\ [Next]_vars => RInv'
<1> SUFFICES ASSUME Alone, RInv, [Next]_vars PROVE RInv'
  OBVIOUS
<1>1. TInv'
  BY StepTInv DEF RInv
<1>2. Rows \subseteq Rows' /\ \A k \in Rows : outbox'[k] = outbox[k]
  BY EventsStep DEF RInv
<1>3. pc \in [Consumers -> {"poll", "read", "write", "commit"}] /\ snap \in [Consumers -> Tables]
  BY DEF RInv, TInv, TypeOK, GroupTypeOK
<1>4. ASSUME post' = post
      PROVE  SlugRecorded' /\ SlugsUnique(post)' /\ RelatesBothWays' /\ ReferencesExist'
  BY <1>2, <1>4, TableRests DEF RInv
<1>5. ASSUME NEW c \in Consumers, Write(c) PROVE RInv'
  <2>1. SnapCurrent'
    <3>1. Consumers = {c} /\ pc' = [pc EXCEPT ![c] = "commit"]
      BY <1>5 DEF Write, Alone
    <3> QED BY <1>3, <3>1 DEF SnapCurrent
  <2>2. SlugRecorded' /\ SlugsUnique(post)' /\ RelatesBothWays' /\ ReferencesExist'
    BY <1>5, WriteRelates
  <2> QED BY <1>1, <2>1, <2>2 DEF RInv
<1>6. ASSUME NEW c \in Consumers, Read(c) PROVE RInv'
  <2>1. post' = post
    BY <1>6 DEF Read, dbVars
  <2>2. SnapCurrent'
    BY <1>3, <1>6, <2>1 DEF Read, RInv, SnapCurrent
  <2> QED BY <1>1, <1>4, <2>1, <2>2 DEF RInv
<1>7. ASSUME post' = post,
             \/ UNCHANGED <<pc, snap>>
             \/ \E c \in Consumers :
                  \/ snap' = snap /\ pc' = [pc EXCEPT ![c] = "read"]
                  \/ /\ snap' = [snap EXCEPT ![c] = EmptyTable]
                     /\ pc' = [pc EXCEPT ![c] = "poll"]
      PROVE  RInv'
  <2>1. SnapCurrent'
    BY <1>3, <1>7 DEF RInv, SnapCurrent
  <2> QED BY <1>1, <1>4, <1>7, <2>1 DEF RInv
<1> QED BY <1>5, <1>6, <1>7, TablesStep

\* New records and rows of the outbox leave the tables, and what relates them to
\* the events there were.
LEMMA RecordsGrowRInv ==
    ASSUME RInv,
           UNCHANGED <<dbVars, refused, groupVars, pc, msg, snap, faults>>,
           outbox' \in Seq(Event), Rows \subseteq Rows',
           \/ log' = log
           \/ \E q \in Partitions, e \in Rows' : log' = [log EXCEPT ![q] = Append(log[q], e)],
           \A k \in Rows : outbox'[k] = outbox[k],
           EventsKnown'
    PROVE  RInv'
<1>1. UNCHANGED <<post, processed, pc, snap>>
  BY DEF dbVars
<1>2. IInv'
  BY RecordsGrowIInv DEF RInv, TInv
<1>3. post' \in Tables /\ snap' \in [Consumers -> Tables]
  BY <1>1 DEF RInv, TInv, TypeOK
<1>4. TInv'
  BY <1>2, <1>3 DEF TInv, TypeOK, IInv
<1>5. SnapCurrent'
  BY <1>1 DEF RInv, SnapCurrent
<1>6. SlugRecorded' /\ SlugsUnique(post)' /\ RelatesBothWays' /\ ReferencesExist'
  BY <1>1, TableRests DEF RInv
<1> QED BY <1>4, <1>5, <1>6 DEF RInv

\* The invariant of one consumer.
LEMMA RInvHolds == Spec => [](Alone => RInv)
<1>1. Init => (Alone => RInv)
  BY InitRInv
<1>2. (Alone => RInv) /\ [Next]_vars => (Alone => RInv)'
  BY StepRInv DEF Alone
<1> QED BY <1>1, <1>2, PTL DEF Spec

\* With one consumer, a post that was not renamed has its score in every other
\* one, of their current titles, in whatever order the events come, whatever
\* fails in between, and whether or not the others were renamed.
THEOREM ScoresMutual == Spec => [](Alone => RelatesBothWays)
<1>1. (Alone => RInv) => (Alone => RelatesBothWays)
  BY DEF RInv
<1> QED BY <1>1, RInvHolds, PTL

\* With one consumer, apply_deleted leaves no reference to the deleted post, nor
\* does any other handler leave one to a slug that no post has, but for the slugs
\* renames have left.
THEOREM NoLostReferences == Spec => [](Alone => ReferencesExist)
<1>1. (Alone => RInv) => (Alone => ReferencesExist)
  BY DEF RInv
<1> QED BY <1>1, RInvHolds, PTL

=============================================================================
