--------------------------- MODULE Pipeline_proofs ---------------------------
(***************************************************************************)
(* Proofs about Pipeline: for any number of workers, requests, posts and   *)
(* copies of a record, and any crashes and rebalances, one consumer ends   *)
(* up with the posts of the posts service, as long as no slug changes and  *)
(* no delete is recorded.                                                  *)
(*                                                                         *)
(* That both tables agree once all is quiet is not inductive.  Underway,   *)
(* the post table is the one the events processed so far explain; no event *)
(* is processed before an older one of its topic and key, because the logs *)
(* have them in order and nothing is refused; and the outbox explains      *)
(* posts_post (EventReplay_proofs).                                        *)
(***************************************************************************)
EXTENDS Pipeline, RelatedConsumer_proofs, FiniteSetTheorems

ApiP == INSTANCE EventReplay_proofs

\* One consumer, no renames, and no database error makes handle() give up a
\* record.
Lossless == Alone /\ ~Renames /\ "dbError" \notin Faults

-----------------------------------------------------------------------------
(* The invariants. *)

\* A partition has the records of its keys...
LogPartition ==
    \A p \in Partitions : \A i \in 1..Len(log[p]) : PartitionOf(outbox[log[p][i]]) = p

\* ... each create and update behind the older rows of its topic and key.
LogOrder ==
    \A p \in Partitions : \A i \in 1..Len(log[p]) : \A f \in Rows :
        f < log[p][i] /\ MustFollow(log[p][i], f) => \E j \in 1..(i - 1) : log[p][j] = f

\* Older rows of its topic and key are processed before a create or update is.
ProcessedClosed ==
    \A e \in processed : \A f \in Rows : f < e /\ MustFollow(e, f) => f \in processed

WorkingClosed ==
    \A c \in Consumers : Working(c) =>
        \A f \in Rows : f < msg[c].eid /\ MustFollow(msg[c].eid, f) => f \in processed

\* The one consumer writes what it has not written before.
WritesNew == \A c \in Consumers : pc[c] = "write" => msg[c].eid \notin processed

\* The post's row is of its last update processed, or there is none.
RowExplained(id, k) ==
    /\ k \in processed
    /\ outbox[k].id = id /\ outbox[k].title = post[id].title
    /\ \A l \in processed : outbox[l].id = id /\ outbox[l].topic = TopicUpdated
                            => l <= k /\ outbox[k].topic = TopicUpdated

TableExplained ==
    /\ \A k \in processed : outbox[k].id \in DOMAIN post
    /\ \A id \in DOMAIN post : \E k \in Rows : RowExplained(id, k)

\* What holds as long as no delete is recorded.
Replaying ==
    /\ refused = {}
    /\ ProcessedClosed
    /\ WorkingClosed
    /\ WritesNew
    /\ TableExplained

ApiInv == ApiP!EventsInv /\ ApiP!CountInv

LogInv == LogPartition /\ LogOrder

-----------------------------------------------------------------------------
(* The steps of the posts service are those of EventReplay_proofs. *)

LEMMA SameApi ==
    /\ Api!Init <=> ApiP!Init
    /\ Api!Next <=> ApiP!Next
<1>1. Api!Init <=> ApiP!Init
  BY DEF Api!Init, ApiP!Init, Api!Idle, ApiP!Idle, Api!NoTitle, ApiP!NoTitle
<1>2. Api!Next <=> ApiP!Next
  BY DEF Api!Next, ApiP!Next, Api!CreateValidate, ApiP!CreateValidate,
     Api!UpdateLookup, ApiP!UpdateLookup, Api!DestroyLookup, ApiP!DestroyLookup,
     Api!CreateSave, ApiP!CreateSave, Api!CreateConflict, ApiP!CreateConflict,
     Api!UpdateValidate, ApiP!UpdateValidate, Api!UpdateSave, ApiP!UpdateSave,
     Api!UpdateConflict, ApiP!UpdateConflict, Api!DestroyDeletes, ApiP!DestroyDeletes,
     Api!DestroyFindsNothing, ApiP!DestroyFindsNothing, Api!DestroyRecords,
     ApiP!DestroyRecords, Api!Abort, ApiP!Abort, Api!Accept, ApiP!Accept,
     Api!Serving, ApiP!Serving, Api!Finish, ApiP!Finish, Api!SlugTaken, ApiP!SlugTaken,
     Api!WithRow, ApiP!WithRow, Api!WithoutRow, ApiP!WithoutRow,
     Api!RecordEvent, ApiP!RecordEvent, Api!Idle, ApiP!Idle, Api!NoTitle, ApiP!NoTitle,
     Api!TopicCreated, ApiP!TopicCreated, Api!TopicUpdated, ApiP!TopicUpdated,
     Api!TopicDeleted, ApiP!TopicDeleted
<1> QED BY <1>1, <1>2

LEMMA InitApiInv == PipelineInit => ApiInv
<1>1. Api!Init => ApiP!EventsInv /\ ApiP!CountInv
  BY SameApi, ApiP!InitEventsInv, ApiP!InitCountInv, RequestsAssumption, StripAssumption
<1> QED BY <1>1 DEF PipelineInit, ApiInv

LEMMA StepApiInv == ApiInv /\ [PipelineNext]_pipelineVars => ApiInv'
<1> SUFFICES ASSUME ApiInv, [PipelineNext]_pipelineVars PROVE ApiInv'
  OBVIOUS
<1>1. [ApiP!Next]_(ApiP!vars)
  <2>1. CASE ApiStep
    BY <2>1, SameApi DEF ApiStep
  <2>2. CASE ~ApiStep
    <3>1. ConsumerNext => outbox' = outbox
      BY DEF ConsumerNext, ConsumerStep, Poll, Read, Write, ApplyFails, Refuse, CommitOffsets,
         CommitFails, Disturb, DatabaseError, Crash, Rebalance, kafkaVars
    <3>2. UNCHANGED <<apiVars, outbox>>
      BY <2>2, <3>1 DEF PipelineNext, Publish, GroupStep, pipelineVars
    <3> QED BY <3>2 DEF apiVars, ApiP!vars
  <2> QED BY <2>1, <2>2
<1>2. ApiP!EventsInv'
  BY <1>1, ApiP!StepEventsInv, RequestsAssumption, StripAssumption DEF ApiInv
<1>3. ApiP!EventsInv' => ApiP!TypeOK'
  BY DEF ApiP!EventsInv, ApiP!IInv
<1>4. ApiP!CountInv'
  BY <1>1, <1>2, <1>3, ApiP!StepCountInv, RequestsAssumption, StripAssumption DEF ApiInv
<1> QED BY <1>2, <1>4 DEF ApiInv

-----------------------------------------------------------------------------
(* What the related service can rely on. *)

\* All events of a post have one slug.
OneSlug ==
    \A k, l \in Rows : outbox[k].id = outbox[l].id => outbox[k].slug = outbox[l].slug

\* The events are such as RelatedConsumer expects them, a post's first event is
\* its only create, and posts have slugs of their own.
EventsFit ==
    /\ outbox \in Seq(Event)
    /\ EventsKnown
    /\ ~Renames => OneSlug
    /\ \A k \in Rows : outbox[k].topic = TopicCreated =>
         \A j \in Rows : outbox[j].id = outbox[k].id => k <= j

\* Different posts have different slugs.
SlugsApart ==
    \A k, l \in Rows : outbox[k].slug = outbox[l].slug => outbox[k].id = outbox[l].id

LEMMA EventsAre == ApiInv => EventsFit
<1> SUFFICES ASSUME ApiInv PROVE EventsFit
  OBVIOUS
<1>1. /\ outbox \in Seq(ApiP!Event) /\ Len(outbox) \in Nat
      /\ \A k \in Rows : ApiP!GoodEvent(outbox[k]) /\ outbox[k].id \in 1..(nextId - 1)
      /\ nextId \in Nat
  BY DEF ApiInv, ApiP!EventsInv, ApiP!IInv, ApiP!TypeOK, ApiP!GivenOut, Rows
<1>2. nextId <= MaxRequests + 1
  BY ApiP!IdsBounded, RequestsAssumption, StripAssumption DEF ApiInv
<1>3. \A k \in Rows : outbox[k].id \in Ids
  <2>1. 1..(nextId - 1) \subseteq 1..MaxRequests
    BY <1>1, <1>2, RequestsAssumption
  <2> QED BY <1>1, <2>1, RequestsAssumption
<1>4. \A k \in Rows : outbox[k] \in Event /\ IsEvent(outbox[k])
  BY <1>1, <1>3 DEF ApiP!GoodEvent, ApiP!Event, Event, Topics, IsEvent, TopicCreated, TopicUpdated,
     TopicDeleted, ApiP!TopicCreated, ApiP!TopicUpdated, ApiP!TopicDeleted, NoTitle, ApiP!NoTitle
<1>5. outbox \in Seq(Event)
  BY <1>1, <1>4 DEF Rows
<1>6. EventsKnown
  BY <1>3, <1>4 DEF EventsKnown
<1>7. ~Renames => OneSlug
  BY DEF ApiInv, ApiP!EventsInv, ApiP!NeverRenamed, OneSlug, Rows
<1>8. ASSUME NEW k \in Rows, outbox[k].topic = TopicCreated,
             NEW j \in Rows, outbox[j].id = outbox[k].id
      PROVE  k <= j
  <2>1. \A l \in 1..(k - 1) : outbox[l].id # outbox[k].id
    BY <1>8 DEF ApiInv, ApiP!EventsInv, ApiP!CreatedFirst, Rows, TopicCreated, ApiP!TopicCreated
  <2> QED BY <1>1, <1>8, <2>1 DEF Rows
<1> QED BY <1>5, <1>6, <1>7, <1>8 DEF EventsFit

\* A post of the posts service has the title and slug of its last event, and a
\* post that has events is there, as long as no delete is recorded.
LEMMA PostsAre ==
    ASSUME ApiInv, ~Deleting
    PROVE  /\ \A id \in DOMAIN posts : \E k \in Rows :
                /\ outbox[k].id = id
                /\ posts[id].slug = outbox[k].slug /\ posts[id].title = outbox[k].title
                /\ \A l \in Rows : outbox[l].id = id => l <= k
           /\ \A k \in Rows : outbox[k].id \in DOMAIN posts
<1>1. /\ ApiP!OutboxExplainsTable /\ Len(outbox) \in Nat
  BY DEF ApiInv, ApiP!EventsInv, ApiP!IInv, ApiP!TypeOK
<1>2. \A k \in 1..Len(outbox) : outbox[k].topic # ApiP!TopicDeleted
  BY DEF Deleting, Rows, TopicDeleted, ApiP!TopicDeleted
<1>3. ASSUME NEW id \in DOMAIN posts
      PROVE  \E k \in Rows :
                /\ outbox[k].id = id
                /\ posts[id].slug = outbox[k].slug /\ posts[id].title = outbox[k].title
                /\ \A l \in Rows : outbox[l].id = id => l <= k
  <2>1. PICK k \in 1..Len(outbox) :
          /\ ApiP!LastWrite(id, k)
          /\ posts[id] = [slug |-> outbox[k].slug, title |-> outbox[k].title]
    BY <1>1 DEF ApiP!OutboxExplainsTable
  <2>2. \A l \in 1..Len(outbox) : l \in (k + 1)..Len(outbox) \/ l <= k
    BY <1>1
  <2>3. \A l \in 1..Len(outbox) : outbox[l].id = id => l <= k
    BY <1>2, <2>1, <2>2 DEF ApiP!LastWrite
  <2> QED BY <2>1, <2>3 DEF ApiP!LastWrite, Rows
<1>4. ASSUME NEW k \in Rows PROVE outbox[k].id \in DOMAIN posts
  <2>1. \A l \in (k + 1)..Len(outbox) : l \in 1..Len(outbox)
    BY <1>1 DEF Rows
  <2> QED BY <1>1, <1>2, <2>1 DEF ApiP!OutboxExplainsTable, Rows
<1> QED BY <1>3, <1>4

LEMMA ApartAre ==
    ASSUME ApiInv, ~Deleting, ~Renames
    PROVE  SlugsApart
<1>1. \A k \in Rows : /\ outbox[k].id \in DOMAIN posts
                      /\ posts[outbox[k].id].slug = outbox[k].slug
  BY PostsAre, EventsAre DEF EventsFit, OneSlug
<1> QED BY <1>1 DEF SlugsApart, ApiInv, ApiP!EventsInv, ApiP!UniqueIndex

\* A step adds rows behind the others, if any.
LEMMA RowsGrow ==
    ASSUME ApiInv, ApiStep
    PROVE  /\ Rows \subseteq Rows' /\ \A k \in Rows : outbox'[k] = outbox[k]
           /\ \A f \in Rows' : \A k \in Rows : f < k => f \in Rows
<1>1. ApiP!TypeOK /\ ApiP!IInv
  BY DEF ApiInv, ApiP!EventsInv, ApiP!IInv
<1>2. [ApiP!Next]_(ApiP!vars)
  BY SameApi DEF ApiStep
<1>3. outbox' = outbox \/ \E ev : ApiP!Recording(ev)
  BY <1>1, <1>2, ApiP!StepRecording, RequestsAssumption, StripAssumption
<1>4. Len(outbox) \in Nat /\ outbox \in Seq(ApiP!Event)
  BY <1>1 DEF ApiP!TypeOK
<1>5. ASSUME NEW ev, ApiP!Recording(ev)
      PROVE  Len(outbox') = Len(outbox) + 1 /\ \A k \in Rows : outbox'[k] = outbox[k]
  BY <1>1, <1>5, ApiP!ReplayStep, RequestsAssumption, StripAssumption DEF Rows
<1>6. /\ Len(outbox') \in Nat /\ Len(outbox) <= Len(outbox')
      /\ \A k \in Rows : outbox'[k] = outbox[k]
  BY <1>3, <1>4, <1>5
<1> QED BY <1>4, <1>6 DEF Rows

-----------------------------------------------------------------------------
(* The consumer's own invariants hold of what the posts service and the relay *)
(* really send.                                                              *)

PInv == ApiInv /\ IInv /\ LogInv /\ (Alone => RInv)

\* A published row is at the end of its partition, behind the older rows of its
\* topic and key.
LEMMA CopyInLog ==
    ASSUME NEW f \in Rows, IInv, Copies(f) > 0
    PROVE  \E i \in 1..Len(log[PartitionOf(outbox[f])]) : log[PartitionOf(outbox[f])][i] = f
<1> DEFINE S == {i \in 1..Len(log[PartitionOf(outbox[f])]) : log[PartitionOf(outbox[f])][i] = f}
<1>1. Copies(f) = Cardinality(S)
  BY DEF Copies
<1>2. Cardinality(S) # 0
  BY <1>1
<1>3. S # {}
  BY <1>2, FS_EmptySet
<1> QED BY <1>3

LEMMA PublishGrows ==
    ASSUME IInv, NEW e \in Rows, Publish(e)
    PROVE  /\ PartitionOf(outbox[e]) \in Partitions
           /\ log' = [log EXCEPT ![PartitionOf(outbox[e])] =
                         Append(log[PartitionOf(outbox[e])], e)]
           /\ outbox' = outbox
<1>1. outbox[e] \in Event
  BY DEF IInv, GroupTypeOK, Rows
<1> QED BY <1>1, PartitionAssumption DEF Publish

LEMMA LogAre ==
    ASSUME IInv
    PROVE  \A p \in Partitions : /\ log[p] \in Seq(Rows) /\ Len(log[p]) \in Nat
                                 /\ \A i \in 1..Len(log[p]) : log[p][i] \in Rows
BY DEF IInv, GroupTypeOK

\* The partitions and their orders, with one more record.
LEMMA PublishLogInv ==
    ASSUME IInv, LogInv, NEW e \in Rows, Publish(e)
    PROVE  LogInv'
<1> DEFINE q == PartitionOf(outbox[e])
<1>1. /\ q \in Partitions
      /\ log' = [log EXCEPT ![q] = Append(log[q], e)]
      /\ outbox' = outbox /\ Rows' = Rows
  BY PublishGrows DEF Rows
<1>2. \A f \in 1..(e - 1) : MustFollow(e, f) => Copies(f) > 0
  BY DEF Publish
<1>3. \A f \in Rows : /\ f \in Nat /\ outbox[f] \in Event
                      /\ f < e => f \in 1..(e - 1)
  BY DEF IInv, GroupTypeOK, Rows
<1>4. ASSUME NEW f \in Rows, f < e, MustFollow(e, f)
      PROVE  \E j \in 1..Len(log[q]) : log[q][j] = f
  <2>1. PartitionOf(outbox[f]) = q
    BY <1>3, <1>4, KeyAssumption DEF SameKey, MustFollow
  <2> QED BY <1>2, <1>3, <1>4, <2>1, CopyInLog
<1>5. /\ log \in [Partitions -> Seq(Rows)] /\ log[q] \in Seq(Rows) /\ Len(log[q]) \in Nat
  BY <1>1, LogAre DEF IInv, GroupTypeOK
<1> HIDE DEF q
<1>6. ASSUME NEW p \in Partitions
      PROVE  IF p = q THEN /\ Len(log'[p]) = Len(log[p]) + 1
                           /\ \A i \in 1..Len(log[p]) : log'[p][i] = log[p][i]
                           /\ log'[p][Len(log[p]) + 1] = e
             ELSE log'[p] = log[p]
  BY <1>1, <1>5
<1>7. ASSUME NEW p \in Partitions, NEW i \in 1..Len(log'[p])
      PROVE  /\ PartitionOf(outbox'[log'[p][i]]) = p
             /\ \A f \in Rows : f < log'[p][i] /\ MustFollow(log'[p][i], f) =>
                    \E j \in 1..(i - 1) : log'[p][j] = f
  <2>1. CASE i \in 1..Len(log[p])
    <3>1. log'[p][i] = log[p][i] /\ \A j \in 1..(i - 1) : log'[p][j] = log[p][j]
      <4>1. \A j \in 1..(i - 1) : j \in 1..Len(log[p])
        BY <2>1, LogAre
      <4> QED BY <1>6, <2>1, <4>1
    <3>2. log[p][i] \in Rows
      BY <2>1, LogAre
    <3>3. PartitionOf(outbox[log[p][i]]) = p
      BY <2>1 DEF LogInv, LogPartition
    <3>4. \A f \in Rows : f < log[p][i] /\ MustFollow(log[p][i], f) =>
            \E j \in 1..(i - 1) : log[p][j] = f
      BY <2>1 DEF LogInv, LogOrder
    <3>5. \A f \in Rows : MustFollow(log'[p][i], f) <=> MustFollow(log[p][i], f)
      BY <1>1, <3>1 DEF SameKey, MustFollow
    <3> QED BY <1>1, <3>1, <3>3, <3>4, <3>5
  <2>2. CASE i \notin 1..Len(log[p])
    <3>1. p = q /\ i = Len(log[q]) + 1 /\ i - 1 = Len(log[q])
      BY <1>5, <1>6, <1>7, <2>2
    <3>2. log'[p][i] = e /\ \A j \in 1..(i - 1) : log'[p][j] = log[q][j]
      BY <1>6, <3>1
    <3>3. PartitionOf(outbox'[log'[p][i]]) = p
      BY <1>1, <3>1, <3>2 DEF q
    <3>4. \A f \in Rows : MustFollow(log'[p][i], f) <=> MustFollow(e, f)
      BY <1>1, <3>2 DEF SameKey, MustFollow
    <3> QED BY <1>4, <3>1, <3>2, <3>3, <3>4
  <2> QED BY <2>1, <2>2
<1> QED BY <1>1, <1>7 DEF LogInv, LogPartition, LogOrder, SameKey, MustFollow

\* New rows come after those in the logs.
LEMMA ApiLogInv ==
    ASSUME IInv, ApiInv, LogInv, ApiStep
    PROVE  LogInv'
<1>1. /\ log' = log
      /\ Rows \subseteq Rows' /\ \A k \in Rows : outbox'[k] = outbox[k]
      /\ \A f \in Rows' : \A k \in Rows : f < k => f \in Rows
  BY RowsGrow DEF ApiStep
<1>2. ASSUME NEW p \in Partitions, NEW i \in 1..Len(log[p])
      PROVE  /\ PartitionOf(outbox'[log[p][i]]) = p
             /\ \A f \in Rows' : f < log[p][i] /\ MustFollow(log[p][i], f)' =>
                    \E j \in 1..(i - 1) : log[p][j] = f
  <2>1. log[p][i] \in Rows
    BY LogAre
  <2>2. \A f \in Rows : MustFollow(log[p][i], f)' <=> MustFollow(log[p][i], f)
    BY <1>1, <2>1 DEF SameKey, MustFollow
  <2> QED BY <1>1, <2>1, <2>2 DEF LogInv, LogPartition, LogOrder
<1> QED BY <1>1, <1>2 DEF LogInv, LogPartition, LogOrder

LEMMA InitPInv == PipelineInit => PInv
<1> SUFFICES ASSUME PipelineInit PROVE PInv
  OBVIOUS
<1>1. LogInv
  BY DEF PipelineInit, Init, LogInv, LogPartition, LogOrder
<1> QED BY <1>1, InitApiInv, InitIInv, InitRInv DEF PipelineInit, PInv


\* A step of the posts service or of the relay, as the related service sees it.
LEMMA SendsStep ==
    ASSUME PInv, EventsFit', ApiStep \/ \E e \in Rows : Publish(e)
    PROVE  IInv' /\ LogInv' /\ (Alone => RInv')
<1>1. ApiInv /\ IInv /\ LogInv
  BY DEF PInv
<1>2. UNCHANGED <<dbVars, refused, groupVars, pc, msg, snap, faults>>
  BY DEF ApiStep, Publish, consumerVars, dbVars, groupVars
<1>3. outbox' \in Seq(Event) /\ EventsKnown'
  BY DEF EventsFit
<1>4. CASE ApiStep
  <2>1. Rows \subseteq Rows' /\ \A k \in Rows : outbox'[k] = outbox[k]
    BY <1>1, <1>4, RowsGrow
  <2>2. log' = log
    BY <1>4 DEF ApiStep
  <2>3. IInv'
    BY <1>1, <1>2, <1>3, <2>1, <2>2, RecordsGrowIInv
  <2>4. Alone => RInv'
    BY <1>2, <1>3, <2>1, <2>2, RecordsGrowRInv DEF PInv
  <2>5. LogInv'
    BY <1>1, <1>4, ApiLogInv
  <2> QED BY <2>3, <2>4, <2>5
<1>5. ASSUME NEW e \in Rows, Publish(e)
      PROVE  IInv' /\ LogInv' /\ (Alone => RInv')
  <2>1. outbox' = outbox /\ Rows' = Rows
    BY <1>5 DEF Publish, Rows
  <2>2. \E q \in Partitions, f \in Rows' : log' = [log EXCEPT ![q] = Append(log[q], f)]
    BY <1>1, <1>5, <2>1, PublishGrows
  <2>3. IInv'
    BY <1>1, <1>2, <1>3, <2>1, <2>2, RecordsGrowIInv
  <2>4. Alone => RInv'
    BY <1>2, <1>3, <2>1, <2>2, RecordsGrowRInv DEF PInv
  <2>5. LogInv'
    BY <1>1, <1>5, PublishLogInv
  <2> QED BY <2>3, <2>4, <2>5
<1> QED BY <1>4, <1>5

LEMMA StepPInv == PInv /\ [PipelineNext]_pipelineVars => PInv'
<1>1. PInv /\ [PipelineNext]_pipelineVars => ApiInv'
  BY StepApiInv DEF PInv
<1>2. ApiInv' => EventsFit'
  BY EventsAre, PTL
<1>3. ASSUME PInv, [PipelineNext]_pipelineVars, EventsFit'
      PROVE  IInv' /\ LogInv' /\ (Alone => RInv')
  <2>1. CASE ApiStep \/ \E e \in Rows : Publish(e)
    BY <1>3, <2>1, SendsStep
  <2>2. CASE GroupStep \/ UNCHANGED pipelineVars
    <3>1. [Next]_vars
      BY <2>2 DEF GroupStep, Next, pipelineVars, consumerVars, vars
    <3>2. UNCHANGED <<outbox, log>>
      BY <2>2 DEF GroupStep, ConsumerNext, ConsumerStep, Poll, Read, Write, ApplyFails, Refuse,
         CommitOffsets, CommitFails, Disturb, DatabaseError, Crash, Rebalance, kafkaVars,
         pipelineVars
    <3>3. LogInv'
      BY <1>3, <3>2 DEF PInv, LogInv, LogPartition, LogOrder, SameKey, MustFollow, Rows
    <3>4. IInv' /\ (Alone => RInv')
      BY <1>3, <3>1, StepIInv, StepRInv DEF PInv
    <3> QED BY <3>3, <3>4
  <2> QED BY <1>3, <2>1, <2>2 DEF PipelineNext
<1>4. Alone' <=> Alone
  BY DEF Alone
<1> QED BY <1>1, <1>2, <1>3, <1>4 DEF PInv

LEMMA PInvHolds == PipelineSpec => []PInv
BY InitPInv, StepPInv, PTL DEF PipelineSpec

\* With one consumer, a post whose slug did not change has its score in every
\* other one, whatever requests the posts service serves at a time, renames
\* included, and whatever the relay sends twice.
THEOREM PipelineScoresMutual == PipelineSpec => [](Alone => RelatesBothWays)
<1>1. PInv => (Alone => RelatesBothWays)
  BY DEF PInv, RInv
<1> QED BY <1>1, PInvHolds, PTL

\* With one consumer, apply_deleted leaves no reference to a deleted post of the
\* posts service: what refers to no post is a slug that a rename changed.
THEOREM PipelineNoLostReferences == PipelineSpec => [](Alone => ReferencesExist)
<1>1. PInv => (Alone => ReferencesExist)
  BY DEF PInv, RInv
<1> QED BY <1>1, PInvHolds, PTL

-----------------------------------------------------------------------------
(* Nothing is lost: the post table is what the processed events make of it.  *)

\* Deletes stay recorded.
LEMMA DeletingStays ==
    ASSUME PInv, [PipelineNext]_pipelineVars, ~Deleting'
    PROVE  ~Deleting
<1>1. Rows \subseteq Rows' /\ \A k \in Rows : outbox'[k] = outbox[k]
  <2>1. CASE ApiStep
    BY <2>1, RowsGrow DEF PInv
  <2>2. CASE ~ApiStep
    BY <2>2 DEF PipelineNext, Publish, GroupStep, ConsumerNext, ConsumerStep, Poll, Read, Write,
       ApplyFails, Refuse, CommitOffsets, CommitFails, Disturb, DatabaseError, Crash, Rebalance,
       kafkaVars, pipelineVars, Rows
  <2> QED BY <2>1, <2>2
<1> QED BY <1>1 DEF Deleting

\* New rows come behind those that were processed or are being processed.
LEMMA SendsReplaying ==
    ASSUME PInv, Replaying, ApiStep \/ \E e \in Rows : Publish(e)
    PROVE  Replaying'
<1>1. UNCHANGED <<post, processed, refused, pc, msg>>
  BY DEF ApiStep, Publish, consumerVars
<1>2. /\ Rows \subseteq Rows' /\ \A k \in Rows : outbox'[k] = outbox[k]
      /\ \A f \in Rows' : \A k \in Rows : f < k => f \in Rows
  BY RowsGrow DEF PInv, Publish, Rows
<1>3. processed \in SUBSET Rows
  BY DEF PInv, IInv, GroupTypeOK
<1>4. ProcessedClosed'
  BY <1>1, <1>2, <1>3 DEF Replaying, ProcessedClosed, SameKey, MustFollow
<1>5. WorkingClosed'
  <2>1. \A c \in Consumers : Working(c) => msg[c].eid \in Rows
    BY DEF PInv, IInv, BusyHasMessage, Busy, Working
  <2> QED BY <1>1, <1>2, <2>1 DEF Replaying, WorkingClosed, Working, SameKey, MustFollow
<1>6. WritesNew'
  BY <1>1 DEF Replaying, WritesNew
<1>7. TableExplained'
  <2>1. \A id \in DOMAIN post : \A k \in Rows : RowExplained(id, k) => RowExplained(id, k)'
    BY <1>1, <1>2, <1>3 DEF RowExplained
  <2> QED BY <1>1, <1>2, <1>3, <2>1 DEF Replaying, TableExplained
<1> QED BY <1>1, <1>4, <1>5, <1>6, <1>7 DEF Replaying

\* A step that leaves the tables, and no session where it was not.
LEMMA RestsReplaying ==
    ASSUME Replaying,
           UNCHANGED <<outbox, post, processed, refused>>,
           \A c \in Consumers : pc'[c] \in {"read", "write"} =>
                                    pc'[c] = pc[c] /\ msg'[c] = msg[c]
    PROVE  Replaying'
<1>1. ProcessedClosed' /\ TableExplained' /\ refused' = {}
  BY DEF Replaying, ProcessedClosed, TableExplained, RowExplained, SameKey, MustFollow, Rows
<1>2. WorkingClosed' /\ WritesNew'
  BY DEF Replaying, WorkingClosed, WritesNew, Working, SameKey, MustFollow, Rows
<1> QED BY <1>1, <1>2 DEF Replaying

\* The record the iterator yields has its older ones behind the position.
LEMMA PollReplaying ==
    ASSUME PInv, Lossless, Replaying, NEW c \in Consumers, NEW p \in Partitions, Poll(c, p)
    PROVE  Replaying'
<1> DEFINE e == log[p][position[p] + 1]
<1>1. Consumers = {c} /\ IInv /\ LogInv
  BY DEF Lossless, Alone, PInv
<1>2. /\ pc[c] = "poll" /\ owner[p] = c
      /\ position[p] \in Nat /\ Len(log[p]) \in Nat /\ position[p] < Len(log[p])
      /\ pc' = [pc EXCEPT ![c] = "read"]
      /\ msg' = [msg EXCEPT ![c] = [part |-> p, eid |-> e]]
      /\ UNCHANGED <<outbox, post, processed, refused>>
  BY <1>1 DEF Poll, Busy, IInv, GroupTypeOK, kafkaVars, dbVars
<1>3. pc'[c] = "read" /\ msg'[c].eid = e
  BY <1>1, <1>2 DEF IInv, GroupTypeOK
<1>4. \A f \in Rows : f < e /\ MustFollow(e, f) => f \in processed
  <2> SUFFICES ASSUME NEW f \in Rows, f < e, MustFollow(e, f) PROVE f \in processed
    OBVIOUS
  <2>1. position[p] + 1 \in 1..Len(log[p]) /\ (position[p] + 1) - 1 = position[p]
    BY <1>2
  <2>2. PICK j \in 1..position[p] : log[p][j] = f
    BY <1>1, <2>1 DEF LogInv, LogOrder
  <2>3. Settled(f) \/ Working(c)
    BY <1>1, <1>2, <2>2 DEF IInv, PassedIsSettled
  <2> QED BY <1>2, <2>3 DEF Settled, Working, Replaying
<1>5. WorkingClosed' /\ WritesNew'
  <2> HIDE DEF e
  <2> QED BY <1>1, <1>2, <1>3, <1>4 DEF WorkingClosed, WritesNew, Working, SameKey, MustFollow, Rows
<1>6. ProcessedClosed' /\ TableExplained' /\ refused' = {}
  BY <1>2 DEF Replaying, ProcessedClosed, TableExplained, RowExplained, SameKey, MustFollow, Rows
<1> QED BY <1>5, <1>6 DEF Replaying

\* handle() reads the posts for a record not processed before.
LEMMA ReadReplaying ==
    ASSUME PInv, Lossless, Replaying, NEW c \in Consumers, Read(c)
    PROVE  Replaying'
<1>1. Consumers = {c} /\ pc \in [Consumers -> {"poll", "read", "write", "commit"}]
  BY DEF Lossless, Alone, PInv, IInv, GroupTypeOK
<1>2. /\ pc[c] = "read" /\ UNCHANGED <<outbox, post, processed, refused, msg>>
      /\ pc'[c] = "write" => msg[c].eid \notin processed
  BY <1>1 DEF Read, kafkaVars, dbVars
<1>3. WorkingClosed' /\ WritesNew'
  BY <1>1, <1>2 DEF Replaying, WorkingClosed, WritesNew, Working, SameKey, MustFollow, Rows
<1>4. ProcessedClosed' /\ TableExplained' /\ refused' = {}
  BY <1>2 DEF Replaying, ProcessedClosed, TableExplained, RowExplained, SameKey, MustFollow, Rows
<1> QED BY <1>3, <1>4 DEF Replaying

\* What the transaction writes is explained by its event, or by what explained
\* the row before.
LEMMA WriteReplaying ==
    ASSUME PInv, Lossless, ~Deleting, Replaying, NEW c \in Consumers, Write(c)
    PROVE  Replaying'
<1> PICK e : e = msg[c].eid
  OBVIOUS
<1> PICK ev : ev = outbox[e]
  OBVIOUS
<1> DEFINE n == Handle(post, ev)
<1>1. Consumers = {c} /\ IInv /\ RInv /\ pc[c] = "write"
  BY DEF Lossless, Alone, PInv, Write
<1>2. /\ e \in Rows /\ IsEvent(ev) /\ IsTable(post)
      /\ Flush(snap[c], Handled(c)) = n
  BY <1>1, WritesHandled
<1>3. /\ post' = n /\ processed' = processed \cup {e}
      /\ pc' = [pc EXCEPT ![c] = "commit"] /\ UNCHANGED <<outbox, refused, msg>>
  BY <1>2 DEF Write, kafkaVars
<1>4. /\ e \notin processed /\ processed \in SUBSET Rows
      /\ ev.topic # TopicDeleted
      /\ \A f \in Rows : f < e /\ MustFollow(e, f) => f \in processed
  BY <1>1, <1>2 DEF Replaying, WritesNew, WorkingClosed, Working, IInv, GroupTypeOK, Deleting
<1>5. ev.topic \in {TopicCreated, TopicUpdated} /\ TopicCreated # TopicUpdated
  BY <1>2, <1>4 DEF IsEvent, Topics, TopicCreated, TopicUpdated, TopicDeleted
<1>6. \A l \in processed : outbox[l].id = ev.id /\ outbox[l].topic = TopicUpdated
                           /\ ev.topic = TopicUpdated => l <= e
  <2> SUFFICES ASSUME NEW l \in processed, outbox[l].id = ev.id,
                      outbox[l].topic = TopicUpdated, ev.topic = TopicUpdated
               PROVE  l <= e
    OBVIOUS
  <2>1. l \in Rows /\ l \in Int /\ e \in Int
    BY <1>2, <1>4 DEF Rows
  <2>2. MustFollow(l, e)
    <3>1. OneSlug
      BY EventsAre DEF PInv, Lossless, EventsFit
    <3>2. outbox[l].topic # TopicDeleted
      BY DEF TopicUpdated, TopicDeleted
    <3> QED BY <1>2, <2>1, <3>1, <3>2 DEF OneSlug, SameKey, MustFollow
  <2>3. ~(e < l)
    BY <1>2, <1>4, <2>2 DEF Replaying, ProcessedClosed
  <2> QED BY <2>1, <2>3
<1>7. ProcessedClosed'
  BY <1>3, <1>4 DEF Replaying, ProcessedClosed, SameKey, MustFollow, Rows
<1>8. WorkingClosed' /\ WritesNew'
  BY <1>1, <1>3 DEF IInv, GroupTypeOK, WorkingClosed, WritesNew, Working
<1>9. TableExplained'
  <2> HIDE DEF n
  <2>1. CASE ev.topic = TopicCreated /\ ev.id \in DOMAIN post
    <3>1. n = post
      BY <2>1, HandleKnown DEF n
    <3>2. ASSUME NEW id \in DOMAIN post, NEW k \in Rows, RowExplained(id, k)
          PROVE  RowExplained(id, k)'
      BY <1>3, <1>5, <2>1, <3>1, <3>2 DEF RowExplained
    <3> QED BY <1>3, <2>1, <3>1, <3>2 DEF Replaying, TableExplained, Rows
  <2>2. CASE ev.topic = TopicCreated => ev.id \notin DOMAIN post
    <3>1. /\ DOMAIN n = DOMAIN post \cup {ev.id}
          /\ n[ev.id].title = ev.title
          /\ \A o \in DOMAIN post \ {ev.id} : n[o].title = post[o].title
      <4>1. /\ IsTable(post) /\ IsEvent(ev) /\ ev.topic # TopicDeleted
            /\ ev.topic = TopicCreated => ev.id \notin DOMAIN post
        BY <1>2, <1>4, <2>2
      <4>2. /\ DOMAIN Handle(post, ev) = DOMAIN post \cup {ev.id}
            /\ Handle(post, ev)[ev.id].title = ev.title
            /\ \A o \in DOMAIN post \ {ev.id} : Handle(post, ev)[o].title = post[o].title
        BY <4>1, HandleWrites
      <4> QED BY <4>2 DEF n
    <3>2. ASSUME NEW id \in DOMAIN post \ {ev.id}, NEW k \in Rows, RowExplained(id, k)
          PROVE  RowExplained(id, k)'
      BY <1>3, <3>1, <3>2 DEF RowExplained
    <3>3. RowExplained(ev.id, e)'
      <4>1. \A l \in processed' : outbox[l].id = ev.id /\ outbox[l].topic = TopicUpdated
                                  => l <= e /\ ev.topic = TopicUpdated
        <5> SUFFICES ASSUME NEW l \in processed', outbox[l].id = ev.id,
                            outbox[l].topic = TopicUpdated
                     PROVE  l <= e /\ ev.topic = TopicUpdated
          OBVIOUS
        <5>1. CASE l = e
          BY <1>2, <5>1 DEF Rows
        <5>2. CASE l \in processed
          BY <1>5, <1>6, <2>2, <5>2 DEF Replaying, TableExplained
        <5> QED BY <1>3, <5>1, <5>2
      <4> QED BY <1>3, <3>1, <4>1 DEF RowExplained
    <3> QED BY <1>2, <1>3, <3>1, <3>2, <3>3 DEF Replaying, TableExplained, Rows
  <2> QED BY <2>1, <2>2
<1> QED BY <1>3, <1>7, <1>8, <1>9 DEF Replaying

\* The one consumer's transaction does not fail.
LEMMA NeverFails ==
    ASSUME PInv, Lossless, ~Deleting, Replaying, NEW c \in Consumers
    PROVE  ~ApplyFails(c)
<1> SUFFICES ASSUME pc[c] = "write" PROVE ~FlushFails(snap[c], Handled(c), msg[c].eid)
  BY DEF ApplyFails
<1> DEFINE n == Handle(post, outbox[msg[c].eid])
<1>1. RInv /\ msg[c].eid \notin processed
  BY DEF Lossless, PInv, Replaying, WritesNew
<1>2. /\ snap[c] = post /\ Flush(snap[c], Handled(c)) = n
      /\ \A i \in DOMAIN n : \E k \in Rows : outbox[k].id = i /\ outbox[k].slug = n[i].slug
  BY <1>1, WritesHandled
<1>3. SlugsApart
  BY ApartAre DEF PInv, Lossless
<1>4. SlugsUnique(n)
  <2> HIDE DEF n
  <2> QED BY <1>2, <1>3 DEF SlugsUnique, SlugsApart
<1>5. /\ Inserted(snap[c], Handled(c)) \cap DOMAIN post = {}
      /\ Dirty(snap[c], Handled(c)) \subseteq DOMAIN post
  BY <1>2 DEF Inserted, Dirty
<1> QED BY <1>1, <1>2, <1>4, <1>5 DEF FlushFails, PostsRejected

\* Every step of the system keeps the table explained.
LEMMA StepReplaying ==
    ASSUME PInv, Lossless, ~Deleting, Replaying, [PipelineNext]_pipelineVars
    PROVE  Replaying'
<1>1. CASE ApiStep \/ \E e \in Rows : Publish(e)
  BY <1>1, SendsReplaying
<1>2. ASSUME NEW c \in Consumers, ConsumerStep(c) PROVE Replaying'
  <2>1. CASE \E p \in Partitions : Poll(c, p)
    BY <2>1, PollReplaying
  <2>2. CASE Read(c)
    BY <2>2, ReadReplaying
  <2>3. CASE Write(c)
    BY <2>3, WriteReplaying
  <2>4. CASE CommitOffsets(c) \/ CommitFails(c)
    <3>1. /\ pc' = [pc EXCEPT ![c] = "poll"] /\ msg' = [msg EXCEPT ![c] = NoMessage]
          /\ UNCHANGED <<outbox, post, processed, refused>>
      BY <2>4 DEF CommitOffsets, CommitFails, Restart, kafkaVars, dbVars
    <3> QED BY <3>1, RestsReplaying DEF PInv, IInv, GroupTypeOK
  <2> QED BY <1>2, <2>1, <2>2, <2>3, <2>4, NeverFails DEF ConsumerStep
<1>3. ASSUME Disturb PROVE Replaying'
  <2>1. \A c \in Consumers : ~DatabaseError(c)
    BY DEF DatabaseError, Fault, Lossless
  <2>2. ASSUME NEW c \in Consumers, Crash(c) PROVE Replaying'
    <3>1. /\ pc' = [pc EXCEPT ![c] = "poll"] /\ msg' = [msg EXCEPT ![c] = NoMessage]
          /\ UNCHANGED <<outbox, post, processed, refused>>
      BY <2>2 DEF Crash, Restart, kafkaVars, dbVars
    <3> QED BY <3>1, RestsReplaying DEF PInv, IInv, GroupTypeOK
  <2>3. ASSUME Rebalance PROVE Replaying'
    BY <2>3, RestsReplaying DEF Rebalance, kafkaVars, dbVars
  <2> QED BY <1>3, <2>1, <2>2, <2>3 DEF Disturb
<1>4. CASE UNCHANGED pipelineVars
  BY <1>4, RestsReplaying DEF pipelineVars, consumerVars
<1> QED BY <1>1, <1>2, <1>3, <1>4 DEF PipelineNext, GroupStep, ConsumerNext

LEMMA ReplayingHolds == PipelineSpec => [](Lossless /\ ~Deleting => Replaying)
<1>1. PipelineInit => (Lossless /\ ~Deleting => Replaying)
  <2> SUFFICES ASSUME PipelineInit PROVE Replaying
    OBVIOUS
  <2>1. /\ post = EmptyTable /\ processed = {} /\ refused = {}
        /\ pc = [c \in Consumers |-> "poll"]
    BY DEF PipelineInit, Init
  <2> QED BY <2>1 DEF Replaying, ProcessedClosed, WorkingClosed, WritesNew, Working,
           TableExplained, EmptyTable
<1>2. PInv /\ (Lossless /\ ~Deleting => Replaying) /\ [PipelineNext]_pipelineVars
        => (Lossless /\ ~Deleting => Replaying)'
  BY DeletingStays, StepReplaying DEF Lossless, Alone
<1> QED BY <1>1, <1>2, PInvHolds, PTL DEF PipelineSpec

-----------------------------------------------------------------------------
(* Once all is quiet. *)

\* Every row was in a log, and every record has been processed.
LEMMA QuietProcessed ==
    ASSUME IInv, refused = {}, Quiet
    PROVE  \A k \in Rows : k \in processed
<1> SUFFICES ASSUME NEW k \in Rows PROVE k \in processed
  OBVIOUS
<1> DEFINE p == PartitionOf(outbox[k])
<1>1. p \in Partitions
  BY PartitionAssumption DEF IInv, GroupTypeOK, Rows
<1>2. PICK i \in 1..Len(log[p]) : log[p][i] = k
  BY CopyInLog DEF Quiet
<1> HIDE DEF p
<1>3. i \in 1..position[p] /\ owner[p] \in Consumers
  BY <1>1, <1>2 DEF Quiet, IInv, GroupTypeOK
<1>4. Settled(k) \/ Working(owner[p])
  BY <1>1, <1>2, <1>3 DEF IInv, PassedIsSettled
<1>5. ~Working(owner[p])
  BY <1>3 DEF Quiet, Busy, Working
<1> QED BY <1>4, <1>5 DEF Settled

\* Both services have the same posts: both have those of the last events.
LEMMA QuietAgrees ==
    ASSUME PInv, Lossless, ~Deleting, Replaying, Quiet
    PROVE  Agree
<1>1. RInv /\ ApiInv /\ EventsFit /\ OneSlug
  BY EventsAre DEF PInv, Lossless, EventsFit
<1>2. \A k \in Rows : k \in processed
  BY QuietProcessed DEF PInv, Replaying
<1>3. \A k \in Rows : outbox[k].id \in DOMAIN posts /\ outbox[k].id \in DOMAIN post
  BY <1>1, <1>2, PostsAre DEF Replaying, TableExplained
<1>4. DOMAIN post = DOMAIN posts
  <2>1. \A id \in DOMAIN post : \E k \in Rows : outbox[k].id = id
    BY DEF Replaying, TableExplained, RowExplained
  <2>2. \A id \in DOMAIN posts : \E k \in Rows : outbox[k].id = id
    BY <1>1, PostsAre
  <2> QED BY <1>3, <2>1, <2>2
<1>5. ASSUME NEW id \in DOMAIN posts
      PROVE  post[id].slug = posts[id].slug /\ post[id].title = posts[id].title
  <2>1. PICK k \in Rows :
          /\ outbox[k].id = id
          /\ posts[id].slug = outbox[k].slug /\ posts[id].title = outbox[k].title
          /\ \A l \in Rows : outbox[l].id = id => l <= k
    BY <1>1, PostsAre
  <2>2. PICK m \in Rows : RowExplained(id, m)
    BY <1>4 DEF Replaying, TableExplained
  <2>3. m <= k /\ k \in Int /\ m \in Int
    BY <2>1, <2>2 DEF RowExplained, Rows
  <2>4. outbox[k].topic = TopicUpdated \/ outbox[k].topic = TopicCreated
    BY <1>1 DEF EventsFit, EventsKnown, IsEvent, Topics, Deleting
  <2>5. post[id].title = posts[id].title
    <3>1. outbox[k].topic = TopicUpdated => k <= m
      BY <1>2, <2>1, <2>2 DEF RowExplained
    <3>2. outbox[k].topic = TopicCreated => k <= m
      BY <1>1, <2>1, <2>2 DEF EventsFit, RowExplained
    <3>3. k = m
      BY <2>3, <2>4, <3>1, <3>2
    <3> QED BY <2>1, <2>2, <3>3 DEF RowExplained
  <2>6. post[id].slug = posts[id].slug
    BY <1>1, <1>4, <2>1 DEF RInv, SlugRecorded, OneSlug
  <2> QED BY <2>5, <2>6
<1>6. Mutual(post) /\ NoDangling(post)
  <2>1. (\A id : ~Renamed(id)) /\ OldSlugs = {}
    BY <1>1 DEF OneSlug, Renamed, OldSlugs
  <2> QED BY <1>1, <2>1 DEF RInv, RelatesBothWays, ReferencesExist, Mutual, NoDangling
<1> QED BY <1>4, <1>5, <1>6 DEF Agree, Converged

\* Once all events have travelled, the related service has the posts of the
\* posts service and the scores of their current titles, for any requests,
\* copies, crashes and rebalances, with one consumer, as long as no slug
\* changes, no database error makes handle() give up a record, and no delete
\* is recorded.
THEOREM QuietMeansConverged == PipelineSpec => [](Lossless => ConvergesWhenQuiet)
<1>1. PInv /\ (Lossless /\ ~Deleting => Replaying) => (Lossless => ConvergesWhenQuiet)
  BY QuietAgrees DEF ConvergesWhenQuiet
<1> QED BY <1>1, PInvHolds, ReplayingHolds, PTL

=============================================================================
