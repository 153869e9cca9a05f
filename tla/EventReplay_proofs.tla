-------------------------- MODULE EventReplay_proofs --------------------------
(***************************************************************************)
(* Proofs about PostsApi: for any number of workers and requests the       *)
(* outbox accounts for every row of posts_post and for every row that is   *)
(* gone.  The strengthening says what a worker carries from its reads into *)
(* its transaction: request data of the right kind and an id that the      *)
(* sequence has given out.                                                 *)
(*                                                                         *)
(* Then about EventReplay: what the handlers of the related service make   *)
(* of that outbox, however long it gets.                                   *)
(***************************************************************************)
EXTENDS EventReplay, FiniteSetTheorems, WellFoundedInduction, TLAPS

-----------------------------------------------------------------------------
(* The posts service. *)

\* What a worker may be at, with ids below n given out.
GoodTask(t, n) ==
    /\ t \in Task
    /\ t.pc # "idle" => t.slug \in Slugs
    /\ t.pc \in {"create", "validate", "update"} => t.title \in Titles
    /\ t.pc \in {"validate", "update", "destroy", "record"} => t.id \in 1..(n - 1)

TaskOK == \A w \in Workers : GoodTask(task[w], nextId)

IInv == TypeOK /\ TaskOK /\ OutboxExplainsTable

\* An idle worker is well formed.
LEMMA IdleGood == \A n : GoodTask(Idle, n)
BY DEF GoodTask, Idle, Task

\* The initial state satisfies the invariant.
LEMMA InitIInv == Init => IInv
<1> SUFFICES ASSUME Init PROVE IInv
  OBVIOUS
<1>1. TypeOK
  BY DEF Init, TypeOK, Idle, Task, PostRow
<1>2. TaskOK /\ OutboxExplainsTable
  BY IdleGood DEF Init, TaskOK, OutboxExplainsTable
<1> QED BY <1>1, <1>2 DEF IInv

\* An event appended to the outbox leaves the earlier ones in place.
LEMMA Recorded ==
    ASSUME outbox \in Seq(Event), NEW ev \in Event, outbox' = Append(outbox, ev)
    PROVE  /\ outbox' \in Seq(Event)
           /\ Len(outbox) \in Nat
           /\ Len(outbox') = Len(outbox) + 1
           /\ \A k \in 1..Len(outbox) : outbox'[k] = outbox[k]
           /\ outbox'[Len(outbox) + 1] = ev
OBVIOUS

\* Writing a row with its event keeps the account of the table.
LEMMA WriteExplained ==
    ASSUME IInv, NEW topic \in {TopicCreated, TopicUpdated}, NEW id \in Nat,
           NEW slug \in Slugs, NEW title \in Titles,
           RecordEvent(topic, id, slug, title),
           posts' = WithRow(id, [slug |-> slug, title |-> title])
    PROVE  OutboxExplainsTable' /\ outbox' \in Seq(Event)
<1> DEFINE ev == [topic |-> topic, id |-> id, slug |-> slug, title |-> title]
           n == Len(outbox) + 1
<1>1. ev \in Event /\ ev.topic # TopicDeleted
  BY DEF Event, TopicCreated, TopicUpdated, TopicDeleted
<1>2. /\ outbox' \in Seq(Event) /\ Len(outbox) \in Nat
      /\ Len(outbox') = n
      /\ \A k \in 1..Len(outbox) : outbox'[k] = outbox[k]
      /\ outbox'[n] = ev
  BY <1>1, Recorded DEF IInv, TypeOK, RecordEvent
<1>3. /\ DOMAIN posts' = DOMAIN posts \cup {id}
      /\ posts'[id] = [slug |-> slug, title |-> title]
      /\ \A o \in DOMAIN posts : o # id => posts'[o] = posts[o]
  BY DEF WithRow
<1>4. ASSUME NEW o \in DOMAIN posts'
      PROVE  \E k \in 1..Len(outbox') :
                 /\ LastWrite(o, k)'
                 /\ posts'[o] = [slug |-> outbox'[k].slug, title |-> outbox'[k].title]
  <2>1. CASE o = id
    <3>1. PICK k : k = n
      OBVIOUS
    <3>2. LastWrite(o, k)'
      BY <1>1, <1>2, <2>1, <3>1 DEF LastWrite
    <3>3. posts'[o] = [slug |-> outbox'[k].slug, title |-> outbox'[k].title]
      BY <1>2, <1>3, <2>1, <3>1
    <3> QED BY <3>1, <3>2, <3>3, <1>2
  <2>2. CASE o # id
    <3>1. PICK k \in 1..Len(outbox) :
              /\ LastWrite(o, k)
              /\ posts[o] = [slug |-> outbox[k].slug, title |-> outbox[k].title]
      BY <1>3, <2>2 DEF IInv, OutboxExplainsTable
    <3>2. LastWrite(o, k)'
      BY <1>2, <2>2, <3>1 DEF LastWrite
    <3> QED BY <1>2, <1>3, <2>2, <3>1, <3>2
  <2> QED BY <2>1, <2>2
<1>5. ASSUME NEW k \in 1..Len(outbox'),
             outbox'[k].topic # TopicDeleted, outbox'[k].id \notin DOMAIN posts'
      PROVE  \E l \in (k + 1)..Len(outbox') :
                 outbox'[l].topic = TopicDeleted /\ outbox'[l].id = outbox'[k].id
  <2>1. k \in 1..Len(outbox) /\ outbox'[k] = outbox[k] /\ outbox[k].id \notin DOMAIN posts
    BY <1>2, <1>3, <1>5
  <2>2. PICK l \in (k + 1)..Len(outbox) :
            outbox[l].topic = TopicDeleted /\ outbox[l].id = outbox[k].id
    BY <2>1, <1>5 DEF IInv, OutboxExplainsTable
  <2>3. l \in (k + 1)..Len(outbox') /\ outbox'[l] = outbox[l]
    BY <1>2, <2>1, <2>2
  <2> QED BY <2>1, <2>2, <2>3
<1> QED BY <1>2, <1>4, <1>5 DEF OutboxExplainsTable

\* So does deleting a row, or none, with its event.
LEMMA DeleteExplained ==
    ASSUME IInv, NEW id \in Nat, NEW slug \in Slugs,
           RecordEvent(TopicDeleted, id, slug, NoTitle),
           posts' = posts \/ posts' = WithoutRow(id)
    PROVE  OutboxExplainsTable' /\ outbox' \in Seq(Event)
<1> DEFINE ev == [topic |-> TopicDeleted, id |-> id, slug |-> slug, title |-> NoTitle]
           n == Len(outbox) + 1
<1>1. ev \in Event
  BY DEF Event
<1>2. /\ outbox' \in Seq(Event) /\ Len(outbox) \in Nat
      /\ Len(outbox') = n
      /\ \A k \in 1..Len(outbox) : outbox'[k] = outbox[k]
      /\ outbox'[n] = ev
  BY <1>1, Recorded DEF IInv, TypeOK, RecordEvent
<1>3. /\ DOMAIN posts' \subseteq DOMAIN posts
      /\ DOMAIN posts \subseteq DOMAIN posts' \cup {id}
      /\ \A o \in DOMAIN posts' : posts'[o] = posts[o]
  BY DEF WithoutRow
<1>4. ASSUME NEW o \in DOMAIN posts'
      PROVE  \E k \in 1..Len(outbox') :
                 /\ LastWrite(o, k)'
                 /\ posts'[o] = [slug |-> outbox'[k].slug, title |-> outbox'[k].title]
  <2>1. PICK k \in 1..Len(outbox) :
            /\ LastWrite(o, k)
            /\ posts[o] = [slug |-> outbox[k].slug, title |-> outbox[k].title]
    BY <1>3 DEF IInv, OutboxExplainsTable
  <2>2. LastWrite(o, k)'
    BY <1>2, <2>1 DEF LastWrite
  <2> QED BY <1>2, <1>3, <2>1, <2>2
<1>5. ASSUME NEW k \in 1..Len(outbox'),
             outbox'[k].topic # TopicDeleted, outbox'[k].id \notin DOMAIN posts'
      PROVE  \E l \in (k + 1)..Len(outbox') :
                 outbox'[l].topic = TopicDeleted /\ outbox'[l].id = outbox'[k].id
  <2>1. k \in 1..Len(outbox) /\ outbox'[k] = outbox[k]
    BY <1>2, <1>5
  <2>2. CASE outbox[k].id = id
    BY <1>2, <2>1, <2>2
  <2>3. CASE outbox[k].id # id
    <3>1. PICK l \in (k + 1)..Len(outbox) :
              outbox[l].topic = TopicDeleted /\ outbox[l].id = outbox[k].id
      BY <1>3, <1>5, <2>1, <2>3 DEF IInv, OutboxExplainsTable
    <3>2. l \in (k + 1)..Len(outbox') /\ outbox'[l] = outbox[l]
      BY <1>2, <2>1, <3>1
    <3> QED BY <2>1, <3>1, <3>2
  <2> QED BY <2>2, <2>3
<1> QED BY <1>2, <1>4, <1>5 DEF OutboxExplainsTable

\* A step that leaves posts and outbox alone leaves the account alone.
LEMMA SameExplained ==
    ASSUME IInv, UNCHANGED <<posts, outbox>>
    PROVE  OutboxExplainsTable'
BY DEF IInv, OutboxExplainsTable, LastWrite

\* A worker that takes a well-formed task leaves tasks well formed, while the id
\* sequence grows or stays.
LEMMA TaskStep ==
    ASSUME IInv, NEW w \in Workers, NEW t, GoodTask(t, nextId),
           task' = [task EXCEPT ![w] = t],
           nextId' = nextId \/ nextId' = nextId + 1
    PROVE  TaskOK' /\ task' \in [Workers -> Task] /\ nextId' \in Nat \ {0}
<1>1. nextId \in Nat \ {0} /\ task \in [Workers -> Task]
  BY DEF IInv, TypeOK
<1>2. nextId' \in Nat \ {0} /\ 1..(nextId - 1) \subseteq 1..(nextId' - 1)
  BY <1>1
<1>3. task' \in [Workers -> Task]
  BY <1>1 DEF GoodTask
<1>4. ASSUME NEW v \in Workers PROVE GoodTask(task'[v], nextId')
  <2>1. GoodTask(task'[v], nextId)
    BY <1>1 DEF IInv, TaskOK
  <2> QED BY <2>1, <1>2 DEF GoodTask
<1> QED BY <1>2, <1>3, <1>4 DEF TaskOK

\* Every step of a worker keeps the invariant.
LEMMA StepIInv == IInv /\ [Next]_vars => IInv'
<1> SUFFICES ASSUME IInv, [Next]_vars PROVE IInv'
  OBVIOUS
<1>0. TypeOK /\ TaskOK /\ nextId \in Nat \ {0} /\ requests \in Nat
  BY DEF IInv, TypeOK
<1>1. CASE UNCHANGED vars
  BY <1>0, <1>1, SameExplained DEF IInv, vars, TypeOK, TaskOK
\* A worker takes or changes a task, the database stays as it is.
<1>2. ASSUME NEW w \in Workers, NEW t, GoodTask(t, nextId),
             task' = [task EXCEPT ![w] = t],
             nextId' = nextId \/ nextId' = nextId + 1,
             requests' \in Nat, UNCHANGED <<posts, outbox>>
      PROVE  IInv'
  <2>1. TaskOK' /\ task' \in [Workers -> Task] /\ nextId' \in Nat \ {0}
    BY <1>2, TaskStep
  <2>2. TypeOK'
    BY <1>0, <1>2, <2>1 DEF TypeOK
  <2> QED BY <1>2, <2>1, <2>2, SameExplained DEF IInv
\* A transaction commits: posts and outbox change, the worker is idle again.
<1>3. ASSUME NEW w \in Workers,
             task' = [task EXCEPT ![w] = Idle],
             nextId' = nextId \/ nextId' = nextId + 1,
             requests' = requests,
             OutboxExplainsTable', outbox' \in Seq(Event),
             DOMAIN posts' \subseteq 1..(nextId' - 1),
             posts' \in [DOMAIN posts' -> PostRow]
      PROVE  IInv'
  <2>1. TaskOK' /\ task' \in [Workers -> Task] /\ nextId' \in Nat \ {0}
    BY <1>3, TaskStep, IdleGood
  <2>2. TypeOK'
    BY <1>0, <1>3, <2>1 DEF TypeOK
  <2> QED BY <1>3, <2>1, <2>2 DEF IInv
<1>4. ASSUME NEW w \in Workers, NEW slug \in Slugs, NEW title \in Titles,
             CreateValidate(w, slug, title)
      PROVE  IInv'
  <2>1. PICK t : t = [pc |-> "create", id |-> 0, slug |-> slug, title |-> title]
    OBVIOUS
  <2>2. GoodTask(t, nextId)
    BY <2>1 DEF GoodTask, Task
  <2>3. /\ UNCHANGED <<posts, nextId, outbox>>
        /\ requests' = requests + 1
        /\ task' = [task EXCEPT ![w] = t]
    BY <1>4, <2>1 DEF CreateValidate, Accept
  <2>4. requests' \in Nat
    BY <1>0, <2>3
  <2> QED BY <1>2, <2>2, <2>3, <2>4
<1>5. ASSUME NEW w \in Workers, CreateSave(w) PROVE IInv'
  <2>1. /\ posts' = WithRow(nextId, [slug |-> task[w].slug, title |-> task[w].title])
        /\ nextId' = nextId + 1
        /\ RecordEvent(TopicCreated, nextId, task[w].slug, task[w].title)
        /\ task' = [task EXCEPT ![w] = Idle]
        /\ requests' = requests
        /\ task[w].pc = "create"
    BY <1>5 DEF CreateSave, Finish, Serving
  <2>2. task[w].slug \in Slugs /\ task[w].title \in Titles
    BY <1>0, <2>1 DEF TaskOK, GoodTask
  <2>3. OutboxExplainsTable' /\ outbox' \in Seq(Event)
    BY <1>0, <2>1, <2>2, WriteExplained
  <2>4. /\ DOMAIN posts' \subseteq 1..(nextId' - 1)
        /\ posts' \in [DOMAIN posts' -> PostRow]
    BY <1>0, <2>1, <2>2 DEF TypeOK, WithRow, PostRow
  <2> QED BY <1>3, <2>1, <2>3, <2>4
<1>6. ASSUME NEW w \in Workers, CreateConflict(w) \/ UpdateConflict(w) \/ Abort(w)
      PROVE  IInv'
  BY <1>0, <1>2, <1>6, IdleGood DEF CreateConflict, UpdateConflict, Abort, Finish
<1>7. ASSUME NEW w \in Workers, NEW id \in DOMAIN posts, NEW slug \in Slugs,
             NEW title \in Titles, UpdateLookup(w, id, slug, title)
      PROVE  IInv'
  <2>1. PICK t : t = [pc |-> "validate", id |-> id, slug |-> slug, title |-> title]
    OBVIOUS
  <2>2. id \in Nat /\ id \in 1..(nextId - 1)
    BY <1>0 DEF TypeOK
  <2>3. GoodTask(t, nextId)
    BY <2>1, <2>2 DEF GoodTask, Task
  <2>4. /\ UNCHANGED <<posts, nextId, outbox>>
        /\ requests' = requests + 1
        /\ task' = [task EXCEPT ![w] = t]
    BY <1>7, <2>1 DEF UpdateLookup, Accept
  <2>5. requests' \in Nat
    BY <1>0, <2>4
  <2> QED BY <1>2, <2>3, <2>4, <2>5
<1>8. ASSUME NEW w \in Workers, UpdateValidate(w) PROVE IInv'
  <2>1. UNCHANGED <<posts, nextId, outbox, requests>> /\ task[w].pc = "validate"
    BY <1>8 DEF UpdateValidate, Serving
  <2>2. PICK t : /\ task' = [task EXCEPT ![w] = t]
                 /\ t = Idle \/ t = [task[w] EXCEPT !.pc = "update"]
    BY <1>8 DEF UpdateValidate
  <2>3. GoodTask(task[w], nextId)
    BY <1>0 DEF TaskOK
  <2>4. GoodTask([task[w] EXCEPT !.pc = "update"], nextId)
    BY <2>1, <2>3 DEF GoodTask, Task
  <2>5. GoodTask(t, nextId)
    BY <2>2, <2>4, IdleGood
  <2> QED BY <1>0, <1>2, <2>1, <2>2, <2>5
<1>9. ASSUME NEW w \in Workers, UpdateSave(w) PROVE IInv'
  <2>1. /\ posts' = WithRow(task[w].id, [slug |-> task[w].slug, title |-> task[w].title])
        /\ RecordEvent(TopicUpdated, task[w].id, task[w].slug, task[w].title)
        /\ task' = [task EXCEPT ![w] = Idle]
        /\ UNCHANGED <<nextId, requests>>
        /\ task[w].pc = "update"
    BY <1>9 DEF UpdateSave, Finish, Serving
  <2>2. /\ task[w].slug \in Slugs /\ task[w].title \in Titles
        /\ task[w].id \in 1..(nextId - 1) /\ task[w].id \in Nat
    BY <1>0, <2>1 DEF TaskOK, GoodTask
  <2>3. OutboxExplainsTable' /\ outbox' \in Seq(Event)
    BY <2>1, <2>2, WriteExplained
  <2>4. /\ DOMAIN posts' \subseteq 1..(nextId' - 1)
        /\ posts' \in [DOMAIN posts' -> PostRow]
    BY <1>0, <2>1, <2>2 DEF TypeOK, WithRow, PostRow
  <2> QED BY <1>3, <2>1, <2>3, <2>4
<1>10. ASSUME NEW w \in Workers, NEW id \in DOMAIN posts, DestroyLookup(w, id)
       PROVE  IInv'
  <2>1. PICK t : t = [pc |-> "destroy", id |-> id, slug |-> posts[id].slug,
                      title |-> NoTitle]
    OBVIOUS
  <2>2. posts[id].slug \in Slugs /\ id \in 1..(nextId - 1) /\ id \in Nat
    BY <1>0 DEF TypeOK, PostRow
  <2>3. GoodTask(t, nextId)
    BY <2>1, <2>2 DEF GoodTask, Task
  <2>4. /\ UNCHANGED <<posts, nextId, outbox>>
        /\ requests' = requests + 1
        /\ task' = [task EXCEPT ![w] = t]
    BY <1>10, <2>1 DEF DestroyLookup, Accept
  <2>5. requests' \in Nat
    BY <1>0, <2>4
  <2> QED BY <1>2, <2>3, <2>4, <2>5
<1>11. ASSUME NEW w \in Workers, DestroyDeletes(w) \/ DestroyRecords(w) PROVE IInv'
  <2>1. /\ posts' = posts \/ posts' = WithoutRow(task[w].id)
        /\ RecordEvent(TopicDeleted, task[w].id, task[w].slug, NoTitle)
        /\ task' = [task EXCEPT ![w] = Idle]
        /\ UNCHANGED <<nextId, requests>>
        /\ task[w].pc \in {"destroy", "record"}
    BY <1>11 DEF DestroyDeletes, DestroyRecords, Finish, Serving
  <2>2. task[w].slug \in Slugs /\ task[w].id \in Nat
    BY <1>0, <2>1 DEF TaskOK, GoodTask
  <2>3. OutboxExplainsTable' /\ outbox' \in Seq(Event)
    BY <2>1, <2>2, DeleteExplained
  <2>4. /\ DOMAIN posts' \subseteq 1..(nextId' - 1)
        /\ posts' \in [DOMAIN posts' -> PostRow]
    BY <1>0, <2>1 DEF TypeOK, WithoutRow
  <2> QED BY <1>3, <2>1, <2>3, <2>4
<1>12. ASSUME NEW w \in Workers, DestroyFindsNothing(w) PROVE IInv'
  <2>1. UNCHANGED <<posts, nextId, outbox, requests>> /\ task[w].pc = "destroy"
    BY <1>12 DEF DestroyFindsNothing, Serving
  <2>2. PICK t : t = [task[w] EXCEPT !.pc = "record"]
    OBVIOUS
  <2>3. GoodTask(task[w], nextId)
    BY <1>0 DEF TaskOK
  <2>4. GoodTask(t, nextId)
    BY <2>1, <2>2, <2>3 DEF GoodTask, Task
  <2>5. task' = [task EXCEPT ![w] = t]
    BY <1>12, <2>2 DEF DestroyFindsNothing
  <2> QED BY <1>0, <1>2, <2>1, <2>4, <2>5
<1> QED BY <1>1, <1>4, <1>5, <1>6, <1>7, <1>8, <1>9, <1>10, <1>11, <1>12 DEF Next

\* The inductive invariant holds in every reachable state.
LEMMA IInvHolds == Spec => []IInv
<1> QED BY InitIInv, StepIInv, PTL DEF Spec

\* The type invariant of PostsApi: rows, ids and requests stay what they are,
\* and no id is in the table that the sequence has not given out.
THEOREM TypeCorrect == Spec => []TypeOK
<1>1. IInv => TypeOK
  BY DEF IInv
<1> QED BY <1>1, IInvHolds, PTL

\* The transactions of create, update and destroy keep table and outbox in
\* step, for any number of workers, conflicts and aborted requests.
THEOREM OutboxAccounts == Spec => []OutboxExplainsTable
<1>1. IInv => OutboxExplainsTable
  BY DEF IInv
<1> QED BY <1>1, IInvHolds, PTL

\* What a step of a worker does to the table and the outbox: it writes a row
\* under a free slug, with its event, or records a delete, with or without a row
\* to delete, or does neither.
Writes(topic, id, slug, title) ==
    /\ posts' = WithRow(id, [slug |-> slug, title |-> title])
    /\ RecordEvent(topic, id, slug, title)
    /\ ~SlugTaken(slug, id)
    /\ topic = TopicCreated => id = nextId

Deletes(id, slug) ==
    /\ posts' = posts \/ posts' = WithoutRow(id)
    /\ RecordEvent(TopicDeleted, id, slug, NoTitle)

LEMMA StepRecords ==
    ASSUME IInv, [Next]_vars
    PROVE  \/ UNCHANGED <<posts, outbox>>
           \/ \E topic \in {TopicCreated, TopicUpdated}, id \in Nat, slug \in Slugs,
                 title \in Titles : Writes(topic, id, slug, title)
           \/ \E id \in Nat, slug \in Slugs : Deletes(id, slug)
<1>0. TypeOK /\ TaskOK /\ nextId \in Nat
  BY DEF IInv, TypeOK
<1>1. ASSUME NEW w \in Workers, CreateSave(w)
      PROVE  \E slug \in Slugs, title \in Titles : Writes(TopicCreated, nextId, slug, title)
  <2>1. task[w].slug \in Slugs /\ task[w].title \in Titles
    BY <1>0, <1>1 DEF CreateSave, Serving, TaskOK, GoodTask
  <2>2. ~SlugTaken(task[w].slug, nextId)
    BY <1>1 DEF CreateSave, SlugTaken, IInv, TypeOK
  <2> QED BY <1>1, <2>1, <2>2 DEF CreateSave, Writes
<1>2. ASSUME NEW w \in Workers, UpdateSave(w)
      PROVE  \E id \in Nat, slug \in Slugs, title \in Titles :
                 Writes(TopicUpdated, id, slug, title)
  <2>1. /\ task[w].slug \in Slugs /\ task[w].title \in Titles /\ task[w].id \in Nat
    BY <1>0, <1>2 DEF UpdateSave, Serving, TaskOK, GoodTask
  <2>2. TopicUpdated # TopicCreated
    BY DEF TopicCreated, TopicUpdated
  <2> QED BY <1>2, <2>1, <2>2 DEF UpdateSave, Writes
<1>3. ASSUME NEW w \in Workers, DestroyDeletes(w) \/ DestroyRecords(w)
      PROVE  \E id \in Nat, slug \in Slugs : Deletes(id, slug)
  <2>1. task[w].slug \in Slugs /\ task[w].id \in Nat
    BY <1>0, <1>3 DEF DestroyDeletes, DestroyRecords, Serving, TaskOK, GoodTask
  <2> QED BY <1>3, <2>1 DEF DestroyDeletes, DestroyRecords, Deletes
<1>4. ASSUME NEW w \in Workers,
             \/ \E slug \in Slugs, title \in Titles :
                    \/ CreateValidate(w, slug, title)
                    \/ \E id \in DOMAIN posts : UpdateLookup(w, id, slug, title)
             \/ \E id \in DOMAIN posts : DestroyLookup(w, id)
             \/ CreateConflict(w) \/ UpdateValidate(w) \/ UpdateConflict(w)
             \/ DestroyFindsNothing(w) \/ Abort(w)
      PROVE  UNCHANGED <<posts, outbox>>
  BY <1>4 DEF CreateValidate, UpdateLookup, DestroyLookup, CreateConflict, UpdateValidate,
     UpdateConflict, DestroyFindsNothing, Abort
<1>5. CASE UNCHANGED vars
  BY <1>5 DEF vars
<1> QED BY <1>0, <1>1, <1>2, <1>3, <1>4, <1>5 DEF Next

\* The unique index on slug holds.
UniqueIndex == \A i, j \in DOMAIN posts : posts[i].slug = posts[j].slug => i = j

LEMMA StepUniqueIndex ==
    ASSUME IInv, UniqueIndex, [Next]_vars
    PROVE  UniqueIndex'
<1>1. ASSUME NEW topic, NEW id, NEW slug, NEW title, Writes(topic, id, slug, title)
      PROVE  UniqueIndex'
  <2>1. /\ DOMAIN posts' = DOMAIN posts \cup {id}
        /\ posts'[id].slug = slug
        /\ \A o \in DOMAIN posts \ {id} : posts'[o] = posts[o] /\ posts[o].slug # slug
    BY <1>1 DEF Writes, WithRow, SlugTaken
  <2> QED BY <2>1 DEF UniqueIndex
<1>2. ASSUME NEW id, NEW slug, Deletes(id, slug)
      PROVE  UniqueIndex'
  <2>1. DOMAIN posts' \subseteq DOMAIN posts /\ \A o \in DOMAIN posts' : posts'[o] = posts[o]
    BY <1>2 DEF Deletes, WithoutRow
  <2> QED BY <2>1 DEF UniqueIndex
<1>3. CASE UNCHANGED <<posts, outbox>>
  BY <1>3 DEF UniqueIndex
<1> QED BY <1>1, <1>2, <1>3, StepRecords

-----------------------------------------------------------------------------
(* Replay is the recursion over the outbox it looks like.  The definition of *)
(* a recursive function is a CHOOSE: that there is such a function, and that *)
(* it depends on the events alone, is by induction on the number of events,  *)
(* in the form that a set of numbers has a least member.                     *)

LEMMA LeastMember ==
    ASSUME NEW T \in SUBSET Nat, T # {}
    PROVE  \E x \in T : \A y \in T : x <= y
<1> DEFINE R == OpToRel(<, Nat)
<1>1. \A x, y \in Nat : <<x, y>> \in R <=> x < y
  BY DEF OpToRel
<1>2. IsWellFoundedOn(R, Nat)
  BY NatLessThanWellFounded
<1> HIDE DEF R
<1>3. PICK x \in T : \A y \in T : ~(<<y, x>> \in R)
  BY <1>2, WFMin
<1>4. \A y \in T : ~(y < x)
  BY <1>1, <1>3
<1> QED BY <1>4

\* f has the tables after the first 0, 1, ..., n of the events.
Tables(f, events, n) ==
    f = [k \in 0..n |-> IF k = 0 THEN Table!EmptyTable ELSE Apply(f[k - 1], events[k])]

LEMMA TablesExist ==
    ASSUME NEW events, NEW n \in Nat
    PROVE  \E f : Tables(f, events, n)
<1> DEFINE T == {m \in Nat : ~ \E f : Tables(f, events, m)}
<1>1. ASSUME T # {} PROVE FALSE
  <2>1. PICK m \in T : \A y \in T : m <= y
    <3>1. T \in SUBSET Nat
      OBVIOUS
    <3> HIDE DEF T
    <3> QED BY <1>1, <3>1, LeastMember
  <2>2. CASE m = 0
    <3>1. Tables([k \in 0..0 |-> Table!EmptyTable], events, 0)
      BY DEF Tables
    <3> QED BY <2>2, <3>1
  <2>3. CASE m # 0
    <3>1. m - 1 \in Nat /\ m - 1 \notin T
      BY <2>1, <2>3
    <3>2. PICK f : Tables(f, events, m - 1)
      BY <3>1
    <3> DEFINE g == [k \in 0..m |-> IF k = m THEN Apply(f[m - 1], events[m]) ELSE f[k]]
    <3>3. \A k \in 0..m :
            g[k] = IF k = 0 THEN Table!EmptyTable ELSE Apply(g[k - 1], events[k])
      BY <2>3, <3>1, <3>2 DEF Tables
    <3>4. Tables(g, events, m)
      BY <3>3 DEF Tables
    <3> QED BY <3>4
  <2> QED BY <2>2, <2>3
<1> QED BY <1>1

LEMMA TablesAgree ==
    ASSUME NEW events, NEW more, NEW n \in Nat, NEW m \in Nat, n <= m,
           \A k \in 1..n : events[k] = more[k],
           NEW f, NEW g, Tables(f, events, n), Tables(g, more, m)
    PROVE  f[n] = g[n]
<1> DEFINE T == {k \in 0..n : f[k] # g[k]}
<1>1. ASSUME T # {} PROVE FALSE
  <2>1. PICK k \in T : \A y \in T : k <= y
    <3>1. T \in SUBSET Nat
      OBVIOUS
    <3> HIDE DEF T
    <3> QED BY <1>1, <3>1, LeastMember
  <2>2. CASE k = 0
    BY <2>1, <2>2 DEF Tables
  <2>3. CASE k # 0
    <3>1. k - 1 \in 0..n /\ k - 1 \notin T /\ k \in 1..n
      BY <2>1, <2>3
    <3>2. f[k] = Apply(f[k - 1], events[k]) /\ g[k] = Apply(g[k - 1], more[k])
      BY <2>3, <3>1 DEF Tables
    <3> QED BY <2>1, <3>1, <3>2
  <2> QED BY <2>2, <2>3
<1> QED BY <1>1

LEMMA ReplayIs ==
    ASSUME NEW events, Len(events) \in Nat
    PROVE  \E f : Tables(f, events, Len(events)) /\ Replay(events) = f[Len(events)]
<1> DEFINE f == CHOOSE f : Tables(f, events, Len(events))
<1>1. Tables(f, events, Len(events))
  BY TablesExist
<1>2. Replay(events) = f[Len(events)]
  BY DEF Replay, Tables
<1> QED BY <1>1, <1>2

LEMMA ReplayNothing == Replay(<<>>) = Table!EmptyTable
<1>1. Len(<<>>) = 0
  OBVIOUS
<1> QED BY <1>1, ReplayIs DEF Tables

\* One more event is applied to what the others have made.
LEMMA ReplayOneMore ==
    ASSUME NEW S, NEW events \in Seq(S), NEW ev \in S
    PROVE  Replay(Append(events, ev)) = Apply(Replay(events), ev)
<1> DEFINE more == Append(events, ev)
           n == Len(events)
<1>1. /\ n \in Nat /\ Len(more) = n + 1 /\ more[n + 1] = ev
      /\ \A k \in 1..n : events[k] = more[k]
  OBVIOUS
<1> HIDE DEF more, n
<1>2. PICK f : Tables(f, events, n) /\ Replay(events) = f[n]
  BY <1>1, ReplayIs DEF n
<1>3. PICK g : Tables(g, more, n + 1) /\ Replay(more) = g[n + 1]
  BY <1>1, ReplayIs
<1>4. f[n] = g[n]
  BY <1>1, <1>2, <1>3, TablesAgree
<1>5. g[n + 1] = Apply(g[(n + 1) - 1], more[n + 1])
  BY <1>1, <1>3 DEF Tables
<1> QED BY <1>1, <1>2, <1>3, <1>4, <1>5 DEF more

-----------------------------------------------------------------------------
(* What the handlers make of the events, as proved in RelatedTable_proofs.   *)

TableP == INSTANCE RelatedTable_proofs

\* Its definitions are those of EventReplay.
LEMMA SameTable ==
    ASSUME NEW t, NEW ev
    PROVE  /\ Table!Handle(t, ev) = TableP!Handle(t, ev)
           /\ Table!SlugsUnique(t) <=> TableP!SlugsUnique(t)
           /\ \A id : Table!Referenced(t, id) <=> TableP!Referenced(t, id)
           /\ \A old : Table!NoDanglingBut(t, old) <=> TableP!NoDanglingBut(t, old)
           /\ Table!EmptyTable = TableP!EmptyTable
<1>1. Table!Handle(t, ev) = TableP!Handle(t, ev)
  BY DEF Table!Handle, TableP!Handle, Table!ApplyCreated, TableP!ApplyCreated,
     Table!ApplyUpdated, TableP!ApplyUpdated, Table!ApplyDeleted, TableP!ApplyDeleted,
     Table!TopicCreated, TableP!TopicCreated, Table!TopicUpdated, TableP!TopicUpdated,
     Table!TopicDeleted, TableP!TopicDeleted, Table!BackReferenced, TableP!BackReferenced,
     Table!ScoresAgainst, TableP!ScoresAgainst, Table!Similarity, TableP!Similarity,
     Table!WithScore, TableP!WithScore, Table!WithoutSlug, TableP!WithoutSlug,
     Table!Reassigned, TableP!Reassigned, Table!Rescored, TableP!Rescored,
     Table!TitleChanged, TableP!TitleChanged
<1>2. Table!SlugsUnique(t) <=> TableP!SlugsUnique(t)
  BY DEF Table!SlugsUnique, TableP!SlugsUnique
<1>3. \A id : Table!Referenced(t, id) <=> TableP!Referenced(t, id)
  BY DEF Table!Referenced, TableP!Referenced, Table!Similarity, TableP!Similarity
<1>4. \A old : Table!NoDanglingBut(t, old) <=> TableP!NoDanglingBut(t, old)
  BY DEF Table!NoDanglingBut, TableP!NoDanglingBut
<1>5. Table!EmptyTable = TableP!EmptyTable
  BY DEF Table!EmptyTable, TableP!EmptyTable, NoTitle, Table!NoTitle, TableP!NoTitle
<1> QED BY <1>1, <1>2, <1>3, <1>4, <1>5

\* An event as the handlers of the related service expect it.
GoodEvent(ev) == ev \in Event /\ (ev.topic # TopicDeleted => ev.title \in Titles)

LEMMA EventIs ==
    ASSUME NEW ev, GoodEvent(ev)
    PROVE  /\ TableP!IsEvent(ev)
           /\ ev.topic = TopicDeleted <=> ev.topic = TableP!TopicDeleted
           /\ ev.topic = TopicCreated <=> ev.topic = TableP!TopicCreated
BY DEF GoodEvent, Event, TableP!IsEvent, TableP!Topics, TopicCreated, TopicUpdated, TopicDeleted,
   TableP!TopicCreated, TableP!TopicUpdated, TableP!TopicDeleted

\* The event is handled, or the unique index on slug refuses what its handler
\* makes of the table, which stays a table in either case.
LEMMA ApplyIs ==
    ASSUME NEW t, TableP!IsTable(t), NEW ev, GoodEvent(ev)
    PROVE  /\ TableP!IsTable(TableP!Handle(t, ev)) /\ TableP!IsTable(Apply(t, ev))
           /\ TableP!SlugsUnique(TableP!Handle(t, ev)) => Apply(t, ev) = TableP!Handle(t, ev)
           /\ ~TableP!SlugsUnique(TableP!Handle(t, ev)) => Apply(t, ev) = t
<1>1. TableP!IsTable(TableP!Handle(t, ev))
  BY EventIs, TableP!HandleIsTable, StripAssumption
<1>2. Apply(t, ev) = IF TableP!SlugsUnique(TableP!Handle(t, ev)) THEN TableP!Handle(t, ev) ELSE t
  BY SameTable DEF Apply
<1> QED BY <1>1, <1>2

\* A write of a post gives it the title and slug of the event, unless the post
\* was created before or another post has the slug.
LEMMA ApplyWrites ==
    ASSUME NEW t, TableP!IsTable(t), NEW ev, GoodEvent(ev), ev.topic # TopicDeleted,
           ev.topic = TopicCreated => ev.id \notin DOMAIN t,
           TableP!SlugsUnique(t), \A o \in DOMAIN t \ {ev.id} : t[o].slug # ev.slug
    PROVE  /\ DOMAIN Apply(t, ev) = DOMAIN t \cup {ev.id}
           /\ Apply(t, ev)[ev.id].title = ev.title /\ Apply(t, ev)[ev.id].slug = ev.slug
           /\ \A o \in DOMAIN t \ {ev.id} :
                /\ Apply(t, ev)[o].title = t[o].title
                /\ Apply(t, ev)[o].slug = t[o].slug
<1>1. PICK n : n = TableP!Handle(t, ev)
  OBVIOUS
<1>2. TableP!IsEvent(ev) /\ ev.topic # TableP!TopicDeleted
  BY EventIs
<1>3. ev.topic = TableP!TopicCreated => ev.id \notin DOMAIN t
  BY EventIs
<1>4. /\ DOMAIN n = DOMAIN t \cup {ev.id}
      /\ n[ev.id].title = ev.title /\ n[ev.id].slug = ev.slug
      /\ \A o \in DOMAIN t \ {ev.id} : n[o].title = t[o].title /\ n[o].slug = t[o].slug
  <2>1. /\ DOMAIN TableP!Handle(t, ev) = DOMAIN t \cup {ev.id}
        /\ TableP!Handle(t, ev)[ev.id].title = ev.title
        /\ TableP!Handle(t, ev)[ev.id].slug = ev.slug
        /\ \A o \in DOMAIN t \ {ev.id} :
             /\ TableP!Handle(t, ev)[o].title = t[o].title
             /\ TableP!Handle(t, ev)[o].slug = t[o].slug
    BY <1>2, <1>3, TableP!HandleWrites, StripAssumption
  <2> QED BY <1>1, <2>1
<1>5. TableP!SlugsUnique(n)
  BY <1>4 DEF TableP!SlugsUnique
<1>6. Apply(t, ev) = n
  BY <1>1, <1>5, ApplyIs
<1> QED BY <1>4, <1>6

\* A delete takes the posts with the slug.
LEMMA ApplyDeletes ==
    ASSUME NEW t, TableP!IsTable(t), NEW ev, GoodEvent(ev), ev.topic = TopicDeleted,
           TableP!SlugsUnique(t)
    PROVE  /\ \A o : o \in DOMAIN Apply(t, ev) <=> o \in DOMAIN t /\ t[o].slug # ev.slug
           /\ \A o \in DOMAIN Apply(t, ev) :
                Apply(t, ev)[o].title = t[o].title /\ Apply(t, ev)[o].slug = t[o].slug
<1>1. PICK n : n = TableP!Handle(t, ev)
  OBVIOUS
<1>2. ev.topic = TableP!TopicDeleted
  BY EventIs
<1>3. /\ DOMAIN n = {o \in DOMAIN t : t[o].slug # ev.slug}
      /\ \A o \in DOMAIN n : n[o].title = t[o].title /\ n[o].slug = t[o].slug
  <2>1. /\ DOMAIN TableP!Handle(t, ev) = {o \in DOMAIN t : t[o].slug # ev.slug}
        /\ \A o \in DOMAIN TableP!Handle(t, ev) :
             /\ TableP!Handle(t, ev)[o].title = t[o].title
             /\ TableP!Handle(t, ev)[o].slug = t[o].slug
    BY <1>2, TableP!HandleDeletes, StripAssumption
  <2> QED BY <1>1, <2>1
<1>4. TableP!SlugsUnique(n)
  BY <1>3 DEF TableP!SlugsUnique
<1>5. Apply(t, ev) = n
  BY <1>1, <1>4, ApplyIs
<1> QED BY <1>3, <1>5

-----------------------------------------------------------------------------
(* The two services agree. *)

\* The outbox and the replayed table grow together.
Recording(ev) == outbox' = Append(outbox, ev) /\ GoodEvent(ev)

LEMMA ReplayStep ==
    ASSUME TypeOK, NEW ev, Recording(ev)
    PROVE  /\ Len(outbox) \in Nat /\ Len(outbox') = Len(outbox) + 1
           /\ \A k \in 1..Len(outbox) : outbox'[k] = outbox[k]
           /\ outbox'[Len(outbox) + 1] = ev
           /\ Replayed' = Apply(Replayed, ev)
<1>1. outbox \in Seq(Event) /\ ev \in Event /\ outbox' = Append(outbox, ev)
  BY DEF TypeOK, Recording, GoodEvent
<1>2. Replay(outbox') = Apply(Replay(outbox), ev)
  BY <1>1, ReplayOneMore
<1>3. Replayed' = Replay(outbox')
  BY DEF Replayed
<1> QED BY <1>1, <1>2, <1>3, Recorded DEF Replayed

\* A step that changes the outbox records one good event.
LEMMA StepRecording ==
    ASSUME IInv, [Next]_vars
    PROVE  \/ UNCHANGED <<posts, outbox>>
           \/ \E ev : Recording(ev)
<1>1. ASSUME NEW topic \in {TopicCreated, TopicUpdated}, NEW id \in Nat, NEW slug \in Slugs,
             NEW title \in Titles, Writes(topic, id, slug, title)
      PROVE  \E ev : Recording(ev)
  BY <1>1 DEF Writes, RecordEvent, Recording, GoodEvent, Event
<1>2. ASSUME NEW id \in Nat, NEW slug \in Slugs, Deletes(id, slug)
      PROVE  \E ev : Recording(ev)
  BY <1>2 DEF Deletes, RecordEvent, Recording, GoodEvent, Event
<1> QED BY <1>1, <1>2, StepRecords

\* The replayed table is a table.
LEMMA ReplayTable ==
    ASSUME IInv, TableP!IsTable(Replayed), [Next]_vars
    PROVE  TableP!IsTable(Replayed')
<1>1. ASSUME NEW ev, Recording(ev) PROVE TableP!IsTable(Replayed')
  BY <1>1, ReplayStep, ApplyIs DEF IInv, Recording
<1>2. CASE UNCHANGED outbox
  BY <1>2 DEF Replayed
<1> QED BY <1>1, <1>2, StepRecording

LEMMA ReplayInit ==
    ASSUME Init
    PROVE  DOMAIN Replayed = {} /\ TableP!IsTable(Replayed)
<1>1. Replayed = Table!EmptyTable
  BY ReplayNothing DEF Init, Replayed
<1> QED BY <1>1 DEF Table!EmptyTable, TableP!IsTable

\* Every delete took effect at the time it was recorded.
DeletesTookEffect ==
    \A k \in 1..Len(outbox) : outbox[k].topic = TopicDeleted =>
        \E j \in 1..(k - 1) :
            /\ outbox[j].id = outbox[k].id /\ outbox[j].slug = outbox[k].slug
            /\ outbox[j].topic # TopicDeleted
            /\ \A l \in (j + 1)..(k - 1) : outbox[l].id # outbox[k].id

\* The last event of the post is a delete.
Forgotten(id) ==
    \E k \in 1..Len(outbox) :
        /\ outbox[k].id = id /\ outbox[k].topic = TopicDeleted
        /\ \A l \in (k + 1)..Len(outbox) : outbox[l].id # id

\* The replayed table has the posts of the posts service, but one that came
\* back between the transaction of a delete and its event is missing.
SamePosts ==
    /\ DOMAIN Replayed = {id \in DOMAIN posts : ~Forgotten(id)}
    /\ \A id \in DOMAIN Replayed : /\ Replayed[id].slug = posts[id].slug
                                   /\ Replayed[id].title = posts[id].title

AgreeInv == /\ IInv
            /\ UniqueIndex
            /\ TableP!IsTable(Replayed)
            /\ DeletesTookEffect => SamePosts

\* Whether a post is forgotten depends on its last event.
LEMMA ForgottenStep ==
    ASSUME TypeOK, NEW ev, Recording(ev)
    PROVE  \A id : Forgotten(id)' <=> IF id = ev.id THEN ev.topic = TopicDeleted
                                      ELSE Forgotten(id)
<1> DEFINE n == Len(outbox)
<1>1. /\ n \in Nat /\ Len(outbox') = n + 1
      /\ \A k \in 1..n : outbox'[k] = outbox[k]
      /\ outbox'[n + 1] = ev
  BY ReplayStep
<1> HIDE DEF n
<1>2. ASSUME NEW id, id = ev.id, Forgotten(id)' PROVE ev.topic = TopicDeleted
  <2>1. PICK k \in 1..(n + 1) : /\ outbox'[k].id = id /\ outbox'[k].topic = TopicDeleted
                                /\ \A l \in (k + 1)..(n + 1) : outbox'[l].id # id
    BY <1>1, <1>2 DEF Forgotten
  <2>2. k = n + 1
    BY <1>1, <1>2, <2>1
  <2> QED BY <1>1, <2>1, <2>2
<1>3. ASSUME NEW id, id = ev.id, ev.topic = TopicDeleted PROVE Forgotten(id)'
  <2>1. n + 1 \in 1..(n + 1) /\ (n + 1 + 1)..(n + 1) = {}
    BY <1>1
  <2> QED BY <1>1, <1>3, <2>1 DEF Forgotten
<1>4. ASSUME NEW id, id # ev.id, Forgotten(id)' PROVE Forgotten(id)
  <2>1. PICK k \in 1..(n + 1) : /\ outbox'[k].id = id /\ outbox'[k].topic = TopicDeleted
                                /\ \A l \in (k + 1)..(n + 1) : outbox'[l].id # id
    BY <1>1, <1>4 DEF Forgotten
  <2>2. k \in 1..n
    BY <1>1, <1>4, <2>1
  <2>3. \A l \in (k + 1)..n : l \in (k + 1)..(n + 1) /\ l \in 1..n
    BY <1>1, <2>2
  <2> QED BY <1>1, <2>1, <2>2, <2>3 DEF Forgotten, n
<1>5. ASSUME NEW id, id # ev.id, Forgotten(id) PROVE Forgotten(id)'
  <2>1. PICK k \in 1..n : /\ outbox[k].id = id /\ outbox[k].topic = TopicDeleted
                          /\ \A l \in (k + 1)..n : outbox[l].id # id
    BY <1>5 DEF Forgotten, n
  <2>2. \A l \in (k + 1)..(n + 1) : l = n + 1 \/ (l \in (k + 1)..n /\ l \in 1..n)
    BY <1>1, <2>1
  <2>3. k \in 1..(n + 1)
    BY <1>1, <2>1
  <2>4. \A l \in (k + 1)..(n + 1) : outbox'[l].id # id
    BY <1>1, <1>5, <2>1, <2>2
  <2> QED BY <1>1, <2>1, <2>3, <2>4 DEF Forgotten
<1> QED BY <1>2, <1>3, <1>4, <1>5

\* A delete that took effect names a post that was there, by its slug.
LEMMA DeleteNames ==
    ASSUME IInv, NEW ev, Recording(ev), ev.topic = TopicDeleted, DeletesTookEffect'
    PROVE  ev.id \in DOMAIN posts /\ posts[ev.id].slug = ev.slug /\ ~Forgotten(ev.id)
<1> DEFINE n == Len(outbox)
<1>1. /\ n \in Nat /\ Len(outbox') = n + 1
      /\ \A k \in 1..n : outbox'[k] = outbox[k]
      /\ outbox'[n + 1] = ev
  BY ReplayStep DEF IInv
<1> HIDE DEF n
<1>2. PICK j \in 1..n : /\ outbox[j].id = ev.id /\ outbox[j].slug = ev.slug
                        /\ outbox[j].topic # TopicDeleted
                        /\ \A l \in (j + 1)..n : outbox[l].id # ev.id
  <2>1. n + 1 \in 1..(n + 1) /\ (n + 1) - 1 = n
    BY <1>1
  <2>2. PICK j \in 1..n : /\ outbox'[j].id = ev.id /\ outbox'[j].slug = ev.slug
                          /\ outbox'[j].topic # TopicDeleted
                          /\ \A l \in (j + 1)..n : outbox'[l].id # ev.id
    BY <1>1, <2>1 DEF DeletesTookEffect
  <2>3. \A l \in (j + 1)..n : l \in 1..n
    BY <1>1
  <2> QED BY <1>1, <2>2, <2>3
<1>3. \A l \in 1..n : outbox[l].id = ev.id => l <= j
  BY <1>1, <1>2
<1>4. ev.id \in DOMAIN posts
  <2>1. SUFFICES ASSUME ev.id \notin DOMAIN posts PROVE FALSE
    OBVIOUS
  <2>2. PICK l \in (j + 1)..n : outbox[l].id = ev.id
    BY <1>2, <2>1 DEF IInv, OutboxExplainsTable, n
  <2> QED BY <1>2, <2>2
<1>5. posts[ev.id].slug = ev.slug
  <2>1. PICK k \in 1..n : /\ LastWrite(ev.id, k)
                          /\ posts[ev.id] = [slug |-> outbox[k].slug, title |-> outbox[k].title]
    BY <1>4 DEF IInv, OutboxExplainsTable, n
  <2>2. k <= j /\ (k < j => j \in (k + 1)..n)
    BY <1>1, <1>3, <2>1 DEF LastWrite
  <2>3. ~(j \in (k + 1)..n)
    BY <1>2, <2>1 DEF LastWrite, n
  <2>4. k = j
    BY <1>1, <2>2, <2>3
  <2> QED BY <1>2, <2>1, <2>4
<1>6. ~Forgotten(ev.id)
  <2>1. SUFFICES ASSUME Forgotten(ev.id) PROVE FALSE
    OBVIOUS
  <2>2. PICK k \in 1..n : /\ outbox[k].id = ev.id /\ outbox[k].topic = TopicDeleted
                          /\ \A l \in (k + 1)..n : outbox[l].id # ev.id
    BY <2>1 DEF Forgotten, n
  <2>3. k <= j /\ (k < j => j \in (k + 1)..n)
    BY <1>1, <1>3, <2>2
  <2>4. k = j
    BY <1>1, <1>2, <2>2, <2>3
  <2> QED BY <1>2, <2>2, <2>4
<1> QED BY <1>4, <1>5, <1>6

\* A write of a post brings both tables the same row.
LEMMA WriteAgrees ==
    ASSUME AgreeInv, DeletesTookEffect,
           NEW topic \in {TopicCreated, TopicUpdated}, NEW id \in Nat, NEW slug \in Slugs,
           NEW title \in Titles, Writes(topic, id, slug, title)
    PROVE  SamePosts'
<1>1. PICK ev : ev = [topic |-> topic, id |-> id, slug |-> slug, title |-> title]
  OBVIOUS
<1>2. /\ ev.id = id /\ ev.slug = slug /\ ev.title = title /\ ev.topic = topic
      /\ ev.topic # TopicDeleted
      /\ Recording(ev)
  BY <1>1 DEF Writes, RecordEvent, Recording, GoodEvent, Event, TopicCreated, TopicUpdated,
     TopicDeleted
<1>3. PICK t : t = Replayed
  OBVIOUS
<1>4. TypeOK /\ TableP!IsTable(t) /\ SamePosts
  BY <1>3 DEF AgreeInv, IInv
<1>5. topic = TopicCreated => id \notin DOMAIN posts
  BY <1>4 DEF Writes, TypeOK
<1>6. /\ DOMAIN posts' = DOMAIN posts \cup {id}
      /\ posts'[id].slug = slug /\ posts'[id].title = title
      /\ \A o \in DOMAIN posts \ {id} : posts'[o] = posts[o] /\ posts[o].slug # slug
  BY DEF Writes, WithRow, SlugTaken
<1>7. /\ DOMAIN t = {o \in DOMAIN posts : ~Forgotten(o)}
      /\ \A o \in DOMAIN t : t[o].slug = posts[o].slug /\ t[o].title = posts[o].title
  BY <1>3, <1>4 DEF SamePosts
<1>8. TableP!SlugsUnique(t)
  BY <1>7 DEF TableP!SlugsUnique, AgreeInv, UniqueIndex
<1>9. \A o \in DOMAIN t \ {ev.id} : t[o].slug # ev.slug
  BY <1>2, <1>6, <1>7
<1>10. ev.topic = TopicCreated => ev.id \notin DOMAIN t
  BY <1>2, <1>5, <1>7
<1>11. PICK n : n = Apply(t, ev)
  OBVIOUS
<1>12. /\ DOMAIN n = DOMAIN t \cup {id}
       /\ n[id].title = title /\ n[id].slug = slug
       /\ \A o \in DOMAIN t \ {id} : n[o].title = t[o].title /\ n[o].slug = t[o].slug
  <2>1. /\ GoodEvent(ev) /\ TableP!IsTable(t) /\ TableP!SlugsUnique(t)
        /\ ev.topic # TopicDeleted
    BY <1>2, <1>4, <1>8 DEF Recording
  <2>2. /\ DOMAIN Apply(t, ev) = DOMAIN t \cup {ev.id}
        /\ Apply(t, ev)[ev.id].title = ev.title /\ Apply(t, ev)[ev.id].slug = ev.slug
        /\ \A o \in DOMAIN t \ {ev.id} : /\ Apply(t, ev)[o].title = t[o].title
                                         /\ Apply(t, ev)[o].slug = t[o].slug
    BY <1>9, <1>10, <2>1, ApplyWrites
  <2> QED BY <1>2, <1>11, <2>2
<1>13. Replayed' = n
  BY <1>2, <1>3, <1>4, <1>11, ReplayStep
<1>14. \A o : Forgotten(o)' <=> (o # id /\ Forgotten(o))
  BY <1>2, <1>4, ForgottenStep
<1>15. DOMAIN n = {o \in DOMAIN posts' : ~Forgotten(o)'}
  BY <1>6, <1>7, <1>12, <1>14
<1>16. \A o \in DOMAIN n : n[o].slug = posts'[o].slug /\ n[o].title = posts'[o].title
  BY <1>6, <1>7, <1>12
<1> QED BY <1>13, <1>15, <1>16 DEF SamePosts

\* A delete that took effect leaves the same posts in both tables.
LEMMA DeleteAgrees ==
    ASSUME AgreeInv, DeletesTookEffect, DeletesTookEffect',
           NEW id \in Nat, NEW slug \in Slugs, Deletes(id, slug)
    PROVE  SamePosts'
<1>1. PICK ev : ev = [topic |-> TopicDeleted, id |-> id, slug |-> slug, title |-> NoTitle]
  OBVIOUS
<1>2. /\ ev.id = id /\ ev.slug = slug /\ ev.topic = TopicDeleted
      /\ Recording(ev)
  BY <1>1 DEF Deletes, RecordEvent, Recording, GoodEvent, Event
<1>3. PICK t : t = Replayed
  OBVIOUS
<1>4. TypeOK /\ IInv /\ TableP!IsTable(t) /\ SamePosts
  BY <1>3 DEF AgreeInv, IInv
<1>5. id \in DOMAIN posts /\ posts[id].slug = slug /\ ~Forgotten(id)
  BY <1>2, <1>4, DeleteNames
<1>6. /\ \A o : o # id => (o \in DOMAIN posts' <=> o \in DOMAIN posts)
      /\ \A o \in DOMAIN posts \ {id} : posts'[o] = posts[o]
  BY DEF Deletes, WithoutRow
<1>7. /\ DOMAIN t = {o \in DOMAIN posts : ~Forgotten(o)}
      /\ \A o \in DOMAIN t : t[o].slug = posts[o].slug /\ t[o].title = posts[o].title
  BY <1>3, <1>4 DEF SamePosts
<1>8. TableP!SlugsUnique(t)
  BY <1>7 DEF TableP!SlugsUnique, AgreeInv, UniqueIndex
<1>9. \A o : o \in DOMAIN t /\ t[o].slug # slug <=> o \in DOMAIN t \ {id}
  BY <1>5, <1>7 DEF AgreeInv, UniqueIndex
<1>10. PICK n : n = Apply(t, ev)
  OBVIOUS
<1>11. /\ DOMAIN n = DOMAIN t \ {id}
       /\ \A o \in DOMAIN n : n[o].title = t[o].title /\ n[o].slug = t[o].slug
  <2>1. /\ GoodEvent(ev) /\ TableP!IsTable(t) /\ TableP!SlugsUnique(t)
        /\ ev.topic = TopicDeleted
    BY <1>2, <1>4, <1>8 DEF Recording
  <2>2. /\ \A o : o \in DOMAIN Apply(t, ev) <=> o \in DOMAIN t /\ t[o].slug # ev.slug
        /\ \A o \in DOMAIN Apply(t, ev) : /\ Apply(t, ev)[o].title = t[o].title
                                          /\ Apply(t, ev)[o].slug = t[o].slug
    BY <2>1, ApplyDeletes
  <2> QED BY <1>2, <1>9, <1>10, <2>2
<1>12. Replayed' = n
  BY <1>2, <1>3, <1>4, <1>10, ReplayStep
<1>13. \A o : Forgotten(o)' <=> (o = id \/ Forgotten(o))
  BY <1>2, <1>4, ForgottenStep
<1>14. DOMAIN n = {o \in DOMAIN posts' : ~Forgotten(o)'}
  BY <1>6, <1>7, <1>11, <1>13
<1>15. \A o \in DOMAIN n : n[o].slug = posts'[o].slug /\ n[o].title = posts'[o].title
  BY <1>6, <1>7, <1>11
<1> QED BY <1>12, <1>14, <1>15 DEF SamePosts

\* What is said of the deletes so far stays true of them.
LEMMA DeletesPersist ==
    ASSUME TypeOK, NEW ev, Recording(ev), DeletesTookEffect'
    PROVE  DeletesTookEffect
<1> DEFINE n == Len(outbox)
<1>1. /\ n \in Nat /\ Len(outbox') = n + 1
      /\ \A k \in 1..n : outbox'[k] = outbox[k]
  BY ReplayStep
<1> HIDE DEF n
<1>2. SUFFICES ASSUME NEW k \in 1..n, outbox[k].topic = TopicDeleted
               PROVE  \E j \in 1..(k - 1) :
                        /\ outbox[j].id = outbox[k].id /\ outbox[j].slug = outbox[k].slug
                        /\ outbox[j].topic # TopicDeleted
                        /\ \A l \in (j + 1)..(k - 1) : outbox[l].id # outbox[k].id
  BY DEF DeletesTookEffect, n
<1>3. k \in 1..(n + 1) /\ outbox'[k] = outbox[k]
  BY <1>1
<1>4. PICK j \in 1..(k - 1) :
        /\ outbox'[j].id = outbox'[k].id /\ outbox'[j].slug = outbox'[k].slug
        /\ outbox'[j].topic # TopicDeleted
        /\ \A l \in (j + 1)..(k - 1) : outbox'[l].id # outbox'[k].id
  BY <1>1, <1>2, <1>3 DEF DeletesTookEffect
<1>5. j \in 1..n /\ \A l \in (j + 1)..(k - 1) : l \in 1..n
  BY <1>1
<1> QED BY <1>1, <1>3, <1>4, <1>5

LEMMA InitAgreeInv == Init => AgreeInv
<1> SUFFICES ASSUME Init PROVE AgreeInv
  OBVIOUS
<1>1. DOMAIN posts = {} /\ DOMAIN Replayed = {} /\ TableP!IsTable(Replayed)
  BY ReplayInit DEF Init
<1> QED BY <1>1, InitIInv DEF AgreeInv, UniqueIndex, SamePosts

LEMMA StepAgreeInv == AgreeInv /\ [Next]_vars => AgreeInv'
<1> SUFFICES ASSUME AgreeInv, [Next]_vars PROVE AgreeInv'
  OBVIOUS
<1>1. IInv /\ TypeOK
  BY DEF AgreeInv, IInv
<1>2. IInv'
  BY <1>1, StepIInv
<1>3. UniqueIndex' /\ TableP!IsTable(Replayed')
  BY <1>1, StepUniqueIndex, ReplayTable DEF AgreeInv
<1>4. ASSUME DeletesTookEffect' PROVE SamePosts'
  <2>1. CASE UNCHANGED <<posts, outbox>>
    <3>1. DeletesTookEffect
      BY <1>4, <2>1 DEF DeletesTookEffect
    <3>2. SamePosts
      BY <3>1 DEF AgreeInv
    <3> QED BY <2>1, <3>2 DEF SamePosts, Replayed, Forgotten
  <2>2. ASSUME NEW ev, Recording(ev) PROVE DeletesTookEffect
    BY <1>1, <1>4, <2>2, DeletesPersist
  <2>3. CASE ~UNCHANGED <<posts, outbox>>
    <3>1. DeletesTookEffect
      BY <1>1, <2>2, <2>3, StepRecording
    <3> QED BY <1>1, <1>4, <2>3, <3>1, StepRecords, WriteAgrees, DeleteAgrees
  <2> QED BY <2>1, <2>3
<1> QED BY <1>2, <1>3, <1>4 DEF AgreeInv

\* Current deletes took effect, and their posts did not come back unnoticed.
LEMMA CurrentDeletes ==
    ASSUME DeletesAreCurrent, TypeOK
    PROVE  DeletesTookEffect /\ \A id \in DOMAIN posts : ~Forgotten(id)
<1>1. DeletesTookEffect
  BY DEF DeletesAreCurrent, DeletesTookEffect
<1>2. \A id \in DOMAIN posts : ~Forgotten(id)
  BY DEF DeletesAreCurrent, Forgotten
<1> QED BY <1>1, <1>2

\* Replaying the outbox of the posts service gives the related service the same
\* posts, for any number of workers, requests and posts, as long as no destroy
\* was overtaken.
THEOREM ReplayGivesTheSamePosts == Spec => []ReplayAgrees
<1>1. ASSUME AgreeInv PROVE ReplayAgrees
  <2>1. SUFFICES ASSUME DeletesAreCurrent
                 PROVE  /\ DOMAIN Replayed = DOMAIN posts
                        /\ \A id \in DOMAIN posts :
                             /\ Replayed[id].slug = posts[id].slug
                             /\ Replayed[id].title = posts[id].title
    BY DEF ReplayAgrees
  <2>2. SamePosts /\ \A id \in DOMAIN posts : ~Forgotten(id)
    BY <1>1, <2>1, CurrentDeletes DEF AgreeInv, IInv
  <2> QED BY <2>2 DEF SamePosts
<1> QED BY <1>1, InitAgreeInv, StepAgreeInv, PTL DEF Spec

-----------------------------------------------------------------------------
(* The replayed posts are related, renames included. *)

\* A replayed post has the slug of an event of its own.
SlugRecorded ==
    \A i \in DOMAIN Replayed : \E k \in 1..Len(outbox) :
        outbox[k].id = i /\ outbox[k].slug = Replayed[i].slug

RelateInv ==
    /\ IInv
    /\ TableP!IsTable(Replayed)
    /\ SlugRecorded
    /\ TableP!SlugsUnique(Replayed)
    /\ \A id \in DOMAIN Replayed : ~Renamed(id) => TableP!Referenced(Replayed, id)
    /\ TableP!NoDanglingBut(Replayed, OldSlugs)

LEMMA InitRelateInv == Init => RelateInv
<1> SUFFICES ASSUME Init PROVE RelateInv
  OBVIOUS
<1>1. DOMAIN Replayed = {} /\ TableP!IsTable(Replayed)
  BY ReplayInit
<1> QED BY <1>1, InitIInv DEF RelateInv, SlugRecorded, TableP!SlugsUnique, TableP!NoDanglingBut

\* A renamed post stays one, and its old slugs old.
LEMMA RenamedStays ==
    ASSUME IInv, NEW ev, Recording(ev)
    PROVE  /\ \A id : Renamed(id) => Renamed(id)'
           /\ OldSlugs \subseteq OldSlugs'
           /\ \A k \in 1..Len(outbox) :
                outbox[k].id = ev.id /\ outbox[k].slug # ev.slug =>
                    Renamed(ev.id)' /\ outbox[k].slug \in OldSlugs'
<1>1. /\ Len(outbox) \in Nat /\ Len(outbox') = Len(outbox) + 1
      /\ \A k \in 1..Len(outbox) : outbox'[k] = outbox[k]
      /\ outbox'[Len(outbox) + 1] = ev
  BY ReplayStep DEF IInv
<1>2. /\ \A k \in 1..Len(outbox) : k \in 1..Len(outbox')
      /\ Len(outbox) + 1 \in 1..Len(outbox')
  BY <1>1
<1>3. ASSUME NEW id, Renamed(id) PROVE Renamed(id)'
  BY <1>1, <1>2, <1>3 DEF Renamed
<1>4. ASSUME NEW k \in 1..Len(outbox), NEW id, id = outbox[k].id, Renamed(id)'
      PROVE  outbox[k].slug \in OldSlugs'
  BY <1>1, <1>2, <1>4 DEF OldSlugs
<1>5. OldSlugs \subseteq OldSlugs'
  BY <1>3, <1>4 DEF OldSlugs
<1>6. ASSUME NEW k \in 1..Len(outbox), outbox[k].id = ev.id, outbox[k].slug # ev.slug
      PROVE  Renamed(ev.id)' /\ outbox[k].slug \in OldSlugs'
  <2>1. PICK id : id = ev.id
    OBVIOUS
  <2>2. Renamed(id)'
    BY <1>1, <1>2, <1>6, <2>1 DEF Renamed
  <2> QED BY <1>4, <1>6, <2>1, <2>2
<1> QED BY <1>3, <1>5, <1>6

\* One more event.
LEMMA RelateStep ==
    ASSUME RelateInv, NEW ev, Recording(ev)
    PROVE  /\ SlugRecorded'
           /\ TableP!SlugsUnique(Replayed')
           /\ \A id \in DOMAIN Replayed' : ~Renamed(id)' => TableP!Referenced(Replayed', id)
           /\ TableP!NoDanglingBut(Replayed', OldSlugs')
<1> DEFINE n == Len(outbox)
<1>1. /\ n \in Nat /\ Len(outbox') = n + 1
      /\ \A k \in 1..n : outbox'[k] = outbox[k]
      /\ outbox'[n + 1] = ev
      /\ Replayed' = Apply(Replayed, ev)
  BY ReplayStep DEF RelateInv, IInv
<1>2. /\ \A id : Renamed(id) => Renamed(id)'
      /\ OldSlugs \subseteq OldSlugs'
      /\ \A k \in 1..n : outbox[k].id = ev.id /\ outbox[k].slug # ev.slug =>
                             Renamed(ev.id)' /\ outbox[k].slug \in OldSlugs'
  BY RenamedStays DEF RelateInv
<1>3. PICK t : t = Replayed
  OBVIOUS
<1>4. PICK new : new = TableP!Handle(t, ev)
  OBVIOUS
<1>5. PICK old : old = OldSlugs'
  OBVIOUS
<1>6. /\ TableP!IsTable(t) /\ TableP!SlugsUnique(t)
      /\ \A id \in DOMAIN t : ~Renamed(id) => TableP!Referenced(t, id)
      /\ TableP!NoDanglingBut(t, OldSlugs)
  BY <1>3 DEF RelateInv
<1>7. \A i \in DOMAIN t : \E k \in 1..n : outbox[k].id = i /\ outbox[k].slug = t[i].slug
  BY <1>3 DEF RelateInv, SlugRecorded
<1> HIDE DEF n
<1>8. GoodEvent(ev) /\ TableP!IsEvent(ev)
  BY EventIs DEF Recording
<1>9. TableP!NoDanglingBut(t, old)
  BY <1>2, <1>5, <1>6 DEF TableP!NoDanglingBut
<1>10. ASSUME TableP!SlugsUnique(new), NEW j \in DOMAIN new, ~Renamed(j)'
       PROVE  TableP!Referenced(new, j)
  <2>1. j = ev.id /\ j \in DOMAIN t => ev.slug = t[j].slug
    BY <1>2, <1>7, <1>10
  <2>2. j \in DOMAIN t => TableP!Referenced(t, j)
    BY <1>2, <1>6, <1>10
  <2>3. TableP!SlugsUnique(TableP!Handle(t, ev)) /\ j \in DOMAIN TableP!Handle(t, ev)
    BY <1>4, <1>10
  <2>4. TableP!Referenced(TableP!Handle(t, ev), j)
    BY <1>6, <1>8, <2>1, <2>2, <2>3, TableP!HandleReferences, StripAssumption
  <2> QED BY <1>4, <2>4
<1>11. ASSUME TableP!SlugsUnique(new) PROVE TableP!NoDanglingBut(new, old)
  <2>1. ev.id \in DOMAIN t => t[ev.id].slug \in {ev.slug} \cup old
    BY <1>2, <1>5, <1>7
  <2>2. TableP!SlugsUnique(TableP!Handle(t, ev))
    BY <1>4, <1>11
  <2>3. TableP!NoDanglingBut(TableP!Handle(t, ev), old)
    BY <1>6, <1>8, <1>9, <2>1, <2>2, TableP!HandleDangles, StripAssumption
  <2> QED BY <1>4, <2>3
<1>12. \A i \in DOMAIN new : \/ i = ev.id /\ new[i].slug = ev.slug
                             \/ i \in DOMAIN t /\ new[i].slug = t[i].slug
  <2>1. \A i \in DOMAIN TableP!Handle(t, ev) :
          \/ i = ev.id /\ TableP!Handle(t, ev)[i].slug = ev.slug
          \/ i \in DOMAIN t /\ TableP!Handle(t, ev)[i].slug = t[i].slug
    BY <1>6, <1>8, TableP!HandleSlugs, StripAssumption
  <2> QED BY <1>4, <2>1
<1>13. Replayed' = IF TableP!SlugsUnique(new) THEN new ELSE t
  <2>1. Apply(t, ev) = IF TableP!SlugsUnique(new) THEN new ELSE t
    BY <1>4, <1>6, <1>8, ApplyIs
  <2> QED BY <1>1, <1>3, <2>1
<1>14. PICK r : r = Replayed'
  OBVIOUS
<1>15. /\ TableP!SlugsUnique(r)
       /\ \A id \in DOMAIN r : ~Renamed(id)' => TableP!Referenced(r, id)
       /\ TableP!NoDanglingBut(r, old)
  <2>1. CASE TableP!SlugsUnique(new)
    BY <1>10, <1>11, <1>13, <1>14, <2>1
  <2>2. CASE ~TableP!SlugsUnique(new)
    BY <1>2, <1>6, <1>9, <1>13, <1>14, <2>2
  <2> QED BY <2>1, <2>2
<1>16. \A i \in DOMAIN r : \E k \in 1..(n + 1) : outbox'[k].id = i /\ outbox'[k].slug = r[i].slug
  <2> SUFFICES ASSUME NEW i \in DOMAIN r
               PROVE  \E k \in 1..(n + 1) : outbox'[k].id = i /\ outbox'[k].slug = r[i].slug
    OBVIOUS
  <2>1. \/ i = ev.id /\ r[i].slug = ev.slug
        \/ i \in DOMAIN t /\ r[i].slug = t[i].slug
    BY <1>12, <1>13, <1>14
  <2>2. CASE i = ev.id /\ r[i].slug = ev.slug
    BY <1>1, <2>2
  <2>3. CASE i \in DOMAIN t /\ r[i].slug = t[i].slug
    BY <1>1, <1>7, <2>3
  <2> QED BY <2>1, <2>2, <2>3
<1> QED BY <1>1, <1>5, <1>14, <1>15, <1>16 DEF SlugRecorded

LEMMA StepRelateInv == RelateInv /\ [Next]_vars => RelateInv'
<1> SUFFICES ASSUME RelateInv, [Next]_vars PROVE RelateInv'
  OBVIOUS
<1>1. IInv' /\ TableP!IsTable(Replayed')
  BY StepIInv, ReplayTable DEF RelateInv
<1>2. /\ SlugRecorded'
      /\ TableP!SlugsUnique(Replayed')
      /\ \A id \in DOMAIN Replayed' : ~Renamed(id)' => TableP!Referenced(Replayed', id)
      /\ TableP!NoDanglingBut(Replayed', OldSlugs')
  <2>1. CASE UNCHANGED <<posts, outbox>>
    BY <2>1 DEF RelateInv, SlugRecorded, Replayed, Renamed, OldSlugs
  <2> QED BY <2>1, StepRecording, RelateStep DEF RelateInv
<1> QED BY <1>1, <1>2 DEF RelateInv

\* A replayed post has its score, of the current titles, in every other one, for
\* any number of posts, edits, renames and deletes, as long as no update has
\* changed its own slug.
THEOREM ReplayKeepsScoresMutual == Spec => []ReplayRelatesBothWays
<1>1. RelateInv => ReplayRelatesBothWays
  BY SameTable DEF RelateInv, ReplayRelatesBothWays
<1> QED BY <1>1, InitRelateInv, StepRelateInv, PTL DEF Spec

\* No replayed post refers to a slug no post has, other than one an update has
\* changed, for any deletes and however slugs are used again.
THEOREM ReplayLosesNoReference == Spec => []ReplayNoDangling
<1>1. RelateInv => ReplayNoDangling
  BY SameTable DEF RelateInv, ReplayNoDangling
<1> QED BY <1>1, InitRelateInv, StepRelateInv, PTL DEF Spec

-----------------------------------------------------------------------------
(* The ids and slugs of the events: what the related service can tell from   *)
(* the outbox alone.                                                         *)

\* An event is of a post the sequence has given an id.
GivenOut ==
    \A k \in 1..Len(outbox) : outbox[k].id \in 1..(nextId - 1) /\ GoodEvent(outbox[k])

\* The create is the first event of its post.
CreatedFirst ==
    \A k \in 1..Len(outbox) : outbox[k].topic = TopicCreated =>
        \A j \in 1..(k - 1) : outbox[j].id # outbox[k].id

\* The worker has looked its post up.
OfPost(t) == t.pc \in {"validate", "update", "destroy", "record"}

\* All events of a post have one slug.
NeverRenamed ==
    \A j, k \in 1..Len(outbox) : outbox[j].id = outbox[k].id => outbox[j].slug = outbox[k].slug

\* The post of the task has events, with the slug of the task.
Evented(t, events) ==
    /\ \E k \in 1..Len(events) : events[k].id = t.id
    /\ \A k \in 1..Len(events) : events[k].id = t.id => events[k].slug = t.slug

TasksEvented == \A w \in Workers : OfPost(task[w]) => Evented(task[w], outbox)

EventsInv == /\ IInv
             /\ UniqueIndex
             /\ GivenOut
             /\ CreatedFirst
             /\ ~Renames => NeverRenamed /\ TasksEvented

\* What a step of a worker does to its task: it goes on with the post it has,
\* looks one up, or works on none; and an event is of a new id or of the task.
Continues(t, u) == OfPost(u) => OfPost(t) /\ u.id = t.id /\ u.slug = t.slug

LooksUp(u) ==
    u.id \in DOMAIN posts /\ (~Renames => u.slug = posts[u.id].slug)

RecordsNew(ev) ==
    /\ ev.id = nextId /\ nextId' = nextId + 1

RecordsOf(t, ev) ==
    /\ OfPost(t) /\ ev.id = t.id /\ ev.slug = t.slug /\ ev.topic # TopicCreated
    /\ nextId' = nextId

LEMMA StepOfTask ==
    ASSUME IInv, [Next]_vars
    PROVE  \/ UNCHANGED <<outbox, nextId, task>>
           \/ \E w \in Workers : \E u :
                /\ task' = [task EXCEPT ![w] = u]
                /\ Continues(task[w], u) \/ LooksUp(u)
                /\ outbox' = outbox /\ nextId' \in {nextId, nextId + 1}
           \/ \E w \in Workers : \E ev :
                /\ task' = [task EXCEPT ![w] = Idle]
                /\ Recording(ev)
                /\ RecordsNew(ev) \/ RecordsOf(task[w], ev)
<1> DEFINE Free(w) == \E u : /\ task' = [task EXCEPT ![w] = u]
                             /\ Continues(task[w], u) \/ LooksUp(u)
                             /\ outbox' = outbox
                             /\ nextId' \in {nextId, nextId + 1}
           Bound(w) == \E ev : /\ task' = [task EXCEPT ![w] = Idle]
                               /\ Recording(ev)
                               /\ RecordsNew(ev) \/ RecordsOf(task[w], ev)
<1>0. /\ task \in [Workers -> Task] /\ TaskOK /\ TypeOK
      /\ ~OfPost(Idle)
  BY DEF IInv, TypeOK, OfPost, Idle
<1>1. ASSUME NEW w \in Workers, CreateSave(w) PROVE Bound(w)
  <2>1. task[w].slug \in Slugs /\ task[w].title \in Titles
    BY <1>0, <1>1 DEF CreateSave, Serving, TaskOK, GoodTask
  <2>2. [topic |-> TopicCreated, id |-> nextId, slug |-> task[w].slug,
         title |-> task[w].title] \in Event
    BY <1>0, <2>1 DEF TypeOK, Event
  <2> QED BY <1>1, <2>1, <2>2 DEF CreateSave, Finish, RecordEvent, Recording, GoodEvent, RecordsNew
<1>2. ASSUME NEW w \in Workers, UpdateSave(w) \/ DestroyDeletes(w) \/ DestroyRecords(w)
      PROVE  Bound(w)
  <2>1. /\ OfPost(task[w]) /\ task[w].slug \in Slugs /\ task[w].id \in Nat
        /\ UpdateSave(w) => task[w].title \in Titles
    BY <1>0, <1>2 DEF UpdateSave, DestroyDeletes, DestroyRecords, Serving, TaskOK, GoodTask, OfPost
  <2>2. TopicUpdated # TopicCreated /\ TopicDeleted # TopicCreated
    BY DEF TopicCreated, TopicUpdated, TopicDeleted
  <2>3. CASE UpdateSave(w)
    <3>1. PICK ev : ev = [topic |-> TopicUpdated, id |-> task[w].id, slug |-> task[w].slug,
                          title |-> task[w].title]
      OBVIOUS
    <3>2. GoodEvent(ev)
      BY <2>1, <2>3, <3>1 DEF Event, GoodEvent
    <3>3. Recording(ev) /\ RecordsOf(task[w], ev)
      BY <2>1, <2>2, <2>3, <3>1, <3>2 DEF UpdateSave, RecordEvent, Recording, RecordsOf
    <3> QED BY <2>3, <3>3 DEF UpdateSave, Finish
  <2>4. CASE DestroyDeletes(w) \/ DestroyRecords(w)
    <3>1. PICK ev : ev = [topic |-> TopicDeleted, id |-> task[w].id, slug |-> task[w].slug,
                          title |-> NoTitle]
      OBVIOUS
    <3>2. GoodEvent(ev)
      BY <2>1, <3>1 DEF Event, GoodEvent
    <3>3. Recording(ev) /\ RecordsOf(task[w], ev)
      BY <2>1, <2>2, <2>4, <3>1, <3>2 DEF DestroyDeletes, DestroyRecords, RecordEvent,
         Recording, RecordsOf
    <3> QED BY <2>4, <3>3 DEF DestroyDeletes, DestroyRecords, Finish
  <2> QED BY <1>2, <2>3, <2>4
<1>3. ASSUME NEW w \in Workers, CreateConflict(w) \/ UpdateConflict(w) \/ Abort(w)
      PROVE  Free(w)
  BY <1>0, <1>3 DEF CreateConflict, UpdateConflict, Abort, Finish, Continues
<1>4. ASSUME NEW w \in Workers, NEW slug \in Slugs, NEW title \in Titles,
             CreateValidate(w, slug, title)
      PROVE  Free(w)
  <2>1. PICK u : u = [pc |-> "create", id |-> 0, slug |-> slug, title |-> title]
    OBVIOUS
  <2>2. ~OfPost(u)
    BY <2>1 DEF OfPost
  <2>3. task' = [task EXCEPT ![w] = u] /\ outbox' = outbox /\ nextId' = nextId
    BY <1>4, <2>1 DEF CreateValidate, Accept
  <2> QED BY <2>2, <2>3 DEF Continues
<1>5. ASSUME NEW w \in Workers, NEW slug \in Slugs, NEW title \in Titles,
             NEW id \in DOMAIN posts, UpdateLookup(w, id, slug, title)
      PROVE  Free(w)
  <2>1. PICK u : u = [pc |-> "validate", id |-> id, slug |-> slug, title |-> title]
    OBVIOUS
  <2>2. LooksUp(u)
    BY <1>5, <2>1 DEF UpdateLookup, LooksUp
  <2>3. task' = [task EXCEPT ![w] = u] /\ outbox' = outbox /\ nextId' = nextId
    BY <1>5, <2>1 DEF UpdateLookup, Accept
  <2> QED BY <2>2, <2>3
<1>6. ASSUME NEW w \in Workers, NEW id \in DOMAIN posts, DestroyLookup(w, id)
      PROVE  Free(w)
  <2>1. PICK u : u = [pc |-> "destroy", id |-> id, slug |-> posts[id].slug, title |-> NoTitle]
    OBVIOUS
  <2>2. LooksUp(u)
    BY <2>1 DEF LooksUp
  <2>3. task' = [task EXCEPT ![w] = u] /\ outbox' = outbox /\ nextId' = nextId
    BY <1>6, <2>1 DEF DestroyLookup, Accept
  <2> QED BY <2>2, <2>3
<1>7. ASSUME NEW w \in Workers, UpdateValidate(w) PROVE Free(w)
  <2>1. task[w].pc = "validate" /\ task[w] \in Task
    BY <1>0, <1>7 DEF UpdateValidate, Serving
  <2>2. PICK u : u = IF SlugTaken(task[w].slug, task[w].id) THEN Idle
                     ELSE [task[w] EXCEPT !.pc = "update"]
    OBVIOUS
  <2>3. Continues(task[w], u)
    BY <1>0, <2>1, <2>2 DEF Continues, OfPost, Task
  <2>4. task' = [task EXCEPT ![w] = u] /\ outbox' = outbox /\ nextId' = nextId
    BY <1>7, <2>2 DEF UpdateValidate
  <2> QED BY <2>3, <2>4
<1>8. ASSUME NEW w \in Workers, DestroyFindsNothing(w) PROVE Free(w)
  <2>1. task[w].pc = "destroy" /\ task[w] \in Task
    BY <1>0, <1>8 DEF DestroyFindsNothing, Serving
  <2>2. PICK u : u = [task[w] EXCEPT !.pc = "record"]
    OBVIOUS
  <2>3. Continues(task[w], u)
    BY <2>1, <2>2 DEF Continues, OfPost, Task
  <2>4. task' = [task EXCEPT ![w] = u] /\ outbox' = outbox /\ nextId' = nextId
    BY <1>8, <2>2 DEF DestroyFindsNothing
  <2> QED BY <2>3, <2>4
<1>9. UNCHANGED vars => UNCHANGED <<outbox, nextId, task>>
  BY DEF vars
<1> HIDE DEF Free, Bound
<1>10. ASSUME Next PROVE \E w \in Workers : Free(w) \/ Bound(w)
  <2>1. PICK w \in Workers :
          \/ \E slug \in Slugs, title \in Titles :
                 \/ CreateValidate(w, slug, title)
                 \/ \E id \in DOMAIN posts : UpdateLookup(w, id, slug, title)
          \/ \E id \in DOMAIN posts : DestroyLookup(w, id)
          \/ CreateSave(w) \/ CreateConflict(w)
          \/ UpdateValidate(w) \/ UpdateSave(w) \/ UpdateConflict(w)
          \/ DestroyDeletes(w) \/ DestroyFindsNothing(w) \/ DestroyRecords(w)
          \/ Abort(w)
    BY <1>10 DEF Next
  <2>2. Free(w) \/ Bound(w)
    BY <1>1, <1>2, <1>3, <1>4, <1>5, <1>6, <1>7, <1>8, <2>1
  <2> QED BY <2>2
<1>11. \/ UNCHANGED <<outbox, nextId, task>>
       \/ \E w \in Workers : Free(w) \/ Bound(w)
  BY <1>9, <1>10
<1> QED BY <1>11 DEF Free, Bound

LEMMA InitEventsInv == Init => EventsInv
<1> SUFFICES ASSUME Init PROVE EventsInv
  OBVIOUS
<1>1. outbox = <<>> /\ DOMAIN posts = {} /\ \A w \in Workers : ~OfPost(task[w])
  BY DEF Init, OfPost, Idle
<1>2. UniqueIndex /\ GivenOut /\ CreatedFirst /\ NeverRenamed /\ TasksEvented
  BY <1>1 DEF UniqueIndex, GivenOut, CreatedFirst, NeverRenamed, TasksEvented
<1> QED BY <1>2, InitIInv DEF EventsInv

\* A post in the table has events, with the slug of the row.
LEMMA PostEvented ==
    ASSUME IInv, NeverRenamed, NEW id \in DOMAIN posts, NEW u, u.id = id,
           u.slug = posts[id].slug
    PROVE  Evented(u, outbox)
<1>1. PICK k \in 1..Len(outbox) :
        outbox[k].id = id /\ posts[id] = [slug |-> outbox[k].slug, title |-> outbox[k].title]
  BY DEF IInv, OutboxExplainsTable, LastWrite
<1> QED BY <1>1 DEF NeverRenamed, Evented

\* The events of a new post, and one more event of a post that has some.
LEMMA RecordingEvents ==
    ASSUME EventsInv, NEW w \in Workers, NEW ev, Recording(ev),
           task' = [task EXCEPT ![w] = Idle],
           RecordsNew(ev) \/ RecordsOf(task[w], ev)
    PROVE  GivenOut' /\ CreatedFirst' /\ (~Renames => NeverRenamed' /\ TasksEvented')
<1> DEFINE n == Len(outbox)
<1>1. /\ n \in Nat /\ Len(outbox') = n + 1
      /\ \A k \in 1..n : outbox'[k] = outbox[k]
      /\ outbox'[n + 1] = ev
  BY ReplayStep DEF EventsInv, IInv
<1>2. /\ TypeOK /\ TaskOK /\ task \in [Workers -> Task] /\ nextId \in Nat \ {0}
      /\ GivenOut /\ CreatedFirst
  BY DEF EventsInv, IInv, TypeOK
<1>3. GoodEvent(ev)
  BY DEF Recording
<1>4. /\ \A k \in 1..n : outbox[k].id \in 1..(nextId - 1) /\ GoodEvent(outbox[k])
      /\ \A k \in 1..n : outbox[k].topic = TopicCreated =>
            \A j \in 1..(k - 1) : outbox[j].id # outbox[k].id
  BY <1>2 DEF GivenOut, CreatedFirst
<1>5. ~Renames => /\ \A j, k \in 1..n : outbox[j].id = outbox[k].id => outbox[j].slug = outbox[k].slug
                  /\ TasksEvented
  BY DEF EventsInv, NeverRenamed
<1>6. nextId' \in {nextId, nextId + 1} /\ ev.id \in 1..(nextId' - 1)
  <2>1. CASE RecordsNew(ev)
    BY <1>2, <2>1 DEF RecordsNew
  <2>2. CASE RecordsOf(task[w], ev)
    BY <1>2, <2>2 DEF RecordsOf, OfPost, TaskOK, GoodTask
  <2> QED BY <2>1, <2>2
<1>7. \A k \in 1..n : RecordsNew(ev) => outbox[k].id # ev.id
  BY <1>2, <1>4 DEF RecordsNew
<1> HIDE DEF n
<1>8. GivenOut'
  <2>1. ASSUME NEW k \in 1..(n + 1)
        PROVE  outbox'[k].id \in 1..(nextId' - 1) /\ GoodEvent(outbox'[k])
    <3>1. CASE k \in 1..n
      <4>1. outbox[k].id \in 1..(nextId - 1) /\ GoodEvent(outbox[k])
        BY <1>4, <3>1
      <4>2. outbox[k].id \in 1..(nextId' - 1)
        BY <1>2, <1>6, <4>1
      <4> QED BY <1>1, <3>1, <4>1, <4>2
    <3>2. CASE k = n + 1
      BY <1>1, <1>3, <1>6, <3>2
    <3> QED BY <1>1, <3>1, <3>2
  <2> QED BY <1>1, <2>1 DEF GivenOut
<1>9. CreatedFirst'
  <2>1. ASSUME NEW k \in 1..(n + 1), outbox'[k].topic = TopicCreated, NEW j \in 1..(k - 1)
        PROVE  outbox'[j].id # outbox'[k].id
    <3>1. j \in 1..n
      BY <1>1
    <3>2. CASE k \in 1..n
      BY <1>1, <1>4, <2>1, <3>1, <3>2
    <3>3. CASE k = n + 1
      <4>1. RecordsNew(ev)
        BY <1>1, <2>1, <3>3 DEF RecordsOf
      <4> QED BY <1>1, <1>7, <3>1, <3>3, <4>1
    <3> QED BY <1>1, <3>2, <3>3
  <2> QED BY <1>1, <2>1 DEF CreatedFirst
<1>10. ASSUME ~Renames PROVE \A k \in 1..n : outbox[k].id = ev.id => outbox[k].slug = ev.slug
  <2>1. CASE RecordsNew(ev)
    BY <1>7, <2>1
  <2>2. CASE RecordsOf(task[w], ev)
    BY <1>5, <1>10, <2>2 DEF RecordsOf, TasksEvented, Evented, n
  <2> QED BY <2>1, <2>2
<1>11. ASSUME ~Renames PROVE NeverRenamed'
  <2>1. ASSUME NEW j \in 1..(n + 1), NEW k \in 1..(n + 1), outbox'[j].id = outbox'[k].id
        PROVE  outbox'[j].slug = outbox'[k].slug
    <3>1. \A l \in 1..(n + 1) : l = n + 1 \/ l \in 1..n
      BY <1>1
    <3> QED BY <1>1, <1>5, <1>10, <1>11, <2>1, <3>1
  <2> QED BY <1>1, <2>1 DEF NeverRenamed
<1>12. ASSUME ~Renames PROVE TasksEvented'
  <2> SUFFICES ASSUME NEW v \in Workers, OfPost(task'[v])
               PROVE  Evented(task'[v], outbox')
    BY DEF TasksEvented
  <2>1. v # w /\ task'[v] = task[v]
    BY <1>2 DEF OfPost, Idle
  <2>2. Evented(task[v], outbox)
    BY <1>5, <1>12, <2>1 DEF TasksEvented
  <2>3. PICK k \in 1..n : outbox[k].id = task[v].id /\ outbox[k].slug = task[v].slug
    BY <2>2 DEF Evented, n
  <2>4. ev.id = task[v].id => ev.slug = task[v].slug
    BY <1>10, <1>12, <2>3
  <2>5. \A l \in 1..(n + 1) : outbox'[l].id = task[v].id => outbox'[l].slug = task[v].slug
    <3>1. \A l \in 1..(n + 1) : l = n + 1 \/ l \in 1..n
      BY <1>1
    <3> QED BY <1>1, <2>2, <2>4, <3>1 DEF Evented, n
  <2>6. k \in 1..(n + 1) /\ outbox'[k].id = task[v].id
    BY <1>1, <2>3
  <2> QED BY <1>1, <2>1, <2>5, <2>6 DEF Evented
<1> QED BY <1>8, <1>9, <1>11, <1>12

LEMMA StepEventsInv == EventsInv /\ [Next]_vars => EventsInv'
<1> SUFFICES ASSUME EventsInv, [Next]_vars PROVE EventsInv'
  OBVIOUS
<1>1. /\ IInv /\ TaskOK /\ task \in [Workers -> Task] /\ nextId \in Nat \ {0}
      /\ ~OfPost(Idle)
  BY DEF EventsInv, IInv, TypeOK, OfPost, Idle
<1>2. IInv' /\ UniqueIndex'
  BY <1>1, StepIInv, StepUniqueIndex DEF EventsInv
<1>3. ASSUME outbox' = outbox, nextId' \in {nextId, nextId + 1}
      PROVE  GivenOut' /\ CreatedFirst' /\ (~Renames => NeverRenamed')
  <2>1. GivenOut'
    BY <1>1, <1>3 DEF EventsInv, GivenOut
  <2> QED BY <1>3, <2>1 DEF EventsInv, CreatedFirst, NeverRenamed
<1>4. CASE UNCHANGED <<outbox, nextId, task>>
  <2>1. ~Renames => TasksEvented'
    BY <1>4 DEF EventsInv, TasksEvented
  <2> QED BY <1>2, <1>3, <1>4, <2>1 DEF EventsInv
<1>5. ASSUME NEW w \in Workers, NEW u, task' = [task EXCEPT ![w] = u],
             Continues(task[w], u) \/ LooksUp(u),
             outbox' = outbox, nextId' \in {nextId, nextId + 1}
      PROVE  EventsInv'
  <2>1. ASSUME ~Renames PROVE TasksEvented'
    <3>1. ASSUME OfPost(u) PROVE Evented(u, outbox)
      <4>1. CASE Continues(task[w], u)
        BY <2>1, <3>1, <4>1 DEF Continues, EventsInv, TasksEvented, Evented
      <4>2. CASE LooksUp(u)
        BY <1>1, <2>1, <4>2, PostEvented DEF LooksUp, EventsInv
      <4> QED BY <1>5, <4>1, <4>2
    <3>2. \A v \in Workers : task'[v] = IF v = w THEN u ELSE task[v]
      BY <1>1, <1>5
    <3> QED BY <1>5, <2>1, <3>1, <3>2 DEF EventsInv, TasksEvented
  <2> QED BY <1>2, <1>3, <1>5, <2>1 DEF EventsInv
<1>6. ASSUME NEW w \in Workers, NEW ev, task' = [task EXCEPT ![w] = Idle], Recording(ev),
             RecordsNew(ev) \/ RecordsOf(task[w], ev)
      PROVE  EventsInv'
  BY <1>2, <1>6, RecordingEvents DEF EventsInv
<1> QED BY <1>1, <1>4, <1>5, <1>6, StepOfTask

\* As long as no update carries a new slug, all events of a post have one slug,
\* however requests for it overlap; the create comes first.
THEOREM EventsKeepSlugs == Spec => [](~Renames => NeverRenamed)
<1>1. EventsInv => (~Renames => NeverRenamed)
  BY DEF EventsInv
<1> QED BY <1>1, InitEventsInv, StepEventsInv, PTL DEF Spec

-----------------------------------------------------------------------------
(* The bound on requests bounds the ids. *)

\* The workers that may yet use an id of the sequence.
Creating == {w \in Workers : task[w].pc = "create"}

Counted ==
    /\ IsFiniteSet(Creating)
    /\ nextId + Cardinality(Creating) <= requests + 1
    /\ requests <= MaxRequests

CountInv == TypeOK /\ Counted

LEMMA InitCountInv == Init => CountInv
<1> SUFFICES ASSUME Init PROVE CountInv
  OBVIOUS
<1>1. TypeOK
  BY InitIInv DEF IInv
<1>2. Creating = {}
  BY DEF Init, Creating, Idle
<1>3. IsFiniteSet(Creating) /\ Cardinality(Creating) = 0
  BY <1>2, FS_EmptySet
<1>4. nextId = 1 /\ requests = 0
  BY DEF Init
<1> QED BY <1>1, <1>3, <1>4, RequestsAssumption DEF CountInv, Counted

\* A worker accepts a request to create, or any other, or takes an id, or stops
\* being about to.
Accepts(w, u) == u.pc = "create" /\ task[w].pc # "create" /\ nextId' = nextId

Takes(w, u) ==
    u.pc # "create" /\ task[w].pc = "create" /\ nextId' = nextId + 1 /\ requests' = requests

Elsewhere(u) == u.pc # "create" /\ nextId' = nextId

LEMMA StepOfCount ==
    ASSUME TypeOK, [Next]_vars
    PROVE  \/ UNCHANGED <<nextId, task, requests>>
           \/ \E w \in Workers : \E u :
                /\ task' = [task EXCEPT ![w] = u]
                /\ \/ /\ Accepts(w, u) \/ Elsewhere(u)
                      /\ requests' = requests + 1 /\ requests < MaxRequests
                   \/ Takes(w, u)
                   \/ Elsewhere(u) /\ requests' = requests
<1> DEFINE Does(w) == \E u :
                /\ task' = [task EXCEPT ![w] = u]
                /\ \/ /\ Accepts(w, u) \/ Elsewhere(u)
                      /\ requests' = requests + 1 /\ requests < MaxRequests
                   \/ Takes(w, u)
                   \/ Elsewhere(u) /\ requests' = requests
<1>0. task \in [Workers -> Task] /\ Idle.pc = "idle"
  BY DEF TypeOK, Idle
<1>1. ASSUME NEW w \in Workers, CreateSave(w) \/ CreateConflict(w) PROVE Does(w)
  BY <1>0, <1>1 DEF CreateSave, CreateConflict, Serving, Finish, Takes
<1>2. ASSUME NEW w \in Workers,
             \/ UpdateSave(w) \/ UpdateConflict(w) \/ DestroyDeletes(w) \/ DestroyRecords(w)
             \/ Abort(w)
      PROVE  Does(w)
  BY <1>0, <1>2 DEF UpdateSave, UpdateConflict, DestroyDeletes, DestroyRecords, Abort,
     Finish, Elsewhere
<1>3. ASSUME NEW w \in Workers, NEW slug \in Slugs, NEW title \in Titles,
             CreateValidate(w, slug, title)
      PROVE  Does(w)
  <2>1. PICK u : u = [pc |-> "create", id |-> 0, slug |-> slug, title |-> title]
    OBVIOUS
  <2>2. /\ task' = [task EXCEPT ![w] = u] /\ nextId' = nextId
        /\ requests' = requests + 1 /\ requests < MaxRequests
        /\ task[w].pc # "create" /\ u.pc = "create"
    BY <1>0, <1>3, <2>1 DEF CreateValidate, Accept
  <2> QED BY <2>2 DEF Accepts
<1>4. ASSUME NEW w \in Workers, NEW slug \in Slugs, NEW title \in Titles,
             NEW id \in DOMAIN posts, UpdateLookup(w, id, slug, title)
      PROVE  Does(w)
  <2>1. PICK u : u = [pc |-> "validate", id |-> id, slug |-> slug, title |-> title]
    OBVIOUS
  <2>2. /\ task' = [task EXCEPT ![w] = u] /\ nextId' = nextId
        /\ requests' = requests + 1 /\ requests < MaxRequests /\ u.pc # "create"
    BY <1>4, <2>1 DEF UpdateLookup, Accept
  <2> QED BY <2>2 DEF Elsewhere
<1>5. ASSUME NEW w \in Workers, NEW id \in DOMAIN posts, DestroyLookup(w, id)
      PROVE  Does(w)
  <2>1. PICK u : u = [pc |-> "destroy", id |-> id, slug |-> posts[id].slug, title |-> NoTitle]
    OBVIOUS
  <2>2. /\ task' = [task EXCEPT ![w] = u] /\ nextId' = nextId
        /\ requests' = requests + 1 /\ requests < MaxRequests /\ u.pc # "create"
    BY <1>5, <2>1 DEF DestroyLookup, Accept
  <2> QED BY <2>2 DEF Elsewhere
<1>6. ASSUME NEW w \in Workers, UpdateValidate(w) \/ DestroyFindsNothing(w) PROVE Does(w)
  <2>1. PICK u : /\ task' = [task EXCEPT ![w] = u] /\ nextId' = nextId /\ requests' = requests
                 /\ u \in {Idle, [task[w] EXCEPT !.pc = "update"], [task[w] EXCEPT !.pc = "record"]}
    BY <1>6 DEF UpdateValidate, DestroyFindsNothing
  <2>2. u.pc # "create"
    BY <1>0, <2>1 DEF Task
  <2> QED BY <2>1, <2>2 DEF Elsewhere
<1>7. UNCHANGED vars => UNCHANGED <<nextId, task, requests>>
  BY DEF vars
<1> HIDE DEF Does
<1>8. ASSUME Next PROVE \E w \in Workers : Does(w)
  <2>1. PICK w \in Workers :
          \/ \E slug \in Slugs, title \in Titles :
                 \/ CreateValidate(w, slug, title)
                 \/ \E id \in DOMAIN posts : UpdateLookup(w, id, slug, title)
          \/ \E id \in DOMAIN posts : DestroyLookup(w, id)
          \/ CreateSave(w) \/ CreateConflict(w)
          \/ UpdateValidate(w) \/ UpdateSave(w) \/ UpdateConflict(w)
          \/ DestroyDeletes(w) \/ DestroyFindsNothing(w) \/ DestroyRecords(w)
          \/ Abort(w)
    BY <1>8 DEF Next
  <2>2. Does(w)
    BY <1>1, <1>2, <1>3, <1>4, <1>5, <1>6, <2>1
  <2> QED BY <2>2
<1> QED BY <1>7, <1>8 DEF Does

LEMMA StepCountInv == CountInv /\ [Next]_vars /\ TypeOK' => CountInv'
<1> SUFFICES ASSUME CountInv, [Next]_vars, TypeOK' PROVE Counted'
  BY DEF CountInv
<1>1. /\ task \in [Workers -> Task] /\ nextId \in Nat /\ requests \in Nat
      /\ requests <= MaxRequests /\ IsFiniteSet(Creating)
      /\ Cardinality(Creating) \in Nat
      /\ nextId + Cardinality(Creating) <= requests + 1
  BY FS_CardinalityType DEF CountInv, TypeOK, Counted
<1>2. CASE UNCHANGED <<nextId, task, requests>>
  BY <1>2 DEF CountInv, Counted, Creating
<1>3. ASSUME NEW w \in Workers, NEW u, task' = [task EXCEPT ![w] = u],
             \/ /\ Accepts(w, u) \/ Elsewhere(u)
                /\ requests' = requests + 1 /\ requests < MaxRequests
             \/ Takes(w, u)
             \/ Elsewhere(u) /\ requests' = requests
      PROVE  Counted'
  <2>1. \A v \in Workers : task'[v] = IF v = w THEN u ELSE task[v]
    BY <1>1, <1>3
  <2>2. /\ IsFiniteSet(Creating \cup {w}) /\ IsFiniteSet(Creating \ {w})
        /\ w \notin Creating => Cardinality(Creating \cup {w}) = Cardinality(Creating) + 1
        /\ w \in Creating => Cardinality(Creating \ {w}) = Cardinality(Creating) - 1
        /\ Cardinality(Creating \ {w}) <= Cardinality(Creating)
    BY <1>1, FS_AddElement, FS_RemoveElement
  <2>3. IF u.pc = "create" THEN Creating' = Creating \cup {w} ELSE Creating' = Creating \ {w}
    BY <2>1 DEF Creating
  <2>4. CASE Accepts(w, u) /\ requests' = requests + 1 /\ requests < MaxRequests
    <3>1. /\ Creating' = Creating \cup {w} /\ w \notin Creating /\ nextId' = nextId
      BY <2>3, <2>4 DEF Accepts, Creating
    <3>2. Cardinality(Creating') = Cardinality(Creating) + 1 /\ IsFiniteSet(Creating')
      BY <2>2, <3>1
    <3>3. nextId' + Cardinality(Creating') <= requests' + 1 /\ requests' <= MaxRequests
      BY <1>1, <2>4, <3>1, <3>2, RequestsAssumption
    <3> QED BY <3>2, <3>3 DEF Counted
  <2>5. CASE Takes(w, u)
    <3>1. /\ Creating' = Creating \ {w} /\ w \in Creating
          /\ nextId' = nextId + 1 /\ requests' = requests
      BY <2>3, <2>5 DEF Takes, Creating
    <3>2. Cardinality(Creating') = Cardinality(Creating) - 1 /\ IsFiniteSet(Creating')
      BY <2>2, <3>1
    <3>3. nextId' + Cardinality(Creating') <= requests' + 1 /\ requests' <= MaxRequests
      BY <1>1, <3>1, <3>2
    <3> QED BY <3>2, <3>3 DEF Counted
  <2>6. CASE /\ Elsewhere(u)
             /\ \/ requests' = requests
                \/ requests' = requests + 1 /\ requests < MaxRequests
    <3>1. Creating' = Creating \ {w} /\ nextId' = nextId
      BY <2>3, <2>6 DEF Elsewhere
    <3>2. Cardinality(Creating') <= Cardinality(Creating) /\ IsFiniteSet(Creating')
      BY <2>2, <3>1
    <3>3. Cardinality(Creating') \in Nat
      BY <3>2, FS_CardinalityType
    <3>4. nextId' + Cardinality(Creating') <= requests' + 1 /\ requests' <= MaxRequests
      BY <1>1, <2>6, <3>1, <3>2, <3>3, RequestsAssumption
    <3> QED BY <3>2, <3>4 DEF Counted
  <2> QED BY <1>3, <2>4, <2>5, <2>6
<1> QED BY <1>2, <1>3, StepOfCount DEF CountInv

\* No more ids are given out than requests accepted.
LEMMA IdsBounded == CountInv => nextId <= MaxRequests + 1
<1> SUFFICES ASSUME CountInv PROVE nextId <= MaxRequests + 1
  OBVIOUS
<1>1. /\ nextId \in Nat /\ requests \in Nat /\ Cardinality(Creating) \in Nat
      /\ nextId + Cardinality(Creating) <= requests + 1 /\ requests <= MaxRequests
  BY FS_CardinalityType DEF CountInv, TypeOK, Counted
<1> QED BY <1>1, RequestsAssumption

=============================================================================
