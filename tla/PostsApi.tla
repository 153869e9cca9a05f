------------------------------- MODULE PostsApi -------------------------------
(***************************************************************************)
(* The posts service, services/posts: gunicorn workers serve create, update *)
(* and destroy concurrently against one Postgres database.  A handler reads *)
(* (lookup, validation) before its transaction opens, and what it read may  *)
(* be stale when the transaction runs.                                      *)
(*                                                                          *)
(* A transaction that writes a post is one step: it holds the row lock, and *)
(* the unique index entry of the slug, from its write to its commit, so     *)
(* conflicting transactions take created_at in commit order.  A destroy     *)
(* that finds its post gone locks nothing and takes two steps.              *)
(***************************************************************************)
EXTENDS Integers, Sequences

CONSTANTS
    Workers,      \* gunicorn workers
    Slugs,
    Titles,
    Operations,   \* the requests clients send, of {"create", "update", "destroy"}
    Renames,      \* whether an update may carry a new slug
    MaxRequests   \* bound: requests that pass their first read

TopicCreated == "post_created"
TopicUpdated == "post_updated"
TopicDeleted == "post_deleted"
NoTitle == "no title"

ASSUME OperationsAssumption == Operations \subseteq {"create", "update", "destroy"}
ASSUME RequestsAssumption == MaxRequests \in Nat
ASSUME RenamesAssumption == Renames \in BOOLEAN

VARIABLES
    posts,     \* the posts_post table: id -> slug and title
    nextId,    \* the id sequence
    outbox,    \* the posts_outboxevent table in created_at order
    task,      \* per worker, the request it is serving
    requests   \* number of requests accepted so far

vars == <<posts, nextId, outbox, task, requests>>

PostRow == [slug : Slugs, title : Titles]
Event == [topic : {TopicCreated, TopicUpdated, TopicDeleted},
          id : Nat, slug : Slugs, title : Titles \cup {NoTitle}]

\* pc is the worker's next step, id the instance get_object_or_404 loaded, slug
\* and title the request's data (for a destroy, the loaded slug and no title).
Task == [pc : {"idle", "create", "validate", "update", "destroy", "record"},
         id : Nat, slug : Slugs \cup {NoTitle}, title : Titles \cup {NoTitle}]
Idle == [pc |-> "idle", id |-> 0, slug |-> NoTitle, title |-> NoTitle]

TypeOK ==
    /\ nextId \in Nat \ {0}
    /\ DOMAIN posts \subseteq 1..(nextId - 1)
    /\ posts \in [DOMAIN posts -> PostRow]
    /\ outbox \in Seq(Event)
    /\ task \in [Workers -> Task]
    /\ requests \in Nat

Init ==
    /\ posts = [id \in {} |-> NoTitle]
    /\ nextId = 1
    /\ outbox = <<>>
    /\ task = [w \in Workers |-> Idle]
    /\ requests = 0

-----------------------------------------------------------------------------

\* The unique index on slug: a row other than id's uses it.
SlugTaken(slug, id) == \E o \in DOMAIN posts \ {id} : posts[o].slug = slug

\* INSERT or UPDATE of one row.
WithRow(id, row) ==
    [o \in DOMAIN posts \cup {id} |-> IF o = id THEN row ELSE posts[o]]

\* DELETE of the row with this id, if there is one.
WithoutRow(id) == [o \in DOMAIN posts \ {id} |-> posts[o]]

\* record_event.  The Kafka key is the payload's slug.
RecordEvent(topic, id, slug, title) ==
    outbox' = Append(outbox, [topic |-> topic, id |-> id, slug |-> slug, title |-> title])

\* A worker takes a request whose first read succeeds; one whose read fails is
\* answered 400 or 404 and changes nothing.
Accept(w, op, newTask) ==
    /\ op \in Operations
    /\ task[w] = Idle
    /\ requests < MaxRequests
    /\ requests' = requests + 1
    /\ task' = [task EXCEPT ![w] = newTask]

Serving(w, pc) == task[w].pc = pc
Finish(w) == task' = [task EXCEPT ![w] = Idle]

-----------------------------------------------------------------------------
(* create *)

\* is_valid: the UniqueValidator of slug finds no row.
CreateValidate(w, slug, title) ==
    /\ ~SlugTaken(slug, 0)
    /\ Accept(w, "create", [pc |-> "create", id |-> 0, slug |-> slug, title |-> title])
    /\ UNCHANGED <<posts, nextId, outbox>>

\* Mutant: ids are chosen by the caller and the sequence does not advance.
CreateSaveKeepingSequence(w) ==
    /\ Serving(w, "create")
    /\ ~SlugTaken(task[w].slug, 0)
    /\ posts' = WithRow(nextId, [slug |-> task[w].slug, title |-> task[w].title])
    /\ RecordEvent(TopicCreated, nextId, task[w].slug, task[w].title)
    /\ Finish(w)
    /\ UNCHANGED <<nextId, requests>>

\* The transaction: the post and its event.
CreateSave(w) ==
    /\ Serving(w, "create")
    /\ ~SlugTaken(task[w].slug, 0)
    /\ posts' = WithRow(nextId, [slug |-> task[w].slug, title |-> task[w].title])
    /\ nextId' = nextId + 1
    /\ RecordEvent(TopicCreated, nextId, task[w].slug, task[w].title)
    /\ Finish(w)
    /\ UNCHANGED requests

\* Another request took the slug since: IntegrityError.  The transaction rolls
\* back, the id the sequence gave out stays used.
CreateConflict(w) ==
    /\ Serving(w, "create")
    /\ SlugTaken(task[w].slug, 0)
    /\ nextId' = nextId + 1
    /\ Finish(w)
    /\ UNCHANGED <<posts, outbox, requests>>

-----------------------------------------------------------------------------
(* update *)

\* get_object_or_404.
UpdateLookup(w, id, slug, title) ==
    /\ id \in DOMAIN posts
    /\ Renames \/ slug = posts[id].slug
    /\ Accept(w, "update", [pc |-> "validate", id |-> id, slug |-> slug, title |-> title])
    /\ UNCHANGED <<posts, nextId, outbox>>

\* is_valid: the UniqueValidator leaves the instance itself out; a taken slug
\* is answered 400.
UpdateValidate(w) ==
    /\ Serving(w, "validate")
    /\ task' = [task EXCEPT ![w] =
                   IF SlugTaken(@.slug, @.id) THEN Idle ELSE [@ EXCEPT !.pc = "update"]]
    /\ UNCHANGED <<posts, nextId, outbox, requests>>

\* The transaction.  Model.save() updates the row, and inserts it when the
\* UPDATE matches none: a post deleted since the lookup comes back.
UpdateSave(w) ==
    /\ Serving(w, "update")
    /\ ~SlugTaken(task[w].slug, task[w].id)
    /\ posts' = WithRow(task[w].id, [slug |-> task[w].slug, title |-> task[w].title])
    /\ RecordEvent(TopicUpdated, task[w].id, task[w].slug, task[w].title)
    /\ Finish(w)
    /\ UNCHANGED <<nextId, requests>>

\* IntegrityError: another request took the slug since validation.
UpdateConflict(w) ==
    /\ Serving(w, "update")
    /\ SlugTaken(task[w].slug, task[w].id)
    /\ Finish(w)
    /\ UNCHANGED <<posts, nextId, outbox, requests>>

-----------------------------------------------------------------------------
(* destroy *)

\* get_object_or_404.
DestroyLookup(w, id) ==
    /\ id \in DOMAIN posts
    /\ Accept(w, "destroy", [pc |-> "destroy", id |-> id, slug |-> posts[id].slug,
                             title |-> NoTitle])
    /\ UNCHANGED <<posts, nextId, outbox>>

\* Mutant: the event is left out, as when delete() runs outside the transaction
\* and the process stops before record_event.
DestroyDeletesUnrecorded(w) ==
    /\ Serving(w, "destroy")
    /\ task[w].id \in DOMAIN posts
    /\ posts' = WithoutRow(task[w].id)
    /\ Finish(w)
    /\ UNCHANGED <<nextId, outbox, requests>>

\* The transaction: the row goes, by id; the event has the slug of the lookup.
DestroyDeletes(w) ==
    /\ Serving(w, "destroy")
    /\ task[w].id \in DOMAIN posts
    /\ posts' = WithoutRow(task[w].id)
    /\ RecordEvent(TopicDeleted, task[w].id, task[w].slug, NoTitle)
    /\ Finish(w)
    /\ UNCHANGED <<nextId, requests>>

\* The post is gone already: DELETE matches no row and takes no lock...
DestroyFindsNothing(w) ==
    /\ Serving(w, "destroy")
    /\ task[w].id \notin DOMAIN posts
    /\ task' = [task EXCEPT ![w].pc = "record"]
    /\ UNCHANGED <<posts, nextId, outbox, requests>>

\* ... and the event is recorded and committed all the same.
DestroyRecords(w) ==
    /\ Serving(w, "record")
    /\ RecordEvent(TopicDeleted, task[w].id, task[w].slug, NoTitle)
    /\ Finish(w)
    /\ UNCHANGED <<posts, nextId, requests>>

-----------------------------------------------------------------------------

\* The worker dies or loses the database before its commit: nothing of the
\* transaction remains.
Abort(w) ==
    /\ task[w] # Idle
    /\ Finish(w)
    /\ UNCHANGED <<posts, nextId, outbox, requests>>

Next ==
    \E w \in Workers :
        \/ \E slug \in Slugs, title \in Titles :
               \/ CreateValidate(w, slug, title)
               \/ \E id \in DOMAIN posts : UpdateLookup(w, id, slug, title)
        \/ \E id \in DOMAIN posts : DestroyLookup(w, id)
        \/ CreateSave(w) \/ CreateConflict(w)
        \/ UpdateValidate(w) \/ UpdateSave(w) \/ UpdateConflict(w)
        \/ DestroyDeletes(w) \/ DestroyFindsNothing(w) \/ DestroyRecords(w)
        \/ Abort(w)

Spec == Init /\ [][Next]_vars

-----------------------------------------------------------------------------
(* Properties. *)

\* Event k is a create or update of this id, and no later one is.
LastWrite(id, k) ==
    /\ outbox[k].id = id /\ outbox[k].topic # TopicDeleted
    /\ \A l \in (k + 1)..Len(outbox) :
           outbox[l].id = id => outbox[l].topic = TopicDeleted

\* Every row of posts_post is the one its last recorded write describes, and a
\* post that was written and is gone has a delete recorded after its last write:
\* whatever workers overlap, conflict or die, no change of the table is missing
\* from the outbox and no event is of a write that was rolled back.
OutboxExplainsTable ==
    /\ \A id \in DOMAIN posts : \E k \in 1..Len(outbox) :
           /\ LastWrite(id, k)
           /\ posts[id] = [slug |-> outbox[k].slug, title |-> outbox[k].title]
    /\ \A k \in 1..Len(outbox) :
           (outbox[k].topic # TopicDeleted /\ outbox[k].id \notin DOMAIN posts)
               => \E l \in (k + 1)..Len(outbox) :
                      outbox[l].topic = TopicDeleted /\ outbox[l].id = outbox[k].id

=============================================================================
