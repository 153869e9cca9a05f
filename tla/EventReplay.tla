----------------------------- MODULE EventReplay -----------------------------
(***************************************************************************)
(* The contract between the two services: what the handlers of             *)
(* services/related/consumer.py make of the events PostsApi records, each  *)
(* applied once and in the order of the outbox.  Delivery is left out      *)
(* (OutboxRelay, RelatedConsumer); what fails here fails under any         *)
(* delivery.                                                               *)
(***************************************************************************)
EXTENDS PostsApi

CONSTANTS Clean(_), Strip(_)

\* What RelatedTable assumes of them.
ASSUME StripAssumption ==
    \A a, b \in Titles : Strip(a) = Strip(b) => Clean(a) = Clean(b)

Table == INSTANCE RelatedTable

\* handle() of one event: the transaction is rolled back when the unique index
\* on slug refuses it.
Apply(t, ev) == LET new == Table!Handle(t, ev)
                IN  IF Table!SlugsUnique(new) THEN new ELSE t

\* The table after these events; table[n] is the one after the first n.
Replay(events) ==
    LET table[n \in 0..Len(events)] ==
            IF n = 0 THEN Table!EmptyTable ELSE Apply(table[n - 1], events[n])
    IN  table[Len(events)]

Replayed == Replay(outbox)

\* Every delete is of a post that was there, names the slug it had and took
\* effect.  destroy looks its post up before the transaction, and what it finds
\* may be deleted, renamed or brought back before the event is recorded.
DeletesAreCurrent ==
    \A k \in 1..Len(outbox) : outbox[k].topic = TopicDeleted =>
        /\ \E j \in 1..(k - 1) :
               /\ outbox[j].id = outbox[k].id /\ outbox[j].slug = outbox[k].slug
               /\ outbox[j].topic # TopicDeleted
               /\ \A l \in (j + 1)..(k - 1) : outbox[l].id # outbox[k].id
        /\ outbox[k].id \in DOMAIN posts =>
               \E l \in (k + 1)..Len(outbox) : outbox[l].id = outbox[k].id

\* An update has changed the slug of the post.
Renamed(id) == \E j, k \in 1..Len(outbox) :
    outbox[j].id = id /\ outbox[k].id = id /\ outbox[j].slug # outbox[k].slug

OldSlugs == {outbox[k].slug : k \in {l \in 1..Len(outbox) : Renamed(outbox[l].id)}}

\* Replaying the outbox gives the related service the posts the posts service
\* has, same ids, slugs and titles, whatever requests overlap, rename, reuse a
\* slug or bring a deleted post back, as long as no destroy was overtaken.
ReplayAgrees == DeletesAreCurrent =>
    /\ DOMAIN Replayed = DOMAIN posts
    /\ \A id \in DOMAIN posts :
           /\ Replayed[id].slug = posts[id].slug
           /\ Replayed[id].title = posts[id].title

\* A replayed post whose slug did not change has its score in every other one,
\* of their current titles, whatever was done to the others: renamed ones, and
\* deletes of either kind included.
ReplayRelatesBothWays ==
    \A id \in DOMAIN Replayed : ~Renamed(id) => Table!Referenced(Replayed, id)

\* No replayed post refers to a slug no post has, other than one that a rename
\* has left behind.
ReplayNoDangling == Table!NoDanglingBut(Replayed, OldSlugs)

=============================================================================
