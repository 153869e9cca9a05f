----------------------------- MODULE RelatedTable -----------------------------
(***************************************************************************)
(* The post table of the related service and the event handlers of         *)
(* services/related/consumer.py as functions from table to table.  A table *)
(* maps post ids to rows; a row's related column maps slugs to scores.     *)
(*                                                                         *)
(* image and body are assigned wherever title is and nothing depends on    *)
(* them, so rows carry the title alone.                                    *)
(***************************************************************************)
EXTENDS Integers

CONSTANTS
    Titles,
    Slugs,
    Clean(_),   \* clean(): a title without punctuation, case and stop words
    Strip(_)    \* str.strip()

\* clean() splits on white space, so it cannot tell what strip() removes.
ASSUME StripAssumption ==
    \A a, b \in Titles : Strip(a) = Strip(b) => Clean(a) = Clean(b)

TopicCreated == "post_created"
TopicUpdated == "post_updated"
TopicDeleted == "post_deleted"
Topics == {TopicCreated, TopicUpdated, TopicDeleted}

\* The payload of a delete has no title.
NoTitle == "no title"

\* similarity() depends on the two cleaned titles, in either order; the pair
\* stands for the number.
Similarity(left, right) == {Clean(left), Clean(right)}
Scores == {Similarity(a, b) : a, b \in Titles}

Related == UNION {[S -> Scores] : S \in SUBSET Slugs}
Row == [title : Titles, slug : Slugs, related : Related]
EmptyTable == [id \in {} |-> NoTitle]

\* {**related, slug: score}
WithScore(related, slug, score) ==
    [s \in DOMAIN related \cup {slug} |-> IF s = slug THEN score ELSE related[s]]

\* {k: v for k, v in related.items() if k != slug}
WithoutSlug(related, slug) == [s \in DOMAIN related \ {slug} |-> related[s]]

\* The related map of a post with this title among the posts others of t.  A
\* slug is unique in t, so each key has one score.
ScoresAgainst(t, others, title) ==
    [s \in {t[o].slug : o \in others} |->
        Similarity(t[CHOOSE o \in others : t[o].slug = s].title, title)]

\* The back-references every post of others gets.
BackReferenced(t, others, slug, title) ==
    [id \in DOMAIN t |->
        IF id \in others
          THEN [t[id] EXCEPT !.related =
                  WithScore(@, slug, Similarity(t[id].title, title))]
          ELSE t[id]]

ApplyCreated(t, ev) ==
    IF ev.id \in DOMAIN t
      THEN t
      ELSE LET others == BackReferenced(t, DOMAIN t, ev.slug, ev.title)
           IN  [id \in DOMAIN t \cup {ev.id} |->
                  IF id = ev.id
                    THEN [title   |-> ev.title,
                          slug    |-> ev.slug,
                          related |-> ScoresAgainst(t, DOMAIN t, ev.title)]
                    ELSE others[id]]

\* The update without the recomputation: title and slug are assigned.
Reassigned(t, ev) == [t EXCEPT ![ev.id].title = ev.title, ![ev.id].slug = ev.slug]

\* Mutant: a changed title updates the post's own scores and not the others'.
ApplyUpdatedOneWay(t, ev) ==
    IF ev.id \notin DOMAIN t
      THEN ApplyCreated(t, ev)
      ELSE [Reassigned(t, ev) EXCEPT ![ev.id].related =
                ScoresAgainst(t, DOMAIN t \ {ev.id}, ev.title)]

\* The title changed: the post's scores and the others' are recomputed.
Rescored(t, ev) ==
    LET others == DOMAIN t \ {ev.id}
    IN  [BackReferenced(Reassigned(t, ev), others, ev.slug, ev.title)
           EXCEPT ![ev.id].related = ScoresAgainst(t, others, ev.title)]

TitleChanged(t, ev) == Strip(ev.title) # Strip(t[ev.id].title)

\* Mutant: an update of a post the service does not know is dropped.
ApplyUpdatedDroppingUnknown(t, ev) ==
    IF ev.id \notin DOMAIN t THEN t
    ELSE IF TitleChanged(t, ev) THEN Rescored(t, ev)
    ELSE Reassigned(t, ev)

\* Mutant: the early return comes before the assignments.
ApplyUpdatedReturningEarly(t, ev) ==
    IF ev.id \notin DOMAIN t THEN ApplyCreated(t, ev)
    ELSE IF TitleChanged(t, ev) THEN Rescored(t, ev)
    ELSE t

ApplyUpdated(t, ev) ==
    IF ev.id \notin DOMAIN t THEN ApplyCreated(t, ev)
    ELSE IF TitleChanged(t, ev) THEN Rescored(t, ev)
    ELSE Reassigned(t, ev)

\* Mutant: the back-references stay, as before the rewrite of the handler.
ApplyDeletedKeepingReferences(t, ev) ==
    [id \in {o \in DOMAIN t : t[o].slug # ev.slug} |-> t[id]]

\* The post is looked up by slug, not by id.
ApplyDeleted(t, ev) ==
    [id \in {o \in DOMAIN t : t[o].slug # ev.slug} |->
        [t[id] EXCEPT !.related = WithoutSlug(@, ev.slug)]]

\* HANDLERS[message.topic](message.value)
Handle(t, ev) ==
    CASE ev.topic = TopicCreated -> ApplyCreated(t, ev)
      [] ev.topic = TopicUpdated -> ApplyUpdated(t, ev)
      [] ev.topic = TopicDeleted -> ApplyDeleted(t, ev)

\* The unique index on post.slug.
SlugsUnique(t) == \A i, j \in DOMAIN t : t[i].slug = t[j].slug => i = j

\* Every other post carries this post's score under its current slug, and the
\* score is that of their current titles.
Referenced(t, id) ==
    \A i \in DOMAIN t \ {id} :
        /\ t[id].slug \in DOMAIN t[i].related
        /\ t[i].related[t[id].slug] = Similarity(t[i].title, t[id].title)

Mutual(t) == \A id \in DOMAIN t : Referenced(t, id)

\* No post refers to a slug that no post has, but for the old ones.
NoDanglingBut(t, old) ==
    \A i \in DOMAIN t : DOMAIN t[i].related \subseteq {t[j].slug : j \in DOMAIN t} \cup old

NoDangling(t) == NoDanglingBut(t, {})

=============================================================================
