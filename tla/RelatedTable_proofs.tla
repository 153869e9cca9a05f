------------------------- MODULE RelatedTable_proofs -------------------------
(***************************************************************************)
(* Lemmas about the handlers of RelatedTable: each of them turns a table   *)
(* into a table, keeps the scores the others have of a post that keeps its *)
(* slug, and leaves no other references behind than to a slug it changed.  *)
(***************************************************************************)
EXTENDS RelatedTable, TLAPS

IsTable(t) ==
    /\ t = [id \in DOMAIN t |-> t[id]]
    /\ \A id \in DOMAIN t : t[id] \in Row

\* What an event of the posts service has for its handler.
IsEvent(ev) ==
    /\ ev.topic \in Topics /\ ev.slug \in Slugs
    /\ ev.topic # TopicDeleted => ev.title \in Titles

-----------------------------------------------------------------------------
(* The related column. *)

\* Related holds the maps from some slugs to scores.
LEMMA RelatedMaps ==
    ASSUME NEW related
    PROVE  related \in Related <=>
             related \in [DOMAIN related -> Scores] /\ DOMAIN related \subseteq Slugs
<1>1. related \in Related <=> \E S \in SUBSET Slugs : related \in [S -> Scores]
  BY DEF Related
<1>2. ASSUME NEW S \in SUBSET Slugs, related \in [S -> Scores]
      PROVE  related \in [DOMAIN related -> Scores] /\ DOMAIN related \subseteq Slugs
  BY <1>2
<1> QED BY <1>1, <1>2

\* similarity() is a score, the same in either order.
LEMMA SimilarityScore ==
    ASSUME NEW a \in Titles, NEW b \in Titles
    PROVE  Similarity(a, b) \in Scores /\ Similarity(a, b) = Similarity(b, a)
BY DEF Similarity, Scores

\* {**related, slug: score} has the one score and keeps the others.
LEMMA WithScoreIs ==
    ASSUME NEW related \in Related, NEW slug \in Slugs, NEW score \in Scores
    PROVE  /\ WithScore(related, slug, score) \in Related
           /\ DOMAIN WithScore(related, slug, score) = DOMAIN related \cup {slug}
           /\ WithScore(related, slug, score)[slug] = score
           /\ \A s \in DOMAIN related \ {slug} : WithScore(related, slug, score)[s] = related[s]
<1> DEFINE new == WithScore(related, slug, score)
<1>1. related \in [DOMAIN related -> Scores] /\ DOMAIN related \subseteq Slugs
  BY RelatedMaps
<1>2. /\ DOMAIN new = DOMAIN related \cup {slug}
      /\ new[slug] = score
      /\ \A s \in DOMAIN related \ {slug} : new[s] = related[s]
  BY DEF WithScore
<1>3. new \in [DOMAIN new -> Scores] /\ DOMAIN new \subseteq Slugs
  BY <1>1 DEF WithScore
<1> HIDE DEF new
<1>4. new \in Related
  BY <1>3, RelatedMaps
<1> QED BY <1>2, <1>4 DEF new

\* {k: v ... if k != slug} loses the one slug only.
LEMMA WithoutSlugIs ==
    ASSUME NEW related \in Related, NEW slug
    PROVE  /\ WithoutSlug(related, slug) \in Related
           /\ DOMAIN WithoutSlug(related, slug) = DOMAIN related \ {slug}
           /\ \A s \in DOMAIN related \ {slug} : WithoutSlug(related, slug)[s] = related[s]
<1> DEFINE new == WithoutSlug(related, slug)
<1>1. related \in [DOMAIN related -> Scores] /\ DOMAIN related \subseteq Slugs
  BY RelatedMaps
<1>2. /\ DOMAIN new = DOMAIN related \ {slug}
      /\ \A s \in DOMAIN related \ {slug} : new[s] = related[s]
  BY DEF WithoutSlug
<1>3. new \in [DOMAIN new -> Scores] /\ DOMAIN new \subseteq Slugs
  BY <1>1 DEF WithoutSlug
<1> HIDE DEF new
<1>4. new \in Related
  BY <1>3, RelatedMaps
<1> QED BY <1>2, <1>4 DEF new

\* The scores of a post with this title against others, under their slugs.
LEMMA ScoresAgainstIs ==
    ASSUME NEW t, IsTable(t), NEW others \in SUBSET DOMAIN t, NEW title \in Titles
    PROVE  /\ ScoresAgainst(t, others, title) \in Related
           /\ DOMAIN ScoresAgainst(t, others, title) = {t[o].slug : o \in others}
           /\ SlugsUnique(t) =>
                \A o \in others :
                    ScoresAgainst(t, others, title)[t[o].slug] = Similarity(t[o].title, title)
<1> DEFINE new == ScoresAgainst(t, others, title)
           Named(s) == CHOOSE o \in others : t[o].slug = s
<1>1. DOMAIN new = {t[o].slug : o \in others}
  BY DEF ScoresAgainst
<1>2. \A s \in DOMAIN new : Named(s) \in others /\ t[Named(s)].slug = s
  BY <1>1
<1>3. \A s \in DOMAIN new : new[s] = Similarity(t[Named(s)].title, title)
  BY DEF ScoresAgainst
<1>4. new = [s \in DOMAIN new |-> new[s]]
  BY DEF ScoresAgainst
<1> HIDE DEF new, Named
<1>5. \A o \in others : t[o].title \in Titles /\ t[o].slug \in Slugs
  BY DEF IsTable, Row
<1>6. \A s \in DOMAIN new : new[s] \in Scores
  BY <1>2, <1>3, <1>5, SimilarityScore
<1>7. new \in Related
  <2>1. DOMAIN new \subseteq Slugs
    BY <1>1, <1>5
  <2>2. new \in [DOMAIN new -> Scores]
    BY <1>4, <1>6
  <2> QED BY <2>1, <2>2, RelatedMaps
<1>8. ASSUME SlugsUnique(t), NEW o \in others
      PROVE  new[t[o].slug] = Similarity(t[o].title, title)
  <2>1. t[o].slug \in DOMAIN new
    BY <1>1
  <2>2. Named(t[o].slug) = o
    BY <1>2, <1>8, <2>1 DEF SlugsUnique
  <2> QED BY <1>3, <2>1, <2>2
<1> QED BY <1>1, <1>7, <1>8 DEF new

-----------------------------------------------------------------------------
(* The handlers, row by row. *)

\* A row with another related column.
LEMMA RowIs ==
    ASSUME NEW r \in Row, NEW related \in Related
    PROVE  /\ [r EXCEPT !.related = related] \in Row
           /\ [r EXCEPT !.related = related].title = r.title
           /\ [r EXCEPT !.related = related].slug = r.slug
           /\ [r EXCEPT !.related = related].related = related
BY DEF Row

\* The back-reference a row gets.
Referring(r, slug, title) ==
    [r EXCEPT !.related = WithScore(@, slug, Similarity(r.title, title))]

\* A back-reference changes the related column only.
LEMMA ReferringIs ==
    ASSUME NEW r \in Row, NEW slug \in Slugs, NEW title \in Titles
    PROVE  /\ Referring(r, slug, title) \in Row
           /\ Referring(r, slug, title).title = r.title
           /\ Referring(r, slug, title).slug = r.slug
           /\ Referring(r, slug, title).related =
                WithScore(r.related, slug, Similarity(r.title, title))
<1>1. r.related \in Related /\ r.title \in Titles
  BY DEF Row
<1>2. WithScore(r.related, slug, Similarity(r.title, title)) \in Related
  BY <1>1, SimilarityScore, WithScoreIs
<1> QED BY <1>2, RowIs DEF Referring

\* apply_created of an unknown post adds a row and a reference to every other.
LEMMA CreatedIs ==
    ASSUME NEW t, IsTable(t), NEW ev, IsEvent(ev), ev.topic # TopicDeleted,
           ev.id \notin DOMAIN t
    PROVE  /\ IsTable(ApplyCreated(t, ev))
           /\ DOMAIN ApplyCreated(t, ev) = DOMAIN t \cup {ev.id}
           /\ ApplyCreated(t, ev)[ev.id] =
                [title |-> ev.title, slug |-> ev.slug,
                 related |-> ScoresAgainst(t, DOMAIN t, ev.title)]
           /\ \A id \in DOMAIN t :
                ApplyCreated(t, ev)[id] = Referring(t[id], ev.slug, ev.title)
<1> DEFINE new == ApplyCreated(t, ev)
           first == [title |-> ev.title, slug |-> ev.slug,
                     related |-> ScoresAgainst(t, DOMAIN t, ev.title)]
<1>1. new = [id \in DOMAIN t \cup {ev.id} |->
               IF id = ev.id THEN first
               ELSE BackReferenced(t, DOMAIN t, ev.slug, ev.title)[id]]
  BY DEF ApplyCreated
<1>2. \A id \in DOMAIN t :
        BackReferenced(t, DOMAIN t, ev.slug, ev.title)[id] = Referring(t[id], ev.slug, ev.title)
  BY DEF BackReferenced, Referring
<1>3. first \in Row
  BY ScoresAgainstIs DEF IsEvent, Row
<1> HIDE DEF new, first
<1>4. /\ DOMAIN new = DOMAIN t \cup {ev.id}
      /\ new = [id \in DOMAIN new |-> new[id]]
      /\ new[ev.id] = first
      /\ \A id \in DOMAIN t : new[id] = Referring(t[id], ev.slug, ev.title)
  BY <1>1, <1>2
<1>5. \A id \in DOMAIN t : Referring(t[id], ev.slug, ev.title) \in Row
  BY ReferringIs DEF IsTable, IsEvent
<1>6. IsTable(new)
  BY <1>3, <1>4, <1>5 DEF IsTable
<1> QED BY <1>4, <1>6 DEF new, first

\* A row with another title and slug.
LEMMA RowReassigned ==
    ASSUME NEW r \in Row, NEW title, NEW slug
    PROVE  [[r EXCEPT !.title = title] EXCEPT !.slug = slug] =
             [title |-> title, slug |-> slug, related |-> r.related]
<1>1. r = [title |-> r.title, slug |-> r.slug, related |-> r.related]
  BY DEF Row
<1>2. [r EXCEPT !.title = title] = [title |-> title, slug |-> r.slug, related |-> r.related]
  BY <1>1
<1>3. [[title |-> title, slug |-> r.slug, related |-> r.related] EXCEPT !.slug = slug] =
       [title |-> title, slug |-> slug, related |-> r.related]
  OBVIOUS
<1> QED BY <1>2, <1>3

\* The early return of apply_updated changes title and slug of one row.
LEMMA ReassignedIs ==
    ASSUME NEW t, IsTable(t), NEW ev, IsEvent(ev), ev.topic # TopicDeleted,
           ev.id \in DOMAIN t
    PROVE  /\ IsTable(Reassigned(t, ev))
           /\ DOMAIN Reassigned(t, ev) = DOMAIN t
           /\ Reassigned(t, ev)[ev.id] =
                [title |-> ev.title, slug |-> ev.slug, related |-> t[ev.id].related]
           /\ \A id \in DOMAIN t \ {ev.id} : Reassigned(t, ev)[id] = t[id]
<1> DEFINE new == Reassigned(t, ev)
           row == [title |-> ev.title, slug |-> ev.slug, related |-> t[ev.id].related]
<1>1. t[ev.id] \in Row
  BY DEF IsTable
<1>2. [[t[ev.id] EXCEPT !.title = ev.title] EXCEPT !.slug = ev.slug] = row
  BY <1>1, RowReassigned
<1>3. new = [t EXCEPT ![ev.id] = [[t[ev.id] EXCEPT !.title = ev.title] EXCEPT !.slug = ev.slug]]
  BY DEF Reassigned
<1>4. row \in Row
  BY <1>1 DEF IsEvent, Row
<1> HIDE DEF new, row
<1>5. new = [t EXCEPT ![ev.id] = row]
  BY <1>2, <1>3
<1> QED BY <1>4, <1>5 DEF new, row, IsTable

\* apply_updated with a changed title renews the row and the references to it.
LEMMA RescoredIs ==
    ASSUME NEW t, IsTable(t), NEW ev, IsEvent(ev), ev.topic # TopicDeleted,
           ev.id \in DOMAIN t
    PROVE  /\ IsTable(Rescored(t, ev))
           /\ DOMAIN Rescored(t, ev) = DOMAIN t
           /\ Rescored(t, ev)[ev.id] =
                [title |-> ev.title, slug |-> ev.slug,
                 related |-> ScoresAgainst(t, DOMAIN t \ {ev.id}, ev.title)]
           /\ \A id \in DOMAIN t \ {ev.id} :
                Rescored(t, ev)[id] = Referring(t[id], ev.slug, ev.title)
<1> DEFINE new == Rescored(t, ev)
           others == DOMAIN t \ {ev.id}
           base == Reassigned(t, ev)
           back == BackReferenced(base, others, ev.slug, ev.title)
           scores == ScoresAgainst(t, others, ev.title)
           row == [title |-> ev.title, slug |-> ev.slug, related |-> scores]
<1>1. /\ DOMAIN base = DOMAIN t
      /\ base[ev.id] = [title |-> ev.title, slug |-> ev.slug, related |-> t[ev.id].related]
      /\ \A id \in others : base[id] = t[id]
  BY ReassignedIs
<1>2. new = [back EXCEPT ![ev.id].related = scores]
  BY DEF Rescored
<1> HIDE DEF base
<1>3. /\ DOMAIN back = DOMAIN t
      /\ back = [id \in DOMAIN back |-> back[id]]
      /\ back[ev.id] = base[ev.id]
      /\ \A id \in others : back[id] = Referring(t[id], ev.slug, ev.title)
  BY <1>1 DEF BackReferenced, Referring
<1>4. scores \in Related
  BY ScoresAgainstIs DEF IsEvent
<1> HIDE DEF new, back, scores
<1>5. [back[ev.id] EXCEPT !.related = scores] = row
  BY <1>1, <1>3
<1>6. new = [back EXCEPT ![ev.id] = row]
  BY <1>2, <1>5
<1>7. row \in Row
  BY <1>4 DEF IsEvent, Row
<1> HIDE DEF row
<1>8. /\ DOMAIN new = DOMAIN t
      /\ new = [id \in DOMAIN new |-> new[id]]
      /\ new[ev.id] = row
      /\ \A id \in others : new[id] = Referring(t[id], ev.slug, ev.title)
  BY <1>3, <1>6
<1>9. \A id \in others : Referring(t[id], ev.slug, ev.title) \in Row
  BY ReferringIs DEF IsTable, IsEvent
<1>10. IsTable(new)
  BY <1>7, <1>8, <1>9 DEF IsTable
<1> QED BY <1>8, <1>10 DEF new, row, scores

\* The row without the reference to a deleted post.
Forgetting(r, slug) == [r EXCEPT !.related = WithoutSlug(@, slug)]

\* Dropping a reference changes the related column only.
LEMMA ForgettingIs ==
    ASSUME NEW r \in Row, NEW slug
    PROVE  /\ Forgetting(r, slug) \in Row
           /\ Forgetting(r, slug).title = r.title
           /\ Forgetting(r, slug).slug = r.slug
           /\ Forgetting(r, slug).related = WithoutSlug(r.related, slug)
<1>1. r.related \in Related
  BY DEF Row
<1>2. WithoutSlug(r.related, slug) \in Related
  BY <1>1, WithoutSlugIs
<1> QED BY <1>2, RowIs DEF Forgetting

\* apply_deleted drops the rows of a slug and the references to it.
LEMMA DeletedIs ==
    ASSUME NEW t, IsTable(t), NEW ev
    PROVE  /\ IsTable(ApplyDeleted(t, ev))
           /\ DOMAIN ApplyDeleted(t, ev) = {o \in DOMAIN t : t[o].slug # ev.slug}
           /\ \A id \in DOMAIN ApplyDeleted(t, ev) :
                ApplyDeleted(t, ev)[id] = Forgetting(t[id], ev.slug)
<1> DEFINE new == ApplyDeleted(t, ev)
<1>1. /\ DOMAIN new = {o \in DOMAIN t : t[o].slug # ev.slug}
      /\ new = [id \in DOMAIN new |-> new[id]]
      /\ \A id \in DOMAIN new : new[id] = Forgetting(t[id], ev.slug)
  BY DEF ApplyDeleted, Forgetting
<1> HIDE DEF new
<1>2. \A id \in DOMAIN new : t[id] \in Row
  BY <1>1 DEF IsTable
<1>3. \A id \in DOMAIN new : new[id] \in Row
  BY <1>1, <1>2, ForgettingIs
<1> QED BY <1>1, <1>3 DEF new, IsTable

\* Every handler makes a table of a table.
LEMMA HandleIsTable ==
    ASSUME NEW t, IsTable(t), NEW ev, IsEvent(ev)
    PROVE  IsTable(Handle(t, ev)) /\ DOMAIN Handle(t, ev) \subseteq DOMAIN t \cup {ev.id}
<1>1. CASE ev.topic = TopicDeleted
  <2>1. Handle(t, ev) = ApplyDeleted(t, ev)
    BY <1>1 DEF Handle, TopicCreated, TopicUpdated, TopicDeleted
  <2>2. IsTable(ApplyDeleted(t, ev)) /\ DOMAIN ApplyDeleted(t, ev) \subseteq DOMAIN t
    BY DeletedIs
  <2> QED BY <2>1, <2>2
<1>2. CASE ev.topic # TopicDeleted /\ ev.id \notin DOMAIN t
  <2>1. Handle(t, ev) = ApplyCreated(t, ev)
    BY <1>2 DEF IsEvent, Topics, Handle, ApplyUpdated, TopicCreated, TopicUpdated, TopicDeleted
  <2>2. IsTable(ApplyCreated(t, ev)) /\ DOMAIN ApplyCreated(t, ev) = DOMAIN t \cup {ev.id}
    BY <1>2, CreatedIs
  <2> QED BY <2>1, <2>2
<1>3. CASE ev.topic # TopicDeleted /\ ev.id \in DOMAIN t
  <2>1. Handle(t, ev) \in {t, Rescored(t, ev), Reassigned(t, ev)}
    BY <1>3 DEF IsEvent, Topics, Handle, ApplyCreated, ApplyUpdated, TopicCreated,
       TopicUpdated, TopicDeleted
  <2>2. IsTable(Rescored(t, ev)) /\ DOMAIN Rescored(t, ev) = DOMAIN t
    BY <1>3, RescoredIs
  <2>3. IsTable(Reassigned(t, ev)) /\ DOMAIN Reassigned(t, ev) = DOMAIN t
    BY <1>3, ReassignedIs
  <2> QED BY <2>1, <2>2, <2>3
<1> QED BY <1>1, <1>2, <1>3

\* No handler gives a post a slug other than its own or the event's.
LEMMA HandleSlugs ==
    ASSUME NEW t, IsTable(t), NEW ev, IsEvent(ev), NEW id \in DOMAIN Handle(t, ev)
    PROVE  \/ id = ev.id /\ Handle(t, ev)[id].slug = ev.slug
           \/ id \in DOMAIN t /\ Handle(t, ev)[id].slug = t[id].slug
<1>1. CASE ev.topic = TopicDeleted
  <2>1. Handle(t, ev) = ApplyDeleted(t, ev)
    BY <1>1 DEF Handle, TopicCreated, TopicUpdated, TopicDeleted
  <2>2. id \in DOMAIN t /\ ApplyDeleted(t, ev)[id] = Forgetting(t[id], ev.slug)
    BY <2>1, DeletedIs
  <2>3. t[id] \in Row
    BY <2>2 DEF IsTable
  <2> QED BY <2>1, <2>2, <2>3, ForgettingIs
<1>2. CASE ev.topic # TopicDeleted
  <2>1. ev.slug \in Slugs /\ ev.title \in Titles
    BY <1>2 DEF IsEvent
  <2>2. \A o \in DOMAIN t : Referring(t[o], ev.slug, ev.title).slug = t[o].slug
    BY <2>1, ReferringIs DEF IsTable
  <2>3. CASE ev.id \notin DOMAIN t
    <3>1. Handle(t, ev) = ApplyCreated(t, ev)
      BY <1>2, <2>3 DEF IsEvent, Topics, Handle, ApplyUpdated, TopicCreated, TopicUpdated,
         TopicDeleted
    <3>2. /\ DOMAIN ApplyCreated(t, ev) = DOMAIN t \cup {ev.id}
          /\ ApplyCreated(t, ev)[ev.id] =
               [title |-> ev.title, slug |-> ev.slug, related |-> ScoresAgainst(t, DOMAIN t, ev.title)]
          /\ \A o \in DOMAIN t :
               ApplyCreated(t, ev)[o] = Referring(t[o], ev.slug, ev.title)
      BY <1>2, <2>3, CreatedIs
    <3> QED BY <2>2, <3>1, <3>2
  <2>4. CASE ev.id \in DOMAIN t
    <3>1. Handle(t, ev) \in {t, Rescored(t, ev), Reassigned(t, ev)}
      BY <1>2, <2>4 DEF IsEvent, Topics, Handle, ApplyCreated, ApplyUpdated, TopicCreated,
         TopicUpdated, TopicDeleted
    <3>2. /\ DOMAIN Rescored(t, ev) = DOMAIN t
          /\ Rescored(t, ev)[ev.id] =
               [title |-> ev.title, slug |-> ev.slug, related |-> ScoresAgainst(t, DOMAIN t \ {ev.id}, ev.title)]
          /\ \A o \in DOMAIN t \ {ev.id} :
               Rescored(t, ev)[o] = Referring(t[o], ev.slug, ev.title)
      BY <1>2, <2>4, RescoredIs
    <3>3. /\ DOMAIN Reassigned(t, ev) = DOMAIN t
          /\ Reassigned(t, ev)[ev.id] =
               [title |-> ev.title, slug |-> ev.slug, related |-> t[ev.id].related]
          /\ \A o \in DOMAIN t \ {ev.id} : Reassigned(t, ev)[o] = t[o]
      BY <1>2, <2>4, ReassignedIs
    <3> QED BY <2>2, <3>1, <3>2, <3>3
  <2> QED BY <2>3, <2>4
<1> QED BY <1>1, <1>2

\* apply_created of a known post is a redelivery and changes nothing.
LEMMA HandleKnown ==
    ASSUME NEW t, NEW ev, ev.topic = TopicCreated, ev.id \in DOMAIN t
    PROVE  Handle(t, ev) = t
BY DEF Handle, ApplyCreated, TopicCreated, TopicUpdated, TopicDeleted

\* The other creates and the updates give the post the title and slug of the
\* event, and leave those of the others.
LEMMA HandleWrites ==
    ASSUME NEW t, IsTable(t), NEW ev, IsEvent(ev), ev.topic # TopicDeleted,
           ev.topic = TopicCreated => ev.id \notin DOMAIN t
    PROVE  /\ DOMAIN Handle(t, ev) = DOMAIN t \cup {ev.id}
           /\ Handle(t, ev)[ev.id].title = ev.title /\ Handle(t, ev)[ev.id].slug = ev.slug
           /\ \A o \in DOMAIN t \ {ev.id} :
                /\ Handle(t, ev)[o].title = t[o].title
                /\ Handle(t, ev)[o].slug = t[o].slug
<1>1. \A o \in DOMAIN t : /\ Referring(t[o], ev.slug, ev.title).slug = t[o].slug
                          /\ Referring(t[o], ev.slug, ev.title).title = t[o].title
  BY ReferringIs DEF IsTable, IsEvent
<1>2. CASE ev.id \notin DOMAIN t
  <2>1. Handle(t, ev) = ApplyCreated(t, ev)
    BY <1>2 DEF IsEvent, Topics, Handle, ApplyUpdated, TopicCreated, TopicUpdated,
       TopicDeleted
  <2>2. /\ DOMAIN ApplyCreated(t, ev) = DOMAIN t \cup {ev.id}
        /\ ApplyCreated(t, ev)[ev.id] =
             [title |-> ev.title, slug |-> ev.slug, related |-> ScoresAgainst(t, DOMAIN t, ev.title)]
        /\ \A o \in DOMAIN t :
             ApplyCreated(t, ev)[o] = Referring(t[o], ev.slug, ev.title)
    BY <1>2, CreatedIs
  <2> QED BY <1>1, <1>2, <2>1, <2>2
<1>3. CASE ev.id \in DOMAIN t
  <2>1. Handle(t, ev) \in {Rescored(t, ev), Reassigned(t, ev)}
    BY <1>3 DEF IsEvent, Topics, Handle, ApplyUpdated, TopicCreated, TopicUpdated,
       TopicDeleted
  <2>2. /\ DOMAIN Rescored(t, ev) = DOMAIN t
        /\ Rescored(t, ev)[ev.id] =
             [title |-> ev.title, slug |-> ev.slug, related |-> ScoresAgainst(t, DOMAIN t \ {ev.id}, ev.title)]
        /\ \A o \in DOMAIN t \ {ev.id} :
             Rescored(t, ev)[o] = Referring(t[o], ev.slug, ev.title)
    BY <1>3, RescoredIs
  <2>3. /\ DOMAIN Reassigned(t, ev) = DOMAIN t
        /\ Reassigned(t, ev)[ev.id] =
             [title |-> ev.title, slug |-> ev.slug, related |-> t[ev.id].related]
        /\ \A o \in DOMAIN t \ {ev.id} : Reassigned(t, ev)[o] = t[o]
    BY <1>3, ReassignedIs
  <2>4. CASE Handle(t, ev) = Rescored(t, ev)
    <3>1. /\ DOMAIN Rescored(t, ev) = DOMAIN t \cup {ev.id}
          /\ Rescored(t, ev)[ev.id].title = ev.title
          /\ Rescored(t, ev)[ev.id].slug = ev.slug
      BY <1>3, <2>2
    <3>2. \A o \in DOMAIN t \ {ev.id} : /\ Rescored(t, ev)[o].title = t[o].title
                                         /\ Rescored(t, ev)[o].slug = t[o].slug
      BY <1>1, <2>2
    <3> QED BY <2>4, <3>1, <3>2
  <2>5. CASE Handle(t, ev) = Reassigned(t, ev)
    BY <1>3, <2>3, <2>5
  <2> QED BY <2>1, <2>4, <2>5
<1> QED BY <1>2, <1>3

\* A delete takes the posts with the slug and leaves title and slug of the others.
LEMMA HandleDeletes ==
    ASSUME NEW t, IsTable(t), NEW ev, ev.topic = TopicDeleted
    PROVE  /\ DOMAIN Handle(t, ev) = {o \in DOMAIN t : t[o].slug # ev.slug}
           /\ \A o \in DOMAIN Handle(t, ev) :
                /\ Handle(t, ev)[o].title = t[o].title
                /\ Handle(t, ev)[o].slug = t[o].slug
<1>1. Handle(t, ev) = ApplyDeleted(t, ev)
  BY DEF Handle, TopicCreated, TopicUpdated, TopicDeleted
<1>2. /\ DOMAIN ApplyDeleted(t, ev) = {o \in DOMAIN t : t[o].slug # ev.slug}
      /\ \A o \in DOMAIN ApplyDeleted(t, ev) :
           ApplyDeleted(t, ev)[o] = Forgetting(t[o], ev.slug)
  BY DeletedIs
<1>3. \A o \in DOMAIN t : /\ Forgetting(t[o], ev.slug).title = t[o].title
                          /\ Forgetting(t[o], ev.slug).slug = t[o].slug
  BY ForgettingIs DEF IsTable
<1> QED BY <1>1, <1>2, <1>3

-----------------------------------------------------------------------------
(* The handlers keep the scores current and among existing posts. *)

\* A post x, new or with a new title, has been scored against the posts O of t:
\* the common part of apply_created and of apply_updated with a changed title.
Scored(t, O, x, slug, title, n) ==
    /\ O \subseteq DOMAIN t /\ x \notin O
    /\ slug \in Slugs /\ title \in Titles
    /\ \A o \in O : t[o].slug # slug
    /\ DOMAIN n = O \cup {x}
    /\ n[x] = [title |-> title, slug |-> slug, related |-> ScoresAgainst(t, O, title)]
    /\ \A o \in O : n[o] = Referring(t[o], slug, title)

\* The rows of the new table.
LEMMA ScoredIs ==
    ASSUME NEW t, IsTable(t), SlugsUnique(t),
           NEW O, NEW x, NEW slug, NEW title, NEW n, Scored(t, O, x, slug, title, n)
    PROVE  /\ \A o \in O :
                /\ n[o].title = t[o].title /\ n[o].slug = t[o].slug
                /\ t[o].title \in Titles /\ t[o].slug # slug
                /\ DOMAIN n[o].related = DOMAIN t[o].related \cup {slug}
                /\ n[o].related[slug] = Similarity(t[o].title, title)
                /\ \A s \in DOMAIN t[o].related \ {slug} : n[o].related[s] = t[o].related[s]
           /\ n[x].title = title /\ n[x].slug = slug
           /\ DOMAIN n[x].related = {t[o].slug : o \in O}
           /\ \A o \in O : n[x].related[t[o].slug] = Similarity(t[o].title, title)
<1>a. O \in SUBSET DOMAIN t /\ slug \in Slugs /\ title \in Titles
  BY DEF Scored
<1>b. /\ DOMAIN n = O \cup {x} /\ x \notin O
      /\ n[x] = [title |-> title, slug |-> slug, related |-> ScoresAgainst(t, O, title)]
      /\ \A o \in O : n[o] = Referring(t[o], slug, title)
  BY DEF Scored
<1>1. \A o \in O : /\ t[o] \in Row /\ t[o].related \in Related
                   /\ t[o].title \in Titles /\ t[o].slug \in Slugs
  BY <1>a DEF IsTable, Row
<1>2. \A o \in O :
        /\ n[o].title = t[o].title /\ n[o].slug = t[o].slug
        /\ n[o].related = WithScore(t[o].related, slug, Similarity(t[o].title, title))
  BY <1>a, <1>b, <1>1, ReferringIs
<1>3. \A o \in O :
        /\ DOMAIN n[o].related = DOMAIN t[o].related \cup {slug}
        /\ n[o].related[slug] = Similarity(t[o].title, title)
        /\ \A s \in DOMAIN t[o].related \ {slug} : n[o].related[s] = t[o].related[s]
  <2> SUFFICES ASSUME NEW o \in O
               PROVE  /\ DOMAIN n[o].related = DOMAIN t[o].related \cup {slug}
                      /\ n[o].related[slug] = Similarity(t[o].title, title)
                      /\ \A s \in DOMAIN t[o].related \ {slug} :
                           n[o].related[s] = t[o].related[s]
    OBVIOUS
  <2> DEFINE score == Similarity(t[o].title, title)
             old == t[o].related
             new == WithScore(old, slug, score)
  <2>1. score \in Scores /\ old \in Related
    BY <1>a, <1>1, SimilarityScore
  <2>2. n[o].related = new
    BY <1>2
  <2> HIDE DEF score, old
  <2>3. /\ DOMAIN new = DOMAIN old \cup {slug}
        /\ new[slug] = score
        /\ \A s \in DOMAIN old \ {slug} : new[s] = old[s]
    BY <1>a, <2>1, WithScoreIs
  <2> HIDE DEF new
  <2> QED BY <2>2, <2>3 DEF score, old
<1>4. /\ n[x].title = title /\ n[x].slug = slug
      /\ DOMAIN n[x].related = {t[o].slug : o \in O}
      /\ \A o \in O : n[x].related[t[o].slug] = Similarity(t[o].title, title)
  <2>1. n[x].title = title /\ n[x].slug = slug /\ n[x].related = ScoresAgainst(t, O, title)
    BY <1>b
  <2>2. /\ DOMAIN ScoresAgainst(t, O, title) = {t[o].slug : o \in O}
        /\ \A o \in O : ScoresAgainst(t, O, title)[t[o].slug] = Similarity(t[o].title, title)
    BY <1>a, ScoresAgainstIs
  <2> QED BY <2>1, <2>2
<1>5. \A o \in O : t[o].slug # slug
  BY DEF Scored
<1> QED BY <1>1, <1>2, <1>3, <1>4, <1>5

\* Both x and the posts referenced before are referenced.
LEMMA ScoredReferences ==
    ASSUME NEW t, IsTable(t), SlugsUnique(t),
           NEW O, NEW x, NEW slug, NEW title, NEW n, Scored(t, O, x, slug, title, n),
           NEW j \in DOMAIN n, j \in O => Referenced(t, j)
    PROVE  Referenced(n, j)
<1>1. DOMAIN n = O \cup {x} /\ x \notin O /\ O \subseteq DOMAIN t /\ title \in Titles
  BY DEF Scored
<1>2. \A o \in O :
        /\ n[o].title = t[o].title /\ n[o].slug = t[o].slug
        /\ t[o].title \in Titles /\ t[o].slug # slug
        /\ DOMAIN n[o].related = DOMAIN t[o].related \cup {slug}
        /\ n[o].related[slug] = Similarity(t[o].title, title)
        /\ \A s \in DOMAIN t[o].related \ {slug} : n[o].related[s] = t[o].related[s]
  BY ScoredIs
<1>3. /\ n[x].title = title /\ n[x].slug = slug
      /\ DOMAIN n[x].related = {t[o].slug : o \in O}
      /\ \A o \in O : n[x].related[t[o].slug] = Similarity(t[o].title, title)
  BY ScoredIs
<1> SUFFICES ASSUME NEW i \in DOMAIN n \ {j}
             PROVE  /\ n[j].slug \in DOMAIN n[i].related
                    /\ n[i].related[n[j].slug] = Similarity(n[i].title, n[j].title)
  BY DEF Referenced
<1>4. CASE i = x
  <2>1. j \in O
    BY <1>1, <1>4
  <2>2. Similarity(t[j].title, title) = Similarity(title, t[j].title)
    BY <1>1, <1>2, <2>1, SimilarityScore
  <2> QED BY <1>2, <1>3, <1>4, <2>1, <2>2
<1>5. CASE j = x
  <2>1. i \in O
    BY <1>1, <1>5
  <2> QED BY <1>2, <1>3, <1>5, <2>1
<1>6. CASE i # x /\ j # x
  <2>1. i \in O /\ j \in O /\ i # j
    BY <1>1, <1>6
  <2>2. /\ t[j].slug \in DOMAIN t[i].related \ {slug}
        /\ t[i].related[t[j].slug] = Similarity(t[i].title, t[j].title)
    BY <1>1, <1>2, <2>1 DEF Referenced
  <2> QED BY <1>2, <2>1, <2>2
<1> QED BY <1>4, <1>5, <1>6

\* The slugs of the posts scored against are those referred to.
LEMMA ScoredDangles ==
    ASSUME NEW t, IsTable(t), SlugsUnique(t),
           NEW O, NEW x, NEW slug, NEW title, NEW n, Scored(t, O, x, slug, title, n),
           NEW old,
           \A o \in O : DOMAIN t[o].related \subseteq {t[j].slug : j \in O} \cup {slug} \cup old
    PROVE  NoDanglingBut(n, old)
<1>1. DOMAIN n = O \cup {x}
  BY DEF Scored
<1>2. /\ \A o \in O : /\ n[o].slug = t[o].slug
                      /\ DOMAIN n[o].related = DOMAIN t[o].related \cup {slug}
      /\ n[x].slug = slug /\ DOMAIN n[x].related = {t[o].slug : o \in O}
  BY ScoredIs
<1>3. {t[o].slug : o \in O} \cup {slug} \subseteq {n[j].slug : j \in DOMAIN n}
  <2>1. \A o \in O : t[o].slug \in {n[j].slug : j \in DOMAIN n}
    BY <1>1, <1>2
  <2>2. slug \in {n[j].slug : j \in DOMAIN n}
    BY <1>1, <1>2
  <2> QED BY <2>1, <2>2
<1>4. \A i \in DOMAIN n : DOMAIN n[i].related \subseteq {t[o].slug : o \in O} \cup {slug} \cup old
  BY <1>1, <1>2
<1> QED BY <1>3, <1>4 DEF NoDanglingBut

\* apply_created scores the new post against all.
LEMMA CreatedScores ==
    ASSUME NEW t, IsTable(t), NEW ev, IsEvent(ev), ev.topic # TopicDeleted,
           ev.id \notin DOMAIN t, SlugsUnique(ApplyCreated(t, ev))
    PROVE  Scored(t, DOMAIN t, ev.id, ev.slug, ev.title, ApplyCreated(t, ev))
<1> DEFINE n == ApplyCreated(t, ev)
<1>1. /\ DOMAIN n = DOMAIN t \cup {ev.id}
      /\ n[ev.id] = [title |-> ev.title, slug |-> ev.slug,
                     related |-> ScoresAgainst(t, DOMAIN t, ev.title)]
      /\ \A id \in DOMAIN t : n[id] = Referring(t[id], ev.slug, ev.title)
  BY CreatedIs
<1>2. SlugsUnique(n)
  OBVIOUS
<1> HIDE DEF n
<1>3. ev.slug \in Slugs /\ ev.title \in Titles
  BY DEF IsEvent
<1>4. \A o \in DOMAIN t : n[o].slug = t[o].slug
  BY <1>1, <1>3, ReferringIs DEF IsTable
<1>5. n[ev.id].slug = ev.slug
  BY <1>1
<1>6. \A o \in DOMAIN t : t[o].slug # ev.slug
  BY <1>1, <1>2, <1>4, <1>5 DEF SlugsUnique
<1>7. Scored(t, DOMAIN t, ev.id, ev.slug, ev.title, n)
  BY <1>1, <1>3, <1>6 DEF Scored
<1> QED BY <1>7 DEF n

\* apply_updated with a changed title scores the post against all others.
LEMMA RescoredScores ==
    ASSUME NEW t, IsTable(t), NEW ev, IsEvent(ev), ev.topic # TopicDeleted,
           ev.id \in DOMAIN t, SlugsUnique(Rescored(t, ev))
    PROVE  Scored(t, DOMAIN t \ {ev.id}, ev.id, ev.slug, ev.title, Rescored(t, ev))
<1> DEFINE n == Rescored(t, ev)
           O == DOMAIN t \ {ev.id}
<1>1. /\ DOMAIN n = O \cup {ev.id}
      /\ n[ev.id] = [title |-> ev.title, slug |-> ev.slug,
                     related |-> ScoresAgainst(t, O, ev.title)]
      /\ \A id \in O : n[id] = Referring(t[id], ev.slug, ev.title)
  BY RescoredIs
<1>2. SlugsUnique(n) /\ O \subseteq DOMAIN t /\ ev.id \notin O
  OBVIOUS
<1> HIDE DEF n, O
<1>3. ev.slug \in Slugs /\ ev.title \in Titles
  BY DEF IsEvent
<1>4. \A o \in O : n[o].slug = t[o].slug
  BY <1>1, <1>2, <1>3, ReferringIs DEF IsTable
<1>5. n[ev.id].slug = ev.slug
  BY <1>1
<1>6. \A o \in O : t[o].slug # ev.slug
  BY <1>1, <1>2, <1>4, <1>5 DEF SlugsUnique
<1>7. Scored(t, O, ev.id, ev.slug, ev.title, n)
  BY <1>1, <1>2, <1>3, <1>6 DEF Scored
<1> QED BY <1>7 DEF n, O

\* The early return of apply_updated: what strip() removes changes no score, and
\* what the others refer to stays.
LEMMA ReassignedKeeps ==
    ASSUME NEW t, IsTable(t), NEW ev, IsEvent(ev), ev.topic # TopicDeleted,
           ev.id \in DOMAIN t, ~TitleChanged(t, ev)
    PROVE  /\ DOMAIN Reassigned(t, ev) = DOMAIN t
           /\ Reassigned(t, ev)[ev.id].slug = ev.slug
           /\ \A i \in DOMAIN t \ {ev.id} : Reassigned(t, ev)[i].slug = t[i].slug
           /\ \A i \in DOMAIN t : /\ Reassigned(t, ev)[i].related = t[i].related
                                  /\ Clean(Reassigned(t, ev)[i].title) = Clean(t[i].title)
<1> DEFINE n == Reassigned(t, ev)
<1>1. /\ DOMAIN n = DOMAIN t
      /\ n[ev.id] = [title |-> ev.title, slug |-> ev.slug, related |-> t[ev.id].related]
      /\ \A id \in DOMAIN t \ {ev.id} : n[id] = t[id]
  BY ReassignedIs
<1> HIDE DEF n
<1>2. t[ev.id].title \in Titles /\ ev.title \in Titles
  BY DEF IsTable, Row, IsEvent
<1>3. Clean(ev.title) = Clean(t[ev.id].title)
  BY <1>2, StripAssumption DEF TitleChanged
<1>4. /\ n[ev.id].slug = ev.slug /\ n[ev.id].related = t[ev.id].related
      /\ n[ev.id].title = ev.title
  BY <1>1
<1>5. \A i \in DOMAIN t : n[i].related = t[i].related /\ Clean(n[i].title) = Clean(t[i].title)
  BY <1>1, <1>3, <1>4
<1> QED BY <1>1, <1>4, <1>5 DEF n

\* The posts with the slug are gone, and so are the references to it.
Dropped(t, slug, n) ==
    /\ DOMAIN n = {o \in DOMAIN t : t[o].slug # slug}
    /\ \A i \in DOMAIN n :
         /\ n[i].title = t[i].title /\ n[i].slug = t[i].slug
         /\ DOMAIN n[i].related = DOMAIN t[i].related \ {slug}
         /\ \A s \in DOMAIN t[i].related \ {slug} : n[i].related[s] = t[i].related[s]

\* apply_deleted drops a slug.
LEMMA DeletedDrops ==
    ASSUME NEW t, IsTable(t), NEW ev
    PROVE  Dropped(t, ev.slug, ApplyDeleted(t, ev))
<1> PICK n : n = ApplyDeleted(t, ev)
  OBVIOUS
<1>1. /\ DOMAIN n = {o \in DOMAIN t : t[o].slug # ev.slug}
      /\ \A id \in DOMAIN n : n[id] = Forgetting(t[id], ev.slug)
  <2>1. /\ DOMAIN ApplyDeleted(t, ev) = {o \in DOMAIN t : t[o].slug # ev.slug}
        /\ \A id \in DOMAIN ApplyDeleted(t, ev) :
             ApplyDeleted(t, ev)[id] = Forgetting(t[id], ev.slug)
    BY DeletedIs
  <2> QED BY <2>1
<1>2. \A i \in DOMAIN n : t[i] \in Row /\ t[i].related \in Related
  BY <1>1 DEF IsTable, Row
<1>3. \A i \in DOMAIN n :
        /\ n[i].title = t[i].title /\ n[i].slug = t[i].slug
        /\ DOMAIN n[i].related = DOMAIN t[i].related \ {ev.slug}
        /\ \A s \in DOMAIN t[i].related \ {ev.slug} : n[i].related[s] = t[i].related[s]
  <2> SUFFICES ASSUME NEW i \in DOMAIN n
               PROVE  /\ n[i].title = t[i].title /\ n[i].slug = t[i].slug
                      /\ DOMAIN n[i].related = DOMAIN t[i].related \ {ev.slug}
                      /\ \A s \in DOMAIN t[i].related \ {ev.slug} :
                           n[i].related[s] = t[i].related[s]
    OBVIOUS
  <2>1. /\ n[i].title = t[i].title /\ n[i].slug = t[i].slug
        /\ n[i].related = WithoutSlug(t[i].related, ev.slug)
    BY <1>1, <1>2, ForgettingIs
  <2>2. /\ DOMAIN WithoutSlug(t[i].related, ev.slug) = DOMAIN t[i].related \ {ev.slug}
        /\ \A s \in DOMAIN t[i].related \ {ev.slug} :
             WithoutSlug(t[i].related, ev.slug)[s] = t[i].related[s]
    BY <1>2, WithoutSlugIs
  <2> QED BY <2>1, <2>2
<1>4. Dropped(t, ev.slug, n)
  BY <1>1, <1>3 DEF Dropped
<1> QED BY <1>4

\* What a handler does, if the outcome satisfies the unique index.
LEMMA HandleCases ==
    ASSUME NEW t, IsTable(t), NEW ev, IsEvent(ev), SlugsUnique(Handle(t, ev))
    PROVE  \/ Handle(t, ev) = t
           \/ Dropped(t, ev.slug, Handle(t, ev))
           \/ /\ ev.topic # TopicDeleted /\ ev.id \in DOMAIN t /\ ~TitleChanged(t, ev)
              /\ Handle(t, ev) = Reassigned(t, ev)
           \/ Scored(t, DOMAIN t \ {ev.id}, ev.id, ev.slug, ev.title, Handle(t, ev))
<1>1. CASE ev.topic = TopicDeleted
  <2>1. Handle(t, ev) = ApplyDeleted(t, ev)
    BY <1>1 DEF Handle, TopicCreated, TopicUpdated, TopicDeleted
  <2> QED BY <2>1, DeletedDrops
<1>2. CASE ev.topic # TopicDeleted /\ ev.id \notin DOMAIN t
  <2>1. Handle(t, ev) = ApplyCreated(t, ev)
    BY <1>2 DEF IsEvent, Topics, Handle, ApplyUpdated, TopicCreated, TopicUpdated, TopicDeleted
  <2>2. SlugsUnique(ApplyCreated(t, ev))
    BY <2>1
  <2>3. Scored(t, DOMAIN t, ev.id, ev.slug, ev.title, ApplyCreated(t, ev))
    BY <1>2, <2>2, CreatedScores
  <2>4. DOMAIN t \ {ev.id} = DOMAIN t
    BY <1>2
  <2> QED BY <2>1, <2>3, <2>4
<1>3. CASE ev.topic # TopicDeleted /\ ev.id \in DOMAIN t
  <2>1. \/ Handle(t, ev) = t
        \/ Handle(t, ev) = Rescored(t, ev)
        \/ Handle(t, ev) = Reassigned(t, ev) /\ ~TitleChanged(t, ev)
    BY <1>3 DEF IsEvent, Topics, Handle, ApplyCreated, ApplyUpdated, TopicCreated,
       TopicUpdated, TopicDeleted
  <2>2. ASSUME Handle(t, ev) = Rescored(t, ev)
        PROVE  Scored(t, DOMAIN t \ {ev.id}, ev.id, ev.slug, ev.title, Rescored(t, ev))
    BY <1>3, <2>2, RescoredScores
  <2> QED BY <1>3, <2>1, <2>2
<1> QED BY <1>1, <1>2, <1>3

\* Every handler leaves a post that keeps its slug its scores in all other
\* posts, with current titles, whatever happens to the others; a new post gets
\* them.  As far as the outcome satisfies the unique index.
THEOREM HandleReferences ==
    ASSUME NEW t, IsTable(t), NEW ev, IsEvent(ev),
           SlugsUnique(t), SlugsUnique(Handle(t, ev)),
           NEW j \in DOMAIN Handle(t, ev),
           j \in DOMAIN t => Referenced(t, j),
           j = ev.id /\ j \in DOMAIN t => ev.slug = t[j].slug
    PROVE  Referenced(Handle(t, ev), j)
<1> PICK n : n = Handle(t, ev)
  OBVIOUS
<1>1. \/ n = t
      \/ Dropped(t, ev.slug, n)
      \/ /\ ev.topic # TopicDeleted /\ ev.id \in DOMAIN t /\ ~TitleChanged(t, ev)
         /\ n = Reassigned(t, ev)
      \/ Scored(t, DOMAIN t \ {ev.id}, ev.id, ev.slug, ev.title, n)
  BY HandleCases
<1>2. j \in DOMAIN n
  OBVIOUS
<1>3. CASE Dropped(t, ev.slug, n)
  <2>1. Referenced(n, j)
    BY <1>2, <1>3 DEF Dropped, Referenced
  <2> QED BY <2>1
<1>4. CASE /\ ev.topic # TopicDeleted /\ ev.id \in DOMAIN t /\ ~TitleChanged(t, ev)
           /\ n = Reassigned(t, ev)
  <2>1. /\ DOMAIN n = DOMAIN t
        /\ n[ev.id].slug = ev.slug
        /\ \A i \in DOMAIN t \ {ev.id} : n[i].slug = t[i].slug
        /\ \A i \in DOMAIN t : n[i].related = t[i].related /\ Clean(n[i].title) = Clean(t[i].title)
    BY <1>4, ReassignedKeeps
  <2>2. j \in DOMAIN t /\ n[j].slug = t[j].slug
    BY <1>2, <2>1
  <2>3. \A i \in DOMAIN t : Similarity(n[i].title, n[j].title) = Similarity(t[i].title, t[j].title)
    BY <2>1, <2>2 DEF Similarity
  <2>4. Referenced(n, j)
    BY <2>1, <2>2, <2>3 DEF Referenced
  <2> QED BY <2>4
<1>5. CASE Scored(t, DOMAIN t \ {ev.id}, ev.id, ev.slug, ev.title, n)
  <2>1. j \in DOMAIN t \ {ev.id} => Referenced(t, j)
    OBVIOUS
  <2>2. Referenced(n, j)
    BY <1>2, <1>5, <2>1, ScoredReferences
  <2> QED BY <2>2
<1> QED BY <1>1, <1>3, <1>4, <1>5

\* Every handler refers to the slugs of posts only, but for those of before a
\* rename.
THEOREM HandleDangles ==
    ASSUME NEW t, IsTable(t), NEW ev, IsEvent(ev),
           SlugsUnique(t), SlugsUnique(Handle(t, ev)),
           NEW old, NoDanglingBut(t, old),
           ev.id \in DOMAIN t => t[ev.id].slug \in {ev.slug} \cup old
    PROVE  NoDanglingBut(Handle(t, ev), old)
<1> PICK n : n = Handle(t, ev)
  OBVIOUS
<1>1. \/ n = t
      \/ Dropped(t, ev.slug, n)
      \/ /\ ev.topic # TopicDeleted /\ ev.id \in DOMAIN t /\ ~TitleChanged(t, ev)
         /\ n = Reassigned(t, ev)
      \/ Scored(t, DOMAIN t \ {ev.id}, ev.id, ev.slug, ev.title, n)
  BY HandleCases
<1>2. \A i \in DOMAIN t : \A s \in DOMAIN t[i].related :
        s \in old \/ \E o \in DOMAIN t : t[o].slug = s
  BY DEF NoDanglingBut
<1>3. CASE Dropped(t, ev.slug, n)
  <2>1. /\ DOMAIN n = {o \in DOMAIN t : t[o].slug # ev.slug}
        /\ \A i \in DOMAIN n : /\ n[i].slug = t[i].slug
                               /\ DOMAIN n[i].related = DOMAIN t[i].related \ {ev.slug}
    BY <1>3 DEF Dropped
  <2>2. \A i \in DOMAIN n : \A s \in DOMAIN n[i].related :
          s \in old \/ \E o \in DOMAIN n : n[o].slug = s
    BY <1>2, <2>1
  <2>3. NoDanglingBut(n, old)
    BY <2>2 DEF NoDanglingBut
  <2> QED BY <2>3
<1>4. CASE /\ ev.topic # TopicDeleted /\ ev.id \in DOMAIN t /\ ~TitleChanged(t, ev)
           /\ n = Reassigned(t, ev)
  <2>1. /\ DOMAIN n = DOMAIN t
        /\ n[ev.id].slug = ev.slug
        /\ \A i \in DOMAIN t \ {ev.id} : n[i].slug = t[i].slug
        /\ \A i \in DOMAIN t : n[i].related = t[i].related
    BY <1>4, ReassignedKeeps
  <2>2. \A o \in DOMAIN t : t[o].slug \in old \/ \E k \in DOMAIN n : n[k].slug = t[o].slug
    BY <1>4, <2>1
  <2>3. \A i \in DOMAIN n : \A s \in DOMAIN n[i].related :
          s \in old \/ \E o \in DOMAIN n : n[o].slug = s
    BY <1>2, <2>1, <2>2
  <2>4. NoDanglingBut(n, old)
    BY <2>3 DEF NoDanglingBut
  <2> QED BY <2>4
<1>5. CASE Scored(t, DOMAIN t \ {ev.id}, ev.id, ev.slug, ev.title, n)
  <2> PICK O : O = DOMAIN t \ {ev.id}
    OBVIOUS
  <2>1. \A o \in O : DOMAIN t[o].related \subseteq {t[j].slug : j \in O} \cup {ev.slug} \cup old
    BY <1>2
  <2>2. Scored(t, O, ev.id, ev.slug, ev.title, n)
    BY <1>5
  <2>3. NoDanglingBut(n, old)
    BY <2>1, <2>2, ScoredDangles
  <2> QED BY <2>3
<1> QED BY <1>1, <1>3, <1>4, <1>5

=============================================================================
