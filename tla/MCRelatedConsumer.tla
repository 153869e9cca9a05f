-------------------------- MODULE MCRelatedConsumer --------------------------
(* Instances of RelatedConsumer for TLC.  padded differs from plain only in  *)
(* what strip() removes; other has another text.                             *)
EXTENDS RelatedConsumer, TLC

CONSTANTS plain, padded, other

MCTitlesTwo == {plain, other}
MCClean(title) == IF title = padded THEN plain ELSE title
MCStrip(title) == IF title = padded THEN plain ELSE title

\* Topics with a single partition each, the broker's default.
MCPartitionOf(ev) == ev.topic

\* Members of the group, and slugs, are interchangeable.
SlugSymmetry == Permutations(Slugs)
GroupSymmetry == Permutations(Consumers) \cup SlugSymmetry

=============================================================================
