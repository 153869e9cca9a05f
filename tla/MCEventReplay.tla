---------------------------- MODULE MCEventReplay ----------------------------
(* Instances of EventReplay for TLC.  shouted differs from plain only in     *)
(* what clean() removes; other has another text.  The serializer strips      *)
(* titles, so no two titles differ in what strip() removes.                  *)
EXTENDS EventReplay, TLC

CONSTANTS plain, shouted, other

MCTitles == {plain, shouted, other}
MCClean(title) == IF title = shouted THEN plain ELSE title
MCStrip(title) == title

\* Workers, and slugs, are interchangeable.
ReplaySymmetry == Permutations(Slugs) \cup Permutations(Workers)

=============================================================================
