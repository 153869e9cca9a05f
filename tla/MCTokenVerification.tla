------------------------- MODULE MCTokenVerification -------------------------
(* Instances of TokenVerification for TLC. *)
EXTENDS TokenVerification

\* Another number for every key.
MCDigest(k) == 7 * k + 1

=============================================================================
