---------------------------- MODULE MCRevocation ----------------------------
(* Instances of Revocation for TLC. *)
EXTENDS Revocation

CONSTANTS t1, t2

\* Two tokens, of which t1 expires first.
MCExpiresAt(t) == IF t = t1 THEN 1 ELSE 2

\* Requests to the service that purges, with the token that expires first.
MCPresented == {<<"posts", t1>>}

=============================================================================
