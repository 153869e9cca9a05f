--------------------------- MODULE MCAuthSessions ---------------------------
(* Instances of AuthSessions for TLC. *)
EXTENDS AuthSessions, TLC

\* Handlers and users are interchangeable.
AuthSymmetry == Permutations(Handlers) \cup Permutations(Users)

=============================================================================
