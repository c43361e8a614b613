--------------------------- MODULE MCAuthSessions ---------------------------
(* Symmetries of the TLC instance of AuthSessions. *)
EXTENDS AuthSessions, TLC

CONSTANTS here, there, ann, old, new

Same == Permutations({here, there}) \cup Permutations({old, new})
=============================================================================
