--------------------------- MODULE MCEventStream ---------------------------
(* Sets for the TLC instance of EventStream. *)
EXTENDS EventStream

OneOrTwo == {0, 1, 2}
=============================================================================
