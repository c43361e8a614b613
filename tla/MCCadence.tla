----------------------------- MODULE MCCadence -----------------------------
(***************************************************************************)
(* Model values for the TLC instance of Cadence.                           *)
(***************************************************************************)
EXTENDS Cadence

CONSTANTS t1, t2

OneThread  == {t1}
TwoThreads == {t1, t2}
=============================================================================
