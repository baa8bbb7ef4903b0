------------------------------ MODULE MCReadings ------------------------------
(***************************************************************************)
(* Readings with small bounds: one page of a channel of two, so that the   *)
(* third reading lags, and two seconds of one millisecond, so that the     *)
(* second may change between a reading's time and its insertion.           *)
(***************************************************************************)
EXTENDS Readings
=============================================================================
