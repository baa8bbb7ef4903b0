----------------------------- MODULE MCFaultCodes -----------------------------
(* FaultCodes with faults at the edges of the formats: zero bytes, the     *)
(* four systems, numbers of one to three digits.                           *)
EXTENDS FaultCodes

MCFaults == {<<3, 37>>, <<3, 0>>, <<0, 1>>, <<0, 22>>, <<1, 0>>, <<11, 0>>,
             <<82, 52>>, <<240, 1>>, <<128, 68>>, <<255, 255>>}
=============================================================================
