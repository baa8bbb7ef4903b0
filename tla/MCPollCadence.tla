---------------------------- MODULE MCPollCadence ----------------------------
(* PollCadence with the table and the divisors of the code.  Only the wrap *)
(* of the tick is brought nearer, to 32, which like 2^64 is no multiple of *)
(* 3, 5 or 10.                                                             *)
EXTENDS PollCadence, SubaruPids
=============================================================================
