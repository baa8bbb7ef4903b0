------------------------------ MODULE MCExchange ------------------------------
(* Exchange with the answers of the tests of src/transport/mod.rs, "41 0C  *)
(* 1A F8\r\n>\r\n", whose text comes in two pieces; and with those of an    *)
(* ELM327 that has obeyed ATL0, "410C1AF8\r\r>".                            *)
EXTENDS Exchange

MCLayout == <<"text", "text", "lf", "prompt", "lf">>

MCNoLine == <<"text", "text", "prompt">>

ASSUME LayoutAssumption == PromptIsLast
=============================================================================
