------------------------------ MODULE FaultCodes ------------------------------
(***************************************************************************)
(* GET /dtc end to end, on a stream with nothing outstanding: the faults   *)
(* the ECU holds, its answer to mode 03 as the ELM327 prints it, whether   *)
(* read_response returns it (src/transport/mod.rs), parse_response         *)
(* (src/obd/parser.rs) and decode_dtc_bytes (src/dtc/mod.rs).              *)
(*                                                                         *)
(* The ECU and the ELM327 are external.  The answer is that of the tests   *)
(* of src/dtc/mod.rs: 43, the number of faults, two bytes for each.        *)
(***************************************************************************)
EXTENDS ObdParser

CONSTANTS
  Faults,     \* pairs of bytes
  MaxFaults,  \* bound: the faults the ECU holds, which one byte counts
  Spaced,     \* the ELM327 separates bytes by spaces (ATS1, not ATS0)
  Lines       \* it ends its lines, the prompt's too, by a line feed (ATL1,
              \* not ATL0)

ASSUME FaultsAssumption ==
  /\ Faults \subseteq (Byte \X Byte) \ {<<0, 0>>}
  /\ MaxFaults \in Byte
  /\ Spaced \in BOOLEAN /\ Lines \in BOOLEAN

VARIABLES
  memory,  \* the faults in the ECU, in order
  shown,   \* the last response to GET /dtc: its status, and the codes
  told     \* history: whether the ECU answered then, its faults, and
           \* whether the far end closed the stream behind the prompt

vars == <<memory, shown, told>>

-----------------------------------------------------------------------------
(* {:02X} of a number of twelve bits: at least two digits.                 *)
Hex02(v) == IF v < 256 THEN << v \div 16, v % 16 >>
                       ELSE << v \div 256, (v \div 16) % 16, v % 16 >>

(* Wrong: three bits of the second digit.                                  *)
CodeShort(a, b) ==
  [prefix |-> (a \div 64) % 4, digit |-> (a \div 16) % 4,
   hex |-> Hex02((a % 8) * 256 + b)]

(* P, C, B or U, a digit and the rest in hexadecimal.                      *)
Code(a, b) ==
  [prefix |-> (a \div 64) % 4, digit |-> (a \div 16) % 4,
   hex |-> Hex02((a % 16) * 256 + b)]

(* Wrong: a zero byte ends the list.                                       *)
NoMoreZero(bytes, i) ==
  i + 1 > Len(bytes) \/ bytes[i] = 0 \/ bytes[i + 1] = 0

(* The while loop ends at byte i: there is no pair left, or a pair of      *)
(* zeros, which pads the answer.                                           *)
NoMore(bytes, i) ==
  i + 1 > Len(bytes) \/ (bytes[i] = 0 /\ bytes[i + 1] = 0)

(* The two bytes before the first pair are skipped, whatever they are: the *)
(* k-th pair is at bytes 2k + 1 and 2k + 2.                                *)
DecodeDtcBytes(bytes) ==
  LET from[k \in 1 .. Len(bytes) + 1] ==
        IF NoMore(bytes, 2 * k + 1) THEN <<>>
        ELSE << Code(bytes[2 * k + 1], bytes[2 * k + 2]) >> \o from[k + 1]
  IN  from[1]

-----------------------------------------------------------------------------
(* What the ELM327 prints for the answer of the ECU: a line and that of    *)
(* the prompt, or the one line without an end that lines() makes of both.  *)
Answer(faults) ==
  LET bytes == <<67, Len(faults)>> \o FlattenSeq(faults)
      line  == [prompt |-> ~ Lines, words |-> {},
                tokens |-> IF Spaced THEN bytes ELSE <<NotPair>>]
  IN  IF Lines THEN <<line, [BlankLine EXCEPT !.prompt = TRUE]>> ELSE <<line>>

OK(codes) == [status |-> 200, codes |-> codes]
Failed    == [status |-> 502, codes |-> <<>>]

(* read_line ends at a line feed or with the stream; else read_response    *)
(* times out, and send's `?` is the answer of read_dtcs.                   *)
Returned(hungUp) == Lines \/ hungUp

(* read_dtcs on what the exchange gives, and handle_dtc_read's response.   *)
Response(text) ==
  LET parsed == ParseResponse(text)
  IN  IF parsed.tag = "Ok" THEN OK(DecodeDtcBytes(parsed.bytes)) ELSE Failed

Told(faults, hungUp) == [answered |-> TRUE, faults |-> faults, hungUp |-> hungUp]
NotTold              == [answered |-> FALSE, faults |-> <<>>, hungUp |-> FALSE]

Init == memory = <<>> /\ shown = OK(<<>>) /\ told = NotTold

Occurs(f) ==
  /\ Len(memory) < MaxFaults
  /\ memory' = Append(memory, f)
  /\ UNCHANGED <<shown, told>>

ReadCodes ==
  /\ \E hungUp \in BOOLEAN :
       /\ shown' = IF Returned(hungUp) THEN Response(Answer(memory)) ELSE Failed
       /\ told' = Told(memory, hungUp)
  /\ UNCHANGED memory

(* The write fails, or the ECU does not answer in 5 seconds.               *)
ReadFails ==
  /\ shown' = Failed
  /\ told' = NotTold
  /\ UNCHANGED memory

Clear ==
  /\ memory' = <<>>
  /\ UNCHANGED <<shown, told>>

Next == \/ \E f \in Faults : Occurs(f)
        \/ ReadCodes \/ ReadFails \/ Clear

Spec == Init /\ [][Next]_vars

-----------------------------------------------------------------------------
CodeSet == [prefix : 0 .. 3, digit : 0 .. 3, hex : Seq(0 .. 15)]

Codes(faults) == [i \in DOMAIN faults |-> Code(faults[i][1], faults[i][2])]

(* GET /dtc reads the active fault codes of the ECU: when it has answered, *)
(* every fault it held is in the response, in order, and no other.         *)
ReadsActiveCodes == told.answered => shown = OK(Codes(told.faults))

(* What the two settings make of it.  An answer whose lines are not ended  *)
(* is not returned, and GET /dtc fails, or is returned with the end of the *)
(* stream and passed over for its prompt; bytes that are not separated are *)
(* passed over too: both leave an empty list.                              *)
ShownBySettings ==
  told.answered =>
    shown = IF ~ Lines /\ ~ told.hungUp THEN Failed
            ELSE IF Lines /\ Spaced THEN OK(Codes(told.faults))
            ELSE OK(<<>>)

(* A fault of the ECU is shown by a code there is, and no two of them by   *)
(* the same, although the codes of small numbers lose a digit.             *)
CodesIdentify ==
  \A i, j \in DOMAIN memory :
     /\ Codes(memory)[i] \in CodeSet
     /\ Codes(memory)[i] = Codes(memory)[j] => memory[i] = memory[j]
=============================================================================
