------------------------------ MODULE ObdParser ------------------------------
(***************************************************************************)
(* How the program reads the text the ELM327 sends back: parse_response    *)
(* and check_len (src/obd/parser.rs) and is_clear_ack (src/dtc/mod.rs).    *)
(*                                                                         *)
(* A response is a sequence of lines.  A line keeps what these functions   *)
(* can tell apart: whether it holds the prompt '>', which of the words     *)
(* they search for occur in it, and its whitespace-separated tokens.  A    *)
(* token of two hexadecimal digits is the byte it denotes, any other token *)
(* of two characters is NotHex and a token of another length is NotPair.   *)
(***************************************************************************)
EXTENDS Naturals, SequencesExt

Byte    == 0 .. 255
NotHex  == 256
NotPair == 257

Words  == {"NO DATA", "STOPPED", "BUS INIT", "ERROR", "?", "OK", "44"}
Errors == {"NoData", "Stopped", "BusInit", "DeviceError", "Corrupted"}

Line == [prompt : BOOLEAN, words : SUBSET Words,
         tokens : Seq(Byte \cup {NotHex, NotPair})]
Text == Seq(Line)

BlankLine == [prompt |-> FALSE, words |-> {}, tokens |-> <<>>]

-----------------------------------------------------------------------------
(* The line parse_response looks at: the first that is neither blank nor   *)
(* holds the prompt, the empty string when there is none.                  *)
Clean(text) ==
  LET Useful(line) == line.tokens # <<>> /\ ~ line.prompt
      first == SelectInSeq(text, Useful)
  IN  IF first = 0 THEN BlankLine ELSE text[first]

(* The tokens it keeps, in order: those of exactly two characters.         *)
Pairs(line) ==
  LET kept[n \in 0 .. Len(line.tokens)] ==
        IF n = 0 THEN <<>>
        ELSE IF line.tokens[n] = NotPair THEN kept[n - 1]
        ELSE Append(kept[n - 1], line.tokens[n])
  IN  kept[Len(line.tokens)]

(* The error words in the order of the match arms.                         *)
ErrorOf(words) ==
  IF "NO DATA" \in words THEN "NoData"
  ELSE IF "STOPPED" \in words THEN "Stopped"
  ELSE IF "BUS INIT" \in words THEN "BusInit"
  ELSE "DeviceError"

ErrorWords == {"NO DATA", "STOPPED", "BUS INIT", "ERROR", "?"}

ParseResponse(text) ==
  LET line  == Clean(text)
      pairs == Pairs(line)
  IN  IF line.words \cap ErrorWords # {}
        THEN [tag |-> ErrorOf(line.words), bytes |-> <<>>]
      ELSE IF NotHex \in ToSet(pairs)
        THEN [tag |-> "Corrupted", bytes |-> <<>>]
        ELSE [tag |-> "Ok", bytes |-> pairs]

(* A decoder succeeds when the response has the bytes it indexes.          *)
CheckLen(bytes, min) == Len(bytes) >= min

(* The acknowledgement of mode 04 is searched in the whole raw text.       *)
IsClearAck(text) ==
  \E i \in DOMAIN text :
     \/ text[i].words \cap {"44", "OK"} # {}
     \/ 68 \in ToSet(text[i].tokens)               \* 68 is hexadecimal 44
=============================================================================
