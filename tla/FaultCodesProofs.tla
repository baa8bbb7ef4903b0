--------------------------- MODULE FaultCodesProofs ---------------------------
(* Proofs about FaultCodes, for every pair of bytes a fault may be and any *)
(* number of faults of one answer: a code tells its fault, and what GET    *)
(* /dtc shows is settled by whether the ELM327 ends its lines and          *)
(* separates bytes.                                                        *)
(*                                                                         *)
(* parse_response, the answer and decode_dtc_bytes are recursive functions *)
(* (kept, FlattenSeq, from).  What one computes is stated by a function    *)
(* that satisfies its equation, and the two agree because there is no      *)
(* least argument where they differ.                                       *)
EXTENDS FaultCodes, SequenceTheorems, WellFoundedInduction, TLAPS

(* A set of numbers that is not empty has a least element.                 *)
LEMMA Least ==
  ASSUME NEW T, T \subseteq Nat, T # {}
  PROVE  \E m \in T : \A j \in T : ~ (j < m)
<1>1. PICK m \in T : \A j \in T : ~ (<<j, m>> \in OpToRel(<, Nat))
  BY NatLessThanWellFounded, WFMin, Zenon
<1> QED BY <1>1 DEF OpToRel

-----------------------------------------------------------------------------
(* Division by sixteen, and by four.                                       *)
LEMMA Sixteenth ==
  ASSUME NEW v \in Nat
  PROVE  /\ v \div 16 \in Nat
         /\ v % 16 \in 0 .. 15
         /\ v = 16 * (v \div 16) + (v % 16)
<1>1. v \div 16 \in Nat
  OBVIOUS
<1>2. v % 16 \in 0 .. 15
  OBVIOUS
<1>3. v = 16 * (v \div 16) + (v % 16)
  OBVIOUS
<1> QED BY <1>1, <1>2, <1>3

LEMMA Fourth ==
  ASSUME NEW v \in Nat
  PROVE  /\ v \div 4 \in Nat
         /\ v % 4 \in 0 .. 3
         /\ v = 4 * (v \div 4) + (v % 4)
<1>1. v \div 4 \in Nat
  OBVIOUS
<1>2. v % 4 \in 0 .. 3
  OBVIOUS
<1>3. v = 4 * (v \div 4) + (v % 4)
  OBVIOUS
<1> QED BY <1>1, <1>2, <1>3

LEMMA SixteenthTwice ==
  ASSUME NEW v \in Nat
  PROVE  v \div 256 = (v \div 16) \div 16
<1>1. v \div 256 \in Nat /\ 256 * (v \div 256) =< v /\ v < 256 * (v \div 256) + 256
  OBVIOUS
<1>2. PICK q \in Nat, r \in 0 .. 15 : v \div 16 = q /\ v = 16 * q + r
  BY Sixteenth
<1>3. PICK p \in Nat, s \in 0 .. 15 : q \div 16 = p /\ q = 16 * p + s
  BY Sixteenth
<1>4. v = 256 * p + 16 * s + r
  BY <1>2, <1>3
<1>5. v \div 256 = p
  BY <1>1, <1>4
<1> QED BY <1>2, <1>3, <1>5

LEMMA SixteenthFourth ==
  ASSUME NEW v \in Nat
  PROVE  v \div 64 = (v \div 16) \div 4
<1>1. v \div 64 \in Nat /\ 64 * (v \div 64) =< v /\ v < 64 * (v \div 64) + 64
  OBVIOUS
<1>2. PICK q \in Nat, r \in 0 .. 15 : v \div 16 = q /\ v = 16 * q + r
  BY Sixteenth
<1>3. PICK p \in Nat, s \in 0 .. 3 : q \div 4 = p /\ q = 4 * p + s
  BY Fourth
<1>4. v = 64 * p + 16 * s + r
  BY <1>2, <1>3
<1>5. v \div 64 = p
  BY <1>1, <1>4
<1> QED BY <1>2, <1>3, <1>5

(* A byte by its two highest bits, the two after them and its last digit,  *)
(* the parts a code shows.                                                 *)
LEMMA PartsOfByte ==
  ASSUME NEW a \in Byte
  PROVE  /\ (a \div 64) % 4 \in 0 .. 3
         /\ (a \div 16) % 4 \in 0 .. 3
         /\ a % 16 \in 0 .. 15
         /\ a = 64 * ((a \div 64) % 4) + 16 * ((a \div 16) % 4) + (a % 16)
<1>0. a \in Nat /\ a < 256
  BY DEF Byte
<1>1. PICK q \in Nat, r \in 0 .. 15 : a \div 16 = q /\ a % 16 = r /\ a = 16 * q + r
  BY <1>0, Sixteenth
<1>2. PICK p \in Nat, s \in 0 .. 3 : q \div 4 = p /\ q % 4 = s /\ q = 4 * p + s
  BY Fourth
<1>3. a \div 64 = p
  BY <1>0, <1>1, <1>2, SixteenthFourth
<1>4. p \in 0 .. 3
  BY <1>0, <1>1, <1>2
<1>5. p % 4 = p
  BY <1>4
<1>6. (a \div 64) % 4 = p /\ (a \div 16) % 4 = s /\ a % 16 = r
  BY <1>1, <1>2, <1>3, <1>5
<1>7. a = 64 * p + 16 * s + r
  BY <1>1, <1>2
<1> QED BY <1>4, <1>6, <1>7

-----------------------------------------------------------------------------
(* The digits of a number of twelve bits are digits, and tell the number.  *)
TwelveBits == 0 .. 4095
Low(v)     == v % 16
Tens(v)    == v \div 16
Middle(v)  == (v \div 16) % 16
High(v)    == v \div 256

LEMMA HexParts ==
  ASSUME NEW v \in TwelveBits
  PROVE  /\ Low(v) \in 0 .. 15 /\ Middle(v) \in 0 .. 15 /\ High(v) \in 0 .. 15
         /\ v < 256 => Tens(v) \in 0 .. 15
         /\ Tens(v) = 16 * High(v) + Middle(v)
         /\ v = 16 * Tens(v) + Low(v)
<1>0. v \in Nat /\ v < 4096
  BY DEF TwelveBits
<1>1. PICK q \in Nat, r \in 0 .. 15 : v \div 16 = q /\ v % 16 = r /\ v = 16 * q + r
  BY <1>0, Sixteenth
<1>2. PICK p \in Nat, s \in 0 .. 15 : q \div 16 = p /\ q % 16 = s /\ q = 16 * p + s
  BY Sixteenth
<1>3. v \div 256 = p
  BY <1>0, <1>1, <1>2, SixteenthTwice
<1>4. p \in 0 .. 15 /\ (v < 256 => q \in 0 .. 15)
  BY <1>0, <1>1, <1>2
<1>5. Low(v) = r /\ Tens(v) = q /\ Middle(v) = s /\ High(v) = p
  BY <1>1, <1>2, <1>3 DEF Low, Tens, Middle, High
<1> QED BY <1>1, <1>2, <1>4, <1>5

LEMMA HexForm ==
  ASSUME NEW v \in TwelveBits
  PROVE  /\ v < 256 => Hex02(v) = << Tens(v), Low(v) >>
         /\ ~ (v < 256) => Hex02(v) = << High(v), Middle(v), Low(v) >>
BY DEF Hex02, Tens, Low, High, Middle

LEMMA HexDigits ==
  ASSUME NEW v \in TwelveBits
  PROVE  Hex02(v) \in Seq(0 .. 15)
<1>1. CASE v < 256
  <2>1. Tens(v) \in 0 .. 15 /\ Low(v) \in 0 .. 15
    BY <1>1, HexParts
  <2>2. PICK x \in 0 .. 15, y \in 0 .. 15 : Hex02(v) = <<x, y>>
    BY <1>1, <2>1, HexForm
  <2> QED BY <2>2
<1>2. CASE ~ (v < 256)
  <2>1. High(v) \in 0 .. 15 /\ Middle(v) \in 0 .. 15 /\ Low(v) \in 0 .. 15
    BY HexParts
  <2>2. PICK x \in 0 .. 15, y \in 0 .. 15, z \in 0 .. 15 : Hex02(v) = <<x, y, z>>
    BY <1>2, <2>1, HexForm
  <2> QED BY <2>2
<1> QED BY <1>1, <1>2

LEMMA HexTells ==
  ASSUME NEW u \in TwelveBits, NEW v \in TwelveBits, Hex02(u) = Hex02(v)
  PROVE  u = v
<1>1. CASE u < 256 /\ v < 256
  <2>1. Tens(u) = Tens(v) /\ Low(u) = Low(v)
    BY <1>1, HexForm
  <2> QED BY <2>1, HexParts
<1>2. CASE ~ (u < 256) /\ ~ (v < 256)
  <2>1. High(u) = High(v) /\ Middle(u) = Middle(v) /\ Low(u) = Low(v)
    BY <1>2, HexForm
  <2>2. Tens(u) = Tens(v)
    BY <2>1, HexParts
  <2> QED BY <2>1, <2>2, HexParts
<1>3. CASE u < 256 /\ ~ (v < 256)
  BY <1>3, HexForm
<1>4. CASE ~ (u < 256) /\ v < 256
  BY <1>4, HexForm
<1> QED BY <1>1, <1>2, <1>3, <1>4

(* The number a code shows: the last digit of the first byte, the second.  *)
Number(a, b) == (a % 16) * 256 + b

LEMMA NumberIsTwelve ==
  ASSUME NEW a \in Byte, NEW b \in Byte
  PROVE  Number(a, b) \in TwelveBits
<1>1. PICK r \in 0 .. 15 : a % 16 = r
  BY PartsOfByte
<1> QED BY <1>1 DEF Byte, Number, TwelveBits

LEMMA CodeIsCode ==
  ASSUME NEW a \in Byte, NEW b \in Byte
  PROVE  Code(a, b) \in CodeSet
<1>1. (a \div 64) % 4 \in 0 .. 3 /\ (a \div 16) % 4 \in 0 .. 3
  BY PartsOfByte
<1>2. Hex02(Number(a, b)) \in Seq(0 .. 15)
  BY NumberIsTwelve, HexDigits
<1> QED BY <1>1, <1>2 DEF Code, CodeSet, Number

LEMMA CodeTells ==
  ASSUME NEW a \in Byte, NEW b \in Byte, NEW c \in Byte, NEW d \in Byte,
         Code(a, b) = Code(c, d)
  PROVE  a = c /\ b = d
<1>1. /\ Code(a, b).prefix = Code(c, d).prefix
      /\ Code(a, b).digit = Code(c, d).digit
      /\ Code(a, b).hex = Code(c, d).hex
  OBVIOUS
<1>2. \A x, y : /\ Code(x, y).prefix = (x \div 64) % 4
                /\ Code(x, y).digit = (x \div 16) % 4
                /\ Code(x, y).hex = Hex02(Number(x, y))
  BY DEF Code, Number
<1>3. Number(a, b) = Number(c, d)
  BY <1>1, <1>2, NumberIsTwelve, HexTells
<1>4. PICK r \in 0 .. 15, t \in 0 .. 15 : a % 16 = r /\ c % 16 = t
  BY PartsOfByte
<1>5. r = t /\ b = d
  BY <1>3, <1>4 DEF Byte, Number
<1>6. PICK p, q : /\ p = (a \div 64) % 4 /\ p = (c \div 64) % 4
                  /\ q = (a \div 16) % 4 /\ q = (c \div 16) % 4
  BY <1>1, <1>2
<1>7. a = 64 * p + 16 * q + r /\ c = 64 * p + 16 * q + t
  BY <1>4, <1>6, PartsOfByte
<1> QED BY <1>5, <1>7

-----------------------------------------------------------------------------
(* The memory of the ECU holds faults, as many as the bound allows.        *)
Memory == memory \in Seq(Faults) /\ Len(memory) =< MaxFaults

LEMMA MemoryHolds == Spec => []Memory
<1>1. Init => Memory
  BY FaultsAssumption DEF Init, Memory, Byte
<1>2. Memory /\ [Next]_vars => Memory'
  <2> SUFFICES ASSUME Memory, [Next]_vars PROVE Memory'
    OBVIOUS
  <2>1. ASSUME NEW f \in Faults, Occurs(f) PROVE Memory'
    BY <2>1, FaultsAssumption DEF Memory, Occurs, Byte
  <2>2. CASE ReadCodes
    BY <2>2 DEF Memory, ReadCodes
  <2>3. CASE ReadFails
    BY <2>3 DEF Memory, ReadFails
  <2>4. CASE Clear
    BY <2>4, FaultsAssumption DEF Memory, Clear, Byte
  <2>5. CASE UNCHANGED vars
    BY <2>5 DEF Memory, vars
  <2> QED BY <2>1, <2>2, <2>3, <2>4, <2>5 DEF Next
<1> QED BY <1>1, <1>2, PTL DEF Spec

LEMMA Fault ==
  ASSUME NEW f \in Faults
  PROVE  f[1] \in Byte /\ f[2] \in Byte /\ f = <<f[1], f[2]>> /\ f # <<0, 0>>
BY FaultsAssumption

LEMMA FaultOfMemory ==
  ASSUME Memory, NEW i \in DOMAIN memory
  PROVE  memory[i] \in Faults /\ Codes(memory)[i] = Code(memory[i][1], memory[i][2])
BY DEF Memory, Codes

(* Every fault the ECU may hold is shown by a code there is, and no two by *)
(* the same code, whatever pairs of bytes the faults are and however many. *)
THEOREM CodesTellFaults == Spec => []CodesIdentify
<1>1. Memory => CodesIdentify
  <2> SUFFICES ASSUME Memory, NEW i \in DOMAIN memory, NEW j \in DOMAIN memory
               PROVE  /\ Codes(memory)[i] \in CodeSet
                      /\ Codes(memory)[i] = Codes(memory)[j] => memory[i] = memory[j]
    BY DEF CodesIdentify
  <2>1. PICK f \in Faults : f = memory[i] /\ Codes(memory)[i] = Code(f[1], f[2])
    BY FaultOfMemory
  <2>2. PICK g \in Faults : g = memory[j] /\ Codes(memory)[j] = Code(g[1], g[2])
    BY FaultOfMemory
  <2>3. Code(f[1], f[2]) \in CodeSet
    BY Fault, CodeIsCode
  <2>4. Code(f[1], f[2]) = Code(g[1], g[2]) => f = g
    <3> HAVE Code(f[1], f[2]) = Code(g[1], g[2])
    <3>1. f[1] = g[1] /\ f[2] = g[2]
      BY Fault, CodeTells
    <3> QED BY <3>1, Fault
  <2> QED BY <2>1, <2>2, <2>3, <2>4
<1> QED BY <1>1, MemoryHolds, PTL

-----------------------------------------------------------------------------
(* The line parse_response looks at: the first, if it is not the prompt's. *)
LEMMA FirstUseful ==
  ASSUME NEW l, NEW k, l.tokens # <<>>, ~ l.prompt
  PROVE  Clean(<<l, k>>) = l
<1> DEFINE Useful(line) == line.tokens # <<>> /\ ~ line.prompt
           text == <<l, k>>
           I == {i \in 1 .. Len(text) : Useful(text[i])}
<1>1. Len(text) = 2 /\ text[1] = l
  OBVIOUS
<1>2. 1 \in I /\ I \subseteq 1 .. 2
  BY <1>1
<1>3. Min(I) = 1
  <2>1. \A x \in I : 1 <= x
    BY <1>2
  <2>2. \A x \in I : (\A y \in I : x <= y) => x = 1
    BY <1>2
  <2> HIDE DEF I
  <2> QED BY <1>2, <2>1, <2>2 DEF Min
<1>4. SelectInSeq(text, Useful) = 1
  BY <1>2, <1>3 DEF SelectInSeq
<1> QED BY <1>1, <1>4 DEF Clean

LEMMA NoneUseful ==
  ASSUME NEW l, l.prompt
  PROVE  Clean(<<l>>) = BlankLine
<1> DEFINE Useful(line) == line.tokens # <<>> /\ ~ line.prompt
           text == <<l>>
           I == {i \in 1 .. Len(text) : Useful(text[i])}
<1>1. Len(text) = 1 /\ text[1] = l
  OBVIOUS
<1>2. I = {}
  BY <1>1
<1>3. SelectInSeq(text, Useful) = 0
  BY <1>2 DEF SelectInSeq
<1> QED BY <1>3 DEF Clean

(* A line without a pair of digits, or none, is an answer without faults.  *)
LEMMA NoPairs ==
  ASSUME NEW l, l.tokens = <<>> \/ l.tokens = <<NotPair>>
  PROVE  Pairs(l) = <<>>
<1> DEFINE N == Len(l.tokens)
           kept == CHOOSE g : g =
             [n \in 0 .. N |-> IF n = 0 THEN <<>>
                               ELSE IF l.tokens[n] = NotPair THEN g[n - 1]
                               ELSE Append(g[n - 1], l.tokens[n])]
           none == [n \in 0 .. N |-> <<>>]
<1>1. N \in Nat /\ \A n \in 1 .. N : l.tokens[n] = NotPair
  OBVIOUS
<1>2. Pairs(l) = kept[N]
  BY DEF Pairs
<1> HIDE DEF N
<1>3. \A n \in 1 .. N : n - 1 \in 0 .. N /\ none[n - 1] = <<>>
  BY <1>1
<1>4. none = [n \in 0 .. N |-> IF n = 0 THEN <<>>
                               ELSE IF l.tokens[n] = NotPair THEN none[n - 1]
                               ELSE Append(none[n - 1], l.tokens[n])]
  <2>1. ASSUME NEW n \in 0 .. N
        PROVE  <<>> = IF n = 0 THEN <<>>
                      ELSE IF l.tokens[n] = NotPair THEN none[n - 1]
                      ELSE Append(none[n - 1], l.tokens[n])
    <3>1. n = 0 \/ n \in 1 .. N
      BY <1>1
    <3> HIDE DEF none
    <3> QED BY <3>1, <1>1, <1>3
  <2> QED BY <2>1
<1> HIDE DEF none
<1>5. kept = [n \in 0 .. N |-> IF n = 0 THEN <<>>
                               ELSE IF l.tokens[n] = NotPair THEN kept[n - 1]
                               ELSE Append(kept[n - 1], l.tokens[n])]
  BY <1>4, Zenon
<1> HIDE DEF kept
<1>6. kept[0] = <<>>
  BY <1>1, <1>5
<1>7. N = 0 \/ N = 1
  <2>1. CASE l.tokens = <<>>
    <3>1. Len(<<>>) = 0
      OBVIOUS
    <3> QED BY <2>1, <3>1, Zenon DEF N
  <2>2. CASE l.tokens = <<NotPair>>
    <3>1. Len(<<NotPair>>) = 1
      OBVIOUS
    <3> QED BY <2>2, <3>1, Zenon DEF N
  <2> QED BY <2>1, <2>2
<1>8. CASE N = 1
  <2>1. 1 \in 0 .. N /\ 1 \in 1 .. N
    BY <1>8
  <2>2. kept[1] = IF 1 = 0 THEN <<>>
                  ELSE IF l.tokens[1] = NotPair THEN kept[1 - 1]
                  ELSE Append(kept[1 - 1], l.tokens[1])
    BY <2>1, <1>5
  <2>3. kept[1] = kept[0]
    BY <2>1, <2>2, <1>1
  <2> QED BY <2>3, <1>2, <1>6, <1>8
<1> QED BY <1>2, <1>6, <1>7, <1>8

LEMMA NoCodes == DecodeDtcBytes(<<>>) = <<>>
<1> DEFINE from == CHOOSE g : g =
             [k \in 1 .. 1 |-> IF NoMore(<<>>, 2 * k + 1) THEN <<>>
                               ELSE << Code(<<>>[2 * k + 1], <<>>[2 * k + 2]) >> \o g[k + 1]]
           none == [k \in 1 .. 1 |-> <<>>]
<1>1. DecodeDtcBytes(<<>>) = from[1]
  <2>1. Len(<<>>) + 1 = 1
    OBVIOUS
  <2> QED BY <2>1 DEF DecodeDtcBytes
<1>2. \A k \in 1 .. 1 : NoMore(<<>>, 2 * k + 1)
  <2>1. Len(<<>>) = 0 /\ \A k \in 1 .. 1 : 2 * k + 1 + 1 > 0
    OBVIOUS
  <2> QED BY <2>1, Zenon DEF NoMore
<1>3. none = [k \in 1 .. 1 |-> IF NoMore(<<>>, 2 * k + 1) THEN <<>>
                               ELSE << Code(<<>>[2 * k + 1], <<>>[2 * k + 2]) >> \o none[k + 1]]
  BY <1>2
<1> HIDE DEF none
<1>4. from = [k \in 1 .. 1 |-> IF NoMore(<<>>, 2 * k + 1) THEN <<>>
                               ELSE << Code(<<>>[2 * k + 1], <<>>[2 * k + 2]) >> \o from[k + 1]]
  BY <1>3, Zenon
<1> HIDE DEF from
<1> QED BY <1>1, <1>2, <1>4

LEMMA EmptyResponse ==
  ASSUME NEW text, NEW l, Clean(text) = l, l.words = {},
         l.tokens = <<>> \/ l.tokens = <<NotPair>>
  PROVE  Response(text) = OK(<<>>)
<1>1. Pairs(l) = <<>>
  BY NoPairs
<1>2. NotHex \notin ToSet(<<>>)
  BY DEF ToSet
<1>3. ParseResponse(text) = [tag |-> "Ok", bytes |-> <<>>]
  BY <1>1, <1>2 DEF ParseResponse
<1> QED BY <1>3, NoCodes DEF Response

-----------------------------------------------------------------------------
(* parse_response keeps every token of a line of bytes.                    *)
LEMMA PairsOfBytes ==
  ASSUME NEW l, l.tokens \in Seq(Byte)
  PROVE  Pairs(l) = l.tokens
<1> DEFINE s == l.tokens
           N == Len(s)
           kept == CHOOSE g : g =
             [n \in 0 .. N |-> IF n = 0 THEN <<>>
                               ELSE IF s[n] = NotPair THEN g[n - 1]
                               ELSE Append(g[n - 1], s[n])]
           all == [n \in 0 .. N |-> SubSeq(s, 1, n)]
<1>1. N \in Nat /\ \A n \in 1 .. N : s[n] # NotPair
  <2>1. \A b \in Byte : b # NotPair
    BY DEF Byte, NotPair
  <2>2. N \in Nat /\ \A n \in 1 .. N : s[n] \in Byte
    OBVIOUS
  <2> QED BY <2>1, <2>2
<1>2. SubSeq(s, 1, 0) = <<>> /\ SubSeq(s, 1, N) = s
  OBVIOUS
<1>3. \A n \in 1 .. N : SubSeq(s, 1, n) = Append(SubSeq(s, 1, n - 1), s[n])
  OBVIOUS
<1>4. Pairs(l) = kept[N]
  BY DEF Pairs
<1> HIDE DEF s, N
<1>5. all = [n \in 0 .. N |-> IF n = 0 THEN <<>>
                              ELSE IF s[n] = NotPair THEN all[n - 1]
                              ELSE Append(all[n - 1], s[n])]
  <2>1. ASSUME NEW n \in 0 .. N
        PROVE  SubSeq(s, 1, n) = IF n = 0 THEN <<>>
                                 ELSE IF s[n] = NotPair THEN all[n - 1]
                                 ELSE Append(all[n - 1], s[n])
    <3>1. CASE n = 0
      BY <3>1, <1>2
    <3>2. CASE n # 0
      <4>1. n \in 1 .. N /\ n - 1 \in 0 .. N
        BY <3>2, <1>1
      <4>2. all[n - 1] = SubSeq(s, 1, n - 1)
        BY <4>1
      <4> HIDE DEF all
      <4> QED BY <3>2, <4>1, <4>2, <1>1, <1>3
    <3> QED BY <3>1, <3>2
  <2> QED BY <2>1
<1> HIDE DEF all
<1>6. kept = [n \in 0 .. N |-> IF n = 0 THEN <<>>
                               ELSE IF s[n] = NotPair THEN kept[n - 1]
                               ELSE Append(kept[n - 1], s[n])]
  BY <1>5, Zenon
<1> HIDE DEF kept
<1>7. ASSUME NEW n \in 0 .. N PROVE kept[n] = SubSeq(s, 1, n)
  <2> DEFINE Bad == {i \in 0 .. N : kept[i] # SubSeq(s, 1, i)}
  <2> SUFFICES ASSUME Bad # {} PROVE FALSE
    OBVIOUS
  <2>1. Bad \subseteq Nat
    BY <1>1
  <2>2. PICK m \in Bad : \A j \in Bad : ~ (j < m)
    BY <2>1, Least
  <2>3. m # 0
    BY <2>2, <1>1, <1>2, <1>6
  <2>4. m \in 1 .. N /\ m - 1 \in 0 .. N /\ m - 1 \notin Bad
    BY <2>2, <2>3, <1>1
  <2>5. kept[m - 1] = SubSeq(s, 1, m - 1)
    BY <2>4
  <2>6. kept[m] = Append(kept[m - 1], s[m])
    <3>1. s[m] # NotPair /\ m \in 0 .. N
      BY <2>4, <1>1
    <3>2. kept[m] = IF m = 0 THEN <<>>
                    ELSE IF s[m] = NotPair THEN kept[m - 1]
                    ELSE Append(kept[m - 1], s[m])
      BY <3>1, <1>6
    <3> QED BY <2>3, <3>1, <3>2
  <2>7. kept[m] = SubSeq(s, 1, m)
    BY <2>4, <2>5, <2>6, <1>3
  <2> QED BY <2>2, <2>7
<1> QED BY <1>1, <1>2, <1>4, <1>7 DEF s

(* The bytes of the first i faults, one fault after the other.             *)
Bytes(faults, i) ==
  [j \in 1 .. 2 * i |-> IF j % 2 = 1 THEN faults[(j + 1) \div 2][1]
                                     ELSE faults[j \div 2][2]]

LEMMA Odd ==
  ASSUME NEW k \in Nat
  PROVE  (2 * k - 1) % 2 = 1 /\ ((2 * k - 1) + 1) \div 2 = k
<1>1. (2 * k - 1) % 2 = 1
  OBVIOUS
<1>2. ((2 * k - 1) + 1) \div 2 = k
  OBVIOUS
<1> QED BY <1>1, <1>2

LEMMA Even ==
  ASSUME NEW k \in Nat
  PROVE  (2 * k) % 2 = 0 /\ (2 * k) \div 2 = k
<1>1. (2 * k) % 2 = 0
  OBVIOUS
<1>2. (2 * k) \div 2 = k
  OBVIOUS
<1> QED BY <1>1, <1>2

LEMMA OddOrEven ==
  ASSUME NEW i \in Nat, NEW j \in 1 .. 2 * i
  PROVE  \E k \in 1 .. i : j = 2 * k - 1 \/ j = 2 * k
<1>1. CASE j % 2 = 1
  <2>1. (j + 1) \div 2 \in 1 .. i /\ j = 2 * ((j + 1) \div 2) - 1
    BY <1>1
  <2> QED BY <2>1
<1>2. CASE j % 2 # 1
  <2>1. j \div 2 \in 1 .. i /\ j = 2 * (j \div 2)
    BY <1>2
  <2> QED BY <2>1
<1> QED BY <1>1, <1>2

LEMMA BytesOf ==
  ASSUME NEW faults, NEW i \in Nat,
         \A k \in 1 .. i : faults[k] \in Byte \X Byte
  PROVE  /\ Bytes(faults, i) \in Seq(Byte)
         /\ Len(Bytes(faults, i)) = 2 * i
         /\ \A k \in 1 .. i : /\ Bytes(faults, i)[2 * k - 1] = faults[k][1]
                              /\ Bytes(faults, i)[2 * k] = faults[k][2]
<1> DEFINE t == Bytes(faults, i)
<1>1. ASSUME NEW k \in 1 .. i
      PROVE  t[2 * k - 1] = faults[k][1] /\ t[2 * k] = faults[k][2]
  <2>1. k \in Nat /\ 2 * k - 1 \in 1 .. 2 * i /\ 2 * k \in 1 .. 2 * i
    OBVIOUS
  <2>2. t[2 * k - 1] = faults[k][1]
    BY <2>1, Odd DEF Bytes
  <2>3. t[2 * k] = faults[k][2]
    BY <2>1, Even DEF Bytes
  <2> QED BY <2>2, <2>3
<1>2. \A j \in 1 .. 2 * i : t[j] \in Byte
  <2> TAKE j \in 1 .. 2 * i
  <2>1. PICK k \in 1 .. i : j = 2 * k - 1 \/ j = 2 * k
    BY OddOrEven
  <2>2. faults[k][1] \in Byte /\ faults[k][2] \in Byte
    OBVIOUS
  <2> HIDE DEF t
  <2> QED BY <1>1, <2>1, <2>2
<1>3. DOMAIN t = 1 .. 2 * i /\ t = [j \in 1 .. 2 * i |-> t[j]]
  BY DEF Bytes
<1> HIDE DEF t
<1>4. 2 * i \in Nat
  OBVIOUS
<1>5. t \in Seq(Byte) /\ Len(t) = 2 * i
  BY <1>2, <1>3, <1>4
<1> QED BY <1>1, <1>5 DEF t

LEMMA BytesStep ==
  ASSUME NEW faults, NEW i \in Nat \ {0},
         \A k \in 1 .. i : faults[k] \in Byte \X Byte
  PROVE  Bytes(faults, i) = Bytes(faults, i - 1) \o faults[i]
<1> DEFINE t == Bytes(faults, i)
           u == Bytes(faults, i - 1)
           f == faults[i]
<1>1. /\ t \in Seq(Byte) /\ Len(t) = 2 * i
      /\ \A k \in 1 .. i : t[2 * k - 1] = faults[k][1] /\ t[2 * k] = faults[k][2]
  BY BytesOf
<1>2. /\ u \in Seq(Byte) /\ Len(u) = 2 * (i - 1)
      /\ \A k \in 1 .. i - 1 : u[2 * k - 1] = faults[k][1] /\ u[2 * k] = faults[k][2]
  <2>1. i - 1 \in Nat /\ \A k \in 1 .. i - 1 : faults[k] \in Byte \X Byte
    OBVIOUS
  <2> QED BY <2>1, BytesOf
<1>3. f \in Seq(Byte) /\ Len(f) = 2
  <2>1. PICK x \in Byte, y \in Byte : f = <<x, y>>
    OBVIOUS
  <2> QED BY <2>1
<1>4. f = faults[i]
  OBVIOUS
<1> HIDE DEF t, u, f
<1>5. /\ u \o f \in Seq(Byte) /\ Len(u \o f) = 2 * i
      /\ \A j \in 1 .. 2 * i :
           (u \o f)[j] = IF j =< 2 * (i - 1) THEN u[j] ELSE f[j - 2 * (i - 1)]
  <2>1. Len(u) + Len(f) = 2 * i
    BY <1>2, <1>3
  <2>2. /\ u \o f \in Seq(Byte) /\ Len(u \o f) = Len(u) + Len(f)
        /\ \A j \in 1 .. Len(u) + Len(f) :
             (u \o f)[j] = IF j <= Len(u) THEN u[j] ELSE f[j - Len(u)]
    <3>1. u \in Seq(Byte) /\ f \in Seq(Byte)
      BY <1>2, <1>3
    <3> QED BY <3>1, ConcatProperties, Zenon
  <2> QED BY <1>2, <2>1, <2>2
<1>6. ASSUME NEW j \in 1 .. 2 * i PROVE t[j] = (u \o f)[j]
  <2>1. PICK k \in 1 .. i : j = 2 * k - 1 \/ j = 2 * k
    BY OddOrEven
  <2>2. CASE k < i
    <3>1. k \in 1 .. i - 1 /\ j =< 2 * (i - 1)
      BY <2>1, <2>2
    <3>2. (u \o f)[j] = u[j]
      <4>1. (u \o f)[j] = IF j =< 2 * (i - 1) THEN u[j] ELSE f[j - 2 * (i - 1)]
        BY <1>5, Zenon
      <4> QED BY <3>1, <4>1
    <3>3. t[j] = u[j]
      BY <1>1, <1>2, <2>1, <3>1
    <3> QED BY <3>2, <3>3
  <2>3. CASE k = i
    <3>1. ~ (j =< 2 * (i - 1)) /\ (j = 2 * k - 1 => j - 2 * (i - 1) = 1)
                               /\ (j = 2 * k => j - 2 * (i - 1) = 2)
      BY <2>1, <2>3
    <3>2. (u \o f)[j] = f[j - 2 * (i - 1)]
      BY <1>5, <3>1
    <3>3. CASE j = 2 * k - 1
      BY <1>1, <1>4, <2>3, <3>1, <3>2, <3>3
    <3>4. CASE j = 2 * k
      BY <1>1, <1>4, <2>3, <3>1, <3>2, <3>4
    <3> QED BY <2>1, <3>3, <3>4
  <2>4. k < i \/ k = i
    OBVIOUS
  <2> QED BY <2>2, <2>3, <2>4
<1>7. t = u \o f
  BY <1>1, <1>5, <1>6, SeqEqual
<1> QED BY <1>7 DEF t, u, f

LEMMA FlattenFaults ==
  ASSUME NEW faults \in Seq(Byte \X Byte)
  PROVE  FlattenSeq(faults) = Bytes(faults, Len(faults))
<1> DEFINE N == Len(faults)
           flat == CHOOSE g : g =
             [i \in 1 .. N |-> IF i = 1 THEN faults[i] ELSE g[i - 1] \o faults[i]]
           all == [i \in 1 .. N |-> Bytes(faults, i)]
<1>1. N \in Nat /\ \A k \in 1 .. N : faults[k] \in Byte \X Byte
  OBVIOUS
<1>2. CASE N = 0
  <2>1. faults = <<>>
    BY <1>2
  <2>2. FlattenSeq(faults) = <<>>
    BY <1>2, <2>1 DEF FlattenSeq
  <2>3. Bytes(faults, 0) = <<>>
    <3>1. Bytes(faults, 0) \in Seq(Byte) /\ Len(Bytes(faults, 0)) = 0
      BY <1>1, BytesOf
    <3> QED BY <3>1
  <2> QED BY <1>2, <2>2, <2>3
<1>3. CASE N # 0
  <2>1. FlattenSeq(faults) = flat[N]
    BY <1>3 DEF FlattenSeq
  <2> HIDE DEF N
  <2>2. ASSUME NEW i \in 1 .. N
        PROVE  Bytes(faults, i) = Bytes(faults, i - 1) \o faults[i]
    <3>1. i \in Nat \ {0} /\ \A k \in 1 .. i : faults[k] \in Byte \X Byte
      BY <1>1
    <3> QED BY <3>1, BytesStep
  <2>3. Bytes(faults, 1) = faults[1]
    <3>1. 1 \in 1 .. N
      BY <1>1, <1>3
    <3>2. PICK x \in Byte, y \in Byte : faults[1] = <<x, y>>
      BY <1>1, <3>1
    <3>3. Bytes(faults, 0) \in Seq(Byte) /\ Len(Bytes(faults, 0)) = 0
      BY BytesOf
    <3>4. Bytes(faults, 0) = <<>>
      BY <3>3
    <3>5. Bytes(faults, 1) = <<>> \o faults[1]
      <4>1. Bytes(faults, 1) = Bytes(faults, 1 - 1) \o faults[1]
        BY <2>2, <3>1
      <4>2. 1 - 1 = 0
        OBVIOUS
      <4> QED BY <3>4, <4>1, <4>2
    <3>6. faults[1] \in Seq(Byte)
      BY <3>2
    <3> QED BY <3>5, <3>6, ConcatEmptySeq
  <2>4. all = [i \in 1 .. N |-> IF i = 1 THEN faults[i] ELSE all[i - 1] \o faults[i]]
    <3>1. ASSUME NEW i \in 1 .. N
          PROVE  Bytes(faults, i) = IF i = 1 THEN faults[i] ELSE all[i - 1] \o faults[i]
      <4>1. CASE i = 1
        BY <4>1, <2>3
      <4>2. CASE i # 1
        <5>1. i - 1 \in 1 .. N
          BY <1>1, <4>2
        <5>2. all[i - 1] = Bytes(faults, i - 1)
          BY <5>1
        <5> HIDE DEF all
        <5> QED BY <2>2, <4>2, <5>2
      <4> QED BY <4>1, <4>2
    <3> QED BY <3>1
  <2> HIDE DEF all
  <2>5. flat = [i \in 1 .. N |-> IF i = 1 THEN faults[i] ELSE flat[i - 1] \o faults[i]]
    BY <2>4, Zenon
  <2> HIDE DEF flat
  <2> DEFINE Bad == {i \in 1 .. N : flat[i] # Bytes(faults, i)}
  <2>6. ASSUME Bad # {} PROVE FALSE
    <3>1. Bad \subseteq Nat
      BY <1>1
    <3>2. PICK m \in Bad : \A j \in Bad : ~ (j < m)
      BY <2>6, <3>1, Least
    <3>3. m \in 1 .. N /\ flat[m] # Bytes(faults, m)
      BY <3>2
    <3>4. m # 1
      BY <2>3, <2>5, <3>3
    <3>5. m - 1 \in 1 .. N /\ m - 1 \notin Bad
      BY <1>1, <3>2, <3>3, <3>4
    <3>6. flat[m - 1] = Bytes(faults, m - 1)
      BY <3>5
    <3>7. flat[m] = flat[m - 1] \o faults[m]
      <4>1. flat[m] = IF m = 1 THEN faults[m] ELSE flat[m - 1] \o faults[m]
        BY <2>5, <3>3, Zenon
      <4> QED BY <3>4, <4>1
    <3> QED BY <2>2, <3>3, <3>6, <3>7
  <2>7. N \in 1 .. N
    BY <1>1, <1>3
  <2> QED BY <2>1, <2>6, <2>7 DEF N
<1> QED BY <1>2, <1>3

(* decode_dtc_bytes on the answer of the ECU.                              *)
LEMMA CodesOfFaults ==
  ASSUME NEW faults \in Seq(Faults)
  PROVE  /\ Codes(faults) \in Seq(CodeSet) /\ Len(Codes(faults)) = Len(faults)
         /\ \A k \in 1 .. Len(faults) :
              Codes(faults)[k] = Code(faults[k][1], faults[k][2])
<1> DEFINE C(k) == Code(faults[k][1], faults[k][2])
           N == Len(faults)
<1>1. N \in Nat /\ DOMAIN faults = 1 .. N /\ \A k \in 1 .. N : faults[k] \in Faults
  OBVIOUS
<1> HIDE DEF N
<1>2. \A k \in 1 .. N : C(k) \in CodeSet
  BY <1>1, Fault, CodeIsCode
<1>3. Codes(faults) = [k \in 1 .. N |-> C(k)]
  BY <1>1, Zenon DEF Codes
<1> HIDE DEF C
<1>4. [k \in 1 .. N |-> C(k)] \in Seq(CodeSet)
  BY <1>1, <1>2
<1>5. Len([k \in 1 .. N |-> C(k)]) = N
  BY <1>1
<1>6. \A k \in 1 .. N : Codes(faults)[k] = C(k)
  BY <1>3
<1> QED BY <1>3, <1>4, <1>5, <1>6 DEF C, N

LEMMA DecodeFaults ==
  ASSUME NEW faults \in Seq(Faults), NEW bytes,
         Len(bytes) = 2 * Len(faults) + 2,
         \A k \in 1 .. Len(faults) : /\ bytes[2 * k + 1] = faults[k][1]
                                     /\ bytes[2 * k + 2] = faults[k][2]
  PROVE  DecodeDtcBytes(bytes) = Codes(faults)
<1> DEFINE N == Len(faults)
           L == Len(bytes) + 1
           c == Codes(faults)
           P(k) == Code(bytes[2 * k + 1], bytes[2 * k + 2])
           from == CHOOSE g : g =
             [k \in 1 .. L |-> IF NoMore(bytes, 2 * k + 1) THEN <<>>
                               ELSE << P(k) >> \o g[k + 1]]
           rest == [k \in 1 .. L |-> SubSeq(c, k, N)]
<1>1. N \in Nat /\ L = 2 * N + 3 /\ L \in Nat
  OBVIOUS
<1>2. DecodeDtcBytes(bytes) = from[1]
  BY DEF DecodeDtcBytes
<1>3. c \in Seq(CodeSet) /\ Len(c) = N
  BY CodesOfFaults
<1>4. \A k \in 1 .. N : c[k] = P(k)
  BY CodesOfFaults
<1>5. ASSUME NEW k \in 1 .. L PROVE NoMore(bytes, 2 * k + 1) <=> k > N
  <2>1. 2 * k + 1 + 1 > Len(bytes) <=> k > N
    BY <1>1
  <2>2. CASE k > N
    BY <2>1, <2>2 DEF NoMore
  <2>3. CASE ~ (k > N)
    <3>1. k \in 1 .. N /\ faults[k] \in Faults
      BY <2>3, <1>1
    <3>2. ~ (faults[k][1] = 0 /\ faults[k][2] = 0)
      BY <3>1, Fault
    <3>3. bytes[2 * k + 1] = faults[k][1] /\ bytes[2 * k + 1 + 1] = faults[k][2]
      BY <3>1, <1>1
    <3> QED BY <2>1, <2>3, <3>2, <3>3 DEF NoMore
  <2> QED BY <2>2, <2>3
<1> HIDE DEF N, L, c, P
<1>6. \A k \in Nat : k > N => SubSeq(c, k, N) = <<>>
  BY <1>1, SubSeqEmpty
<1>7. \A k \in 1 .. N : SubSeq(c, k, N) = << P(k) >> \o SubSeq(c, k + 1, N)
  <2> TAKE k \in 1 .. N
  <2>1. k \in 1 .. Len(c) /\ N \in k .. Len(c)
    BY <1>1, <1>3
  <2>2. SubSeq(c, k, N) = << c[k] >> \o SubSeq(c, k + 1, N)
    BY <1>3, <2>1, SubSeqRecursiveFirst
  <2> QED BY <1>4, <2>2
<1>8. rest = [k \in 1 .. L |-> IF NoMore(bytes, 2 * k + 1) THEN <<>>
                               ELSE << P(k) >> \o rest[k + 1]]
  <2>1. ASSUME NEW k \in 1 .. L
        PROVE  SubSeq(c, k, N) = IF NoMore(bytes, 2 * k + 1) THEN <<>>
                                 ELSE << P(k) >> \o rest[k + 1]
    <3>1. CASE k > N
      BY <3>1, <1>1, <1>5, <1>6
    <3>2. CASE ~ (k > N)
      <4>1. k \in 1 .. N /\ k + 1 \in 1 .. L
        BY <3>2, <1>1
      <4>2. rest[k + 1] = SubSeq(c, k + 1, N)
        BY <4>1
      <4> HIDE DEF rest
      <4> QED BY <3>2, <4>1, <4>2, <1>5, <1>7
    <3> QED BY <3>1, <3>2
  <2> QED BY <2>1
<1> HIDE DEF rest
<1>9. from = [k \in 1 .. L |-> IF NoMore(bytes, 2 * k + 1) THEN <<>>
                               ELSE << P(k) >> \o from[k + 1]]
  BY <1>8, Zenon
<1> HIDE DEF from
<1> DEFINE Bad == {j \in 0 .. L - 1 : from[L - j] # SubSeq(c, L - j, N)}
<1>10. ASSUME Bad # {} PROVE FALSE
  <2>1. Bad \subseteq Nat
    BY <1>1
  <2>2. PICK m \in Bad : \A j \in Bad : ~ (j < m)
    BY <1>10, <2>1, Least
  <2>3. PICK k \in 1 .. L : k = L - m
    BY <2>2, <1>1
  <2>4. from[k] # SubSeq(c, k, N) /\ m \in 0 .. L - 1
    BY <2>2, <2>3
  <2>5. from[k] = IF NoMore(bytes, 2 * k + 1) THEN <<>>
                  ELSE << P(k) >> \o from[k + 1]
    BY <1>9, Zenon
  <2>6. ~ (k > N)
    BY <1>1, <1>5, <1>6, <2>4, <2>5
  <2>7. m - 1 \in 0 .. L - 1 /\ L - (m - 1) = k + 1 /\ k \in 1 .. N
    BY <1>1, <2>3, <2>4, <2>6
  <2>8. m - 1 \notin Bad
    BY <2>2, <2>7
  <2>9. from[k + 1] = SubSeq(c, k + 1, N)
    BY <2>7, <2>8
  <2> QED BY <1>5, <1>7, <2>4, <2>5, <2>6, <2>7, <2>9
<1>11. from[1] = SubSeq(c, 1, N)
  <2>1. L - 1 \in 0 .. L - 1 /\ L - (L - 1) = 1
    BY <1>1
  <2> QED BY <1>10, <2>1
<1>12. SubSeq(c, 1, N) = c
  BY <1>3
<1> QED BY <1>2, <1>11, <1>12 DEF c

(* The answer of the ECU, with spaces and its lines ended, is parsed into  *)
(* the bytes of the answer.                                                *)
LEMMA AnswerBytes ==
  ASSUME NEW faults \in Seq(Faults), Len(faults) \in Byte, Spaced, Lines
  PROVE  \E bytes \in Seq(Byte) :
           /\ ParseResponse(Answer(faults)) = [tag |-> "Ok", bytes |-> bytes]
           /\ Len(bytes) = 2 * Len(faults) + 2
           /\ \A k \in 1 .. Len(faults) : /\ bytes[2 * k + 1] = faults[k][1]
                                          /\ bytes[2 * k + 2] = faults[k][2]
<1> DEFINE N == Len(faults)
           head == <<67, Len(faults)>>
           flat == FlattenSeq(faults)
           bytes == head \o flat
           l == [prompt |-> FALSE, words |-> {}, tokens |-> bytes]
           b == [BlankLine EXCEPT !.prompt = TRUE]
<1>1. /\ N \in Nat
      /\ flat \in Seq(Byte) /\ Len(flat) = 2 * N
      /\ \A k \in 1 .. N : /\ flat[2 * k - 1] = faults[k][1]
                           /\ flat[2 * k] = faults[k][2]
  <2>1. faults \in Seq(Byte \X Byte)
    BY FaultsAssumption
  <2>2. N \in Nat /\ \A k \in 1 .. N : faults[k] \in Byte \X Byte
    BY <2>1
  <2>3. flat = Bytes(faults, N)
    BY <2>1, FlattenFaults
  <2> HIDE DEF N, flat
  <2> QED BY <2>2, <2>3, BytesOf
<1>2. Answer(faults) = <<l, b>>
  <2>1. (~ Lines) = FALSE
    OBVIOUS
  <2> QED BY <2>1 DEF Answer
<1>3. head \in Seq(Byte) /\ Len(head) = 2
  <2>1. 67 \in Byte
    BY DEF Byte
  <2> QED BY <2>1
<1> HIDE DEF flat, N, head
<1>4. /\ bytes \in Seq(Byte) /\ Len(bytes) = Len(head) + Len(flat)
      /\ \A j \in 1 .. Len(head) + Len(flat) :
           bytes[j] = IF j <= Len(head) THEN head[j] ELSE flat[j - Len(head)]
  BY <1>1, <1>3, ConcatProperties, Zenon
<1> HIDE DEF bytes
<1>5. Len(bytes) = 2 * N + 2
  BY <1>1, <1>3, <1>4
<1>6. ASSUME NEW k \in 1 .. N
      PROVE  bytes[2 * k + 1] = faults[k][1] /\ bytes[2 * k + 2] = faults[k][2]
  <2>1. 2 * k + 1 \in 1 .. 2 + 2 * N /\ 2 * k + 2 \in 1 .. 2 + 2 * N
    BY <1>1
  <2>2. bytes[2 * k + 1] = flat[2 * k - 1] /\ bytes[2 * k + 2] = flat[2 * k]
    BY <1>1, <1>3, <1>4, <2>1
  <2> QED BY <1>1, <2>2
<1>7. l.tokens = bytes /\ l.words = {} /\ ~ l.prompt
  OBVIOUS
<1>8. bytes # <<>>
  BY <1>1, <1>5
<1> HIDE DEF l, b
<1>9. Clean(Answer(faults)) = l
  BY <1>2, <1>7, <1>8, FirstUseful
<1>10. Pairs(l) = bytes
  BY <1>4, <1>7, PairsOfBytes
<1>11. NotHex \notin ToSet(bytes)
  <2>1. \A j \in 1 .. Len(bytes) : bytes[j] \in Byte
    BY <1>4
  <2>2. NotHex \notin Byte
    BY DEF Byte, NotHex
  <2>3. DOMAIN bytes = 1 .. Len(bytes)
    BY <1>4
  <2> QED BY <2>1, <2>2, <2>3 DEF ToSet
<1>12. ParseResponse(Answer(faults)) = [tag |-> "Ok", bytes |-> bytes]
  BY <1>7, <1>9, <1>10, <1>11 DEF ParseResponse
<1> QED BY <1>4, <1>5, <1>6, <1>12 DEF N

(* The codes of the faults, when the settings let them be read.            *)
LEMMA CodesShown ==
  ASSUME Memory, Spaced, Lines
  PROVE  Response(Answer(memory)) = OK(Codes(memory))
<1>1. memory \in Seq(Faults) /\ Len(memory) \in Byte
  <2>1. memory \in Seq(Faults) /\ Len(memory) =< MaxFaults
    BY DEF Memory
  <2>2. Len(memory) \in Nat
    BY <2>1
  <2>3. MaxFaults \in Nat /\ MaxFaults =< 255
    BY FaultsAssumption DEF Byte
  <2>4. \A n \in Nat : n =< MaxFaults => n \in Byte
    BY <2>3 DEF Byte
  <2> QED BY <2>1, <2>2, <2>4
<1>2. PICK bytes \in Seq(Byte) :
         /\ ParseResponse(Answer(memory)) = [tag |-> "Ok", bytes |-> bytes]
         /\ Len(bytes) = 2 * Len(memory) + 2
         /\ \A k \in 1 .. Len(memory) : /\ bytes[2 * k + 1] = memory[k][1]
                                        /\ bytes[2 * k + 2] = memory[k][2]
  BY <1>1, AnswerBytes
<1>3. DecodeDtcBytes(bytes) = Codes(memory)
  BY <1>1, <1>2, DecodeFaults
<1>4. Response(Answer(memory)) = OK(DecodeDtcBytes(bytes))
  BY <1>2 DEF Response
<1> QED BY <1>3, <1>4

(* The one line of an answer without line feeds has the prompt.            *)
LEMMA NothingWithoutLines ==
  ASSUME ~ Lines, NEW faults
  PROVE  Response(Answer(faults)) = OK(<<>>)
<1> DEFINE l == [prompt |-> TRUE, words |-> {},
                 tokens |-> IF Spaced THEN <<67, Len(faults)>> \o FlattenSeq(faults)
                                      ELSE <<NotPair>>]
<1>1. Answer(faults) = <<l>>
  <2>1. (~ Lines) = TRUE
    OBVIOUS
  <2> QED BY <2>1 DEF Answer
<1>2. l.prompt
  OBVIOUS
<1> HIDE DEF l
<1>3. Clean(Answer(faults)) = BlankLine
  BY <1>1, <1>2, NoneUseful
<1>4. BlankLine.words = {} /\ BlankLine.tokens = <<>>
  BY DEF BlankLine
<1> QED BY <1>3, <1>4, EmptyResponse

LEMMA NothingWithoutSpaces ==
  ASSUME Lines, ~ Spaced, NEW faults
  PROVE  Response(Answer(faults)) = OK(<<>>)
<1> DEFINE l == [prompt |-> FALSE, words |-> {}, tokens |-> <<NotPair>>]
           b == [BlankLine EXCEPT !.prompt = TRUE]
<1>1. Answer(faults) = <<l, b>>
  <2>1. (~ Lines) = FALSE
    OBVIOUS
  <2> QED BY <2>1 DEF Answer
<1>2. l.tokens = <<NotPair>> /\ l.tokens # <<>> /\ ~ l.prompt /\ l.words = {}
  OBVIOUS
<1> HIDE DEF l, b
<1>3. Clean(Answer(faults)) = l
  BY <1>1, <1>2, FirstUseful
<1> QED BY <1>2, <1>3, EmptyResponse

(* Whatever faults the ECU holds and however many, the two settings of the *)
(* ELM327 decide what GET /dtc shows when it has answered: with spaces and *)
(* line feeds the codes of the faults, in order and no other; without line *)
(* feeds, as after the ATL0 of INIT_SEQUENCE, a failure, unless the stream *)
(* ends there; otherwise no code at all.                                   *)
THEOREM CodesBySettings == Spec => []ShownBySettings
<1>1. ASSUME Memory, ReadCodes
      PROVE  shown' = IF ~ Lines /\ ~ told'.hungUp THEN Failed
                      ELSE IF Lines /\ Spaced THEN OK(Codes(told'.faults))
                      ELSE OK(<<>>)
  <2>1. PICK hungUp \in BOOLEAN :
           /\ shown' = IF Returned(hungUp) THEN Response(Answer(memory)) ELSE Failed
           /\ told' = Told(memory, hungUp)
    BY <1>1 DEF ReadCodes
  <2>2. told'.faults = memory /\ told'.hungUp = hungUp
    BY <2>1 DEF Told
  <2>3. CASE ~ Lines /\ ~ hungUp
    BY <2>1, <2>2, <2>3 DEF Returned
  <2>4. CASE ~ Lines /\ hungUp
    BY <2>1, <2>2, <2>4, NothingWithoutLines DEF Returned
  <2>5. CASE Lines /\ Spaced
    BY <2>1, <2>2, <2>5, <1>1, CodesShown DEF Returned
  <2>6. CASE Lines /\ ~ Spaced
    BY <2>1, <2>2, <2>6, NothingWithoutSpaces DEF Returned
  <2> QED BY <2>3, <2>4, <2>5, <2>6
<1>2. Init => ShownBySettings
  BY DEF Init, NotTold, ShownBySettings
<1>3. ShownBySettings /\ Memory /\ [Next]_vars => ShownBySettings'
  <2> SUFFICES ASSUME ShownBySettings, Memory, [Next]_vars PROVE ShownBySettings'
    OBVIOUS
  <2>1. CASE ReadCodes
    BY <2>1, <1>1 DEF ShownBySettings, Codes
  <2>2. CASE ReadFails
    BY <2>2 DEF ReadFails, NotTold, ShownBySettings
  <2>3. CASE Clear \/ \E f \in Faults : Occurs(f)
    BY <2>3 DEF Clear, Occurs, ShownBySettings, Codes
  <2>4. CASE UNCHANGED vars
    BY <2>4 DEF vars, ShownBySettings, Codes
  <2> QED BY <2>1, <2>2, <2>3, <2>4 DEF Next
<1> QED BY <1>2, <1>3, MemoryHolds, PTL DEF Spec

(* What the run checks, with the settings of the tests.                    *)
LEMMA ActiveCodesRead == ASSUME Spaced, Lines PROVE Spec => []ReadsActiveCodes
<1>1. ShownBySettings => ReadsActiveCodes
  BY DEF ShownBySettings, ReadsActiveCodes
<1> QED BY <1>1, CodesBySettings, PTL
=============================================================================
