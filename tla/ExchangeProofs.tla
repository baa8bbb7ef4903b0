---------------------------- MODULE ExchangeProofs ----------------------------
(***************************************************************************)
(* Answers are returned in the order of their commands, for every layout   *)
(* of the answers with one prompt and every number of commands.  Where     *)
(* nothing follows the prompt but the end of its line, if that, what is    *)
(* returned on a stream with nothing outstanding is the whole text of the  *)
(* command's own answer; it is returned if the line is ended, and left to  *)
(* the timeout if not.  Answers without line feeds are never returned.     *)
(*                                                                         *)
(* The argument for the order: an exchange takes off the stream all that   *)
(* has arrived, so that what is left for the next one begins with the      *)
(* first prompt still to come.  The inductive invariant says it of every   *)
(* prompt that has been read in the exchange in progress or waits to be    *)
(* read.  For the content: on such a stream an exchange meets the pieces   *)
(* of its own answer from the first, and a line with a prompt is the end   *)
(* of it.                                                                  *)
(***************************************************************************)
EXTENDS Exchange, WellFoundedInduction, TLAPS

(* Every prompt of s is one that can still be returned.                    *)
Returnable(s) ==
  \A i \in DOMAIN s :
     s[i].is = "prompt" => s[i].of \in Nat /\ next <= s[i].of /\ s[i].of < Upcoming

Ordered ==
  /\ sent # 0 => answering <= asked
  /\ next <= Upcoming
  /\ Returnable(part) /\ Returnable(net)
  /\ at = "reset" => response = <<>>

IInv == TypeOK /\ Ordered

LEMMA UpcomingType ==
  ASSUME IInv
  PROVE  Upcoming \in Nat /\ Upcoming <= asked + 1 /\ Upcoming >= answering
<1>1. asked \in Nat /\ answering \in Nat /\ answering <= asked + 1 /\ sent \in Nat
  BY ExchangeAssumption DEF IInv, TypeOK
<1>2. CASE PromptSent
  <2>1. sent # 0
    BY <1>2, <1>1 DEF PromptSent
  <2> QED BY <2>1, <1>1, <1>2 DEF IInv, Ordered, Upcoming
<1>3. CASE ~ PromptSent
  BY <1>1, <1>3 DEF Upcoming
<1> QED BY <1>2, <1>3

(* What an exchange may return was returnable and is returned.             *)
LEMMA PrefixType ==
  ASSUME IInv, NEW i \in DOMAIN (part \o net)
  PROVE  /\ part \o net \in Seq(Piece)
         /\ SubSeq(part \o net, 1, i) \in Seq(Piece)
         /\ DOMAIN SubSeq(part \o net, 1, i) = 1 .. i
         /\ \A j \in 1 .. i :
              /\ j \in DOMAIN (part \o net)
              /\ SubSeq(part \o net, 1, i)[j] = (part \o net)[j]
<1>1. part \in Seq(Piece) /\ net \in Seq(Piece)
  BY DEF IInv, TypeOK
<1> DEFINE read == part \o net
<1>2. read \in Seq(Piece)
  BY <1>1
<1>3. i \in 1 .. Len(read) /\ DOMAIN read = 1 .. Len(read)
  BY <1>2
<1> HIDE DEF read
<1>4. /\ SubSeq(read, 1, i) \in Seq(Piece)
      /\ Len(SubSeq(read, 1, i)) = i
      /\ \A j \in 1 .. i : SubSeq(read, 1, i)[j] = read[j]
  BY <1>2, <1>3
<1> QED BY <1>2, <1>3, <1>4 DEF read

LEMMA BothReturnable ==
  ASSUME IInv
  PROVE  Returnable(part \o net)
<1>1. part \in Seq(Piece) /\ net \in Seq(Piece)
  BY DEF IInv, TypeOK
<1>2. Returnable(part) /\ Returnable(net)
  BY DEF IInv, Ordered
<1> SUFFICES ASSUME NEW i \in DOMAIN (part \o net), (part \o net)[i].is = "prompt"
             PROVE  /\ (part \o net)[i].of \in Nat
                    /\ next <= (part \o net)[i].of
                    /\ (part \o net)[i].of < Upcoming
  BY DEF Returnable
<1>3. CASE i <= Len(part)
  <2>1. i \in DOMAIN part /\ (part \o net)[i] = part[i]
    BY <1>1, <1>3
  <2> QED BY <2>1, <1>2 DEF Returnable
<1>4. CASE i > Len(part)
  <2>1. i - Len(part) \in DOMAIN net /\ (part \o net)[i] = net[i - Len(part)]
    BY <1>1, <1>4
  <2> QED BY <2>1, <1>2 DEF Returnable
<1>5. i \in Nat /\ Len(part) \in Nat
  BY <1>1
<1> QED BY <1>3, <1>4, <1>5

LEMMA InitIInv == ASSUME Init PROVE IInv
<1>1. Len(Layout) \in Nat /\ Len(Layout) >= 1
  BY ExchangeAssumption
<1>2. ~ PromptSent
  BY DEF Init, PromptSent
<1>3. TypeOK
  <2>1. <<>> \in Seq(Piece)
    OBVIOUS
  <2>2. 0 \in 0 .. Len(Layout) - 1 /\ 1 \in 1 .. 2
    BY <1>1
  <2>3. net \in Seq(Piece) /\ part \in Seq(Piece) /\ response \in Seq(Piece)
    BY <2>1, Zenon DEF Init
  <2>4. /\ asked \in 1 .. MaxAsked \cup {1} /\ answering \in 1 .. asked + 1
        /\ sent \in 0 .. Len(Layout) - 1 /\ next \in 1 .. asked + 1
    BY <2>2 DEF Init
  <2>5. at \in {"reset", "idle", "exchange"} /\ (at # "exchange" => part = <<>>)
    BY DEF Init
  <2>6. quiet \in BOOLEAN /\ open \in BOOLEAN /\ clean \in BOOLEAN
    BY DEF Init
  <2> QED BY <2>3, <2>4, <2>5, <2>6 DEF TypeOK
<1>4. Ordered
  BY <1>2 DEF Init, Ordered, Returnable, Upcoming
<1> QED BY <1>3, <1>4 DEF IInv

(* The exchange that ends leaves nothing returnable behind the next prompt *)
(* to come.                                                                *)
LEMMA LeavesKeeps ==
  ASSUME IInv, NEW result \in Seq(Piece), Leaves(result), at = "exchange",
         UNCHANGED <<answering, sent, open>>, quiet' \in BOOLEAN, net' = <<>>
  PROVE  IInv'
<1>1. Upcoming \in Nat /\ Upcoming <= asked + 1 /\ Upcoming >= answering
  BY UpcomingType
<1>2. Upcoming' = Upcoming
  BY DEF Upcoming, PromptSent
<1>3. TypeOK'
  BY <1>1 DEF IInv, TypeOK, Leaves
<1>4. Ordered'
  BY <1>1, <1>2 DEF IInv, Ordered, Returnable, Leaves
<1> QED BY <1>3, <1>4 DEF IInv

(* Of the pieces to come the prompts are the far end's next.               *)
LEMMA ArrivesKeeps == ASSUME IInv, Arrives PROVE IInv'
<1> DEFINE piece == [is |-> Layout[sent + 1], of |-> answering]
<1>1. /\ Layout \in Seq(Shapes) /\ sent \in Nat /\ sent + 1 \in 1 .. Len(Layout)
      /\ sent + 1 \in DOMAIN Layout
      /\ answering \in Nat /\ answering >= 1 /\ asked \in Nat /\ answering <= asked
      /\ net \in Seq(Piece)
  BY ExchangeAssumption DEF IInv, TypeOK, Arrives, Unanswered
<1>2. piece \in Piece
  BY <1>1 DEF Piece
<1>3. net' = Append(net, piece)
  BY DEF Arrives
<1> HIDE DEF piece
<1>4. TypeOK'
  <2>1. net' \in Seq(Piece)
    BY <1>1, <1>2, <1>3
  <2>2. sent' \in 0 .. Len(Layout) - 1 /\ answering' \in 1 .. asked + 1
    BY <1>1 DEF Arrives
  <2> QED BY <2>1, <2>2 DEF IInv, TypeOK, Arrives
<1>5. Upcoming \in Nat /\ Upcoming' \in Nat /\ Upcoming <= Upcoming'
  <2>1. CASE sent + 1 = Len(Layout)
    BY <2>1, <1>1 DEF Arrives, Upcoming, PromptSent
  <2>2. CASE sent + 1 # Len(Layout)
    <3>1. sent' = sent + 1 /\ answering' = answering
      BY <2>2 DEF Arrives
    <3>2. PromptSent => PromptSent'
      BY <3>1, <1>1 DEF PromptSent
    <3> QED BY <3>1, <3>2, <1>1 DEF Upcoming
  <2> QED BY <2>1, <2>2
<1>6. piece.is = "prompt" => piece.of = Upcoming /\ piece.of < Upcoming'
  <2> SUFFICES ASSUME Layout[sent + 1] = "prompt"
               PROVE  answering = Upcoming /\ answering < Upcoming'
    BY DEF piece
  <2>1. ~ PromptSent
    BY <1>1, ExchangeAssumption DEF PromptSent
  <2>2. CASE sent + 1 = Len(Layout)
    <3>1. answering' = answering + 1 /\ sent' = 0
      BY <2>2 DEF Arrives
    <3>2. ~ PromptSent'
      BY <3>1 DEF PromptSent
    <3> QED BY <2>1, <3>1, <3>2, <1>1 DEF Upcoming
  <2>3. CASE sent + 1 # Len(Layout)
    <3>1. sent' = sent + 1 /\ answering' = answering
      BY <2>3 DEF Arrives
    <3>2. PromptSent'
      BY <3>1, <1>1 DEF PromptSent
    <3> QED BY <2>1, <3>1, <3>2, <1>1 DEF Upcoming
  <2> QED BY <2>2, <2>3
<1>7. Ordered'
  <2>1. next' = next /\ part' = part /\ at' = at /\ response' = response /\ asked' = asked
    BY DEF Arrives
  <2>2. next \in Nat /\ next <= Upcoming
    BY DEF IInv, TypeOK, Ordered
  <2>3. (sent # 0 => answering <= asked)'
    BY <1>1, <2>1 DEF Arrives
  <2>4. Returnable(part)'
    BY <2>1, <2>2, <1>5 DEF IInv, Ordered, Returnable
  <2>5. Returnable(net)'
    <3> SUFFICES ASSUME NEW i \in DOMAIN net', net'[i].is = "prompt"
                 PROVE  /\ net'[i].of \in Nat
                        /\ next <= net'[i].of /\ net'[i].of < Upcoming'
      BY <2>1 DEF Returnable
    <3>1. CASE i \in DOMAIN net
      <4>1. net'[i] = net[i]
        BY <3>1, <1>1, <1>2, <1>3
      <4> QED BY <4>1, <3>1, <1>5, <2>2 DEF IInv, Ordered, Returnable
    <3>2. CASE i \notin DOMAIN net
      <4>1. net'[i] = piece
        BY <3>2, <1>1, <1>2, <1>3
      <4> QED BY <4>1, <1>5, <1>6, <2>2
    <3> QED BY <3>1, <3>2
  <2> QED BY <2>1, <2>2, <2>3, <2>4, <2>5, <1>5 DEF IInv, Ordered
<1> QED BY <1>4, <1>7 DEF IInv

(* An exchange that returns gives what it has read, up to some piece.      *)
LEMMA ReturnsPrefix ==
  ASSUME IInv, Returns
  PROVE  /\ response' \in Seq(Piece) /\ Leaves(response')
         /\ Prompts(response') # {}
         /\ Prompts(response') \subseteq next .. asked
         /\ \A k \in Prompts(response') : k < Upcoming
<1> DEFINE read == part \o net
<1>1. PICK i \in DOMAIN read : Ends(read, i) /\ Leaves(SubSeq(read, 1, i))
  BY DEF Returns
<1>2. response' = SubSeq(read, 1, i)
  BY <1>1 DEF Leaves
<1>3. /\ response' \in Seq(Piece) /\ DOMAIN response' = 1 .. i
      /\ \A j \in 1 .. i : j \in DOMAIN read /\ response'[j] = read[j]
  BY <1>2, PrefixType
<1>4. Returnable(read)
  BY BothReturnable
<1>5. PICK j \in 1 .. i : read[j].is = "prompt"
  BY <1>1 DEF Ends
<1>6. Upcoming \in Nat /\ Upcoming <= asked + 1 /\ asked \in Nat /\ next \in Nat
  BY UpcomingType DEF IInv, TypeOK
<1> HIDE DEF read
<1>7. Prompts(response') # {}
  BY <1>3, <1>5 DEF Prompts
<1>8. \A k \in Prompts(response') : k \in next .. asked /\ k < Upcoming
  <2> SUFFICES ASSUME NEW k \in DOMAIN response', response'[k].is = "prompt"
               PROVE  response'[k].of \in next .. asked /\ response'[k].of < Upcoming
    BY DEF Prompts
  <2>1. k \in DOMAIN read /\ read[k].is = "prompt" /\ response'[k] = read[k]
    BY <1>3
  <2> QED BY <2>1, <1>4, <1>6 DEF Returnable
<1> QED BY <1>1, <1>2, <1>3, <1>7, <1>8

LEMMA EndReturnsPart ==
  ASSUME IInv, EndReturns
  PROVE  /\ response' \in Seq(Piece) /\ Leaves(response') /\ net' = <<>>
         /\ Prompts(response') # {}
         /\ Prompts(response') \subseteq next .. asked
         /\ \A k \in Prompts(response') : k < Upcoming
<1>1. response' = part /\ Leaves(part) /\ part \in Seq(Piece) /\ net' = <<>>
  BY DEF EndReturns, Leaves, IInv, TypeOK
<1>2. Upcoming \in Nat /\ Upcoming <= asked + 1 /\ asked \in Nat /\ next \in Nat
  BY UpcomingType DEF IInv, TypeOK
<1>3. Prompts(part) # {}
  BY DEF EndReturns, Holds, Prompts
<1>4. \A k \in Prompts(part) : k \in next .. asked /\ k < Upcoming
  BY <1>2 DEF IInv, Ordered, Returnable, Prompts
<1> QED BY <1>1, <1>3, <1>4

(* The transport's steps and the far end's keep the invariant.             *)
LEMMA TransportKeeps == ASSUME IInv, Transport PROVE IInv'
<1>1. CASE Drains
  <2>1. Upcoming \in Nat /\ Upcoming <= asked + 1 /\ Upcoming >= answering
    BY UpcomingType
  <2>2. Upcoming' = Upcoming
    BY <1>1 DEF Drains, peer, Upcoming, PromptSent
  <2>3. TypeOK'
    <3>1. net' \in Seq(Piece) /\ next' \in 1 .. asked + 1
      BY <1>1, <2>1 DEF Drains, IInv, TypeOK
    <3> QED BY <1>1, <3>1 DEF Drains, peer, IInv, TypeOK
  <2>4. part = <<>> /\ part' = <<>> /\ net' = <<>>
    BY <1>1 DEF Drains, IInv, TypeOK
  <2>5. Ordered'
    BY <1>1, <2>1, <2>2, <2>4 DEF Drains, peer, IInv, Ordered, Returnable
  <2> QED BY <2>3, <2>5 DEF IInv
<1>2. CASE Returns
  <2>1. response' \in Seq(Piece) /\ Leaves(response')
    BY <1>2, ReturnsPrefix
  <2>2. UNCHANGED peer /\ net' = <<>> /\ at = "exchange" /\ quiet' \in BOOLEAN
    BY <1>2 DEF Returns, peer, IInv, TypeOK
  <2> QED BY <2>1, <2>2, LeavesKeeps DEF peer
<1>3. CASE Reads
  <2>1. part' = part \o net /\ net' = <<>> /\ next' = next /\ response' = response
    BY <1>3 DEF Reads
  <2>2. Upcoming' = Upcoming
    BY <1>3 DEF Reads, peer, Upcoming, PromptSent
  <2>3. part' \in Seq(Piece) /\ net' \in Seq(Piece)
    BY <2>1 DEF IInv, TypeOK
  <2>4. TypeOK'
    BY <1>3, <2>3 DEF Reads, peer, IInv, TypeOK
  <2>5. Returnable(part \o net)
    BY BothReturnable
  <2>6. Returnable(part)' /\ Returnable(net)'
    BY <2>1, <2>2, <2>5 DEF Returnable
  <2> QED BY <1>3, <2>2, <2>4, <2>6 DEF Reads, peer, IInv, Ordered
<1>4. CASE EndReturns
  <2>1. response' \in Seq(Piece) /\ Leaves(response') /\ net' = <<>>
    BY <1>4, EndReturnsPart
  <2>2. UNCHANGED peer /\ at = "exchange" /\ quiet' \in BOOLEAN
    BY <1>4 DEF EndReturns, peer, IInv, TypeOK
  <2> QED BY <2>1, <2>2, LeavesKeeps DEF peer
<1>5. CASE TimesOut
  <2>1. Leaves(<<>>) /\ <<>> \in Seq(Piece)
    BY <1>5 DEF TimesOut
  <2>2. UNCHANGED <<answering, sent, open>> /\ net' = <<>> /\ at = "exchange"
        /\ quiet' \in BOOLEAN
    BY <1>5 DEF TimesOut
  <2> QED BY <2>1, <2>2, LeavesKeeps
<1> QED BY <1>1, <1>2, <1>3, <1>4, <1>5 DEF Transport

LEMMA SendsKeeps == ASSUME IInv, Sends \/ WriteFails PROVE IInv'
<1>1. Upcoming' = Upcoming /\ next' = next /\ part' = part /\ net' = net
  BY DEF Sends, WriteFails, peer, Upcoming, PromptSent
<1>2. Returnable(part)' /\ Returnable(net)'
  BY <1>1 DEF IInv, Ordered, Returnable
<1>3. response' = <<>> /\ response' \in Seq(Piece)
  <2>1. response' = <<>>
    BY DEF Sends, WriteFails
  <2>2. <<>> \in Seq(Piece)
    OBVIOUS
  <2> QED BY <2>1, <2>2, Zenon
<1>4. part = <<>>
  BY DEF Sends, WriteFails, IInv, TypeOK
<1>5. CASE Sends
  <2>1. asked \in Nat /\ asked < MaxAsked /\ asked' = asked + 1 /\ asked >= 1
    BY <1>5 DEF Sends, IInv, TypeOK
  <2>2. asked' \in 1 .. MaxAsked /\ answering' \in 1 .. asked' + 1 /\ next' \in 1 .. asked' + 1
    BY <1>5, <2>1, ExchangeAssumption DEF Sends, peer, IInv, TypeOK
  <2>3. TypeOK'
    BY <1>5, <2>2, <1>3 DEF Sends, peer, IInv, TypeOK
  <2>4. Ordered'
    BY <1>5, <1>1, <1>2, <1>3, <2>1 DEF Sends, peer, IInv, Ordered, TypeOK
  <2> QED BY <2>3, <2>4 DEF IInv
<1>6. CASE WriteFails
  BY <1>6, <1>1, <1>2, <1>3, <1>4 DEF WriteFails, peer, IInv, TypeOK, Ordered
<1> QED BY <1>5, <1>6

LEMMA FarEndKeeps == ASSUME IInv, FarEnd PROVE IInv'
<1>1. CASE Arrives
  BY <1>1, ArrivesKeeps
<1>2. CASE Pauses \/ HangsUp
  <2>1. Upcoming' = Upcoming
    BY <1>2 DEF Pauses, HangsUp, Upcoming, PromptSent
  <2>2. TypeOK'
    BY <1>2 DEF Pauses, HangsUp, IInv, TypeOK
  <2>3. Ordered'
    BY <1>2, <2>1 DEF Pauses, HangsUp, IInv, Ordered, Returnable
  <2> QED BY <2>2, <2>3 DEF IInv
<1>3. CASE NeverAnswers
  <2>1. ~ PromptSent /\ ~ PromptSent'
    BY <1>3 DEF NeverAnswers, PromptSent
  <2>2. Upcoming' = Upcoming + 1 /\ Upcoming \in Nat
    BY <1>3, <2>1 DEF NeverAnswers, Upcoming, IInv, TypeOK
  <2>3. TypeOK'
    BY <1>3 DEF NeverAnswers, Unanswered, IInv, TypeOK
  <2>4. Returnable(part)' /\ Returnable(net)'
    BY <1>3, <2>2 DEF NeverAnswers, IInv, Ordered, Returnable
  <2>5. next \in Nat
    BY DEF IInv, TypeOK
  <2> QED BY <1>3, <2>2, <2>3, <2>4, <2>5 DEF NeverAnswers, IInv, Ordered
<1> QED BY <1>1, <1>2, <1>3 DEF FarEnd

LEMMA NextKeeps == ASSUME IInv, [Next]_vars PROVE IInv'
<1>1. CASE UNCHANGED vars
  BY <1>1 DEF vars, IInv, TypeOK, Ordered, Returnable, Upcoming, PromptSent
<1> QED BY <1>1, TransportKeeps, SendsKeeps, FarEndKeeps DEF Next

LEMMA AlwaysInductive == Spec => []IInv
BY InitIInv, NextKeeps, PTL DEF Spec

(* In every reachable state each part has its type and the prompts read or *)
(* waiting are the far end's next (send and read_response, ll. 71-100).    *)
THEOREM ExchangeSafe == Spec => [](TypeOK /\ Ordered)
BY AlwaysInductive, PTL DEF IInv

(* Every step of the transport and of the far end is one of the abstract   *)
(* specification's, or none.                                               *)
LEMMA StepsInOrder ==
  ASSUME IInv, [Next]_vars
  PROVE  [Answers!Ask \/ Answers!Return \/ Answers!Forget]_(Answers!vars)
<1>1. Upcoming \in Nat /\ Upcoming <= asked + 1 /\ next \in Nat /\ next <= Upcoming
      /\ asked \in Nat /\ next <= asked + 1
  BY UpcomingType DEF IInv, TypeOK, Ordered
<1>2. Prompts(<<>>) = {}
  BY DEF Prompts
<1>3. CASE Sends
  BY <1>3, <1>2 DEF Sends, Answers!Ask
<1>4. CASE WriteFails \/ Drains \/ TimesOut
  <2>1. next' \in next .. asked + 1 /\ asked' = asked
    BY <1>4, <1>1 DEF WriteFails, Drains, TimesOut, Leaves
  <2>2. response' = <<>>
    BY <1>4 DEF WriteFails, Drains, TimesOut, Leaves, IInv, Ordered
  <2> QED BY <2>1, <2>2, <1>2 DEF Answers!Forget
<1>5. CASE Returns \/ EndReturns
  <2>1. /\ Leaves(response')
        /\ Prompts(response') # {} /\ Prompts(response') \subseteq next .. asked
        /\ \A i \in Prompts(response') : i < Upcoming
    BY <1>5, ReturnsPrefix, EndReturnsPart
  <2>2. next' = Upcoming /\ asked' = asked
    BY <2>1 DEF Leaves
  <2>3. Prompts(response)' = Prompts(response')
    BY DEF Prompts
  <2> QED BY <2>1, <2>2, <2>3, <1>1 DEF Answers!Return
<1>6. CASE Reads \/ FarEnd \/ UNCHANGED vars
  BY <1>6 DEF Reads, FarEnd, Arrives, Pauses, NeverAnswers, HangsUp, vars,
              Answers!vars, Prompts
<1> QED BY <1>3, <1>4, <1>5, <1>6 DEF Next, Transport

(* Whatever the far end leaves unanswered, pauses or hangs up in the       *)
(* middle of, answers are returned in the order of their commands and none *)
(* twice (read_response, ll. 83-100).                                      *)
THEOREM AnswersReturnedInOrder == Spec => AnswersInOrder
<1>1. Init => Answers!Init
  BY DEF Init, Answers!Init, Prompts
<1>2. IInv /\ [Next]_vars => [Answers!Ask \/ Answers!Return \/ Answers!Forget]_(Answers!vars)
  BY StepsInOrder
<1> QED BY <1>1, <1>2, AlwaysInductive, PTL DEF Spec, AnswersInOrder, Answers!Spec

-----------------------------------------------------------------------------
(* What the exchange in progress has read and can read at once.            *)
Read == part \o net

(* A line with a prompt ends behind the k-th piece.                        *)
LineAt(s, k) == s[k].is = "prompt" /\ s[k + 1].is = "lf"

NoLine(s) == \A j \in DOMAIN s : s[j].is = "lf" => \A k \in 1 .. j : s[k].is # "prompt"

(* Between pieces of two answers the line of the first one ends.           *)
Separated(s) ==
  \A i, j \in DOMAIN s :
     i < j /\ s[i].is # "lf" /\ s[i].of # s[j].of => \E k \in i .. j - 1 : LineAt(s, k)

(* So it will be with the pieces to come.                                  *)
Finished(s) ==
  \A i \in DOMAIN s :
     s[i].is # "lf" /\ (s[i].of # answering \/ sent = 0)
        => \E k \in i .. Len(s) - 1 : LineAt(s, k)

AwaitsLine(s) == sent = Len(Layout) - 1 /\ s # <<>> => s[Len(s)].is = "prompt"

InPieces == Separated(Read) /\ Finished(Read) /\ AwaitsLine(Read)

(* An exchange in progress has returned nothing, and it is not over yet.   *)
Reading == NoLine(part) /\ (at = "exchange" => response = <<>>)

(* On a stream with nothing outstanding an exchange meets the pieces of    *)
(* the answer to its own command, from the first.                          *)
FromTheFirst ==
  at = "exchange" /\ clean =>
     \/ /\ answering = asked /\ Len(Read) = sent
        /\ \A i \in 1 .. sent : Read[i] = Answer(asked)[i]
     \/ /\ answering = asked + 1 /\ sent = 0
        /\ Read = <<>> \/ Read = Answer(asked)

CInv == Reading /\ FromTheFirst

LInv == InPieces /\ OneAnswer

LEMMA Least ==
  ASSUME NEW T, T \subseteq Nat, T # {}
  PROVE  \E m \in T : \A j \in T : ~ (j < m)
<1>1. PICK m \in T : \A j \in T : ~ (<<j, m>> \in OpToRel(<, Nat))
  BY NatLessThanWellFounded, WFMin, Zenon
<1> QED BY <1>1 DEF OpToRel

(* Where no piece ends a line with a prompt there is no such line.         *)
LEMMA FirstLine ==
  ASSUME NEW s \in Seq(Piece), \A i \in DOMAIN s : ~ Ends(s, i)
  PROVE  NoLine(s)
<1> SUFFICES ASSUME ~ NoLine(s) PROVE FALSE
  OBVIOUS
<1> DEFINE Lines == {j \in DOMAIN s : s[j].is = "lf" /\ \E k \in 1 .. j : s[k].is = "prompt"}
<1>1. Lines \subseteq Nat /\ Lines # {}
  BY DEF NoLine
<1>2. PICK m \in Lines : \A j \in Lines : ~ (j < m)
  BY <1>1, Least, Zenon
<1>3. m \in DOMAIN s /\ DOMAIN s = 1 .. Len(s) /\ Len(s) \in Nat
  OBVIOUS
<1>4. \A j \in 1 .. m - 1 : s[j].is = "lf" => \A k \in 1 .. j : s[k].is # "prompt"
  <2> SUFFICES ASSUME NEW j \in 1 .. m - 1, s[j].is = "lf", NEW k \in 1 .. j, s[k].is = "prompt"
               PROVE  FALSE
    OBVIOUS
  <2>1. j \in Lines /\ j < m
    BY <1>3
  <2> QED BY <2>1, <1>2
<1>5. Ends(s, m)
  BY <1>4 DEF Ends
<1> QED BY <1>5, <1>3

LEMMA ReadType ==
  ASSUME IInv
  PROVE  /\ part \in Seq(Piece) /\ net \in Seq(Piece) /\ Read \in Seq(Piece)
         /\ DOMAIN Read = 1 .. Len(Read) /\ Len(Read) \in Nat
BY DEF IInv, TypeOK, Read

(* The prompt has been sent when all but the last piece has.               *)
LEMMA PromptIsLastButOne ==
  ASSUME IInv, PromptEndsLine
  PROVE  /\ Len(Layout) \in Nat /\ Len(Layout) >= 2
         /\ DOMAIN Layout = 1 .. Len(Layout) /\ sent \in 0 .. Len(Layout) - 1
         /\ \A i \in DOMAIN Layout : Layout[i] = "prompt" <=> i = Len(Layout) - 1
<1>1. Layout \in Seq(Shapes) /\ sent \in 0 .. Len(Layout) - 1
  BY ExchangeAssumption DEF IInv, TypeOK
<1>2. \A i, j \in DOMAIN Layout : Layout[i] = "prompt" /\ Layout[j] = "prompt" => i = j
  BY ExchangeAssumption
<1>3. Len(Layout) >= 2 /\ Layout[Len(Layout) - 1] = "prompt"
  BY DEF PromptEndsLine
<1>4. Len(Layout) \in Nat /\ DOMAIN Layout = 1 .. Len(Layout)
  BY <1>1
<1> QED BY <1>1, <1>2, <1>3, <1>4

LEMMA ArrivesAppends ==
  ASSUME IInv, Arrives
  PROVE  Read' = Append(Read, [is |-> Layout[sent + 1], of |-> answering])
<1> DEFINE piece == [is |-> Layout[sent + 1], of |-> answering]
<1>1. part \in Seq(Piece) /\ net \in Seq(Piece)
  BY ReadType
<1>2. piece \in Piece
  <2>1. Layout \in Seq(Shapes) /\ sent + 1 \in DOMAIN Layout /\ answering \in Nat
    BY ExchangeAssumption DEF IInv, TypeOK
  <2> QED BY <2>1 DEF Piece
<1>3. part' = part /\ net' = Append(net, piece)
  BY DEF Arrives
<1> HIDE DEF piece
<1>4. Read' = Append(Read, piece)
  BY <1>1, <1>2, <1>3 DEF Read
<1> QED BY <1>4 DEF piece

LEMMA ReadsMoves == ASSUME IInv, Reads PROVE Read' = Read
<1>1. part \in Seq(Piece) /\ net \in Seq(Piece)
  BY ReadType
<1>2. part' = part \o net /\ net' = <<>>
  BY DEF Reads
<1> QED BY <1>1, <1>2 DEF Read

(* What a step does to the pieces that are read and to be read: all of     *)
(* them go, or none, or one arrives.                                       *)
LEMMA StepOfRead ==
  ASSUME IInv, [Next]_vars
  PROVE  \/ Read' = <<>> /\ part' = <<>> /\ UNCHANGED <<answering, sent>>
         \/ Read' = Read /\ UNCHANGED <<answering, sent>>
         \/ Read' = Read /\ NeverAnswers
         \/ Arrives /\ Read' = Append(Read, [is |-> Layout[sent + 1], of |-> answering])
<1>1. CASE Drains
  <2>1. part' = <<>> /\ net' = <<>>
    BY <1>1 DEF Drains, IInv, TypeOK
  <2> QED BY <2>1, <1>1 DEF Drains, peer, Read
<1>2. CASE Returns \/ EndReturns \/ TimesOut
  <2>1. part' = <<>> /\ net' = <<>> /\ UNCHANGED <<answering, sent>>
    BY <1>2 DEF Returns, EndReturns, TimesOut, Leaves, peer
  <2> QED BY <2>1 DEF Read
<1>3. CASE Reads
  BY <1>3, ReadsMoves DEF Reads, peer
<1>4. CASE Sends \/ WriteFails \/ Pauses \/ HangsUp \/ UNCHANGED vars
  BY <1>4 DEF Sends, WriteFails, Pauses, HangsUp, vars, peer, Read
<1>5. CASE NeverAnswers
  BY <1>5 DEF NeverAnswers, Read
<1>6. CASE Arrives
  BY <1>6, ArrivesAppends
<1> QED BY <1>1, <1>2, <1>3, <1>4, <1>5, <1>6 DEF Next, Transport, FarEnd

(* A piece arrives: if it is the line feed of an answer, its prompt is the *)
(* last piece before it.                                                   *)
LEMMA ArrivesInPieces ==
  ASSUME IInv, PromptEndsLine, InPieces, Arrives,
         Read' = Append(Read, [is |-> Layout[sent + 1], of |-> answering])
  PROVE  Separated(Read)' /\ Finished(Read)' /\ AwaitsLine(Read)'
<1> DEFINE piece == [is |-> Layout[sent + 1], of |-> answering]
           n == Len(Read)
<1>1. Read \in Seq(Piece) /\ DOMAIN Read = 1 .. n /\ n \in Nat
  BY ReadType
<1>2. /\ Len(Layout) \in Nat /\ Len(Layout) >= 2 /\ sent \in 0 .. Len(Layout) - 1
      /\ DOMAIN Layout = 1 .. Len(Layout)
      /\ \A i \in DOMAIN Layout : Layout[i] = "prompt" <=> i = Len(Layout) - 1
  BY PromptIsLastButOne
<1>3. piece \in Piece
  BY <1>2, ExchangeAssumption DEF Piece, IInv, TypeOK
<1>4. piece.is = Layout[sent + 1] /\ piece.of = answering
  OBVIOUS
<1>5. Read' = Append(Read, piece)
  OBVIOUS
<1> HIDE DEF piece
<1>6. /\ Len(Read') = n + 1 /\ DOMAIN Read' = 1 .. n + 1
      /\ \A i \in 1 .. n : Read'[i] = Read[i]
      /\ Read'[n + 1] = piece
  BY <1>1, <1>3, <1>5
<1>7. Separated(Read) /\ Finished(Read) /\ AwaitsLine(Read)
  BY DEF InPieces
<1> HIDE DEF n
<1>8. \A i, k \in 1 .. n : i <= k /\ k < n /\ LineAt(Read, k) => LineAt(Read', k)
  BY <1>1, <1>6 DEF LineAt
<1>9. sent \in Nat /\ ((sent' = 0 /\ sent + 1 = Len(Layout)) \/ sent' = sent + 1)
  <2>1. sent \in Nat
    BY <1>2
  <2>2. (sent' = 0 /\ sent + 1 = Len(Layout)) \/ sent' = sent + 1
    BY Zenon DEF Arrives
  <2> QED BY <2>1, <2>2
<1>10. ASSUME NEW i \in 1 .. n, Read[i].is # "lf", Read[i].of # answering \/ sent' = 0
      PROVE  \E k \in i .. n : LineAt(Read', k)
  <2>1. CASE Read[i].of # answering \/ sent = 0
    <3>1. PICK k \in i .. Len(Read) - 1 : LineAt(Read, k)
      BY <1>1, <1>7, <1>10, <2>1 DEF Finished
    <3>2. k \in i .. n /\ k \in 1 .. n /\ k < n
      BY <3>1, <1>1 DEF n
    <3> QED BY <3>1, <3>2, <1>8
  <2>2. CASE sent # 0 /\ sent' = 0
    <3>1. sent + 1 = Len(Layout)
      BY <2>2, <1>9
    <3>2. Read # <<>> /\ sent = Len(Layout) - 1
      BY <3>1, <1>1, <1>2
    <3>3. Read[n].is = "prompt"
      BY <3>2, <1>7 DEF AwaitsLine, n
    <3>4. piece.is = "lf"
      BY <3>1, <1>4 DEF PromptEndsLine
    <3>5. LineAt(Read', n)
      BY <3>3, <3>4, <1>1, <1>6 DEF LineAt
    <3> QED BY <3>5, <1>1
  <2> QED BY <2>1, <2>2, <1>10
<1>11. Separated(Read')
  <2> SUFFICES ASSUME NEW i \in DOMAIN Read', NEW j \in DOMAIN Read', i < j,
                      Read'[i].is # "lf", Read'[i].of # Read'[j].of
               PROVE  \E k \in i .. j - 1 : LineAt(Read', k)
    BY DEF Separated
  <2>1. i \in 1 .. n /\ Read'[i] = Read[i]
    BY <1>1, <1>6
  <2>2. CASE j \in 1 .. n
    <3>1. Read'[j] = Read[j]
      BY <2>2, <1>6
    <3>2. PICK k \in i .. j - 1 : LineAt(Read, k)
      BY <2>1, <2>2, <3>1, <1>1, <1>7 DEF Separated
    <3>3. k \in 1 .. n /\ k < n
      BY <2>1, <2>2, <3>2, <1>1
    <3> QED BY <3>2, <3>3, <2>1, <1>8
  <2>3. CASE j = n + 1
    <3>1. Read[i].of # answering
      BY <2>1, <2>3, <1>4, <1>6
    <3>2. \E k \in i .. n : LineAt(Read', k)
      BY <2>1, <3>1, <1>10
    <3> QED BY <3>2, <2>3, <1>1
  <2> QED BY <2>2, <2>3, <1>1, <1>6
<1>12. Finished(Read)'
  <2> SUFFICES ASSUME NEW i \in DOMAIN Read', Read'[i].is # "lf",
                      Read'[i].of # answering' \/ sent' = 0
               PROVE  \E k \in i .. Len(Read') - 1 : LineAt(Read', k)
    BY DEF Finished, LineAt
  <2>1. answering' = answering \/ sent' = 0
    BY DEF Arrives
  <2>2. CASE i \in 1 .. n
    <3>1. \E k \in i .. n : LineAt(Read', k)
      BY <2>1, <2>2, <1>6, <1>10
    <3> QED BY <3>1, <1>1, <1>6
  <2>3. CASE i = n + 1
    <3>1. Read'[i] = piece /\ piece.is # "lf"
      BY <2>3, <1>6
    <3>2. sent + 1 # Len(Layout)
      BY <3>1, <1>4 DEF PromptEndsLine
    <3>3. sent' = sent + 1 /\ answering' = answering
      BY <3>2 DEF Arrives
    <3> QED BY <3>1, <3>3, <1>2, <1>4
  <2> QED BY <2>2, <2>3, <1>1, <1>6
<1>13. AwaitsLine(Read)'
  <2> SUFFICES ASSUME sent' = Len(Layout) - 1 PROVE Read'[Len(Read')].is = "prompt"
    BY DEF AwaitsLine
  <2>1. sent + 1 = Len(Layout) - 1
    <3>1. Len(Layout) \in Nat /\ Len(Layout) >= 2
      BY <1>2
    <3> QED BY <3>1, <1>9
  <2>2. piece.is = "prompt"
    BY <2>1, <1>2, <1>4
  <2> QED BY <2>2, <1>6
<1> QED BY <1>11, <1>12, <1>13 DEF Separated, LineAt

(* What the exchange returns has one line with a prompt, its last.         *)
LEMMA ReturnsOneAnswer ==
  ASSUME IInv, Reading, InPieces, Returns \/ EndReturns
  PROVE  OneAnswer'
<1>1. Read \in Seq(Piece) /\ DOMAIN Read = 1 .. Len(Read) /\ Len(Read) \in Nat
  BY ReadType
<1>2. Separated(Read) /\ NoLine(part)
  BY DEF InPieces, Reading
<1>3. CASE Returns
  <2>1. PICK i \in DOMAIN Read : Ends(Read, i) /\ response' = SubSeq(Read, 1, i)
    BY <1>3 DEF Returns, Leaves, Read
  <2>2. DOMAIN response' = 1 .. i /\ \A j \in 1 .. i : j \in DOMAIN Read /\ response'[j] = Read[j]
    BY <2>1, PrefixType DEF Read
  <2>3. ASSUME NEW a \in 1 .. i, NEW b \in 1 .. i, a < b,
               Read[a].is # "lf", Read[b].is # "lf"
        PROVE  Read[a].of = Read[b].of
    <3> SUFFICES ASSUME Read[a].of # Read[b].of PROVE FALSE
      OBVIOUS
    <3>1. PICK k \in a .. b - 1 : LineAt(Read, k)
      BY <2>2, <2>3, <1>2 DEF Separated
    <3>2. k + 1 # b
      BY <3>1, <2>3 DEF LineAt
    <3>3. k + 1 \in 1 .. i - 1 /\ k \in 1 .. k + 1 /\ Read[k + 1].is = "lf" /\ Read[k].is = "prompt"
      BY <3>1, <3>2, <2>3, <1>1 DEF LineAt
    <3> QED BY <3>3, <2>1 DEF Ends
  <2>4. ASSUME NEW a \in 1 .. i, NEW b \in 1 .. i, Read[a].is # "lf", Read[b].is # "lf"
        PROVE  Read[a].of = Read[b].of
    <3>1. a < b \/ b < a \/ a = b
      BY <1>1
    <3> QED BY <3>1, <2>3, <2>4
  <2> QED BY <2>2, <2>4 DEF OneAnswer
<1>4. CASE EndReturns
  <2>1. response' = part /\ part = Read
    <3>1. part \in Seq(Piece)
      BY ReadType
    <3> QED BY <3>1, <1>4 DEF EndReturns, Leaves, Read
  <2>2. ASSUME NEW a \in DOMAIN Read, NEW b \in DOMAIN Read, a < b, Read[a].is # "lf"
        PROVE  Read[a].of = Read[b].of
    <3> SUFFICES ASSUME Read[a].of # Read[b].of PROVE FALSE
      OBVIOUS
    <3>1. PICK k \in a .. b - 1 : LineAt(Read, k)
      BY <2>2, <1>2 DEF Separated
    <3>2. k + 1 \in DOMAIN Read /\ k \in 1 .. k + 1
      BY <3>1, <1>1
    <3> QED BY <3>1, <3>2, <2>1, <1>2 DEF LineAt, NoLine
  <2>3. ASSUME NEW a \in DOMAIN Read, NEW b \in DOMAIN Read, Read[a].is # "lf", Read[b].is # "lf"
        PROVE  Read[a].of = Read[b].of
    <3>1. a < b \/ b < a \/ a = b
      BY <1>1
    <3> QED BY <3>1, <2>2, <2>3
  <2> QED BY <2>1, <2>3 DEF OneAnswer
<1> QED BY <1>3, <1>4

LEMMA ReadingKeeps == ASSUME IInv, Reading, [Next]_vars PROVE Reading'
<1>1. Read \in Seq(Piece) /\ DOMAIN Read = 1 .. Len(Read) /\ Len(Read) \in Nat
  BY ReadType
<1>2. NoLine(part)'
  <2>1. CASE Reads
    <3>1. part' = Read /\ \A i \in DOMAIN Read : ~ Ends(Read, i)
      BY <2>1 DEF Reads, Read
    <3>2. NoLine(Read)
      BY <3>1, <1>1, FirstLine
    <3> QED BY <3>1, <3>2 DEF NoLine
  <2>2. CASE part' = part \/ part' = <<>>
    BY <2>2 DEF Reading, NoLine
  <2>3. Reads \/ part' = part \/ part' = <<>>
    BY DEF Next, Transport, FarEnd, Drains, Returns, EndReturns, TimesOut, Leaves,
           Sends, WriteFails, Arrives, Pauses, NeverAnswers, HangsUp, vars
  <2> QED BY <2>1, <2>2, <2>3
<1>3. (at = "exchange" => response = <<>>)'
  BY DEF Reading, Next, Transport, FarEnd, Drains, Returns, EndReturns, Reads, TimesOut,
         Leaves, Sends, WriteFails, Arrives, Pauses, NeverAnswers, HangsUp, vars
<1> QED BY <1>2, <1>3 DEF Reading

LEMMA InPiecesKeeps ==
  ASSUME IInv, PromptEndsLine, Reading, InPieces, OneAnswer, [Next]_vars
  PROVE  (InPieces /\ OneAnswer)'
<1>1. Read \in Seq(Piece) /\ DOMAIN Read = 1 .. Len(Read) /\ Len(Read) \in Nat
  BY ReadType
<1>2. Len(Layout) >= 2
  BY DEF PromptEndsLine
<1>3. Separated(Read)' /\ Finished(Read)' /\ AwaitsLine(Read)'
  <2>1. CASE Read' = <<>>
    BY <2>1 DEF Separated, Finished, AwaitsLine
  <2>2. CASE Read' = Read /\ UNCHANGED <<answering, sent>>
    BY <2>2 DEF InPieces, Separated, Finished, AwaitsLine, LineAt
  <2>3. CASE Read' = Read /\ NeverAnswers
    <3>1. sent = 0 /\ sent' = 0
      BY <2>3 DEF NeverAnswers
    <3>2. sent' # Len(Layout) - 1
      BY <3>1, <1>2, ExchangeAssumption
    <3> QED BY <2>3, <3>1, <3>2 DEF InPieces, Separated, Finished, AwaitsLine, LineAt
  <2>4. CASE Arrives /\ Read' = Append(Read, [is |-> Layout[sent + 1], of |-> answering])
    BY <2>4, ArrivesInPieces
  <2> QED BY <2>1, <2>2, <2>3, <2>4, StepOfRead
<1>4. OneAnswer'
  <2>1. CASE Returns \/ EndReturns
    BY <2>1, ReturnsOneAnswer
  <2>2. CASE response' = response \/ response' = <<>>
    BY <2>2 DEF OneAnswer
  <2>3. Returns \/ EndReturns \/ response' = response \/ response' = <<>>
    BY DEF Next, Transport, FarEnd, Drains, Reads, TimesOut, Leaves,
           Sends, WriteFails, Arrives, Pauses, NeverAnswers, HangsUp, vars
  <2> QED BY <2>1, <2>2, <2>3
<1> QED BY <1>3, <1>4 DEF InPieces, Read

LEMMA AnswerType ==
  ASSUME NEW k
  PROVE  /\ DOMAIN Answer(k) = DOMAIN Layout
         /\ \A i \in DOMAIN Layout : Answer(k)[i] = [is |-> Layout[i], of |-> k]
         /\ \A i \in DOMAIN Layout : Answer(k)[i].is = Layout[i]
BY DEF Answer

LEMMA ArrivesFromTheFirst ==
  ASSUME IInv, FromTheFirst, Arrives,
         Read' = Append(Read, [is |-> Layout[sent + 1], of |-> answering])
  PROVE  FromTheFirst'
<1> SUFFICES ASSUME at = "exchange", clean
             PROVE  \/ /\ answering' = asked /\ Len(Read') = sent'
                       /\ \A i \in 1 .. sent' : Read'[i] = Answer(asked)[i]
                    \/ /\ answering' = asked + 1 /\ sent' = 0
                       /\ Read' = Answer(asked)
  BY DEF FromTheFirst, Arrives, Answer
<1> DEFINE piece == [is |-> Layout[sent + 1], of |-> answering]
<1>1. Read \in Seq(Piece) /\ asked \in Nat
  BY ReadType DEF IInv, TypeOK
<1>2. answering = asked /\ Len(Read) = sent /\ \A i \in 1 .. sent : Read[i] = Answer(asked)[i]
  <2>1. answering <= asked
    BY DEF Arrives, Unanswered
  <2>2. answering # asked + 1
    BY <2>1, <1>1
  <2> QED BY <2>2 DEF FromTheFirst
<1>3. Layout \in Seq(Shapes) /\ sent \in 0 .. Len(Layout) - 1 /\ DOMAIN Layout = 1 .. Len(Layout)
  BY ExchangeAssumption DEF IInv, TypeOK
<1>4. piece \in Piece /\ sent + 1 \in DOMAIN Layout /\ piece = Answer(asked)[sent + 1]
  <2>1. sent + 1 \in DOMAIN Layout
    BY <1>3
  <2>2. Layout[sent + 1] \in Shapes
    BY <2>1, <1>3
  <2>3. piece \in Piece
    BY <2>2, <1>1, <1>2 DEF Piece
  <2>4. Answer(asked)[sent + 1] = [is |-> Layout[sent + 1], of |-> asked]
    BY <2>1, AnswerType
  <2> QED BY <2>1, <2>3, <2>4, <1>2
<1>5. Read' = Append(Read, piece)
  OBVIOUS
<1> HIDE DEF piece
<1>6. /\ Read' \in Seq(Piece) /\ Len(Read') = sent + 1
      /\ \A i \in 1 .. sent : Read'[i] = Read[i]
      /\ Read'[sent + 1] = piece
  BY <1>1, <1>2, <1>4, <1>5
<1>7. \A i \in 1 .. sent + 1 : Read'[i] = Answer(asked)[i]
  BY <1>2, <1>3, <1>4, <1>6
<1>8. CASE sent + 1 = Len(Layout)
  <2>1. answering' = asked + 1 /\ sent' = 0
    BY <1>2, <1>8, Zenon DEF Arrives
  <2>2. Answer(asked) \in Seq(Piece) /\ Len(Answer(asked)) = Len(Layout)
    BY <1>1, <1>3 DEF Answer, Piece
  <2>3. Read' = Answer(asked)
    BY <2>2, <1>6, <1>7, <1>8
  <2> QED BY <2>1, <2>3
<1>9. CASE sent + 1 # Len(Layout)
  <2>1. answering' = asked /\ sent' = sent + 1
    BY <1>2, <1>9, Zenon DEF Arrives
  <2> QED BY <2>1, <1>6, <1>7
<1> QED BY <1>8, <1>9

LEMMA FromTheFirstKeeps ==
  ASSUME IInv, FromTheFirst, [Next]_vars
  PROVE  FromTheFirst'
<1>1. asked \in Nat /\ answering \in 1 .. asked + 1 /\ (sent # 0 => answering <= asked)
      /\ sent \in 0 .. Len(Layout) - 1 /\ (at # "exchange" => part = <<>>)
  BY DEF IInv, TypeOK, Ordered
<1>2. CASE Sends
  <2>1. CASE clean'
    <3>1. net = <<>> /\ ~ (answering <= asked) /\ at = "idle" /\ asked' = asked + 1
          /\ answering' = answering /\ sent' = sent /\ net' = net /\ part' = part
      BY <2>1, <1>2 DEF Sends, Unanswered, peer
    <3>2. answering' = asked' /\ sent' = 0 /\ Read' = <<>>
      BY <3>1, <1>1 DEF Read
    <3> QED BY <3>2 DEF FromTheFirst
  <2>2. CASE ~ clean'
    BY <2>2 DEF FromTheFirst
  <2> QED BY <2>1, <2>2
<1>3. CASE Drains \/ WriteFails \/ Returns \/ EndReturns \/ TimesOut
  <2>1. at' = "idle"
    BY <1>3 DEF Drains, WriteFails, Returns, EndReturns, TimesOut, Leaves
  <2> QED BY <2>1 DEF FromTheFirst
<1>4. CASE Reads
  BY <1>4, ReadsMoves DEF Reads, peer, FromTheFirst
<1>5. CASE Pauses \/ HangsUp \/ UNCHANGED vars
  BY <1>5 DEF Pauses, HangsUp, vars, FromTheFirst, Read
<1>6. CASE NeverAnswers
  <2> SUFFICES ASSUME at = "exchange", clean
               PROVE  answering' = asked + 1 /\ sent' = 0 /\ Read' = <<>>
    BY <1>6 DEF NeverAnswers, FromTheFirst
  <2>1. sent = 0 /\ answering <= asked /\ answering' = answering + 1 /\ sent' = 0
    BY <1>6 DEF NeverAnswers, Unanswered
  <2>2. answering = asked /\ Len(Read) = 0
    BY <2>1, <1>1 DEF FromTheFirst
  <2>3. Read = <<>> /\ Read' = Read
    <3>1. Read \in Seq(Piece)
      BY ReadType
    <3> QED BY <3>1, <2>2, <1>6 DEF NeverAnswers, Read
  <2> QED BY <2>1, <2>2, <2>3
<1>7. CASE Arrives
  BY <1>7, ArrivesAppends, ArrivesFromTheFirst
<1> QED BY <1>2, <1>3, <1>4, <1>5, <1>6, <1>7 DEF Next, Transport, FarEnd

(* A line with a prompt is the whole answer, and the prompt's line ends.   *)
LEMMA LineIsWhole ==
  ASSUME IInv, PromptIsLast, FromTheFirst, at = "exchange", clean,
         NEW i \in DOMAIN Read, NEW j \in 1 .. i, Read[j].is = "prompt", Read[i].is = "lf"
  PROVE  /\ answering = asked + 1 /\ Read = Answer(asked) /\ i = Len(Layout)
         /\ PromptEndsLine
<1>1. /\ Len(Layout) \in Nat /\ DOMAIN Layout = 1 .. Len(Layout)
      /\ sent \in 0 .. Len(Layout) - 1
  BY ExchangeAssumption DEF IInv, TypeOK
<1>2. DOMAIN Read = 1 .. Len(Read) /\ Len(Read) \in Nat /\ j \in DOMAIN Read
  BY ReadType
<1>3. j # i
  OBVIOUS
<1>4. CASE answering = asked /\ Len(Read) = sent /\ \A k \in 1 .. sent : Read[k] = Answer(asked)[k]
  <2>1. i \in 1 .. sent /\ j \in 1 .. sent /\ j < i
    BY <1>2, <1>3, <1>4
  <2>2. j \in DOMAIN Layout
    BY <2>1, <1>1
  <2>3. Read[j] = Answer(asked)[j] /\ Answer(asked)[j].is = Layout[j]
    BY <2>1, <2>2, <1>4, AnswerType
  <2>4. Layout[j] = "prompt"
    BY <2>3
  <2>5. j = Len(Layout) \/ j = Len(Layout) - 1
    BY <2>2, <2>4, Zenon DEF PromptIsLast
  <2>6. sent \in 0 .. Len(Layout) - 1 /\ Len(Layout) \in Nat
    BY <1>1
  <2>7. j < Len(Layout) - 1
    BY <2>1, <2>6
  <2>8. FALSE
    BY <2>5, <2>6, <2>7
  <2> QED BY <2>8
<1>5. CASE answering = asked + 1 /\ Read = Answer(asked)
  <2>1. i \in DOMAIN Layout /\ j \in DOMAIN Layout /\ Layout[j] = "prompt"
    BY <1>2, <1>5, AnswerType
  <2>2. j # Len(Layout)
    BY <2>1, <1>1, <1>3
  <2>3. j = Len(Layout) - 1 /\ Layout[Len(Layout)] = "lf"
    BY <2>1, <2>2 DEF PromptIsLast
  <2>4. PromptEndsLine
    BY <2>1, <2>3, <1>1 DEF PromptEndsLine
  <2> QED BY <2>1, <2>3, <2>4, <1>1, <1>3, <1>5
<1> QED BY <1>2, <1>4, <1>5 DEF FromTheFirst

LEMMA ReturnsClean ==
  ASSUME IInv, PromptIsLast, FromTheFirst, at = "exchange", clean, Returns
  PROVE  /\ WholeText(response', asked) /\ response' # <<>>
         /\ net' = <<>> /\ ~ Unanswered'
         /\ PromptEndsLine
<1>1. PICK i \in DOMAIN Read : Ends(Read, i) /\ response' = SubSeq(Read, 1, i)
  BY DEF Returns, Leaves, Read
<1>2. DOMAIN response' = 1 .. i /\ \A j \in 1 .. i : j \in DOMAIN Read /\ response'[j] = Read[j]
  BY <1>1, PrefixType DEF Read
<1>3. answering = asked + 1 /\ Read = Answer(asked) /\ i = Len(Layout) /\ PromptEndsLine
  <2>1. PICK j \in 1 .. i : Read[j].is = "prompt" /\ Read[i].is = "lf"
    BY <1>1 DEF Ends
  <2> QED BY <2>1, LineIsWhole
<1>4. DOMAIN Layout = 1 .. i /\ i >= 1
  BY <1>3, ExchangeAssumption DEF PromptEndsLine
<1>5. WholeText(response', asked) /\ response' # <<>>
  BY <1>2, <1>3, <1>4 DEF WholeText
<1>6. asked \in Nat /\ asked' = asked /\ answering' = answering /\ net' = <<>>
  BY DEF IInv, TypeOK, Returns, Leaves, peer
<1> QED BY <1>3, <1>5, <1>6 DEF Unanswered

(* Behind the prompt there is no text, so it has come with the prompt.     *)
LEMMA EndReturnsClean ==
  ASSUME IInv, PromptIsLast, FromTheFirst, at = "exchange", clean, EndReturns
  PROVE  /\ WholeText(response', asked) /\ response' # <<>>
         /\ net' = <<>> /\ ~ open
<1>1. response' = Read /\ Holds(Read, "prompt") /\ net' = <<>> /\ ~ open
  <2>1. part \in Seq(Piece)
    BY ReadType
  <2> QED BY <2>1 DEF EndReturns, Leaves, Read
<1>2. /\ Len(Layout) \in Nat /\ DOMAIN Layout = 1 .. Len(Layout)
      /\ sent \in 0 .. Len(Layout) - 1
  BY ExchangeAssumption DEF IInv, TypeOK
<1>3. DOMAIN Read = 1 .. Len(Read) /\ Len(Read) \in Nat
  BY ReadType
<1>4. PICK j \in DOMAIN Read : Read[j].is = "prompt"
  BY <1>1 DEF Holds
<1>5. CASE answering = asked + 1 /\ Read = Answer(asked)
  <2>1. WholeText(Read, asked)
    BY <1>5, AnswerType DEF WholeText
  <2> QED BY <2>1, <1>1, <1>4
<1>6. CASE Len(Read) = sent /\ \A k \in 1 .. sent : Read[k] = Answer(asked)[k]
  <2>1. j \in 1 .. sent /\ j \in DOMAIN Layout
    BY <1>2, <1>3, <1>6
  <2>2. Layout[j] = "prompt"
    <3>1. Read[j] = Answer(asked)[j]
      BY <2>1, <1>6
    <3>2. Answer(asked)[j].is = Layout[j]
      BY <2>1, AnswerType
    <3> QED BY <3>1, <3>2, <1>4
  <2>3. j = Len(Layout) - 1 /\ Layout[Len(Layout)] = "lf"
    BY <2>1, <2>2, <1>2 DEF PromptIsLast
  <2>4. \A k \in DOMAIN Layout : Layout[k] = "text" => k \in 1 .. sent
    BY <2>1, <2>3, <1>2
  <2>5. \A k \in 1 .. sent : k \in DOMAIN Layout
    BY <1>2
  <2>6. WholeText(Read, asked)
    BY <2>4, <2>5, <1>3, <1>6 DEF WholeText
  <2> QED BY <2>6, <1>1, <1>4
<1> QED BY <1>3, <1>4, <1>5, <1>6 DEF FromTheFirst

(* An exchange that has read all of an answer whose line is ended is over. *)
LEMMA TimesOutClean ==
  ASSUME IInv, PromptEndsLine, Reading, FromTheFirst, at = "exchange", clean, TimesOut,
         open, ~ quiet
  PROVE  Read = <<>>
<1>1. net = <<>> /\ ~ (answering <= asked) /\ asked \in Nat
  BY DEF TimesOut, Unanswered, IInv, TypeOK
<1>2. Read = part
  <2>1. part \in Seq(Piece)
    BY ReadType
  <2> QED BY <2>1, <1>1 DEF Read
<1>3. Read = <<>> \/ Read = Answer(asked)
  BY <1>1 DEF FromTheFirst
<1>4. ASSUME Read = Answer(asked) PROVE FALSE
  <2>1. /\ Len(Layout) \in Nat /\ Len(Layout) >= 2 /\ DOMAIN Layout = 1 .. Len(Layout)
    BY PromptIsLastButOne
  <2>2. DOMAIN Read = DOMAIN Layout /\ \A k \in DOMAIN Layout : Read[k].is = Layout[k]
    BY <1>4, AnswerType
  <2>3. /\ Len(Layout) \in DOMAIN Read /\ Read[Len(Layout)].is = "lf"
        /\ Len(Layout) - 1 \in 1 .. Len(Layout) /\ Read[Len(Layout) - 1].is = "prompt"
    BY <2>1, <2>2 DEF PromptEndsLine
  <2> QED BY <2>3, <1>2 DEF Reading, NoLine
<1> QED BY <1>3, <1>4

LEMMA InitCInv == ASSUME Init PROVE CInv /\ LInv
<1>1. Read = <<>> /\ part = <<>> /\ response = <<>> /\ at = "reset"
  BY DEF Init, Read
<1> QED BY <1>1 DEF CInv, LInv, Reading, InPieces, OneAnswer, FromTheFirst, Separated,
                    Finished, AwaitsLine, NoLine

LEMMA AlwaysReading == Spec => [](IInv /\ CInv)
<1>1. Init => IInv /\ CInv
  BY InitIInv, InitCInv
<1>2. IInv /\ CInv /\ [Next]_vars => (IInv /\ CInv)'
  BY NextKeeps, ReadingKeeps, FromTheFirstKeeps DEF CInv
<1> QED BY <1>1, <1>2, PTL DEF Spec

(* With answers like those of the tests, a line feed behind the prompt,    *)
(* whatever comes late, after a timeout or not at all, no exchange returns *)
(* pieces of two answers (read_response, ll. 83-100).                      *)
LEMMA OneAnswerAtATime == ASSUME PromptEndsLine PROVE Spec => []OneAnswer
<1>1. Init => IInv /\ CInv /\ LInv
  BY InitIInv, InitCInv
<1>2. IInv /\ CInv /\ LInv /\ [Next]_vars => (IInv /\ CInv /\ LInv)'
  BY NextKeeps, ReadingKeeps, FromTheFirstKeeps, InPiecesKeeps DEF CInv, LInv
<1>3. IInv /\ CInv /\ LInv => OneAnswer
  BY DEF LInv
<1> QED BY <1>1, <1>2, <1>3, PTL DEF Spec

(* With a line feed behind the prompt or none, as the ELM327 is set by     *)
(* ATL1 or ATL0: on a stream with nothing outstanding what is returned is  *)
(* the whole text of the command's own answer and nothing is left behind.  *)
THEOREM CleanStreamReadsClean == ASSUME PromptIsLast PROVE Spec => CleanReads
<1>1. IInv /\ CInv /\ [Next]_vars
        => [(at = "exchange" /\ clean /\ response' # <<>>)
              => /\ WholeText(response', asked)
                 /\ net' = <<>> /\ (open => ~ Unanswered')]_vars
  <2> SUFFICES ASSUME IInv, CInv, [Next]_vars, at = "exchange", clean, response' # <<>>
               PROVE  /\ WholeText(response', asked)
                      /\ net' = <<>> /\ (open => ~ Unanswered')
    OBVIOUS
  <2>1. response = <<>>
    BY DEF CInv, Reading
  <2>2. Returns \/ EndReturns
    BY <2>1 DEF Next, Transport, FarEnd, Drains, Reads, TimesOut, Leaves,
                Sends, WriteFails, Arrives, Pauses, NeverAnswers, HangsUp, vars
  <2> QED BY <2>2, ReturnsClean, EndReturnsClean DEF CInv
<1> QED BY <1>1, AlwaysReading, PTL DEF Spec, CleanReads

(* With either setting: when the far end neither pauses nor hangs up, an   *)
(* answer is returned where a line feed follows the prompt, and is left to *)
(* the timeout of 5 seconds where none does (read_response, ll. 87-99).    *)
THEOREM AnswersReturnByLine == ASSUME PromptIsLast PROVE Spec => ReturnsByLine
<1>1. IInv /\ CInv /\ [Next]_vars
        => [(at = "exchange" /\ at' = "idle" /\ clean /\ open /\ ~ quiet
               /\ part \o net # <<>>)
              => (response' # <<>> <=> PromptEndsLine)]_vars
  <2> SUFFICES ASSUME IInv, CInv, [Next]_vars, at = "exchange", at' = "idle", clean,
                      open, ~ quiet, Read # <<>>
               PROVE  response' # <<>> <=> PromptEndsLine
    BY DEF Read
  <2>1. Returns \/ TimesOut
    BY DEF Next, Transport, FarEnd, Drains, Reads, EndReturns, Sends, WriteFails, Arrives,
           Pauses, NeverAnswers, HangsUp, vars
  <2>2. CASE Returns
    BY <2>2, ReturnsClean DEF CInv
  <2>3. CASE TimesOut
    <3>1. response' = <<>>
      BY <2>3 DEF TimesOut, Leaves
    <3>2. ~ PromptEndsLine
      BY <2>3, TimesOutClean DEF CInv
    <3> QED BY <3>1, <3>2
  <2> QED BY <2>1, <2>2, <2>3
<1> QED BY <1>1, AlwaysReading, PTL DEF Spec, ReturnsByLine

-----------------------------------------------------------------------------
(* Answers without line feeds end no line.                                 *)
NoneEnds ==
  /\ \A i \in DOMAIN part : part[i].is # "lf"
  /\ \A i \in DOMAIN net : net[i].is # "lf"
  /\ open => response = <<>>

LEMMA NoneEndsRead ==
  ASSUME IInv, NoneEnds
  PROVE  \A i \in DOMAIN Read : Read[i].is # "lf"
<1> SUFFICES ASSUME NEW i \in DOMAIN Read PROVE Read[i].is # "lf"
  OBVIOUS
<1>1. part \in Seq(Piece) /\ net \in Seq(Piece)
  BY ReadType
<1>2. CASE i <= Len(part)
  <2>1. i \in DOMAIN part /\ Read[i] = part[i]
    BY <1>1, <1>2 DEF Read
  <2> QED BY <2>1 DEF NoneEnds
<1>3. CASE i > Len(part)
  <2>1. i - Len(part) \in DOMAIN net /\ Read[i] = net[i - Len(part)]
    BY <1>1, <1>3 DEF Read
  <2> QED BY <2>1 DEF NoneEnds
<1>4. i \in Nat /\ Len(part) \in Nat
  BY <1>1, ReadType
<1> QED BY <1>2, <1>3, <1>4

LEMMA NoneEndsKeeps ==
  ASSUME NoLineFeed, IInv, NoneEnds, [Next]_vars
  PROVE  NoneEnds'
<1>1. CASE Arrives
  <2> DEFINE piece == [is |-> Layout[sent + 1], of |-> answering]
  <2>1. net \in Seq(Piece) /\ Layout \in Seq(Shapes) /\ sent + 1 \in DOMAIN Layout
        /\ answering \in Nat
    BY ExchangeAssumption DEF IInv, TypeOK
  <2>2. piece \in Piece /\ piece.is # "lf"
    BY <2>1 DEF NoLineFeed, Piece
  <2>3. net' = Append(net, piece) /\ UNCHANGED <<part, response, open>>
    BY <1>1 DEF Arrives
  <2> HIDE DEF piece
  <2>4. \A i \in DOMAIN net' : net'[i] = piece \/ (i \in DOMAIN net /\ net'[i] = net[i])
    BY <2>1, <2>2, <2>3
  <2> QED BY <2>2, <2>3, <2>4 DEF NoneEnds
<1>2. CASE Reads
  <2>1. part' = Read /\ net' = <<>> /\ UNCHANGED <<response, open>>
    BY <1>2 DEF Reads, peer, Read
  <2>2. \A i \in DOMAIN Read : Read[i].is # "lf"
    BY NoneEndsRead
  <2> QED BY <2>1, <2>2 DEF NoneEnds
<1>3. ~ Returns
  <2> SUFFICES ASSUME NEW i \in DOMAIN Read, Ends(Read, i) PROVE FALSE
    BY DEF Returns, Read
  <2> QED BY NoneEndsRead DEF Ends
<1>4. CASE EndReturns \/ TimesOut
  BY <1>4 DEF EndReturns, TimesOut, Leaves, peer, NoneEnds
<1>5. CASE Drains \/ Sends \/ WriteFails \/ Pauses \/ NeverAnswers \/ HangsUp \/ UNCHANGED vars
  BY <1>5 DEF Drains, Sends, WriteFails, Pauses, NeverAnswers, HangsUp, vars, peer, NoneEnds
<1> QED BY <1>1, <1>2, <1>3, <1>4, <1>5 DEF Next, Transport, FarEnd

(* After the ATL0 of INIT_SEQUENCE, with answers that have no line feed,   *)
(* no exchange on an open stream returns anything, whatever comes and when *)
(* (read_line, l. 90).                                                     *)
THEOREM NothingReturned ==
  ASSUME NoLineFeed
  PROVE  Spec => [](open => response = <<>>)
<1>1. Init => IInv /\ NoneEnds
  <2>1. Init => NoneEnds
    BY DEF Init, NoneEnds
  <2> QED BY <2>1, InitIInv
<1>2. IInv /\ NoneEnds /\ [Next]_vars => (IInv /\ NoneEnds)'
  BY NextKeeps, NoneEndsKeeps
<1>3. NoneEnds => (open => response = <<>>)
  BY DEF NoneEnds
<1> QED BY <1>1, <1>2, <1>3, PTL DEF Spec
=============================================================================
