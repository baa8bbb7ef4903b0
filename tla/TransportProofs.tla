--------------------------- MODULE TransportProofs ---------------------------
(* Proofs about Transport, for every set of commands and answers, every    *)
(* initialisation sequence, number of attempts and backlog.                *)
EXTENDS Transport, SequenceTheorems, TLAPS

-----------------------------------------------------------------------------
(* The operators on streams keep their type.                               *)
LEMMA StaleQueries ==
  ASSUME NEW out \in Seq(Query)
  PROVE  Stale(out) \in Seq(Query) /\ Len(Stale(out)) = Len(out)
<1>1. Len(out) \in Nat /\ DOMAIN out = 1 .. Len(out)
  BY LenProperties
<1>2. ASSUME NEW i \in 1 .. Len(out)
      PROVE  [out[i] EXCEPT !.live = FALSE] \in Query
  <2>1. out[i] \in Query
    BY ElementOfSeq
  <2> QED BY <2>1 DEF Query
<1>3. Stale(out) \in [1 .. Len(out) -> Query]
  BY <1>1, <1>2 DEF Stale
<1>4. Stale(out) \in Seq(Query)
  BY <1>1, <1>3, SeqDef
<1> QED BY <1>1, <1>3, <1>4, LenProperties

LEMMA StaleReplies ==
  ASSUME NEW in \in Seq(Reply)
  PROVE  Stale(in) \in Seq(Reply) /\ Len(Stale(in)) = Len(in)
<1>1. Len(in) \in Nat /\ DOMAIN in = 1 .. Len(in)
  BY LenProperties
<1>2. ASSUME NEW i \in 1 .. Len(in)
      PROVE  [in[i] EXCEPT !.live = FALSE] \in Reply
  <2>1. in[i] \in Reply
    BY ElementOfSeq
  <2> QED BY <2>1 DEF Reply
<1>3. Stale(in) \in [1 .. Len(in) -> Reply]
  BY <1>1, <1>2 DEF Stale
<1>4. Stale(in) \in Seq(Reply)
  BY <1>1, <1>3, SeqDef
<1> QED BY <1>1, <1>3, <1>4, LenProperties

LEMMA RoomType ==
  ASSUME NEW out \in Seq(Query)
  PROVE  Room(out) \in Seq(Query)
<1>1. CASE out = <<>>
  BY <1>1, EmptySeq, TransportAssumption DEF Room
<1>2. CASE out # <<>>
  BY <1>2, HeadTailProperties DEF Room
<1> QED BY <1>1, <1>2

LEMMA WriteType ==
  ASSUME NEW s \in Stream, NEW c \in Commands
  PROVE  Write(s, c) \in Stream /\ Write(s, c).lost = s.lost
<1>1. s.in \in Seq(Reply) /\ s.out \in Seq(Query)
  BY DEF Stream
<1>2. Stale(s.in) \in Seq(Reply)
  BY <1>1, StaleReplies
<1>3. Room(Stale(s.out)) \in Seq(Query)
  BY <1>1, StaleQueries, RoomType
<1>4. [cmd |-> c, live |-> TRUE] \in Query
  BY DEF Query
<1>5. Append(Room(Stale(s.out)), [cmd |-> c, live |-> TRUE]) \in Seq(Query)
  BY <1>3, <1>4, AppendProperties
<1>6. <<>> \in Seq(Query)
  BY EmptySeq
<1> DEFINE o == IF s.open THEN Append(Room(Stale(s.out)), [cmd |-> c, live |-> TRUE])
                ELSE <<>>
<1>7. o \in Seq(Query)
  BY <1>5, <1>6
<1> HIDE DEF o
<1>8. Write(s, c) = [s EXCEPT !.in = Stale(s.in), !.out = o]
  BY DEF Write, o
<1> QED BY <1>2, <1>7, <1>8 DEF Stream

(* A command written on a stream with nothing outstanding is alone on it.  *)
LEMMA WriteBlank ==
  ASSUME NEW s \in Stream, NEW c \in Commands, Blank(s)
  PROVE  OnlyLive(Write(s, c), c)
<1> DEFINE q == [cmd |-> c, live |-> TRUE]
<1>1. Stale(s.in) = <<>> /\ Stale(s.out) = <<>>
  BY DEF Blank, Stale
<1>2. Room(<<>>) = <<>>
  BY TransportAssumption DEF Room
<1>3. Append(<<>>, q) = <<q>>
  OBVIOUS
<1>4. Write(s, c).in = <<>>
  BY <1>1 DEF Write, Stream
<1>5. Write(s, c).out = IF s.open THEN Append(Room(Stale(s.out)), q) ELSE <<>>
  BY DEF Write, Stream
<1>6. Write(s, c).out = <<>> \/ Write(s, c).out = <<q>>
  BY <1>1, <1>2, <1>3, <1>5
<1>7. CASE Write(s, c).out = <<>>
  BY <1>4, <1>7 DEF OnlyLive
<1>8. CASE Write(s, c).out = <<q>>
  <2> HIDE DEF q
  <2>1. Len(<<q>>) = 1 /\ DOMAIN <<q>> = 1 .. 1 /\ <<q>>[1] = q
    OBVIOUS
  <2>2. Len(<<>>) = 0 /\ DOMAIN <<>> = {}
    OBVIOUS
  <2>3. Len(Write(s, c).out) + Len(Write(s, c).in) <= 1
    BY <2>1, <2>2, <1>4, <1>8
  <2>4. \A i \in DOMAIN Write(s, c).out : Write(s, c).out[i] = q
    BY <2>1, <1>8
  <2> QED BY <2>2, <2>3, <2>4, <1>4 DEF OnlyLive, q
<1> QED BY <1>6, <1>7, <1>8

LEMMA AnsweredType ==
  ASSUME NEW s \in Stream, s.out # <<>>, NEW k \in Answers[Head(s.out).cmd]
  PROVE  Answered(s, k) \in Stream /\ Answered(s, k).lost = s.lost
<1> DEFINE r == [cmd |-> Head(s.out).cmd, live |-> Head(s.out).live, kind |-> k]
<1>1. s.in \in Seq(Reply) /\ s.out \in Seq(Query)
  BY DEF Stream
<1>2. Head(s.out) \in Query /\ Tail(s.out) \in Seq(Query)
  BY <1>1, HeadTailProperties
<1>3. k \in Kinds
  BY <1>2, TransportAssumption DEF Query
<1>4. r \in Reply
  BY <1>2, <1>3 DEF Query, Reply
<1>5. Append(s.in, r) \in Seq(Reply)
  BY <1>1, <1>4, AppendProperties
<1>6. Answered(s, k) = [s EXCEPT !.out = Tail(s.out), !.in = Append(s.in, r)]
  BY DEF Answered
<1> HIDE DEF r
<1> QED BY <1>2, <1>5, <1>6 DEF Stream

(* What a stream with one live entry at most holds.                        *)
LEMMA LiveCases ==
  ASSUME NEW s \in Stream, NEW c, OnlyLive(s, c)
  PROVE  \/ Blank(s)
         \/ s.in = <<>> /\ s.out = << [cmd |-> c, live |-> TRUE] >>
         \/ s.out = <<>> /\ s.in # <<>>
<1>1. s.in \in Seq(Reply) /\ s.out \in Seq(Query)
  BY DEF Stream
<1>2. /\ Len(s.in) \in Nat /\ (s.in # <<>> => Len(s.in) # 0)
      /\ Len(s.out) \in Nat /\ (s.out # <<>> => Len(s.out) # 0)
      /\ DOMAIN s.out = 1 .. Len(s.out)
  BY <1>1, EmptySeq, LenProperties
<1>3. Len(s.out) + Len(s.in) <= 1
  BY DEF OnlyLive
<1>4. CASE s.out = <<>>
  BY <1>4 DEF Blank
<1>5. CASE s.out # <<>>
  <2>1. Len(s.out) = 1 /\ s.in = <<>>
    <3>1. \A m, n \in Nat : m + n <= 1 /\ m # 0 => m = 1 /\ n = 0
      OBVIOUS
    <3>2. Len(s.out) = 1 /\ Len(s.in) = 0
      BY <1>2, <1>3, <1>5, <3>1
    <3> QED BY <1>2, <3>2
  <2>2. s.out[1] = [cmd |-> c, live |-> TRUE]
    BY <2>1, <1>2 DEF OnlyLive
  <2>3. s.out = << s.out[1] >>
    BY <2>1, <1>1
  <2> QED BY <2>1, <2>2, <2>3
<1> QED BY <1>4, <1>5

LEMMA AnsweredLive ==
  ASSUME NEW s \in Stream, NEW c, s.out # <<>>,
         NEW k \in Answers[Head(s.out).cmd], OnlyLive(s, c)
  PROVE  OnlyLive(Answered(s, k), c)
<1> DEFINE q == [cmd |-> c, live |-> TRUE]
           r == [cmd |-> c, live |-> TRUE, kind |-> k]
<1>1. s.in = <<>> /\ s.out = <<q>>
  BY LiveCases DEF Blank
<1>2. Head(<<q>>) = q /\ Tail(<<q>>) = <<>> /\ Append(<<>>, r) = <<r>>
  OBVIOUS
<1>3. q.cmd = c /\ q.live = TRUE
  OBVIOUS
<1>4. Answered(s, k).out = <<>> /\ Answered(s, k).in = <<r>>
  BY <1>1, <1>2, <1>3 DEF Answered, Stream
<1>5. Len(<<r>>) = 1 /\ DOMAIN <<r>> = 1 .. 1 /\ <<r>>[1] = r /\ Len(<<>>) = 0
  OBVIOUS
<1> QED BY <1>4, <1>5 DEF OnlyLive

LEMMA FreshStream ==
  /\ Fresh \in Stream /\ Blank(Fresh) /\ Fresh.lost = "no" /\ Fresh.open = TRUE
  /\ NoStream \in Stream /\ Blank(NoStream) /\ NoStream.lost = "never"
<1>1. <<>> \in Seq(Query) /\ <<>> \in Seq(Reply)
  BY EmptySeq
<1> QED BY <1>1 DEF Fresh, NoStream, Stream, Blank, Losses

(* A stream that is read, given up, hung up or loses a query.              *)
LEMMA ReadType ==
  ASSUME NEW s \in Stream
  PROVE  /\ Read(s) \in Stream /\ Read(s).lost = s.lost
         /\ Read(s).out = s.out /\ Read(s).in = <<>>
<1>1. <<>> \in Seq(Reply)
  BY EmptySeq
<1> QED BY <1>1 DEF Read, Stream

LEMMA GiveUpType ==
  ASSUME NEW s \in Stream, NEW why \in Losses
  PROVE  GiveUp(s, why) \in Stream /\ GiveUp(s, why).lost = why
BY DEF GiveUp, Stream

LEMMA HangUpType ==
  ASSUME NEW s \in Stream
  PROVE  LET t == [s EXCEPT !.open = FALSE, !.out = <<>>]
         IN  t \in Stream /\ t.lost = s.lost /\ t.out = <<>> /\ t.in = s.in
<1>1. <<>> \in Seq(Query)
  BY EmptySeq
<1> QED BY <1>1 DEF Stream

LEMMA LoseType ==
  ASSUME NEW s \in Stream, s.out # <<>>
  PROVE  LET t == [s EXCEPT !.out = Tail(@)]
         IN  t \in Stream /\ t.lost = s.lost /\ t.out = Tail(s.out) /\ t.in = s.in
<1>1. Tail(s.out) \in Seq(Query)
  BY HeadTailProperties DEF Stream
<1> QED BY <1>1 DEF Stream

(* Reading the live entry, losing it or hanging up on it leaves nothing.   *)
LEMMA ReadLive ==
  ASSUME NEW s \in Stream, NEW c, OnlyLive(s, c), s.in # <<>>
  PROVE  Blank(Read(s))
BY LiveCases, ReadType DEF Blank

LEMMA OutGone ==
  ASSUME NEW s \in Stream, NEW t \in Stream, NEW c, OnlyLive(s, c),
         t.in = s.in, t.out = <<>>
  PROVE  OnlyLive(t, c)
<1>1. DOMAIN <<>> = {} /\ Len(<<>>) = 0
  OBVIOUS
<1>2. Len(s.in) \in Nat /\ Len(s.out) \in Nat
  BY LenProperties DEF Stream
<1>3. Len(t.in) <= 1
  <2>1. \A m, n \in Nat : m + n <= 1 => n <= 1
    OBVIOUS
  <2>2. Len(s.out) + Len(s.in) <= 1
    BY DEF OnlyLive
  <2> QED BY <2>1, <2>2, <1>2
<1>4. Len(t.out) + Len(t.in) <= 1
  BY <1>1, <1>2, <1>3
<1>5. \A i \in DOMAIN t.in : t.in[i].cmd = c /\ t.in[i].live
  BY DEF OnlyLive
<1> QED BY <1>1, <1>4, <1>5 DEF OnlyLive

LEMMA TailLive ==
  ASSUME NEW s \in Stream, NEW c, OnlyLive(s, c), s.out # <<>>
  PROVE  Tail(s.out) = <<>>
<1>1. s.out = << [cmd |-> c, live |-> TRUE] >>
  BY LiveCases DEF Blank
<1> QED BY <1>1

-----------------------------------------------------------------------------
(* The inductive invariant: the types, and what a stream in step holds.    *)
TransportInv == TransportTypeOK /\ InStep

LEMMA CallTypes ==
  /\ Idle \in Call /\ Idle.op = "idle"
  /\ Dial \in Call /\ Dial.op = "dial" /\ Dial.n = 1
BY TransportAssumption DEF Idle, Dial, Call

THEOREM TransportInitInv == TransportInit => TransportInv
<1> SUFFICES ASSUME TransportInit PROVE TransportInv
  OBVIOUS
<1>1. TransportTypeOK
  <2>1. 1 \in 1 .. MaxConnect
    BY TransportAssumption
  <2> QED BY <2>1, FreshStream, CallTypes DEF TransportInit, TransportTypeOK
<1>2. InStep
  BY FreshStream DEF TransportInit, InStep
<1> QED BY <1>1, <1>2 DEF TransportInv

(* The steps of an exchange on the stream of the transport.                *)
LEMMA SendInv ==
  ASSUME TransportInv, NEW c \in Commands, Send(c)
  PROVE  TransportInv'
<1>1. cur \in Stream /\ new \in Stream /\ call \in Call /\ call.op = "idle" /\ new.lost = "never"
  BY DEF TransportInv, TransportTypeOK, Send
<1>2. cur' \in Stream /\ cur'.lost = cur.lost
  BY <1>1, WriteType DEF Send
<1>3. call' \in Call /\ call'.op = "send" /\ call'.cmd = c /\ new' = new
  BY DEF Send, Call
<1>4. TransportTypeOK'
  BY <1>1, <1>2, <1>3 DEF TransportTypeOK
<1>5. new.lost # "no"
  BY <1>1 DEF TransportInv, InStep
<1>6. cur.lost = "no" => OnlyLive(cur', c)
  <2>1. cur.lost = "no" => Blank(cur)
    BY <1>1 DEF TransportInv, InStep
  <2> QED BY <2>1, <1>1, WriteBlank DEF Send
<1>7. InStep'
  BY <1>2, <1>3, <1>5, <1>6 DEF InStep
<1> QED BY <1>4, <1>7 DEF TransportInv

LEMMA SendReturnsInv ==
  ASSUME TransportInv, SendReturns
  PROVE  TransportInv'
<1>1. cur \in Stream /\ new \in Stream /\ call \in Call /\ call.op = "send" /\ new.lost = "never"
  BY DEF TransportInv, TransportTypeOK, SendReturns
<1>2. cur' \in Stream /\ cur'.lost = cur.lost
  BY <1>1, ReadType DEF SendReturns
<1>3. call' \in Call /\ call'.op = "idle" /\ new' = new
  BY CallTypes DEF SendReturns
<1>4. TransportTypeOK'
  BY <1>1, <1>2, <1>3 DEF TransportTypeOK
<1>5. new.lost # "no"
  BY <1>1 DEF TransportInv, InStep
<1>6. cur.lost = "no" => Blank(cur')
  <2>1. cur.lost = "no" => OnlyLive(cur, call.cmd)
    BY <1>1 DEF TransportInv, InStep
  <2> QED BY <2>1, <1>1, ReadLive DEF SendReturns
<1>7. InStep'
  BY <1>2, <1>3, <1>5, <1>6 DEF InStep
<1> QED BY <1>4, <1>7 DEF TransportInv

LEMMA SendFailsInv ==
  ASSUME TransportInv, SendFails
  PROVE  TransportInv'
<1>1. cur \in Stream /\ new \in Stream /\ call \in Call /\ call.op = "send" /\ new.lost = "never"
  BY DEF TransportInv, TransportTypeOK, SendFails
<1>2. cur' \in Stream /\ cur'.lost = "send"
  BY <1>1, GiveUpType DEF SendFails, Losses
<1>3. call' \in Call /\ call'.op = "idle" /\ new' = new
  BY CallTypes DEF SendFails
<1>4. TransportTypeOK'
  BY <1>1, <1>2, <1>3 DEF TransportTypeOK
<1>5. new.lost # "no"
  BY <1>1 DEF TransportInv, InStep
<1>6. InStep'
  BY <1>2, <1>3, <1>5 DEF InStep
<1> QED BY <1>4, <1>6 DEF TransportInv

-----------------------------------------------------------------------------
(* The steps of connect.                                                   *)
LEMMA DialInv ==
  ASSUME TransportInv, Reconnect \/ Refused
  PROVE  TransportInv'
<1>1. /\ cur \in Stream /\ new \in Stream /\ call \in Call
      /\ call.op \in {"idle", "dial"} /\ new.lost = "never"
      /\ call.op = "dial" => call.n \in 1 .. MaxConnect
  BY DEF TransportInv, TransportTypeOK, Reconnect, Refused
<1>2. UNCHANGED <<cur, new>>
  BY DEF Reconnect, Refused
<1>3. call' \in Call /\ call'.op = "dial" /\ call'.n \in 1 .. MaxConnect
  <2>1. CASE Reconnect
    BY <2>1, CallTypes, TransportAssumption DEF Reconnect
  <2>2. CASE Refused
    <3>1. call.n \in 1 .. MaxConnect /\ call.n < MaxConnect /\ MaxConnect \in Nat
      BY <2>2, <1>1, TransportAssumption DEF Refused
    <3>2. call.n + 1 \in 1 .. MaxConnect /\ call.n + 1 \in Nat
      BY <3>1
    <3> QED BY <2>2, <3>2, <1>1 DEF Refused, Call
  <2> QED BY <2>1, <2>2
<1>4. TransportTypeOK'
  BY <1>1, <1>2, <1>3 DEF TransportTypeOK
<1>5. new.lost # "no" /\ (cur.lost = "no" => Blank(cur))
  BY <1>1 DEF TransportInv, InStep
<1>6. InStep'
  BY <1>2, <1>3, <1>5 DEF InStep, Blank
<1> QED BY <1>4, <1>6 DEF TransportInv

LEMMA ConnectedInv ==
  ASSUME TransportInv, Connected
  PROVE  TransportInv'
<1>1. cur \in Stream /\ call.op = "dial" /\ cur' = cur
  BY DEF TransportInv, TransportTypeOK, Connected
<1>2. new' \in Stream /\ new'.lost = "no" /\ OnlyLive(new', Reset)
  BY FreshStream, WriteType, WriteBlank, TransportAssumption DEF Connected
<1>3. call' \in Call /\ call'.op = "reset" /\ call'.cmd = Reset
  BY TransportAssumption DEF Connected, Call
<1>4. TransportTypeOK'
  BY <1>1, <1>2, <1>3 DEF TransportTypeOK
<1>5. cur.lost = "no" => Blank(cur)
  BY <1>1 DEF TransportInv, InStep
<1>6. InStep'
  BY <1>1, <1>2, <1>3, <1>5 DEF InStep, Blank
<1> QED BY <1>4, <1>6 DEF TransportInv

LEMMA InitTailType ==
  /\ Len(InitTail) \in Nat /\ 1 \in 1 .. Len(InitTail)
  /\ \A i \in 1 .. Len(InitTail) : InitTail[i] \in Commands
<1>1. InitTail \in Seq(Commands) /\ InitTail # <<>>
  BY TransportAssumption
<1>2. Len(InitTail) \in Nat /\ Len(InitTail) # 0
  BY <1>1, EmptySeq, LenProperties
<1> QED BY <1>1, <1>2, ElementOfSeq

(* A command of the initialisation is written on a stream that is blank if *)
(* it is in step.                                                          *)
LEMMA InitWriteInv ==
  ASSUME TransportInv, NEW s \in Stream, s.lost = "no" => Blank(s), s.lost # "never",
         NEW i \in 1 .. Len(InitTail),
         call.op \in {"reset", "init"}, cur' = cur,
         new' = Write(s, InitTail[i]),
         call' = [op |-> "init", cmd |-> InitTail[i], n |-> i]
  PROVE  TransportInv'
<1>1. InitTail[i] \in Commands /\ i \in Nat
  BY InitTailType
<1>2. new' \in Stream /\ new'.lost = s.lost
  BY <1>1, WriteType
<1>3. /\ call' \in Call /\ call'.op = "init"
      /\ call'.cmd = InitTail[i] /\ call'.n = i
  BY <1>1 DEF Call
<1>4. TransportTypeOK'
  BY <1>2, <1>3 DEF TransportInv, TransportTypeOK
<1>5. s.lost = "no" => OnlyLive(new', InitTail[i])
  BY <1>1, WriteBlank
<1>6. cur.lost = "no" => Blank(cur)
  BY DEF TransportInv, InStep
<1>7. InStep'
  BY <1>2, <1>3, <1>5, <1>6 DEF InStep, Blank
<1> QED BY <1>4, <1>7 DEF TransportInv

LEMMA DrainedInv ==
  ASSUME TransportInv, Drained
  PROVE  TransportInv'
<1> DEFINE late == IF new.out = <<>> THEN new ELSE GiveUp(new, "banner")
<1>1. new \in Stream /\ call.op = "reset" /\ cur' = cur /\ new.lost # "never"
  BY DEF TransportInv, TransportTypeOK, Drained
<1>2. late \in Stream /\ late.lost # "never"
  BY <1>1, GiveUpType DEF Losses
<1>3. late.lost = "no" => new.out = <<>>
  BY <1>1, GiveUpType DEF Losses
<1>4. /\ Read(late) \in Stream /\ Read(late).lost # "never"
      /\ Read(late).lost = "no" => Blank(Read(late))
  BY <1>2, <1>3, ReadType DEF Blank
<1>5. new' = Write(Read(late), InitTail[1])
  BY DEF Drained
<1>6. call' = [op |-> "init", cmd |-> InitTail[1], n |-> 1]
  BY DEF Drained
<1> HIDE DEF late
<1> QED BY <1>1, <1>4, <1>5, <1>6, InitTailType, InitWriteInv

LEMMA InitAnsweredInv ==
  ASSUME TransportInv, InitAnswered
  PROVE  TransportInv'
<1>1. /\ new \in Stream /\ call.op = "init" /\ cur' = cur /\ new.in # <<>>
      /\ call.n \in 1 .. Len(InitTail) /\ call.n < Len(InitTail)
      /\ new.lost # "never"
  BY DEF TransportInv, TransportTypeOK, InitAnswered
<1>2. Read(new) \in Stream /\ Read(new).lost = new.lost
  BY <1>1, ReadType
<1>3. new.lost = "no" => Blank(Read(new))
  <2>1. new.lost = "no" => OnlyLive(new, call.cmd)
    BY DEF TransportInv, InStep
  <2> QED BY <2>1, <1>1, ReadLive
<1>4. call.n + 1 \in 1 .. Len(InitTail)
  BY <1>1, InitTailType
<1>5. /\ new' = Write(Read(new), InitTail[call.n + 1])
      /\ call' = [op |-> "init", cmd |-> InitTail[call.n + 1], n |-> call.n + 1]
  BY DEF InitAnswered
<1> QED BY <1>1, <1>2, <1>3, <1>4, <1>5, InitWriteInv

LEMMA ConnectReturnsInv ==
  ASSUME TransportInv, ConnectReturns
  PROVE  TransportInv'
<1>1. new \in Stream /\ call.op = "init" /\ new.in # <<>>
  BY DEF TransportInv, TransportTypeOK, ConnectReturns
<1>2. cur' \in Stream /\ cur'.lost = new.lost
  BY <1>1, ReadType DEF ConnectReturns
<1>3. call' \in Call /\ call'.op = "idle"
  BY CallTypes DEF ConnectReturns
<1>4. new' \in Stream /\ new'.lost = "never"
  BY FreshStream DEF ConnectReturns
<1>5. TransportTypeOK'
  BY <1>2, <1>3, <1>4 DEF TransportTypeOK
<1>6. new.lost = "no" => Blank(cur')
  <2>1. new.lost = "no" => OnlyLive(new, call.cmd)
    BY DEF TransportInv, InStep
  <2> QED BY <2>1, <1>1, ReadLive DEF ConnectReturns
<1>7. InStep'
  BY <1>2, <1>3, <1>4, <1>6 DEF InStep
<1> QED BY <1>5, <1>7 DEF TransportInv

LEMMA ConnectFailsInv ==
  ASSUME TransportInv, ConnectFails
  PROVE  TransportInv'
<1>1. cur \in Stream /\ call.op \in {"dial", "reset", "init"}
  BY DEF TransportInv, TransportTypeOK, ConnectFails
<1>2. /\ cur' \in Stream
      /\ cur'.lost = "no" => cur' = cur
  BY <1>1, GiveUpType DEF ConnectFails, Losses
<1>3. call' \in Call /\ call'.op = "idle"
  BY CallTypes DEF ConnectFails
<1>4. new' \in Stream /\ new'.lost = "never"
  BY FreshStream DEF ConnectFails
<1>5. TransportTypeOK'
  BY <1>2, <1>3, <1>4 DEF TransportTypeOK
<1>6. cur.lost = "no" => Blank(cur)
  BY <1>1 DEF TransportInv, InStep
<1>7. InStep'
  BY <1>2, <1>3, <1>4, <1>6 DEF InStep, Blank
<1> QED BY <1>5, <1>7 DEF TransportInv

-----------------------------------------------------------------------------
(* The steps of the far end.  A live entry stays the only one, and a blank *)
(* stream has nothing to answer.                                           *)
LEMMA FarStream ==
  ASSUME NEW s \in Stream, NEW t,
         \/ s.out # <<>> /\ \E k \in Answers[Head(s.out).cmd] : t = Answered(s, k)
         \/ s.out # <<>> /\ t = [s EXCEPT !.out = Tail(@)]
         \/ t = [s EXCEPT !.open = FALSE, !.out = <<>>]
  PROVE  /\ t \in Stream /\ t.lost = s.lost
         /\ Blank(s) => Blank(t)
         /\ \A c : OnlyLive(s, c) => OnlyLive(t, c)
<1>1. CASE s.out # <<>> /\ \E k \in Answers[Head(s.out).cmd] : t = Answered(s, k)
  BY <1>1, AnsweredType, AnsweredLive DEF Blank
<1>2. CASE s.out # <<>> /\ t = [s EXCEPT !.out = Tail(@)]
  <2>1. t \in Stream /\ t.lost = s.lost /\ t.out = Tail(s.out) /\ t.in = s.in
    BY <1>2, LoseType
  <2>2. ASSUME NEW c, OnlyLive(s, c) PROVE OnlyLive(t, c)
    BY <1>2, <2>1, <2>2, TailLive, OutGone
  <2> QED BY <1>2, <2>1, <2>2 DEF Blank
<1>3. CASE t = [s EXCEPT !.open = FALSE, !.out = <<>>]
  <2>1. t \in Stream /\ t.lost = s.lost /\ t.out = <<>> /\ t.in = s.in
    BY <1>3, HangUpType
  <2>2. ASSUME NEW c, OnlyLive(s, c) PROVE OnlyLive(t, c)
    BY <2>1, <2>2, OutGone
  <2> QED BY <2>1, <2>2 DEF Blank
<1> QED BY <1>1, <1>2, <1>3

LEMMA FarEndInv ==
  ASSUME TransportInv, FarEnd
  PROVE  TransportInv'
<1>1. cur \in Stream /\ new \in Stream /\ call' = call
  BY DEF TransportInv, TransportTypeOK, FarEnd, AnswerCur, LoseCur, HangUpCur,
         AnswerNew, LoseNew, HangUpNew
<1>2. CASE AnswerCur \/ LoseCur \/ HangUpCur
  <2>1. new' = new
    BY <1>2 DEF AnswerCur, LoseCur, HangUpCur
  <2>2. /\ cur' \in Stream /\ cur'.lost = cur.lost
        /\ Blank(cur) => Blank(cur')
        /\ \A c : OnlyLive(cur, c) => OnlyLive(cur', c)
    BY <1>1, <1>2, FarStream DEF AnswerCur, LoseCur, HangUpCur
  <2>3. TransportTypeOK'
    BY <1>1, <2>1, <2>2 DEF TransportInv, TransportTypeOK
  <2>4. InStep'
    BY <1>1, <2>1, <2>2 DEF TransportInv, InStep
  <2> QED BY <2>3, <2>4 DEF TransportInv
<1>3. CASE AnswerNew \/ LoseNew \/ HangUpNew
  <2>1. cur' = cur
    BY <1>3 DEF AnswerNew, LoseNew, HangUpNew
  <2>2. /\ new' \in Stream /\ new'.lost = new.lost
        /\ \A c : OnlyLive(new, c) => OnlyLive(new', c)
    BY <1>1, <1>3, FarStream DEF AnswerNew, LoseNew, HangUpNew
  <2>3. TransportTypeOK'
    BY <1>1, <2>1, <2>2 DEF TransportInv, TransportTypeOK
  <2>4. InStep'
    BY <1>1, <2>1, <2>2 DEF TransportInv, InStep
  <2> QED BY <2>3, <2>4 DEF TransportInv
<1> QED BY <1>2, <1>3 DEF FarEnd

-----------------------------------------------------------------------------
THEOREM TransportNextInv ==
  ASSUME TransportInv, [TransportNext]_tvars
  PROVE  TransportInv'
<1>1. CASE \E c \in Commands : Send(c)
  BY <1>1, SendInv
<1>2. CASE Reconnect \/ Refused
  BY <1>2, DialInv
<1>3. CASE SendReturns \/ SendFails
  BY <1>3, SendReturnsInv, SendFailsInv
<1>4. CASE Connected \/ Drained \/ InitAnswered
  BY <1>4, ConnectedInv, DrainedInv, InitAnsweredInv
<1>5. CASE ConnectReturns \/ ConnectFails
  BY <1>5, ConnectReturnsInv, ConnectFailsInv
<1>6. CASE FarEnd
  BY <1>6, FarEndInv
<1>7. CASE UNCHANGED tvars
  BY <1>7 DEF tvars, TransportInv, TransportTypeOK, InStep, Blank, OnlyLive
<1> QED BY <1>1, <1>2, <1>3, <1>4, <1>5, <1>6, <1>7
     DEF TransportNext, Use, InProgress

(* The types and InStep, for every behaviour of TcpTransport: nothing is   *)
(* outstanding on a stream in step but the command of the exchange in      *)
(* progress.                                                               *)
THEOREM TransportSafe == TransportSpec => [](TransportTypeOK /\ InStep)
<1>1. TransportInit => TransportInv
  BY TransportInitInv
<1>2. TransportInv /\ [TransportNext]_tvars => TransportInv'
  BY TransportNextInv
<1> QED BY <1>1, <1>2, PTL DEF TransportSpec, TransportInv

(* An answer returned on a stream in step is that of the command sent.     *)
THEOREM TransportOwnAnswer == TransportSpec => []OwnAnswer
<1>1. TransportInv => OwnAnswer
  <2> SUFFICES ASSUME TransportInv, call.op = "send", cur.lost = "no", cur.in # <<>>
               PROVE  Head(cur.in).live /\ Head(cur.in).cmd = call.cmd
    BY DEF OwnAnswer
  <2>1. OnlyLive(cur, call.cmd)
    BY DEF TransportInv, InStep
  <2>2. cur.in \in Seq(Reply)
    BY DEF TransportInv, TransportTypeOK, Stream
  <2>3. Len(cur.in) \in Nat \ {0} /\ DOMAIN cur.in = 1 .. Len(cur.in)
    BY <2>2, EmptySeq, LenProperties
  <2>4. 1 \in DOMAIN cur.in /\ Head(cur.in) = cur.in[1]
    BY <2>2, <2>3
  <2> QED BY <2>1, <2>4 DEF OnlyLive
<1>2. TransportSpec => []TransportInv
  BY TransportSafe, PTL DEF TransportInv
<1> QED BY <1>1, <1>2, PTL
=============================================================================
