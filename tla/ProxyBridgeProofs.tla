-------------------------- MODULE ProxyBridgeProofs --------------------------
(* Proofs about ProxyBridge, for every backlog and number of attempts.     *)
EXTENDS ProxyBridge, TLAPS

(* Only the bridged connection is ever answered on.                        *)
AnsweredOnBridge == \A c \in Conns : socks[c].down => c = client

(* The server accepts once.                                                *)
AcceptedOnce == client # None => loop \notin {"start", "bound", "accept"}

BridgeInv == TypeOK /\ RunsOnBridge /\ AnsweredOnBridge /\ AcceptedOnce

LEMMA ConnsAre == Conns \subseteq Nat /\ None \notin Conns /\ Backlog + 2 \in Nat
BY ProxyAssumption DEF Conns, None

LEMMA BridgeInitInv == Init => BridgeInv
<1> SUFFICES ASSUME Init PROVE BridgeInv
  OBVIOUS
<1>1. Unused \in Sock /\ ~ Unused.down
  BY DEF Unused, Sock
<1>2. prog \in [at : {"dial", "init", "idle", "asking", "exit"}, n : 1 .. MaxConnect]
  BY ProxyAssumption DEF Init
<1>3. TypeOK
  BY <1>1, <1>2 DEF Init, TypeOK, None
<1>4. RunsOnBridge /\ AnsweredOnBridge /\ AcceptedOnce
  BY <1>1 DEF Init, RunsOnBridge, AnsweredOnBridge, AcceptedOnce
<1> QED BY <1>3, <1>4 DEF BridgeInv

(* Closing ends of connections keeps their types and what is unread.       *)
LEMMA Closing ==
  ASSUME socks \in [Conns -> Sock], NEW ends
  PROVE  /\ CloseKotlin(ends) \in [Conns -> Sock]
         /\ CloseRust(ends) \in [Conns -> Sock]
         /\ \A c \in Conns : /\ CloseKotlin(ends)[c].down = socks[c].down
                             /\ CloseRust(ends)[c].down = socks[c].down
<1>1. ASSUME NEW c \in Conns
      PROVE  /\ CloseKotlin(ends)[c] \in Sock /\ CloseRust(ends)[c] \in Sock
             /\ CloseKotlin(ends)[c].down = socks[c].down
             /\ CloseRust(ends)[c].down = socks[c].down
  <2>1. socks[c] \in Sock
    OBVIOUS
  <2> QED BY <2>1 DEF CloseKotlin, CloseRust, Sock
<1> QED BY <1>1 DEF CloseKotlin, CloseRust

LEMMA Bytes ==
  ASSUME NEW s \in Sock
  PROVE  /\ [s EXCEPT !.up = TRUE] \in Sock
         /\ [s EXCEPT !.up = TRUE].down = s.down
         /\ [s EXCEPT !.up = FALSE] \in Sock
         /\ [s EXCEPT !.up = FALSE].down = s.down
         /\ [s EXCEPT !.down = TRUE] \in Sock
         /\ [s EXCEPT !.down = FALSE] \in Sock
         /\ [s EXCEPT !.down = FALSE].down = FALSE
BY DEF Sock

LEMMA LoopKeeps ==
  ASSUME BridgeInv, AcceptLoop
  PROVE  BridgeInv'
<1> USE DEF BridgeInv, AcceptLoop, linkVars, progVars
<1>1. TypeOK
  OBVIOUS
<1>2. ASSUME NEW ends, Over(ends), client' = client, pumps' = pumps
      PROVE  BridgeInv'
  <2>1. TypeOK'
    BY <1>1, <1>2, Closing DEF TypeOK, Over
  <2>2. RunsOnBridge' /\ AcceptedOnce'
    BY <1>2 DEF RunsOnBridge, AcceptedOnce, Over
  <2>3. AnsweredOnBridge'
    BY <1>1, <1>2, Closing DEF AnsweredOnBridge, Over, TypeOK
  <2> QED BY <2>1, <2>2, <2>3
<1>3. CASE NeverRuns \/ AcceptFails \/ BridgeEnds \/ BridgeThrows
  BY <1>2, <1>3 DEF NeverRuns, AcceptFails, BridgeEnds, BridgeThrows
<1>4. CASE Bind \/ StoreServer \/ StoreClient \/ Joined
  BY <1>1, <1>4 DEF Bind, StoreServer, StoreClient, Joined, TypeOK,
       RunsOnBridge, AnsweredOnBridge, AcceptedOnce
<1>5. CASE Accept
  <2>1. client = None /\ cur = None /\ \A c \in Conns : ~ socks[c].down
    BY <1>1, <1>5, ConnsAre DEF Accept, AcceptedOnce, RunsOnBridge,
         AnsweredOnBridge, TypeOK, Sock
  <2>2. Head(waiting) \in Conns /\ Tail(waiting) \in Seq(Conns)
    BY <1>1, <1>5 DEF Accept, TypeOK
  <2>3. TypeOK'
    BY <1>1, <1>5, <2>2 DEF Accept, TypeOK
  <2>4. RunsOnBridge' /\ AnsweredOnBridge' /\ AcceptedOnce'
    BY <1>5, <2>1 DEF Accept, RunsOnBridge, AnsweredOnBridge, AcceptedOnce
  <2> QED BY <2>3, <2>4
<1>6. CASE Bridge
  <2>1. CASE socks[client].kotlin
    <3>1. /\ loop' = "wait" /\ client' = client /\ socks' = socks
          /\ waiting' = waiting /\ listener' = listener
          /\ pumps' = [p \in DOMAIN pumps |-> "running"]
      BY <1>6, <2>1 DEF Bridge
    <3>2. pumps' \in [{"btToTcp", "tcpToBt"} -> {"none", "running", "over"}]
      BY <1>1, <3>1 DEF TypeOK
    <3>3. TypeOK'
      BY <1>1, <3>1, <3>2 DEF TypeOK
    <3> QED BY <3>1, <3>3 DEF RunsOnBridge, AnsweredOnBridge, AcceptedOnce
  <2>2. CASE ~ socks[client].kotlin
    BY <1>2, <1>6, <2>2 DEF Bridge
  <2> QED BY <2>1, <2>2
<1> QED BY <1>3, <1>4, <1>5, <1>6

LEMMA PumpsKeep ==
  ASSUME BridgeInv, Pumps
  PROVE  BridgeInv'
<1>1. TypeOK
  BY DEF BridgeInv
<1>2. /\ bt' = bt /\ listener' = listener /\ waiting' = waiting
      /\ loop' = loop /\ client' = client
      /\ owner' = owner /\ made' = made /\ prog' = prog /\ cur' = cur
  BY DEF Pumps, FromBt, ToBt, progVars
<1>3. elm' \in [asked : BOOLEAN, said : BOOLEAN]
  BY <1>1 DEF Pumps, FromBt, ToBt, TypeOK
<1>4. pumps' \in [{"btToTcp", "tcpToBt"} -> {"none", "running", "over"}]
  BY <1>1 DEF Pumps, FromBt, ToBt, TypeOK
<1>5. \/ socks' = socks
      \/ socks' = [socks EXCEPT ![client].down = TRUE]
      \/ socks' = [socks EXCEPT ![client].up = FALSE]
  BY DEF Pumps, FromBt, ToBt
<1>6. ASSUME NEW c \in Conns
      PROVE  socks'[c] \in Sock /\ (socks'[c].down => socks[c].down \/ c = client)
  <2>1. socks[c] \in Sock /\ c \in DOMAIN socks
    BY <1>1 DEF TypeOK
  <2>2. \/ socks'[c] = socks[c]
        \/ c = client /\ socks'[c] = [socks[c] EXCEPT !.down = TRUE]
        \/ socks'[c] = [socks[c] EXCEPT !.up = FALSE]
    BY <1>5, <2>1
  <2> QED BY <2>1, <2>2, Bytes
<1>7. socks' \in [Conns -> Sock]
  BY <1>1, <1>5, <1>6 DEF TypeOK
<1>8. TypeOK'
  BY <1>1, <1>2, <1>3, <1>4, <1>7 DEF TypeOK
<1>9. AnsweredOnBridge'
  BY <1>2, <1>6 DEF BridgeInv, AnsweredOnBridge
<1> QED BY <1>2, <1>8, <1>9 DEF BridgeInv, RunsOnBridge, AcceptedOnce

LEMMA OwnerKeeps ==
  ASSUME BridgeInv, CancelScope \/ Destroy
  PROVE  BridgeInv'
<1>1. TypeOK
  BY DEF BridgeInv
<1>2. ASSUME NEW ends, socks' = CloseKotlin(ends) \/ socks' = CloseRust(ends)
                        \/ socks' = socks
      PROVE  /\ socks' \in [Conns -> Sock]
             /\ \A c \in Conns : socks'[c].down = socks[c].down
  BY <1>1, <1>2, Closing DEF TypeOK
<1>3. /\ socks' \in [Conns -> Sock]
      /\ \A c \in Conns : socks'[c].down = socks[c].down
  BY <1>2 DEF CancelScope, Destroy, KillRust, StopClient, StopServer, CloseBt
<1>4. client' = client /\ cur' = cur /\ loop' = loop
  BY DEF CancelScope, Destroy, KillRust, StopClient, StopServer, CloseBt,
       proxyVars, progVars
<1>5. TypeOK'
  <2>1. CASE CancelScope \/ StopClient \/ CloseBt
    BY <1>1, <1>3, <2>1 DEF CancelScope, StopClient, CloseBt,
         proxyVars, progVars, TypeOK
  <2>3. CASE StopServer
    <3>1. \/ listener' = "closed" /\ waiting' = <<>>
          \/ listener' = listener /\ waiting' = waiting
      BY <2>3 DEF StopServer
    <3>2. listener' \in {"none", "open", "closed"} /\ waiting' \in Seq(Conns)
      <4>1. CASE listener' = "closed" /\ waiting' = <<>>
        BY <4>1
      <4>2. CASE listener' = listener /\ waiting' = waiting
        BY <4>2, <1>1 DEF TypeOK
      <4> QED BY <3>1, <4>1, <4>2
    <3> QED BY <1>1, <1>3, <2>3, <3>2 DEF StopServer, progVars, TypeOK
  <2>2. CASE KillRust
    <3>1. prog' = [prog EXCEPT !.at = "exit"]
      BY <2>2 DEF KillRust
    <3>2. prog'.at = "exit" /\ prog' \in [at : {"dial", "init", "idle", "asking",
            "exit"}, n : 1 .. MaxConnect]
      BY <1>1, <3>1 DEF TypeOK
    <3> QED BY <1>1, <1>3, <2>2, <3>2 DEF KillRust, proxyVars, TypeOK
  <2> QED BY <2>1, <2>2, <2>3 DEF Destroy
<1> QED BY <1>3, <1>4, <1>5 DEF BridgeInv, RunsOnBridge, AnsweredOnBridge, AcceptedOnce

LEMMA RustKeeps ==
  ASSUME BridgeInv, Rust
  PROVE  BridgeInv'
<1> DEFINE Progs == [at : {"dial", "init", "idle", "asking", "exit"},
                     n : 1 .. MaxConnect]
<1>1. TypeOK /\ prog \in Progs /\ prog.n \in 1 .. MaxConnect
  BY DEF BridgeInv, TypeOK
<1>2. /\ bt' = bt /\ elm' = elm /\ listener' = listener /\ loop' = loop
      /\ client' = client /\ pumps' = pumps /\ owner' = owner
  BY DEF Rust, linkVars
<1>3. ASSUME GivesUp
      PROVE  /\ prog' \in Progs /\ prog'.at # "init"
             /\ prog'.at \in {"idle", "asking"} => cur # None
  BY <1>3, ProxyAssumption DEF GivesUp
<1>4. ASSUME NEW at \in {"dial", "init", "idle", "asking", "exit"},
             prog' = [prog EXCEPT !.at = at]
      PROVE  prog' \in Progs /\ prog'.at = at
  BY <1>1, <1>4
<1>5. CASE Dials
  <2>1. made + 1 \in Conns /\ made' = made + 1 /\ made' # 0
    BY <1>5, ConnsAre DEF Dials, CanConnect, None
  <2>2. socks' \in [Conns -> Sock] /\ \A c \in Conns : socks'[c].down => socks[c].down
    <3>1. Opened \in Sock /\ ~ Opened.down
      BY DEF Opened, Sock
    <3> QED BY <1>1, <1>5, <2>1, <3>1 DEF Dials, TypeOK
  <2>3. waiting' \in Seq(Conns)
    BY <1>1, <1>5, <2>1 DEF Dials, TypeOK
  <2>4. prog' \in Progs /\ prog'.at = "init" /\ cur' = cur
    BY <1>4, <1>5 DEF Dials
  <2>5. TypeOK'
    BY <1>1, <1>2, <2>1, <2>2, <2>3, <2>4 DEF TypeOK
  <2> QED BY <1>2, <2>2, <2>4, <2>5 DEF BridgeInv, RunsOnBridge,
            AnsweredOnBridge, AcceptedOnce
<1>6. CASE DialFails
  <2>1. made' = made /\ socks' = socks /\ waiting' = waiting /\ cur' = cur
    BY <1>6 DEF DialFails
  <2>2. /\ prog' \in Progs /\ prog'.at # "init"
        /\ prog'.at \in {"idle", "asking"} => cur # None
    <3>1. CASE GivesUp
      BY <3>1, <1>3
    <3>2. CASE prog.n < MaxConnect /\ prog' = [prog EXCEPT !.n = @ + 1]
      <4>1. prog.n + 1 \in 1 .. MaxConnect
        BY <1>1, <3>2, ProxyAssumption
      <4> QED BY <1>1, <1>6, <3>2, <4>1 DEF DialFails
    <3> QED BY <1>6, <3>1, <3>2 DEF DialFails
  <2>3. TypeOK'
    BY <1>1, <1>2, <2>1, <2>2 DEF TypeOK
  <2> QED BY <1>2, <2>1, <2>3 DEF BridgeInv, RunsOnBridge, AnsweredOnBridge,
            AcceptedOnce
<1>7. CASE InitReturns
  <2>1. made \in Conns /\ made = client /\ cur' = made
    BY <1>1, <1>7, ConnsAre DEF InitReturns, TypeOK, BridgeInv, AnsweredOnBridge, None
  <2>2. ASSUME NEW c \in Conns
        PROVE  socks'[c] \in Sock /\ (socks'[c].down => socks[c].down)
    <3> DEFINE closed == CloseRust({cur} \ {None})
    <3>1. closed \in [Conns -> Sock] /\ closed[c].down = socks[c].down
      BY <1>1, Closing DEF TypeOK
    <3>2. socks' = [closed EXCEPT ![made].down = FALSE]
      BY <1>7 DEF InitReturns
    <3> HIDE DEF closed
    <3>3. \/ socks'[c] = closed[c]
          \/ socks'[c] = [closed[c] EXCEPT !.down = FALSE]
      BY <3>1, <3>2
    <3> QED BY <3>1, <3>3, Bytes
  <2>3. socks' \in [Conns -> Sock]
    <3>1. CloseRust({cur} \ {None}) \in [Conns -> Sock]
      BY <1>1, Closing DEF TypeOK
    <3> QED BY <1>7, <2>2, <3>1 DEF InitReturns
  <2>4. prog' \in Progs /\ prog'.at = "idle"
    BY <1>7, ProxyAssumption DEF InitReturns
  <2>5. TypeOK'
    BY <1>1, <1>2, <1>7, <2>1, <2>3, <2>4, ConnsAre DEF InitReturns, TypeOK
  <2> QED BY <1>2, <2>1, <2>2, <2>5 DEF BridgeInv, RunsOnBridge,
            AnsweredOnBridge, AcceptedOnce
<1>8. CASE InitFails
  <2>1. made' = made /\ waiting' = waiting /\ cur' = cur /\ GivesUp
    BY <1>8 DEF InitFails
  <2>2. /\ socks' \in [Conns -> Sock]
        /\ \A c \in Conns : socks'[c].down = socks[c].down
    BY <1>1, <1>8, Closing DEF InitFails, TypeOK
  <2>3. TypeOK'
    BY <1>1, <1>2, <1>3, <2>1, <2>2 DEF TypeOK
  <2> QED BY <1>2, <2>1, <2>2, <2>3 DEF BridgeInv, RunsOnBridge,
            AnsweredOnBridge, AcceptedOnce
<1>9. CASE Asks \/ Answered
  <2>1. made' = made /\ waiting' = waiting /\ cur' = cur /\ cur # None
    BY <1>1, <1>9 DEF Asks, Answered, TypeOK
  <2>2. \/ socks' = [socks EXCEPT ![cur].up = TRUE]
        \/ socks' = [socks EXCEPT ![cur].down = FALSE]
    BY <1>9 DEF Asks, Answered
  <2>3. ASSUME NEW c \in Conns
        PROVE  socks'[c] \in Sock /\ (socks'[c].down => socks[c].down)
    <3>1. socks[c] \in Sock /\ c \in DOMAIN socks
      BY <1>1 DEF TypeOK
    <3>2. \/ socks'[c] = socks[c]
          \/ socks'[c] = [socks[c] EXCEPT !.up = TRUE]
          \/ socks'[c] = [socks[c] EXCEPT !.down = FALSE]
      BY <2>2, <3>1
    <3> QED BY <3>1, <3>2, Bytes
  <2>4. socks' \in [Conns -> Sock]
    BY <1>1, <2>2, <2>3 DEF TypeOK
  <2>5. prog' \in Progs /\ prog'.at \in {"idle", "asking"}
    BY <1>4, <1>9 DEF Asks, Answered
  <2>6. TypeOK'
    BY <1>1, <1>2, <2>1, <2>4, <2>5 DEF TypeOK
  <2> QED BY <1>2, <2>1, <2>3, <2>6 DEF BridgeInv, RunsOnBridge,
            AnsweredOnBridge, AcceptedOnce
<1>10. CASE AskFails
  <2>1. prog' \in Progs /\ prog'.at = "dial"
    BY <1>10, ProxyAssumption DEF AskFails
  <2>2. TypeOK'
    BY <1>1, <1>2, <1>10, <2>1 DEF AskFails, TypeOK
  <2> QED BY <1>2, <1>10, <2>2 DEF AskFails, BridgeInv, RunsOnBridge,
            AnsweredOnBridge, AcceptedOnce
<1> QED BY <1>5, <1>6, <1>7, <1>8, <1>9, <1>10 DEF Rust

LEMMA BridgeNextInv == BridgeInv /\ [Next]_vars => BridgeInv'
<1> SUFFICES ASSUME BridgeInv, [Next]_vars PROVE BridgeInv'
  OBVIOUS
<1>1. CASE Link
  <2>1. elm' \in [asked : BOOLEAN, said : BOOLEAN] /\ bt' \in {"up", "down"}
    <3>1. elm \in [asked : BOOLEAN, said : BOOLEAN] /\ bt \in {"up", "down"}
      BY DEF BridgeInv, TypeOK
    <3>2. [asked |-> FALSE, said |-> TRUE] \in [asked : BOOLEAN, said : BOOLEAN]
      OBVIOUS
    <3>3. [elm EXCEPT !.asked = FALSE] \in [asked : BOOLEAN, said : BOOLEAN]
      BY <3>1
    <3>4. CASE ElmAnswers
      BY <3>1, <3>2, <3>4 DEF ElmAnswers
    <3>5. CASE ElmIsSilent
      BY <3>1, <3>3, <3>5 DEF ElmIsSilent
    <3>6. CASE LinkLost
      BY <3>1, <3>6 DEF LinkLost
    <3> QED BY <1>1, <3>4, <3>5, <3>6 DEF Link
  <2>2. TypeOK'
    BY <1>1, <2>1 DEF Link, ElmAnswers, ElmIsSilent, LinkLost, proxyVars, progVars,
         BridgeInv, TypeOK
  <2> QED BY <1>1, <2>2 DEF Link, ElmAnswers, ElmIsSilent, LinkLost, proxyVars,
            progVars, BridgeInv, RunsOnBridge, AnsweredOnBridge, AcceptedOnce
<1>2. CASE Exits
  <2>1. prog' \in [at : {"dial", "init", "idle", "asking", "exit"},
                   n : 1 .. MaxConnect] /\ prog'.at = "exit"
    BY <1>2 DEF Exits, BridgeInv, TypeOK
  <2>2. /\ socks' \in [Conns -> Sock]
        /\ \A c \in Conns : socks'[c].down = socks[c].down
    BY <1>2, Closing DEF Exits, BridgeInv, TypeOK
  <2>3. TypeOK'
    BY <1>2, <2>1, <2>2 DEF Exits, linkVars, proxyVars, BridgeInv, TypeOK
  <2> QED BY <1>2, <2>2, <2>3 DEF Exits, proxyVars, BridgeInv,
            RunsOnBridge, AnsweredOnBridge, AcceptedOnce
<1>3. CASE UNCHANGED vars
  BY <1>3 DEF vars, BridgeInv, TypeOK, RunsOnBridge, AnsweredOnBridge, AcceptedOnce
<1> QED BY <1>1, <1>2, <1>3, LoopKeeps, PumpsKeep, OwnerKeeps, RustKeeps DEF Next

(* The transport's stream is always the connection the proxy bridges,      *)
(* however many more the kernel queues and whatever fails or comes late.   *)
THEOREM StreamIsBridged == Spec => [](TypeOK /\ RunsOnBridge)
<1>1. BridgeInv => TypeOK /\ RunsOnBridge
  BY DEF BridgeInv
<1> QED BY <1>1, BridgeInitInv, BridgeNextInv, PTL DEF Spec
=============================================================================
