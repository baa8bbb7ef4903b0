---------------------------- MODULE ObdLinkProofs ----------------------------
(* Proofs about ObdLink, for every table of PIDs and commands and any      *)
(* number of requests: the mutex does what it is there for, the program    *)
(* uses its transport as TransportSpec says, and so what is proved about   *)
(* Transport holds of it.                                                  *)
EXTENDS ObdLink, TransportProofs

(* The proofs of the polling loop hold of the loop that shares the stream. *)
Polling == INSTANCE PollCadenceProofs WITH streak <- 0, waited <- <<>>

LEMMA PollingAssumption ==
  /\ Pids # <<>>
  /\ Len(Pids) \in Nat /\ DOMAIN Pids = 1 .. Len(Pids)
  /\ \A i \in DOMAIN Pids : Pids[i].priority \in Polling!Priorities
  /\ Divisor \in [Polling!Priorities -> Nat \ {0}]
  /\ Threshold \in Nat \ {0}
  /\ TickMod \in Nat \ {0}
BY SchedulerAssumption, Zenon DEF Priorities, Polling!Priorities

LEMMA PollingTypes == SchedulerTypeOK <=> Polling!SchedulerTypeOK
BY DEF SchedulerTypeOK, Phases, Polling!SchedulerTypeOK, Polling!Phases

LEMMA LoopInitType == SchedulerInit => SchedulerTypeOK
<1>1. SchedulerInit => Polling!SchedulerInit
  BY DEF SchedulerInit, Polling!SchedulerInit
<1> QED BY <1>1, PollingAssumption, PollingTypes, Polling!SchedulerInitType, Zenon

LEMMA LoopNextType ==
  ASSUME SchedulerTypeOK, [SchedulerNext]_svars
  PROVE  SchedulerTypeOK'
<1>1. [Polling!SchedulerNext]_(Polling!svars)
  BY Zenon
     DEF SchedulerNext, svars, Booted, BootFailed, TimerFires, GotBytes, GotError,
         GotStopped, GotLastStopped, TransportError, Reconnected, ReconnectFailed,
         HeaderDone, NextPid, EndCycle, DueAfter, ShouldPoll,
         Polling!SchedulerNext, Polling!svars, Polling!Booted, Polling!BootFailed,
         Polling!TimerFires, Polling!GotBytes, Polling!GotError, Polling!GotStopped,
         Polling!GotLastStopped, Polling!TransportError, Polling!Reconnected,
         Polling!ReconnectFailed, Polling!HeaderDone, Polling!NextPid, Polling!EndCycle,
         Polling!DueAfter, Polling!ShouldPoll
<1>2. Polling!SchedulerTypeOK'
  BY <1>1, PollingAssumption, PollingTypes, Polling!SchedulerNextType, Zenon
<1>3. SchedulerTypeOK' <=> Polling!SchedulerTypeOK'
  BY DEF SchedulerTypeOK, Phases, Polling!SchedulerTypeOK, Polling!Phases
<1> QED BY <1>2, <1>3

-----------------------------------------------------------------------------
(* The queue of the mutex.                                                 *)
Distinct(s) == \A i, j \in DOMAIN s : s[i] = s[j] => i = j
In(s, p)    == \E i \in DOMAIN s : s[i] = p

LEMMA JoinQueue ==
  ASSUME NEW s \in Seq(Procs), NEW p \in Procs, Distinct(s), ~ In(s, p)
  PROVE  /\ Append(s, p) \in Seq(Procs) /\ Append(s, p) # <<>>
         /\ Distinct(Append(s, p))
         /\ \A q : In(Append(s, p), q) <=> In(s, q) \/ q = p
         /\ s # <<>> => Head(Append(s, p)) = Head(s)
<1> DEFINE t == Append(s, p)
<1>1. Len(s) \in Nat /\ DOMAIN s = 1 .. Len(s)
  BY LenProperties
<1>2. /\ t \in Seq(Procs) /\ t # <<>> /\ Len(t) = Len(s) + 1
      /\ \A i \in 1 .. Len(s) : t[i] = s[i]
      /\ t[Len(s) + 1] = p
  BY AppendProperties
<1>3. DOMAIN t = 1 .. Len(s) + 1
  BY <1>2, LenProperties
<1> HIDE DEF t
<1>4. Distinct(t)
  BY <1>1, <1>2, <1>3 DEF Distinct, In
<1>5. \A q : In(t, q) <=> In(s, q) \/ q = p
  <2>1. ASSUME NEW q, In(t, q) PROVE In(s, q) \/ q = p
    BY <2>1, <1>1, <1>2, <1>3 DEF In
  <2>2. ASSUME NEW q, In(s, q) PROVE In(t, q)
    BY <2>2, <1>1, <1>2, <1>3 DEF In
  <2>3. In(t, p)
    BY <1>1, <1>2, <1>3 DEF In
  <2> QED BY <2>1, <2>2, <2>3
<1>6. s # <<>> => Head(t) = Head(s)
  <2> SUFFICES ASSUME s # <<>> PROVE Head(t) = Head(s)
    OBVIOUS
  <2>1. 1 \in 1 .. Len(s)
    BY <1>1, EmptySeq
  <2>2. Head(s) = s[1] /\ Head(t) = t[1]
    BY <1>2, HeadTailProperties
  <2> QED BY <2>1, <2>2, <1>2
<1> QED BY <1>2, <1>4, <1>5, <1>6 DEF t

LEMMA LeaveQueue ==
  ASSUME NEW s \in Seq(Procs), s # <<>>, Distinct(s)
  PROVE  /\ Tail(s) \in Seq(Procs)
         /\ Distinct(Tail(s))
         /\ \A q : In(Tail(s), q) <=> In(s, q) /\ q # Head(s)
<1> DEFINE t == Tail(s)
<1>1. Len(s) \in Nat \ {0} /\ DOMAIN s = 1 .. Len(s)
  BY LenProperties, EmptySeq
<1>2. /\ t \in Seq(Procs) /\ Len(t) = Len(s) - 1 /\ Head(s) = s[1]
      /\ \A i \in 1 .. Len(t) : t[i] = s[i + 1]
  BY HeadTailProperties
<1>3. DOMAIN t = 1 .. Len(s) - 1
  BY <1>2, LenProperties
<1> HIDE DEF t
<1>4. Distinct(t)
  <2> SUFFICES ASSUME NEW i \in 1 .. Len(s) - 1, NEW j \in 1 .. Len(s) - 1,
                      t[i] = t[j]
               PROVE  i = j
    BY <1>3 DEF Distinct
  <2>1. i + 1 \in DOMAIN s /\ j + 1 \in DOMAIN s /\ s[i + 1] = s[j + 1]
    BY <1>1, <1>2
  <2>2. i + 1 = j + 1
    BY <2>1 DEF Distinct
  <2> QED BY <2>2, <1>1
<1>5. ASSUME NEW q, In(t, q) PROVE In(s, q) /\ q # Head(s)
  <2>1. PICK i \in 1 .. Len(s) - 1 : s[i + 1] = q
    BY <1>5, <1>2, <1>3 DEF In
  <2>2. i + 1 \in DOMAIN s /\ 1 \in DOMAIN s /\ i + 1 # 1
    BY <1>1
  <2> QED BY <2>1, <2>2, <1>2 DEF In, Distinct
<1>6. ASSUME NEW q, In(s, q), q # Head(s) PROVE In(t, q)
  <2>1. PICK i \in 1 .. Len(s) : s[i] = q
    BY <1>6, <1>1 DEF In
  <2>2. i # 1
    BY <2>1, <1>2, <1>6
  <2>3. i - 1 \in 1 .. Len(s) - 1 /\ (i - 1) + 1 = i
    BY <2>2, <1>1
  <2>4. t[i - 1] = q
    BY <2>1, <2>3, <1>2
  <2> QED BY <2>3, <2>4, <1>3 DEF In
<1> QED BY <1>2, <1>4, <1>5, <1>6 DEF t

-----------------------------------------------------------------------------
(* The inductive invariant.  Opened is what the others need besides: there *)
(* is no request before main has a connection, and the transport has a     *)
(* stream, be it a broken one, ever after.                                 *)
Opened ==
  /\ phase \in {"boot", "exit"} => queue = <<>>
  /\ phase \notin {"boot", "exit"} => cur.lost # "never"

LinkInv == TypeOK /\ InStep /\ Opened /\ OneCaller /\ QueueKept

LEMMA HandlerNotSched == \A h \in Handlers : h # Sched /\ h \in Procs
BY LinkAssumption DEF Procs

LEMMA CommandsUsed ==
  /\ Header \in Commands
  /\ \A i \in DOMAIN Pids : Pids[i].cmd \in Commands
  /\ \A h \in Handlers : CommandOf(h) \in Commands
BY LinkAssumption DEF CommandOf

(* A holder is in the queue, and is the only one.                          *)
LEMMA HolderQueued ==
  ASSUME TypeOK, NEW p, Holds(p)
  PROVE  Queued(p) /\ queue # <<>>
<1>1. queue \in Seq(Procs) /\ queue # <<>> /\ Head(queue) = p
  BY DEF TypeOK, Holds
<1>2. 1 \in DOMAIN queue /\ Head(queue) = queue[1]
  BY <1>1, EmptySeq, LenProperties, HeadTailProperties
<1> QED BY <1>1, <1>2 DEF Queued

LEMMA LockKeeps ==
  ASSUME LinkInv, NEW p \in Procs, ~ Queued(p), Lock(p)
  PROVE  /\ queue' \in Seq(Procs) /\ queue' # <<>>
         /\ \A i, j \in DOMAIN queue' : queue'[i] = queue'[j] => i = j
         /\ \A q : Queued(q)' <=> Queued(q) \/ q = p
         /\ \A q : Holds(q) => Holds(q)'
<1>1. queue \in Seq(Procs) /\ Distinct(queue) /\ ~ In(queue, p)
  BY DEF LinkInv, TypeOK, QueueKept, Distinct, In, Queued
<1>2. /\ queue' \in Seq(Procs) /\ queue' # <<>> /\ Distinct(queue')
      /\ \A q : In(queue', q) <=> In(queue, q) \/ q = p
      /\ queue # <<>> => Head(queue') = Head(queue)
  BY <1>1, JoinQueue DEF Lock
<1> QED BY <1>2 DEF Distinct, In, Queued, Holds

LEMMA UnlockKeeps ==
  ASSUME LinkInv, NEW p, Holds(p), Unlock
  PROVE  /\ queue' \in Seq(Procs)
         /\ \A i, j \in DOMAIN queue' : queue'[i] = queue'[j] => i = j
         /\ \A q : Queued(q)' <=> Queued(q) /\ q # p
<1>1. queue \in Seq(Procs) /\ Distinct(queue) /\ queue # <<>> /\ Head(queue) = p
  BY DEF LinkInv, TypeOK, QueueKept, Distinct, Holds
<1>2. /\ queue' \in Seq(Procs) /\ Distinct(queue')
      /\ \A q : In(queue', q) <=> In(queue, q) /\ q # p
  BY <1>1, LeaveQueue DEF Unlock
<1> QED BY <1>2 DEF Distinct, In, Queued

-----------------------------------------------------------------------------
(* Every step is one of the transport's, and one of the scheduler's, or    *)
(* leaves it alone.                                                        *)
LEMMA StepTransport ==
  ASSUME LinkInv, [Next]_vars
  PROVE  [TransportNext]_tvars
<1> USE DEF TransportNext, InProgress, tvars
<1>1. CASE Main
  BY <1>1 DEF Main, BootReturns, BootFails, Connecting
<1>2. CASE LoopCalls
  <2>1. /\ phase \in {"poll", "init", "reinit", "reconnect"}
        /\ phase = "poll" => idx \in DOMAIN Pids
    BY <1>2 DEF LoopCalls, LinkInv, TypeOK, SchedulerTypeOK
  <2>2. cur.lost # "never"
    BY <2>1 DEF LinkInv, Opened
  <2>3. Reconnect \/ \E c \in Commands : Send(c)
    BY <1>2, <2>1, CommandsUsed DEF LoopCalls
  <2> QED BY <2>2, <2>3 DEF Use
<1>3. CASE LoopTimer \/ LoopLocks
  BY <1>3 DEF LoopTimer, LoopLocks
<1>4. CASE PollReturns \/ PollFails \/ HeaderReturns \/ ReconnectReturns
  BY <1>4 DEF PollReturns, PollFails, HeaderReturns, ReconnectReturns
<1>5. CASE Peer
  BY <1>5 DEF Peer
<1>6. ASSUME NEW h \in Handlers, Request(h) \/ Serve(h)
      PROVE  [TransportNext]_tvars
  <2>1. CASE DtcCalls(h)
    <3>1. queue # <<>>
      BY <2>1 DEF DtcCalls, Holds
    <3>2. cur.lost # "never"
      BY <3>1 DEF LinkInv, Opened
    <3>3. \E c \in Commands : Send(c)
      BY <2>1, CommandsUsed DEF DtcCalls
    <3> QED BY <3>2, <3>3 DEF Use
  <2>2. CASE Request(h) \/ Respond(h)
    BY <2>2 DEF Request, Respond
  <2>3. CASE DtcReturns(h) \/ DtcFails(h)
    BY <2>3 DEF DtcReturns, DtcFails
  <2> QED BY <1>6, <2>1, <2>2, <2>3 DEF Serve
<1>7. CASE Ended \/ UNCHANGED vars
  BY <1>7 DEF Ended, vars
<1> QED BY <1>1, <1>2, <1>3, <1>4, <1>5, <1>6, <1>7 DEF Next, Loop

LEMMA StepScheduler ==
  ASSUME [Next]_vars
  PROVE  [SchedulerNext]_svars
<1> USE DEF SchedulerNext, svars
<1>1. CASE Main
  BY <1>1 DEF Main, BootReturns, BootFails, Connecting
<1>2. CASE LoopCalls \/ LoopTimer \/ LoopLocks
  BY <1>2 DEF LoopCalls, LoopTimer, LoopLocks
<1>3. CASE PollReturns \/ PollFails \/ HeaderReturns \/ ReconnectReturns
  BY <1>3 DEF PollReturns, Takes, PollFails, HeaderReturns, ReconnectReturns
<1>4. CASE Peer
  BY <1>4 DEF Peer
<1>5. ASSUME NEW h \in Handlers, Request(h) \/ Serve(h)
      PROVE  UNCHANGED svars
  BY <1>5 DEF Request, Serve, DtcCalls, DtcReturns, DtcFails, Respond
<1>6. CASE Ended \/ UNCHANGED vars
  BY <1>6 DEF Ended, vars
<1> QED BY <1>1, <1>2, <1>3, <1>4, <1>5, <1>6 DEF Next, Loop

(* A transport that has a stream keeps having one.                         *)
LEMMA StreamStays ==
  ASSUME TransportInv, [TransportNext]_tvars, cur.lost # "never"
  PROVE  cur'.lost # "never"
<1>1. cur \in Stream /\ new \in Stream
  BY DEF TransportInv, TransportTypeOK
<1>2. CASE cur' = cur
  BY <1>2
<1>3. CASE \E c \in Commands : Send(c)
  BY <1>1, <1>3, WriteType DEF Send
<1>4. CASE SendReturns
  BY <1>1, <1>4, ReadType DEF SendReturns
<1>5. CASE SendFails
  BY <1>1, <1>5, GiveUpType DEF SendFails, Losses
<1>6. CASE ConnectReturns
  <2>1. new.lost # "never"
    BY <1>6 DEF ConnectReturns, TransportInv, TransportTypeOK
  <2> QED BY <1>1, <1>6, <2>1, ReadType DEF ConnectReturns
<1>7. CASE ConnectFails
  BY <1>1, <1>7, GiveUpType DEF ConnectFails, Losses
<1>8. CASE AnswerCur \/ LoseCur \/ HangUpCur
  BY <1>1, <1>8, FarStream DEF AnswerCur, LoseCur, HangUpCur
<1>9. CASE \/ Reconnect \/ Refused \/ Connected \/ Drained \/ InitAnswered
           \/ AnswerNew \/ LoseNew \/ HangUpNew \/ UNCHANGED tvars
  BY <1>2, <1>9 DEF Reconnect, Refused, Connected, Drained, InitAnswered,
                    AnswerNew, LoseNew, HangUpNew, tvars
<1> QED BY <1>3, <1>4, <1>5, <1>6, <1>7, <1>8, <1>9
        DEF TransportNext, Use, InProgress, FarEnd

LEMMA TransportInvHolds == LinkInv => TransportInv
BY DEF LinkInv, TypeOK, TransportInv

LEMMA TransportInvStays ==
  ASSUME LinkInv, [Next]_vars
  PROVE  TransportInv'
BY TransportInvHolds, StepTransport, TransportNextInv

-----------------------------------------------------------------------------
(* The queue, by action: who joins it, who leaves it, who does neither.    *)
Joins(p)  == p \in Procs /\ ~ Queued(p) /\ Lock(p)
Leaves(p) == Holds(p) /\ Unlock

LEMMA QueueSteps ==
  ASSUME LinkInv, [Next]_vars
  PROVE  \/ queue' = queue
         \/ Joins(Sched) /\ LoopLocks
         \/ \E h \in Handlers : Joins(h) /\ Request(h)
         \/ Leaves(Sched) /\ (PollReturns \/ PollFails \/ HeaderReturns \/ ReconnectReturns)
         \/ \E h \in Handlers : Leaves(h) /\ Respond(h)
<1>1. CASE Main \/ LoopCalls \/ LoopTimer \/ Peer \/ Ended \/ UNCHANGED vars
  BY <1>1 DEF Main, BootReturns, BootFails, Connecting, LoopCalls, LoopTimer,
              Peer, Ended, vars, lvars
<1>2. CASE LoopLocks
  BY <1>2 DEF LoopLocks, Joins, Procs
<1>3. CASE PollReturns \/ PollFails \/ HeaderReturns \/ ReconnectReturns
  BY <1>3 DEF PollReturns, PollFails, HeaderReturns, ReconnectReturns, Leaves
<1>4. ASSUME NEW h \in Handlers, Request(h)
      PROVE  Joins(h)
  BY <1>4, HandlerNotSched DEF Request, Joins, LinkInv, QueueKept
<1>5. ASSUME NEW h \in Handlers, Respond(h)
      PROVE  Leaves(h)
  BY <1>5 DEF Respond, Leaves
<1>6. ASSUME NEW h \in Handlers, DtcCalls(h) \/ DtcReturns(h) \/ DtcFails(h)
      PROVE  queue' = queue
  BY <1>6 DEF DtcCalls, DtcReturns, DtcFails
<1> QED BY <1>1, <1>2, <1>3, <1>4, <1>5, <1>6 DEF Next, Loop, Serve

LEMMA LinkTypes ==
  ASSUME LinkInv, [Next]_vars
  PROVE  TypeOK'
<1>1. TransportTypeOK'
  BY TransportInvStays DEF TransportInv
<1>2. SchedulerTypeOK'
  BY StepScheduler, LoopNextType DEF LinkInv, TypeOK
<1>3. queue' \in Seq(Procs)
  <2>1. queue \in Seq(Procs)
    BY DEF LinkInv, TypeOK
  <2> QED BY <2>1, QueueSteps, LockKeeps, UnlockKeeps DEF Joins, Leaves
<1>4. /\ http \in [Handlers -> Waits] /\ answer \in [Handlers -> Results]
      /\ reading \in Results
  BY DEF LinkInv, TypeOK
<1>5. /\ http' \in [Handlers -> Waits] /\ answer' \in [Handlers -> Results]
      /\ reading' \in Results
  <2>1. CASE Main \/ LoopCalls \/ LoopTimer \/ LoopLocks \/ Peer \/ Ended \/ UNCHANGED vars
    BY <1>4, <2>1 DEF Main, BootReturns, BootFails, Connecting, LoopCalls,
                      LoopTimer, LoopLocks, Peer, Ended, vars, lvars
  <2>2. CASE PollReturns \/ PollFails \/ HeaderReturns \/ ReconnectReturns
    BY <1>4, <2>2 DEF PollReturns, Takes, Whose, PollFails, HeaderReturns,
                      ReconnectReturns, Results
  <2>3. ASSUME NEW h \in Handlers, Request(h) \/ Serve(h)
        PROVE  /\ http' \in [Handlers -> Waits] /\ answer' \in [Handlers -> Results]
               /\ reading' = reading
    BY <1>4, <2>3 DEF Request, Serve, DtcCalls, DtcReturns, DtcFails, Respond,
                      Whose, Waits, Results
  <2> QED BY <1>4, <2>1, <2>2, <2>3 DEF Next, Loop
<1> QED BY <1>1, <1>2, <1>3, <1>5 DEF TypeOK

LEMMA OpenedStays ==
  ASSUME LinkInv, [Next]_vars
  PROVE  Opened'
<1>1. CASE phase \notin {"boot", "exit"}
  <2>1. phase' \notin {"boot", "exit"}
    BY <1>1, StepScheduler DEF SchedulerNext, svars, Booted, BootFailed, TimerFires,
       GotBytes, GotError, GotStopped, GotLastStopped, TransportError, Reconnected,
       ReconnectFailed, HeaderDone, NextPid, EndCycle
  <2>2. cur'.lost # "never"
    BY <1>1, TransportInvHolds, StepTransport, StreamStays DEF LinkInv, Opened
  <2> QED BY <2>1, <2>2 DEF Opened
<1>2. CASE phase \in {"boot", "exit"}
  <2>1. queue = <<>>
    BY <1>2 DEF LinkInv, Opened
  <2>2. queue' = <<>>
    <3>1. ~ LoopLocks /\ \A h \in Handlers : ~ Request(h)
      BY <1>2 DEF LoopLocks, Request
    <3>2. \A p : ~ Leaves(p)
      BY <2>1 DEF Leaves, Holds
    <3> QED BY <2>1, <3>1, <3>2, QueueSteps
  <2>3. CASE BootReturns
    <3>1. new \in Stream /\ new.lost # "never"
      BY <2>3 DEF BootReturns, ConnectReturns, LinkInv, TypeOK, TransportTypeOK
    <3>2. cur'.lost # "never"
      BY <2>3, <3>1, ReadType DEF BootReturns, ConnectReturns
    <3> QED BY <2>2, <3>2 DEF Opened
  <2>4. CASE ~ BootReturns
    <3>1. phase' \in {"boot", "exit"}
      <4>1. ~ Holds(Sched) /\ \A h \in Handlers : ~ Holds(h)
        BY <2>1 DEF Holds
      <4>2. CASE Main
        BY <1>2, <2>4, <4>2 DEF Main, BootFails, BootFailed, Connecting, svars
      <4>3. CASE LoopTimer \/ LoopLocks
        BY <1>2, <4>3 DEF LoopTimer, TimerFires, LoopLocks
      <4>4. CASE LoopCalls \/ PollReturns \/ PollFails \/ HeaderReturns \/ ReconnectReturns
        BY <4>1, <4>4 DEF LoopCalls, PollReturns, PollFails, HeaderReturns, ReconnectReturns
      <4>5. CASE Peer \/ Ended \/ UNCHANGED vars
        BY <1>2, <4>5 DEF Peer, Ended, vars, svars
      <4>6. ASSUME NEW h \in Handlers, Request(h) \/ Serve(h)
            PROVE  phase' = phase
        BY <4>6 DEF Request, Serve, DtcCalls, DtcReturns, DtcFails, Respond, svars
      <4> QED BY <1>2, <4>2, <4>3, <4>4, <4>5, <4>6 DEF Next, Loop
    <3> QED BY <2>2, <3>1 DEF Opened
  <2> QED BY <2>3, <2>4
<1> QED BY <1>1, <1>2

-----------------------------------------------------------------------------
(* What holding the mutex excludes.                                        *)
LEMMA OneHolder ==
  ASSUME NEW p, NEW q, Holds(p), Holds(q)
  PROVE  p = q
BY DEF Holds

LEMMA OneCallerStays ==
  ASSUME LinkInv, [Next]_vars
  PROVE  OneCaller'
<1>0. OneCaller /\ QueueKept /\ queue \in Seq(Procs)
  BY DEF LinkInv, TypeOK
<1>1. CASE BootReturns \/ BootFails \/ PollReturns \/ PollFails \/ HeaderReturns
           \/ ReconnectReturns
  <2>1. call'.op = "idle"
    BY <1>1, CallTypes DEF BootReturns, BootFails, PollReturns, PollFails,
       HeaderReturns, ReconnectReturns, SendReturns, SendFails, ConnectReturns,
       ConnectFails
  <2> QED BY <2>1 DEF OneCaller
<1>2. CASE Connecting
  <2>1. call.op \in {"dial", "reset", "init"} /\ call'.op \in {"dial", "reset", "init"}
    <3>1. call \in Call
      BY DEF LinkInv, TypeOK, TransportTypeOK
    <3> QED BY <3>1, <1>2 DEF Connecting, Refused, Connected, Drained, InitAnswered, Call
  <2>2. phase' = phase /\ queue' = queue
    BY <1>2 DEF Connecting, svars, lvars
  <2>3. phase # "boot" => Holds(Sched) /\ phase = "reconnect"
    BY <2>1, <1>0 DEF OneCaller, LoopCall, DtcCall
  <2> QED BY <2>1, <2>2, <2>3 DEF OneCaller, LoopCall, Holds
<1>3. CASE LoopTimer
  <2>1. /\ phase = "tick" /\ phase' # "boot"
        /\ call' = call /\ queue' = queue /\ http' = http
    BY <1>3 DEF LoopTimer, TimerFires, NextPid, EndCycle, tvars, lvars
  <2>2. call.op # "idle" => \E h \in Handlers : Holds(h) /\ DtcCall(h)
    BY <2>1, <1>0 DEF OneCaller, LoopCall
  <2> QED BY <2>1, <2>2 DEF OneCaller, DtcCall, Holds
<1>4. ASSUME NEW p, Joins(p), phase' = phase, idx' = idx, call' = call,
             \A h \in Handlers : http[h] = "sending" => http'[h] = "sending"
      PROVE  OneCaller'
  <2>1. \A q : Holds(q) => Holds(q)'
    BY <1>4, LockKeeps DEF Joins
  <2>2. LoopCall => LoopCall'
    BY <1>4 DEF LoopCall
  <2>3. \A h \in Handlers : DtcCall(h) => DtcCall(h)'
    BY <1>4 DEF DtcCall
  <2> QED BY <2>1, <2>2, <2>3, <1>0, <1>4 DEF OneCaller
<1>5. CASE LoopLocks
  <2>1. Joins(Sched)
    BY <1>5 DEF LoopLocks, Joins, Procs
  <2>2. phase' = phase /\ idx' = idx /\ call' = call /\ http' = http
    BY <1>5 DEF LoopLocks, svars, tvars
  <2> QED BY <2>1, <2>2, <1>4
<1>6. CASE LoopCalls
  <2>1. /\ Holds(Sched)' /\ phase' = phase /\ idx' = idx
    BY <1>6 DEF LoopCalls, svars, lvars, Holds
  <2>2. LoopCall'
    BY <1>6, <2>1, CallTypes DEF LoopCalls, LoopCall, Send, Reconnect
  <2> QED BY <2>1, <2>2 DEF OneCaller
<1>7. CASE Peer
  <2>1. call' = call /\ phase' = phase /\ idx' = idx /\ queue' = queue /\ http' = http
    BY <1>7 DEF Peer, FarEnd, AnswerCur, AnswerNew, LoseCur, LoseNew, HangUpCur,
       HangUpNew, svars, lvars
  <2> QED BY <2>1, <1>0 DEF OneCaller, LoopCall, DtcCall, Holds
<1>8. ASSUME NEW h \in Handlers, Request(h)
      PROVE  OneCaller'
  <2>1. Joins(h)
    BY <1>8, <1>0, HandlerNotSched DEF Request, Joins, QueueKept
  <2>2. phase' = phase /\ idx' = idx /\ call' = call
    BY <1>8 DEF Request, svars, tvars
  <2>3. \A g \in Handlers : http[g] = "sending" => http'[g] = "sending"
    BY <1>8 DEF Request, LinkInv, TypeOK
  <2> QED BY <2>1, <2>2, <2>3, <1>4
<1>9. ASSUME NEW h \in Handlers, DtcCalls(h)
      PROVE  OneCaller'
  <2>1. Holds(h)' /\ http'[h] = "sending"
    BY <1>9 DEF DtcCalls, Holds, LinkInv, TypeOK
  <2>2. call'.op = "send" /\ call'.cmd = CommandOf(h)
    BY <1>9 DEF DtcCalls, Send
  <2> QED BY <2>1, <2>2 DEF OneCaller, DtcCall
<1>10. ASSUME NEW h \in Handlers, DtcReturns(h) \/ DtcFails(h)
       PROVE  OneCaller'
  <2>1. call'.op = "idle"
    BY <1>10, CallTypes DEF DtcReturns, DtcFails, SendReturns, SendFails
  <2> QED BY <2>1 DEF OneCaller
<1>11. ASSUME NEW h \in Handlers, Respond(h)
       PROVE  OneCaller'
  <2>1. Holds(h) /\ http[h] = "replying" /\ call' = call /\ phase' = phase
    BY <1>11 DEF Respond, tvars, svars
  <2>2. phase # "boot"
    BY <2>1 DEF LinkInv, Opened, Holds
  <2>3. call.op = "idle"
    BY <2>1, <2>2, <1>0, OneHolder, HandlerNotSched DEF OneCaller, DtcCall
  <2> QED BY <2>1, <2>3 DEF OneCaller
<1>12. CASE Ended \/ UNCHANGED vars
  BY <1>0, <1>12 DEF Ended, vars, OneCaller, LoopCall, DtcCall, Holds
<1> QED BY <1>1, <1>2, <1>3, <1>5, <1>6, <1>7, <1>8, <1>9, <1>10, <1>11, <1>12
     DEF Next, Main, Loop, Serve

LEMMA QueueKeptStays ==
  ASSUME LinkInv, [Next]_vars
  PROVE  QueueKept'
<1> DEFINE Awaits == {"init", "poll", "reconnect", "reinit"}
<1>0. /\ QueueKept /\ queue \in Seq(Procs) /\ http \in [Handlers -> Waits]
      /\ \A h \in Handlers : h # Sched
  BY HandlerNotSched DEF LinkInv, TypeOK
<1>1. ASSUME queue' = queue,
             \A h \in Handlers :
               /\ http'[h] # "idle" <=> http[h] # "idle"
               /\ http'[h] \in {"sending", "replying"} =>
                    Holds(h) \/ http[h] \in {"sending", "replying"},
             Queued(Sched) => phase' \in Awaits
      PROVE  QueueKept'
  BY <1>0, <1>1 DEF QueueKept, Queued, Holds
<1>2. ASSUME Joins(Sched), http' = http, phase' = phase, phase \in Awaits
      PROVE  QueueKept'
  <2>1. /\ \A i, j \in DOMAIN queue' : queue'[i] = queue'[j] => i = j
        /\ \A q : Queued(q)' <=> Queued(q) \/ q = Sched
        /\ \A q : Holds(q) => Holds(q)'
    BY <1>2, LockKeeps DEF Joins
  <2> QED BY <1>0, <1>2, <2>1 DEF QueueKept
<1>3. ASSUME NEW h \in Handlers, Request(h)
      PROVE  QueueKept'
  <2>1. Joins(h) /\ phase' = phase /\ http' = [http EXCEPT ![h] = "waiting"]
    BY <1>0, <1>3, HandlerNotSched DEF Request, Joins, QueueKept, svars
  <2>2. /\ \A i, j \in DOMAIN queue' : queue'[i] = queue'[j] => i = j
        /\ \A q : Queued(q)' <=> Queued(q) \/ q = h
        /\ \A q : Holds(q) => Holds(q)'
    BY <2>1, LockKeeps DEF Joins
  <2>3. \A g \in Handlers : http'[g] = IF g = h THEN "waiting" ELSE http[g]
    BY <1>0, <2>1
  <2>4. /\ \A g \in Handlers : Queued(g) <=> http[g] # "idle"
        /\ Queued(Sched) => phase \in Awaits
        /\ \A g \in Handlers : http[g] \in {"sending", "replying"} => Holds(g)
    BY <1>0 DEF QueueKept
  <2>5. \A g \in Handlers : Queued(g)' <=> http'[g] # "idle"
    BY <2>2, <2>3, <2>4
  <2>6. Queued(Sched)' => phase' \in Awaits
    BY <1>0, <2>1, <2>2, <2>4
  <2>7. \A g \in Handlers : http'[g] \in {"sending", "replying"} => Holds(g)'
    BY <2>2, <2>3, <2>4
  <2> QED BY <2>2, <2>5, <2>6, <2>7 DEF QueueKept
<1>4. ASSUME Leaves(Sched), http' = http
      PROVE  QueueKept'
  <2>1. /\ \A i, j \in DOMAIN queue' : queue'[i] = queue'[j] => i = j
        /\ \A q : Queued(q)' <=> Queued(q) /\ q # Sched
    BY <1>4, UnlockKeeps DEF Leaves
  <2>2. \A h \in Handlers : http[h] \notin {"sending", "replying"}
    BY <1>0, <1>4, OneHolder DEF QueueKept, Leaves
  <2> QED BY <1>0, <1>4, <2>1, <2>2 DEF QueueKept
<1>5. ASSUME NEW h \in Handlers, Respond(h)
      PROVE  QueueKept'
  <2>1. Leaves(h) /\ phase' = phase /\ http' = [http EXCEPT ![h] = "idle"]
    BY <1>5 DEF Respond, Leaves, svars
  <2>2. /\ \A i, j \in DOMAIN queue' : queue'[i] = queue'[j] => i = j
        /\ \A q : Queued(q)' <=> Queued(q) /\ q # h
    BY <2>1, UnlockKeeps DEF Leaves
  <2>3. \A g \in Handlers : http'[g] = IF g = h THEN "idle" ELSE http[g]
    BY <1>0, <2>1
  <2>4. /\ \A g \in Handlers : Queued(g) <=> http[g] # "idle"
        /\ Queued(Sched) => phase \in Awaits
        /\ \A g \in Handlers : http[g] \in {"sending", "replying"} => Holds(g)
    BY <1>0 DEF QueueKept
  <2>5. \A g \in Handlers : http'[g] \notin {"sending", "replying"}
    BY <2>1, <2>3, <2>4, OneHolder DEF Leaves
  <2>6. \A g \in Handlers : Queued(g)' <=> http'[g] # "idle"
    BY <2>2, <2>3, <2>4
  <2>7. Queued(Sched)' => phase' \in Awaits
    BY <2>1, <2>2, <2>4
  <2> QED BY <2>2, <2>5, <2>6, <2>7 DEF QueueKept
<1>6. CASE BootReturns \/ BootFails
  <2>1. queue' = queue /\ http' = http /\ queue = <<>>
    BY <1>6 DEF BootReturns, BootFails, Booted, lvars, LinkInv, Opened
  <2>2. ~ Queued(Sched)
    BY <2>1 DEF Queued
  <2> QED BY <2>1, <2>2, <1>1
<1>7. CASE Connecting \/ LoopCalls \/ Peer \/ Ended \/ UNCHANGED vars
  <2>1. queue' = queue /\ http' = http /\ phase' = phase
    BY <1>7 DEF Connecting, LoopCalls, Peer, Ended, vars, svars, lvars
  <2>2. Queued(Sched) => phase' \in Awaits
    BY <2>1, <1>0 DEF QueueKept
  <2> QED BY <2>1, <2>2, <1>1
<1>8. CASE LoopTimer
  <2>1. queue' = queue /\ http' = http /\ phase = "tick"
    BY <1>8 DEF LoopTimer, TimerFires, lvars
  <2>2. ~ Queued(Sched)
    BY <2>1, <1>0 DEF QueueKept
  <2> QED BY <2>1, <2>2, <1>1
<1>9. CASE LoopLocks
  <2>1. Joins(Sched) /\ http' = http /\ phase' = phase /\ phase \in Awaits
    BY <1>9 DEF LoopLocks, Joins, Procs, svars
  <2> QED BY <2>1, <1>2
<1>10. CASE PollReturns \/ PollFails \/ HeaderReturns \/ ReconnectReturns
  <2>1. Leaves(Sched) /\ http' = http
    BY <1>10 DEF PollReturns, PollFails, HeaderReturns, ReconnectReturns, Leaves
  <2> QED BY <2>1, <1>4
<1>11. ASSUME NEW h \in Handlers, DtcCalls(h) \/ DtcReturns(h) \/ DtcFails(h)
       PROVE  QueueKept'
  <2>1. /\ queue' = queue /\ phase' = phase /\ Holds(h)
        /\ http[h] \in {"waiting", "sending"}
        /\ \/ http' = [http EXCEPT ![h] = "sending"]
           \/ http' = [http EXCEPT ![h] = "replying"]
    BY <1>11 DEF DtcCalls, DtcReturns, DtcFails, svars
  <2>2. \A g \in Handlers : IF g = h THEN http'[g] \in {"sending", "replying"}
                                     ELSE http'[g] = http[g]
    BY <1>0, <2>1
  <2>3. Queued(Sched) => phase' \in Awaits
    BY <2>1, <1>0 DEF QueueKept
  <2>4. \A g \in Handlers :
               /\ http'[g] # "idle" <=> http[g] # "idle"
               /\ http'[g] \in {"sending", "replying"} =>
                    Holds(g) \/ http[g] \in {"sending", "replying"}
    BY <2>1, <2>2
  <2> QED BY <2>1, <2>3, <2>4, <1>1
<1> QED BY <1>3, <1>5, <1>6, <1>7, <1>8, <1>9, <1>10, <1>11
     DEF Next, Main, Loop, Serve

-----------------------------------------------------------------------------
LEMMA LinkInitInv == Init => LinkInv
<1> SUFFICES ASSUME Init PROVE LinkInv
  OBVIOUS
<1>1. TransportInv /\ SchedulerTypeOK
  BY TransportInitInv, LoopInitType DEF Init
<1>2. /\ queue = <<>> /\ <<>> \in Seq(Procs) /\ DOMAIN <<>> = {}
      /\ phase = "boot"
  BY EmptySeq DEF Init, SchedulerInit
<1>3. TypeOK
  BY <1>1, <1>2 DEF Init, TypeOK, TransportInv, Waits, Results
<1>4. Opened /\ OneCaller
  BY <1>2 DEF Opened, OneCaller
<1>5. QueueKept
  BY <1>2 DEF Init, QueueKept, Queued
<1> QED BY <1>1, <1>3, <1>4, <1>5 DEF LinkInv, TransportInv

LEMMA LinkNextInv ==
  ASSUME LinkInv, [Next]_vars
  PROVE  LinkInv'
BY LinkTypes, TransportInvStays, OpenedStays, OneCallerStays, QueueKeptStays
   DEF LinkInv, TransportInv

LEMMA LinkAlways == Spec => []LinkInv
<1>1. LinkInv /\ [Next]_vars => LinkInv'
  BY LinkNextInv
<1> QED BY <1>1, LinkInitInv, PTL DEF Spec

(* The mutex does its work: one caller of the transport at a time, and it  *)
(* holds the mutex; the queue is that of the tasks that await it; and a    *)
(* stream that has not lost step holds only the exchange in progress.      *)
THEOREM LinkSafe == Spec => [](TypeOK /\ OneCaller /\ QueueKept /\ InStep)
<1>1. LinkInv => TypeOK /\ OneCaller /\ QueueKept /\ InStep
  BY DEF LinkInv
<1> QED BY <1>1, LinkAlways, PTL

(* The program with its mutex, its loop and its requests uses the          *)
(* transport as TransportSpec says: ObdLink implements Transport.          *)
THEOREM LinkUsesTransport == Spec => UsesTransport
<1>1. Init => TransportInit
  BY DEF Init
<1>2. LinkInv /\ [Next]_vars => [TransportNext]_tvars
  BY StepTransport
<1> QED BY <1>1, <1>2, LinkAlways, PTL DEF Spec, UsesTransport

(* The answer about to be returned on a stream in step is live.            *)
LEMMA InStepOwn ==
  ASSUME LinkInv, SendReturns, cur.lost = "no"
  PROVE  Head(cur.in).live
<1>1. OnlyLive(cur, call.cmd) /\ cur.in # <<>>
  BY DEF LinkInv, InStep, SendReturns
<1>2. cur.in \in Seq(Reply)
  BY DEF LinkInv, TypeOK, TransportTypeOK, Stream
<1>3. 1 \in DOMAIN cur.in /\ Head(cur.in) = cur.in[1]
  BY <1>1, <1>2, EmptySeq, LenProperties, HeadTailProperties
<1> QED BY <1>1, <1>3 DEF OnlyLive

(* Nothing is published or answered with the answer to another command     *)
(* unless the stream has lost step before.                                 *)
THEOREM ForeignOnlyOutOfStep == Spec => ForeignOutOfStep
<1>1. ASSUME LinkInv, cur.lost = "no",
             PollReturns \/ \E h \in Handlers : DtcReturns(h)
      PROVE  Head(cur.in).live
  <2>1. SendReturns
    BY <1>1 DEF PollReturns, DtcReturns
  <2> QED BY <1>1, <2>1, InStepOwn
<1>2. ASSUME LinkInv, PollReturns, reading' = "foreign"
      PROVE  cur.lost # "no"
  <2>1. ~ Head(cur.in).live
    BY <1>2 DEF PollReturns, Takes, Whose
  <2> QED BY <2>1, <1>1, <1>2
<1>3. ASSUME LinkInv, NEW h \in Handlers, DtcReturns(h), answer'[h] = "foreign"
      PROVE  cur.lost # "no"
  <2>1. ~ Head(cur.in).live
    BY <1>3 DEF DtcReturns, Whose, LinkInv, TypeOK
  <2> QED BY <2>1, <1>1, <1>3
<1> DEFINE Fits == (\/ PollReturns /\ reading' = "foreign"
                    \/ \E h \in Handlers : DtcReturns(h) /\ answer'[h] = "foreign")
                   => cur.lost # "no"
<1>4. LinkInv => [Fits]_vars
  BY <1>2, <1>3
<1> QED BY <1>4, LinkAlways, PTL DEF ForeignOutOfStep

(* A reconnection that succeeds gives back a stream in step with nothing   *)
(* outstanding, unless the banner of the reset came late.                  *)
THEOREM ReconnectionReconciles == Spec => Reconciled
<1>1. ASSUME LinkInv, ReconnectReturns, phase' = "reinit", new.lost = "no"
      PROVE  cur'.lost = "no" /\ Blank(cur')
  <2>1. ConnectReturns
    BY <1>1 DEF ReconnectReturns, ReconnectFailed, EndCycle
  <2>2. new \in Stream /\ OnlyLive(new, call.cmd)
    BY <1>1 DEF LinkInv, InStep, TypeOK, TransportTypeOK
  <2> QED BY <1>1, <2>1, <2>2, ReadType, ReadLive DEF ConnectReturns
<1> DEFINE Fits == (ReconnectReturns /\ phase' = "reinit" /\ new.lost = "no")
                   => cur'.lost = "no" /\ Blank(cur')
<1>2. LinkInv => [Fits]_vars
  BY <1>1
<1> QED BY <1>2, LinkAlways, PTL DEF Reconciled
=============================================================================
