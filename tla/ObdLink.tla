------------------------------- MODULE ObdLink -------------------------------
(***************************************************************************)
(* The transport shared: main puts the TcpTransport behind a tokio Mutex,  *)
(* which the polling loop and every HTTP request on /dtc and /dtc/clear    *)
(* lock for the time of an exchange (src/scheduler/mod.rs, src/dtc/mod.rs, *)
(* handle_dtc_read and handle_dtc_clear of src/server/mod.rs).             *)
(*                                                                         *)
(* Composes the stream of Transport, the loop of Scheduler and the reading *)
(* of the answers of ObdParser.  The mutex is fair: a queue of those that  *)
(* asked for it, whose head holds it.                                      *)
(***************************************************************************)
EXTENDS Transport, Scheduler, ObdParser

CONSTANTS
  Readers,   \* requests GET /dtc
  Clearers,  \* requests POST /dtc/clear
  Sched,     \* the polling loop
  Header,    \* AT SH 7E0
  ReadCmd,   \* 03
  ClearCmd,  \* 04
  TextOf     \* the text of each kind of answer

Handlers == Readers \cup Clearers
Procs    == Handlers \cup {Sched}

ASSUME LinkAssumption ==
  /\ Sched \notin Handlers
  /\ Readers \cap Clearers = {}
  /\ {Header, ReadCmd, ClearCmd} \subseteq Commands
  /\ \A i \in DOMAIN Pids : Pids[i].cmd \in Commands
  /\ TextOf \in [Kinds -> Text]

VARIABLES
  queue,    \* the mutex: who holds it, then who waits for it
  http,     \* where each request is
  answer,   \* what each request is answered with
  reading   \* what came of the last question of the loop

lvars == <<queue, http, answer, reading>>
vars  == <<cur, new, call, phase, idx, tick, stopped,
           queue, http, answer, reading>>

Waits   == {"idle", "waiting", "sending", "replying"}

(* The outcome of an exchange, for its client: none yet, the answer to its *)
(* command, the answer to an earlier one, or an error.                     *)
Results == {"none", "own", "foreign", "failed"}

Holds(p) == queue # <<>> /\ Head(queue) = p

(* Wrong: a lock that whoever asks last gets next.                         *)
LockUnfair(p) ==
  queue' = IF queue = <<>> THEN <<p>> ELSE <<Head(queue), p>> \o Tail(queue)

Lock(p) == queue' = Append(queue, p)
Unlock  == queue' = Tail(queue)

Queued(p) == \E i \in DOMAIN queue : queue[i] = p

CommandOf(h) == IF h \in Readers THEN ReadCmd ELSE ClearCmd

Whose(reply) == IF reply.live THEN "own" ELSE "foreign"

-----------------------------------------------------------------------------
(* main: the server and the loop start once the transport is connected.    *)
BootReturns == ConnectReturns /\ Booted /\ UNCHANGED lvars

(* Wrong: the loop starts without a connection.                            *)
BootFailsOn == phase = "boot" /\ ConnectFails /\ Booted /\ UNCHANGED lvars

BootFails == phase = "boot" /\ ConnectFails /\ BootFailed /\ UNCHANGED lvars

(* connect between its first attempt and its last exchange, for main or    *)
(* for the loop's reconnect.                                               *)
Connecting == /\ Refused \/ Connected \/ Drained \/ InitAnswered
              /\ UNCHANGED svars /\ UNCHANGED lvars

-----------------------------------------------------------------------------
(* The polling loop.  It holds the mutex for one send or one reconnect and *)
(* not while it sleeps: half a second after an error and one before it     *)
(* reconnects.                                                             *)
LoopTimer == TimerFires /\ UNCHANGED tvars /\ UNCHANGED lvars

LoopLocks ==
  /\ phase \in {"init", "poll", "reconnect", "reinit"}
  /\ ~ Queued(Sched)
  /\ Lock(Sched)
  /\ UNCHANGED tvars /\ UNCHANGED svars
  /\ UNCHANGED <<http, answer, reading>>

LoopCalls ==
  /\ Holds(Sched)
  /\ \/ phase = "poll" /\ Send(Pids[idx].cmd)
     \/ phase \in {"init", "reinit"} /\ Send(Header)
     \/ phase = "reconnect" /\ Reconnect
  /\ UNCHANGED svars /\ UNCHANGED lvars

(* What the program makes of each kind of answer.                          *)
Parsed == [k \in Kinds |-> ParseResponse(TextOf[k])]
Acks   == {k \in Kinds : IsClearAck(TextOf[k])}

(* What the loop does with the raw answer, and what it publishes.          *)
Takes(reply) ==
  LET parsed == Parsed[reply.kind]
  IN  /\ \/ parsed.tag = "Ok" /\ GotBytes
         \/ parsed.tag = "Stopped" /\ (GotStopped \/ GotLastStopped)
         \/ parsed.tag \notin {"Ok", "Stopped"} /\ GotError
      /\ reading' = IF parsed.tag = "Ok" /\ CheckLen(parsed.bytes, Pids[idx].need)
                      THEN Whose(reply) ELSE "failed"

(* Wrong: the guard of the mutex outlives the exchange.                    *)
PollReturnsLocked ==
  /\ Holds(Sched) /\ phase = "poll" /\ SendReturns
  /\ Takes(Head(cur.in))
  /\ UNCHANGED <<queue, http, answer>>

PollReturns ==
  /\ Holds(Sched) /\ phase = "poll" /\ SendReturns
  /\ Takes(Head(cur.in))
  /\ Unlock
  /\ UNCHANGED <<http, answer>>

PollFails ==
  /\ Holds(Sched) /\ SendFails /\ TransportError
  /\ reading' = "failed"
  /\ Unlock
  /\ UNCHANGED <<http, answer>>

(* init_elm327 does not mind whether AT SH got an answer.                  *)
HeaderReturns ==
  /\ Holds(Sched) /\ (SendReturns \/ SendFails) /\ HeaderDone
  /\ Unlock
  /\ UNCHANGED <<http, answer, reading>>

ReconnectReturns ==
  /\ Holds(Sched)
  /\ \/ ConnectReturns /\ Reconnected
     \/ ConnectFails /\ ReconnectFailed
  /\ Unlock
  /\ UNCHANGED <<http, answer, reading>>

-----------------------------------------------------------------------------
(* A request on /dtc or /dtc/clear.  The guard of the mutex lives until    *)
(* the response has been written.                                          *)
Request(h) ==
  /\ phase \notin {"boot", "exit"}
  /\ http[h] = "idle"
  /\ http' = [http EXCEPT ![h] = "waiting"]
  /\ Lock(h)
  /\ UNCHANGED tvars /\ UNCHANGED svars /\ UNCHANGED <<answer, reading>>

(* Wrong: a handler that does not wait for the mutex.                      *)
DtcCallsUnlocked(h) ==
  /\ http[h] = "waiting"
  /\ Send(CommandOf(h))
  /\ http' = [http EXCEPT ![h] = "sending"]
  /\ UNCHANGED svars /\ UNCHANGED <<queue, answer, reading>>

DtcCalls(h) ==
  /\ Holds(h) /\ http[h] = "waiting"
  /\ Send(CommandOf(h))
  /\ http' = [http EXCEPT ![h] = "sending"]
  /\ UNCHANGED svars /\ UNCHANGED <<queue, answer, reading>>

(* read_dtcs takes any bytes for codes, clear_dtcs any text with 44 or OK  *)
(* for an acknowledgement.                                                 *)
Accepts(h, kind) == IF h \in Readers THEN Parsed[kind].tag = "Ok"
                                     ELSE kind \in Acks

DtcReturns(h) ==
  /\ Holds(h) /\ http[h] = "sending" /\ SendReturns
  /\ http' = [http EXCEPT ![h] = "replying"]
  /\ answer' = [answer EXCEPT ![h] =
       IF Accepts(h, Head(cur.in).kind) THEN Whose(Head(cur.in))
                                        ELSE "failed"]
  /\ UNCHANGED svars /\ UNCHANGED <<queue, reading>>

(* 502, and the transport stays as it is.                                  *)
DtcFails(h) ==
  /\ Holds(h) /\ http[h] = "sending" /\ SendFails
  /\ http' = [http EXCEPT ![h] = "replying"]
  /\ answer' = [answer EXCEPT ![h] = "failed"]
  /\ UNCHANGED svars /\ UNCHANGED <<queue, reading>>

(* Wrong: the handler ends without unlocking.                              *)
RespondLocked(h) ==
  /\ Holds(h) /\ http[h] = "replying"
  /\ http' = [http EXCEPT ![h] = "idle"]
  /\ answer' = [answer EXCEPT ![h] = "none"]
  /\ UNCHANGED tvars /\ UNCHANGED svars /\ UNCHANGED <<queue, reading>>

Respond(h) ==
  /\ Holds(h) /\ http[h] = "replying"
  /\ http' = [http EXCEPT ![h] = "idle"]
  /\ answer' = [answer EXCEPT ![h] = "none"]
  /\ Unlock
  /\ UNCHANGED tvars /\ UNCHANGED svars /\ UNCHANGED reading

-----------------------------------------------------------------------------
Init ==
  /\ TransportInit
  /\ SchedulerInit
  /\ queue = <<>>
  /\ http = [h \in Handlers |-> "idle"]
  /\ answer = [h \in Handlers |-> "none"]
  /\ reading = "none"

Main == BootReturns \/ BootFails \/ Connecting

Loop == LoopTimer \/ LoopLocks \/ LoopCalls \/ PollReturns \/ PollFails
        \/ HeaderReturns \/ ReconnectReturns

Serve(h) == DtcCalls(h) \/ DtcReturns(h) \/ DtcFails(h) \/ Respond(h)

Peer == FarEnd /\ UNCHANGED svars /\ UNCHANGED lvars

Ended == phase = "exit" /\ UNCHANGED vars

Next == \/ Main \/ Loop \/ Peer \/ Ended
        \/ \E h \in Handlers : Request(h) \/ Serve(h)

(* Every await of the program ends: those on the stream by a timeout or    *)
(* the number of attempts, those on the mutex in turn, and the timer.      *)
Spec == /\ Init /\ [][Next]_vars
        /\ WF_vars(Main) /\ WF_vars(Loop)
        /\ \A h \in Handlers : WF_vars(Serve(h))

-----------------------------------------------------------------------------
TypeOK ==
  /\ TransportTypeOK
  /\ SchedulerTypeOK
  /\ queue \in Seq(Procs)
  /\ http \in [Handlers -> Waits]
  /\ answer \in [Handlers -> Results]
  /\ reading \in Results

(* The command or connection a holder of the mutex is in the middle of.    *)
LoopCall ==
  \/ call.op = "send" /\ phase = "poll" /\ call.cmd = Pids[idx].cmd
  \/ call.op = "send" /\ phase \in {"init", "reinit"} /\ call.cmd = Header
  \/ call.op \in {"dial", "reset", "init"} /\ phase = "reconnect"

DtcCall(h) ==
  http[h] = "sending" /\ call.op = "send" /\ call.cmd = CommandOf(h)

(* The transport is only ever used by the holder of the mutex, for the     *)
(* call the holder is waiting for: nothing is written to the stream        *)
(* between a command and the end of its exchange, or during a whole        *)
(* reconnection, although both give way to other tasks.                    *)
OneCaller ==
  (call.op # "idle" /\ phase # "boot") =>
     \/ Holds(Sched) /\ LoopCall
     \/ \E h \in Handlers : Holds(h) /\ DtcCall(h)

(* Who is in the queue of the mutex, once each: the requests that are not  *)
(* idle, and the loop while it awaits the lock or what it does with it.    *)
(* Nobody leaves without unlocking, nobody locks twice.                    *)
QueueKept ==
  /\ \A i, j \in DOMAIN queue : queue[i] = queue[j] => i = j
  /\ \A h \in Handlers : Queued(h) <=> http[h] # "idle"
  /\ Queued(Sched) => phase \in {"init", "poll", "reconnect", "reinit"}
  /\ \A h \in Handlers : http[h] \in {"sending", "replying"} => Holds(h)

(* The program uses its transport in no other way than TransportSpec: it   *)
(* opens it once before anything else, and each call waits for the one     *)
(* before it, whoever made it.                                             *)
UsesTransport == TransportInit /\ [][TransportNext]_tvars

(* What is published or sent to a browser as the answer to a command is    *)
(* the answer to an earlier one only on a stream that has lost step: after *)
(* a failed exchange or a reset whose banner came late.                    *)
ForeignOutOfStep ==
  [][(\/ PollReturns /\ reading' = "foreign"
      \/ \E h \in Handlers : DtcReturns(h) /\ answer'[h] = "foreign")
     => cur.lost # "no"]_vars

(* A reconnection that succeeds, and whose reset answered in time, gives   *)
(* back a stream in step whatever was outstanding on the old one.          *)
Reconciled ==
  [][(ReconnectReturns /\ phase' = "reinit" /\ new.lost = "no")
     => cur'.lost = "no" /\ Blank(cur')]_vars

(* Every request is answered, behind however long a reconnection.          *)
RequestsAnswered == \A h \in Handlers : http[h] # "idle" ~> http[h] = "idle"

(* The loop comes back to its timer again and again, whatever the requests *)
(* and the far end do, unless main never got a connection.                 *)
LoopGoesOn == []<>(phase \in {"tick", "exit"})
=============================================================================
