------------------------------ MODULE Transport ------------------------------
(***************************************************************************)
(* TcpTransport (src/transport/mod.rs): the one TCP stream to the ELM327,  *)
(* through the Bluetooth proxy.  An exchange writes a command and reads    *)
(* until a line with the prompt or for 5 seconds; connect dials up to      *)
(* MaxConnect times and runs the initialisation sequence on the new        *)
(* stream; reconnect replaces the stream when connect succeeds.            *)
(*                                                                         *)
(* A stream is what has been written to it and not answered (out), and     *)
(* what has been answered and not read (in).  Nothing in the protocol      *)
(* ties an answer to its command: an entry is live while it belongs to the *)
(* exchange in progress and stale afterwards, which only the specification *)
(* sees.  The far end (proxy, radio, ELM327, ECU) answers in order with    *)
(* any of the answers the command admits, or late, or never, and may hang  *)
(* up; it is external to the program.                                      *)
(***************************************************************************)
EXTENDS Naturals, Sequences

CONSTANTS
  Commands,    \* what the program writes, ATZ and the other AT commands included
  Kinds,       \* the answers told apart
  Answers,     \* the kinds of answer each command admits
  Reset,       \* ATZ, the first command of INIT_SEQUENCE
  InitTail,    \* INIT_SEQUENCE[1..]
  MaxConnect,  \* the attempts of connect: 10
  Backlog      \* bound: unanswered commands kept per stream

ASSUME TransportAssumption ==
  /\ Reset \in Commands
  /\ InitTail \in Seq(Commands) /\ InitTail # <<>>
  /\ Answers \in [Commands -> SUBSET Kinds]
  /\ MaxConnect \in Nat \ {0}
  /\ Backlog \in Nat \ {0}

VARIABLES
  cur,   \* the stream of the TcpTransport
  new,   \* the stream connect is initialising
  call   \* the method being awaited, and where it is

tvars == <<cur, new, call>>

Query == [cmd : Commands, live : BOOLEAN]
Reply == [cmd : Commands, live : BOOLEAN, kind : Kinds]

(* Why the answers on a stream may be out of step with its commands:       *)
(*   "no"      every exchange so far ended with its own answer             *)
(*   "banner"  the answer to ATZ was not there when drain gave up          *)
(*   "send"    an exchange failed                                          *)
(*   "retried" an exchange failed, and so did a reconnection since         *)
(*   "never"   there has been no stream                                    *)
Losses == {"no", "banner", "send", "retried", "never"}

Stream == [open : BOOLEAN, out : Seq(Query), in : Seq(Reply), lost : Losses]

NoStream == [open |-> FALSE, out |-> <<>>, in |-> <<>>, lost |-> "never"]
Fresh    == [open |-> TRUE,  out |-> <<>>, in |-> <<>>, lost |-> "no"]

Call == [op : {"idle", "send", "dial", "reset", "init"},
         cmd : Commands, n : Nat]

Idle == [op |-> "idle", cmd |-> Reset, n |-> 0]
Dial == [op |-> "dial", cmd |-> Reset, n |-> 1]

-----------------------------------------------------------------------------
Stale(entries) == [i \in DOMAIN entries |-> [entries[i] EXCEPT !.live = FALSE]]

Room(out) == IF Len(out) >= Backlog THEN Tail(out) ELSE out

(* send_raw: what was outstanding no longer belongs to the exchange in     *)
(* progress.  Nothing reaches the far end of a stream it has closed.       *)
Write(s, c) ==
  [s EXCEPT !.in  = Stale(@),
            !.out = IF s.open
                      THEN Append(Room(Stale(@)), [cmd |-> c, live |-> TRUE])
                      ELSE <<>>]

(* read_response returns the first answer that has arrived; the BufReader  *)
(* it drops holds everything else that had.                                *)
Read(s) == [s EXCEPT !.in = <<>>]

(* The exchange ends without an answer: the write or the read failed, or   *)
(* 5 seconds went by, with nothing to read.                                *)
Fails(s) == s.in = <<>> \/ ~ s.open

GiveUp(s, why) == [s EXCEPT !.lost = why]

Blank(s) == s.in = <<>> /\ s.out = <<>>

-----------------------------------------------------------------------------
(* send(cmd), up to its await.                                             *)
Send(c) ==
  /\ call.op = "idle"
  /\ cur' = Write(cur, c)
  /\ call' = [op |-> "send", cmd |-> c, n |-> 0]
  /\ UNCHANGED new

SendReturns ==
  /\ call.op = "send"
  /\ cur.in # <<>>
  /\ cur' = Read(cur)
  /\ call' = Idle
  /\ UNCHANGED new

SendFails ==
  /\ call.op = "send"
  /\ Fails(cur)
  /\ cur' = GiveUp(cur, "send")
  /\ call' = Idle
  /\ UNCHANGED new

(* reconnect: connect to the same address.                                 *)
Reconnect ==
  /\ call.op = "idle"
  /\ call' = Dial
  /\ UNCHANGED <<cur, new>>

Refused ==
  /\ call.op = "dial"
  /\ call.n < MaxConnect
  /\ call' = [call EXCEPT !.n = @ + 1]
  /\ UNCHANGED <<cur, new>>

(* The stream is there: init writes ATZ on it.                             *)
Connected ==
  /\ call.op = "dial"
  /\ new' = Write(Fresh, Reset)
  /\ call' = [op |-> "reset", cmd |-> Reset, n |-> 0]
  /\ UNCHANGED cur

(* Wrong: the banner of the reset is not drained.                          *)
DrainedNothing ==
  /\ call.op = "reset"
  /\ LET late == IF new.out = <<>> THEN new ELSE GiveUp(new, "banner")
     IN  new' = Write(late, InitTail[1])
  /\ call' = [op |-> "init", cmd |-> InitTail[1], n |-> 1]
  /\ UNCHANGED cur

(* 1.5 seconds later drain discards what arrives within 200 ms, and the    *)
(* first of the other commands is written.                                 *)
Drained ==
  /\ call.op = "reset"
  /\ LET late == IF new.out = <<>> THEN new ELSE GiveUp(new, "banner")
     IN  new' = Write(Read(late), InitTail[1])
  /\ call' = [op |-> "init", cmd |-> InitTail[1], n |-> 1]
  /\ UNCHANGED cur

(* init takes whatever answer a command gets.                              *)
InitAnswered ==
  /\ call.op = "init"
  /\ new.in # <<>>
  /\ call.n < Len(InitTail)
  /\ new' = Write(Read(new), InitTail[call.n + 1])
  /\ call' = [op |-> "init", cmd |-> InitTail[call.n + 1], n |-> call.n + 1]
  /\ UNCHANGED cur

(* Wrong: the answer to the last command is not awaited.                   *)
ConnectReturnsEarly ==
  /\ call.op = "init"
  /\ call.n = Len(InitTail)
  /\ cur' = Read(new)
  /\ new' = NoStream
  /\ call' = Idle

(* The last one: connect returns, and the new stream replaces the old one. *)
ConnectReturns ==
  /\ call.op = "init"
  /\ new.in # <<>>
  /\ call.n = Len(InitTail)
  /\ cur' = Read(new)
  /\ new' = NoStream
  /\ call' = Idle

(* Every attempt was refused, or the initialisation failed, which is not   *)
(* retried: the stream stays the old one.                                  *)
ConnectFails ==
  /\ \/ call.op = "dial" /\ call.n = MaxConnect
     \/ call.op = "reset" /\ ~ new.open
     \/ call.op = "init" /\ Fails(new)
  /\ cur' = IF cur.lost = "send" THEN GiveUp(cur, "retried") ELSE cur
  /\ new' = NoStream
  /\ call' = Idle

-----------------------------------------------------------------------------
(* The far end answers the oldest command it has not answered.             *)
Answered(s, k) ==
  LET q == Head(s.out)
  IN  [s EXCEPT !.out = Tail(@),
                !.in  = Append(@, [cmd |-> q.cmd, live |-> q.live, kind |-> k])]

AnswerCur ==
  /\ cur.out # <<>>
  /\ \E k \in Answers[Head(cur.out).cmd] : cur' = Answered(cur, k)
  /\ UNCHANGED <<new, call>>

AnswerNew ==
  /\ new.out # <<>>
  /\ \E k \in Answers[Head(new.out).cmd] : new' = Answered(new, k)
  /\ UNCHANGED <<cur, call>>

(* It never will.                                                          *)
LoseCur ==
  /\ cur.out # <<>>
  /\ cur' = [cur EXCEPT !.out = Tail(@)]
  /\ UNCHANGED <<new, call>>

LoseNew ==
  /\ new.out # <<>>
  /\ new' = [new EXCEPT !.out = Tail(@)]
  /\ UNCHANGED <<cur, call>>

HangUpCur ==
  /\ cur.open
  /\ cur' = [cur EXCEPT !.open = FALSE, !.out = <<>>]
  /\ UNCHANGED <<new, call>>

HangUpNew ==
  /\ new.open
  /\ new' = [new EXCEPT !.open = FALSE, !.out = <<>>]
  /\ UNCHANGED <<cur, call>>

FarEnd == \/ AnswerCur \/ LoseCur \/ HangUpCur
          \/ AnswerNew \/ LoseNew \/ HangUpNew

-----------------------------------------------------------------------------
(* main connects once and gives up if that fails; afterwards whoever holds *)
(* the mutex sends or reconnects.                                          *)
TransportInit ==
  /\ cur = NoStream
  /\ new = NoStream
  /\ call = Dial

Use ==
  /\ cur.lost # "never"
  /\ \/ \E c \in Commands : Send(c)
     \/ Reconnect

InProgress == \/ SendReturns \/ SendFails
              \/ Refused \/ Connected \/ Drained \/ InitAnswered
              \/ ConnectReturns \/ ConnectFails

TransportNext == Use \/ InProgress \/ FarEnd

TransportSpec == /\ TransportInit
                 /\ [][TransportNext]_tvars
                 /\ WF_tvars(InProgress)

-----------------------------------------------------------------------------
TransportTypeOK ==
  /\ cur \in Stream
  /\ new \in Stream
  /\ call \in Call
  /\ call.op = "dial" => call.n \in 1 .. MaxConnect
  /\ call.op = "init" => /\ call.n \in 1 .. Len(InitTail)
                         /\ call.cmd = InitTail[call.n]
  /\ call.op \in {"reset", "init"} <=> new.lost # "never"

(* What a stream in step holds while exchange with c is in progress: at    *)
(* most that one command, unanswered or answered.                          *)
OnlyLive(s, c) ==
  /\ Len(s.out) + Len(s.in) <= 1
  /\ \A i \in DOMAIN s.out : s.out[i] = [cmd |-> c, live |-> TRUE]
  /\ \A i \in DOMAIN s.in  : s.in[i].cmd = c /\ s.in[i].live

(* On a stream that has not lost step nothing is outstanding but the       *)
(* command of the exchange in progress: the full sequence of sends,        *)
(* failures, reconnections and late answers leaves nothing behind.         *)
InStep ==
  /\ cur.lost = "no" =>
       IF call.op = "send" THEN OnlyLive(cur, call.cmd) ELSE Blank(cur)
  /\ new.lost = "no" =>
       call.op \in {"reset", "init"} /\ OnlyLive(new, call.cmd)

(* The answer a send is about to return, on a stream that has not lost     *)
(* step, is the answer to the command of that send.                        *)
OwnAnswer ==
  (call.op = "send" /\ cur.lost = "no" /\ cur.in # <<>>)
     => Head(cur.in).live /\ Head(cur.in).cmd = call.cmd
=============================================================================
