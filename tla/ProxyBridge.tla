----------------------------- MODULE ProxyBridge -----------------------------
(***************************************************************************)
(* TcpProxyServer (android, TcpProxyServer.kt): a server socket that       *)
(* accepts one connection in its life and copies bytes between it and the  *)
(* Bluetooth socket; the end of the service that owns it                   *)
(* (BluetoothService.onDestroy); and its client, the TcpTransport of the   *)
(* Rust process, with an exchange for its whole initialisation sequence.   *)
(*                                                                         *)
(* Of the bytes only whether there are any unread is kept.  The listening  *)
(* socket's queue and the Bluetooth link are external.                     *)
(***************************************************************************)
EXTENDS Naturals, Sequences, FiniteSets

CONSTANTS
  Backlog,     \* that of the server socket: 1; the kernel queues one more
  MaxConnect   \* the attempts of connect: 10

ASSUME ProxyAssumption == Backlog \in Nat /\ MaxConnect \in Nat \ {0}

VARIABLES
  bt,        \* the Bluetooth socket: "up" or "down"
  elm,       \* asked: it has a command; said: its answer has not been read
  socks,     \* per connection, which ends are open and have unread bytes
  made,      \* the connections made so far
  waiting,   \* those the server has not accepted
  listener,  \* the server socket
  loop,      \* where acceptLoop is
  client,    \* the connection it accepted
  pumps,     \* the two copying coroutines
  owner,     \* how far onDestroy is
  prog,      \* what the transport is doing, and its attempts
  cur        \* the connection that is its stream

linkVars  == <<bt, elm>>
proxyVars == <<listener, waiting, loop, client, pumps>>
progVars  == <<made, prog, cur>>
vars == <<bt, elm, socks, made, waiting, listener, loop, client, pumps,
          owner, prog, cur>>

(* One accepted and a full queue: the kernel takes no more.                *)
Conns == 1 .. Backlog + 2
None  == 0

Sock == [rust : BOOLEAN, kotlin : BOOLEAN, up : BOOLEAN, down : BOOLEAN]

Unused == [rust |-> FALSE, kotlin |-> FALSE, up |-> FALSE, down |-> FALSE]
Opened == [rust |-> TRUE, kotlin |-> TRUE, up |-> TRUE, down |-> FALSE]

(* scope.cancel() is the first thing onDestroy does.                       *)
Cancelled == owner # "running"

CloseKotlin(ends) ==
  [c \in Conns |-> IF c \in ends THEN [socks[c] EXCEPT !.kotlin = FALSE]
                                 ELSE socks[c]]

CloseRust(ends) ==
  [c \in Conns |-> IF c \in ends THEN [socks[c] EXCEPT !.rust = FALSE]
                                 ELSE socks[c]]

Queue == {waiting[i] : i \in DOMAIN waiting}

-----------------------------------------------------------------------------
(* acceptLoop.  The server socket is closed when its use block ends, and   *)
(* what it had not accepted with it.                                       *)
Over(alsoClosed) ==
  /\ loop' = "over"
  /\ listener' = IF listener = "open" THEN "closed" ELSE listener
  /\ waiting' = <<>>
  /\ socks' = CloseKotlin(Queue \cup alsoClosed)

(* A coroutine cancelled before it was dispatched never runs.              *)
NeverRuns ==
  /\ loop = "start" /\ Cancelled
  /\ Over({})
  /\ UNCHANGED <<client, pumps>>

Bind ==
  /\ loop = "start"
  /\ loop' = "bound" /\ listener' = "open"
  /\ UNCHANGED <<waiting, client, pumps, socks>>

StoreServer ==
  /\ loop = "bound"
  /\ loop' = "accept"
  /\ UNCHANGED <<listener, waiting, client, pumps, socks>>

(* Wrong: connections are accepted while one is bridged.                   *)
AcceptAny ==
  /\ loop \in {"accept", "wait"} /\ waiting # <<>>
  /\ client' = Head(waiting)
  /\ waiting' = Tail(waiting)
  /\ loop' = IF loop = "wait" THEN "wait" ELSE "accepted"
  /\ UNCHANGED <<listener, pumps, socks>>

Accept ==
  /\ loop = "accept" /\ waiting # <<>>
  /\ client' = Head(waiting)
  /\ waiting' = Tail(waiting)
  /\ loop' = "accepted"
  /\ UNCHANGED <<listener, pumps, socks>>

AcceptFails ==
  /\ loop = "accept" /\ listener = "closed"
  /\ Over({})
  /\ UNCHANGED <<client, pumps>>

StoreClient ==
  /\ loop = "accepted"
  /\ loop' = "stored"
  /\ UNCHANGED <<listener, waiting, client, pumps, socks>>

(* bridge: a socket that stop has closed has no streams to copy.           *)
Bridge ==
  /\ loop = "stored"
  /\ \/ /\ socks[client].kotlin
        /\ loop' = "wait"
        /\ pumps' = [p \in DOMAIN pumps |-> "running"]
        /\ UNCHANGED <<listener, waiting, socks>>
     \/ /\ ~ socks[client].kotlin
        /\ Over({})
        /\ UNCHANGED pumps
  /\ UNCHANGED client

(* btToTcp.join() returns; tcpToBt is cancelled, which does not interrupt  *)
(* its read, and waited for.                                               *)
Joined ==
  /\ loop = "wait" /\ pumps.btToTcp = "over" /\ ~ Cancelled
  /\ loop' = "join"
  /\ UNCHANGED <<listener, waiting, client, pumps, socks>>

BridgeEnds ==
  /\ loop = "join" /\ pumps.tcpToBt = "over" /\ ~ Cancelled
  /\ Over({client})
  /\ UNCHANGED <<client, pumps>>

(* A join of a cancelled coroutine throws, in the finally block as well:   *)
(* the client is not closed.                                               *)
BridgeThrows ==
  /\ loop \in {"wait", "join"} /\ Cancelled
  /\ Over({})
  /\ UNCHANGED <<client, pumps>>

AcceptLoop ==
  /\ \/ NeverRuns \/ Bind \/ StoreServer \/ Accept \/ AcceptFails
     \/ StoreClient \/ Bridge \/ Joined \/ BridgeEnds \/ BridgeThrows
  /\ UNCHANGED linkVars /\ UNCHANGED progVars /\ UNCHANGED owner

-----------------------------------------------------------------------------
(* pump, a read and the write of what it returned.  Writing to a process   *)
(* that is gone may still succeed.                                         *)
FromBt ==
  /\ pumps.btToTcp = "running"
  /\ \/ /\ bt = "up" /\ elm.said
        /\ elm' = [elm EXCEPT !.said = FALSE]
        /\ \/ /\ socks[client].kotlin
              /\ socks' = [socks EXCEPT ![client].down = TRUE]
              /\ UNCHANGED pumps
           \/ /\ ~ (socks[client].kotlin /\ socks[client].rust)
              /\ pumps' = [pumps EXCEPT !.btToTcp = "over"]
              /\ UNCHANGED socks
     \/ /\ bt = "down"
        /\ pumps' = [pumps EXCEPT !.btToTcp = "over"]
        /\ UNCHANGED <<elm, socks>>
  /\ UNCHANGED <<bt, listener, waiting, loop, client>>

(* Wrong: a write that fails is not the end of the pump.                   *)
ToBtRetries ==
  /\ pumps.tcpToBt = "running"
  /\ \/ /\ socks[client].kotlin /\ socks[client].up
        /\ socks' = [socks EXCEPT ![client].up = FALSE]
        /\ elm' = IF bt = "up" THEN [elm EXCEPT !.asked = TRUE] ELSE elm
        /\ UNCHANGED pumps
     \/ /\ ~ socks[client].kotlin \/ (~ socks[client].rust /\ ~ socks[client].up)
        /\ pumps' = [pumps EXCEPT !.tcpToBt = "over"]
        /\ UNCHANGED <<elm, socks>>
  /\ UNCHANGED <<bt, listener, waiting, loop, client>>

ToBt ==
  /\ pumps.tcpToBt = "running"
  /\ \/ /\ socks[client].kotlin /\ socks[client].up
        /\ socks' = [socks EXCEPT ![client].up = FALSE]
        /\ \/ bt = "up" /\ elm' = [elm EXCEPT !.asked = TRUE] /\ UNCHANGED pumps
           \/ /\ bt = "down" /\ UNCHANGED elm
              /\ pumps' = [pumps EXCEPT !.tcpToBt = "over"]
     \/ /\ ~ socks[client].kotlin \/ (~ socks[client].rust /\ ~ socks[client].up)
        /\ pumps' = [pumps EXCEPT !.tcpToBt = "over"]
        /\ UNCHANGED <<elm, socks>>
  /\ UNCHANGED <<bt, listener, waiting, loop, client>>

Pumps == /\ FromBt \/ ToBt
         /\ UNCHANGED progVars /\ UNCHANGED owner

(* The ELM327 answers, or does not; the link is lost.                      *)
ElmAnswers ==
  /\ elm.asked /\ elm' = [asked |-> FALSE, said |-> TRUE]
  /\ UNCHANGED <<bt, socks, owner>> /\ UNCHANGED proxyVars /\ UNCHANGED progVars

ElmIsSilent ==
  /\ elm.asked /\ elm' = [elm EXCEPT !.asked = FALSE]
  /\ UNCHANGED <<bt, socks, owner>> /\ UNCHANGED proxyVars /\ UNCHANGED progVars

LinkLost ==
  /\ bt = "up" /\ bt' = "down"
  /\ UNCHANGED <<elm, socks, owner>> /\ UNCHANGED proxyVars /\ UNCHANGED progVars

Link == ElmAnswers \/ ElmIsSilent \/ LinkLost

-----------------------------------------------------------------------------
(* onDestroy: scope.cancel, rustProcess.destroyForcibly, proxy.stop, which *)
(* closes the client and the server, and btSocket.close.  The fields stop  *)
(* reads are written by acceptLoop without synchronisation: it may miss    *)
(* them.                                                                   *)
CancelScope ==
  /\ owner = "running" /\ owner' = "cancelled"
  /\ UNCHANGED <<bt, elm, socks>> /\ UNCHANGED proxyVars /\ UNCHANGED progVars

KillRust ==
  /\ owner = "cancelled" /\ owner' = "killed"
  /\ prog' = [prog EXCEPT !.at = "exit"]
  /\ socks' = CloseRust(Conns)
  /\ UNCHANGED <<bt, elm, made, cur>> /\ UNCHANGED proxyVars

StopClient ==
  /\ owner = "killed" /\ owner' = "stopping"
  /\ \/ /\ client # None /\ loop # "accepted"
        /\ socks' = CloseKotlin({client})
     \/ UNCHANGED socks
  /\ UNCHANGED <<bt, elm>> /\ UNCHANGED proxyVars /\ UNCHANGED progVars

StopServer ==
  /\ owner = "stopping" /\ owner' = "stopped"
  /\ \/ /\ listener = "open" /\ loop # "bound"
        /\ listener' = "closed"
        /\ waiting' = <<>>
        /\ socks' = CloseKotlin(Queue)
     \/ UNCHANGED <<listener, waiting, socks>>
  /\ UNCHANGED <<bt, elm, loop, client, pumps>> /\ UNCHANGED progVars

(* Wrong: the Bluetooth socket is left to the pumps to close.              *)
CloseBtLater ==
  /\ owner = "stopped" /\ owner' = "destroyed"
  /\ UNCHANGED <<bt, elm, socks>> /\ UNCHANGED proxyVars /\ UNCHANGED progVars

CloseBt ==
  /\ owner = "stopped" /\ owner' = "destroyed"
  /\ bt' = "down"
  /\ UNCHANGED <<elm, socks>> /\ UNCHANGED proxyVars /\ UNCHANGED progVars

Destroy == KillRust \/ StopClient \/ StopServer \/ CloseBt

-----------------------------------------------------------------------------
(* The transport of the Rust process: connect, and exchanges that end with *)
(* an answer, or without one in a reconnection.                            *)
CanConnect == /\ listener = "open"
              /\ Len(waiting) <= Backlog
              /\ made + 1 \in Conns

Dials ==
  /\ prog.at = "dial" /\ CanConnect
  /\ made' = made + 1
  /\ socks' = [socks EXCEPT ![made + 1] = Opened]
  /\ waiting' = Append(waiting, made + 1)
  /\ prog' = [prog EXCEPT !.at = "init"]
  /\ UNCHANGED cur

(* connect fails: main ends, a reconnection leaves things as they were.    *)
GivesUp == prog' = [at |-> IF cur = None THEN "exit" ELSE "idle", n |-> 1]

(* Wrong: one attempt too many.                                            *)
DialFailsOnceMore ==
  /\ prog.at = "dial" /\ ~ CanConnect
  /\ \/ prog.n <= MaxConnect /\ prog' = [prog EXCEPT !.n = @ + 1]
     \/ prog.n > MaxConnect /\ GivesUp
  /\ UNCHANGED <<made, socks, waiting, cur>>

DialFails ==
  /\ prog.at = "dial" /\ ~ CanConnect
  /\ \/ prog.n < MaxConnect /\ prog' = [prog EXCEPT !.n = @ + 1]
     \/ prog.n = MaxConnect /\ GivesUp
  /\ UNCHANGED <<made, socks, waiting, cur>>

InitReturns ==
  /\ prog.at = "init" /\ socks[made].down
  /\ cur' = made
  /\ socks' = [CloseRust({cur} \ {None}) EXCEPT ![made].down = FALSE]
  /\ prog' = [at |-> "idle", n |-> 1]
  /\ UNCHANGED <<made, waiting>>

InitFails ==
  /\ prog.at = "init" /\ ~ socks[made].down
  /\ socks' = CloseRust({made})
  /\ GivesUp
  /\ UNCHANGED <<made, waiting, cur>>

Asks ==
  /\ prog.at = "idle"
  /\ socks' = [socks EXCEPT ![cur].up = TRUE]
  /\ prog' = [prog EXCEPT !.at = "asking"]
  /\ UNCHANGED <<made, waiting, cur>>

Answered ==
  /\ prog.at = "asking" /\ socks[cur].down
  /\ socks' = [socks EXCEPT ![cur].down = FALSE]
  /\ prog' = [prog EXCEPT !.at = "idle"]
  /\ UNCHANGED <<made, waiting, cur>>

AskFails ==
  /\ prog.at = "asking" /\ ~ socks[cur].down
  /\ prog' = [at |-> "dial", n |-> 1]
  /\ UNCHANGED <<made, socks, waiting, cur>>

Rust == /\ Dials \/ DialFails \/ InitReturns \/ InitFails
           \/ Asks \/ Answered \/ AskFails
        /\ UNCHANGED linkVars
        /\ UNCHANGED <<listener, loop, client, pumps, owner>>

(* The server half of the process fails and ends it.                       *)
Exits ==
  /\ prog.at # "exit" /\ cur # None
  /\ prog' = [prog EXCEPT !.at = "exit"]
  /\ socks' = CloseRust(Conns)
  /\ UNCHANGED linkVars /\ UNCHANGED proxyVars /\ UNCHANGED <<made, cur, owner>>

-----------------------------------------------------------------------------
(* BluetoothService.connect has started the proxy and the process.         *)
Init ==
  /\ bt = "up"
  /\ elm = [asked |-> FALSE, said |-> FALSE]
  /\ socks = [c \in Conns |-> Unused]
  /\ made = 0 /\ waiting = <<>>
  /\ listener = "none" /\ loop = "start" /\ client = None
  /\ pumps = [btToTcp |-> "none", tcpToBt |-> "none"]
  /\ owner = "running"
  /\ prog = [at |-> "dial", n |-> 1] /\ cur = None

Next == AcceptLoop \/ Pumps \/ Link \/ CancelScope \/ Destroy \/ Rust \/ Exits

(* Threads run, the calls of the transport end, onDestroy is not stopped   *)
(* half-way.  The link owes nothing.                                       *)
Spec == /\ Init /\ [][Next]_vars
        /\ WF_vars(AcceptLoop) /\ WF_vars(Rust) /\ WF_vars(Destroy)
        /\ WF_vars(FromBt /\ UNCHANGED progVars /\ UNCHANGED owner)
        /\ WF_vars(ToBt /\ UNCHANGED progVars /\ UNCHANGED owner)

-----------------------------------------------------------------------------
TypeOK ==
  /\ bt \in {"up", "down"}
  /\ elm \in [asked : BOOLEAN, said : BOOLEAN]
  /\ socks \in [Conns -> Sock]
  /\ made \in Conns \cup {0}
  /\ waiting \in Seq(Conns)
  /\ listener \in {"none", "open", "closed"}
  /\ loop \in {"start", "bound", "accept", "accepted", "stored",
               "wait", "join", "over"}
  /\ client \in Conns \cup {None}
  /\ pumps \in [{"btToTcp", "tcpToBt"} -> {"none", "running", "over"}]
  /\ owner \in {"running", "cancelled", "killed", "stopping", "stopped",
                "destroyed"}
  /\ prog \in [at : {"dial", "init", "idle", "asking", "exit"},
               n : 1 .. MaxConnect]
  /\ cur \in Conns \cup {None}
  /\ prog.at \in {"idle", "asking"} => cur # None
  /\ prog.at = "init" => made # 0

(* The stream the transport uses is the connection that is bridged: after  *)
(* any reconnections and late answers it never believes itself initialised *)
(* on another, which would leave the ELM327 to a stream nobody reads.      *)
RunsOnBridge == cur # None => cur = client

(* When the Bluetooth link is lost the bridge ends, although its other     *)
(* half is blocked in a read: the transport's own polling frees it.        *)
BridgeFollowsLink ==
  (bt = "down" /\ loop \in {"wait", "join"}) ~> (loop = "over")

(* Once the service is destroyed nothing that served a connection goes on: *)
(* the coroutines end, although nothing cancels them, and so does the      *)
(* listening.                                                              *)
DestroyEnds ==
  (owner = "destroyed" /\ client # None)
    ~> (listener = "closed" /\ \A p \in DOMAIN pumps : pumps[p] # "running")
=============================================================================
