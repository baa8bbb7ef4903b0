----------------------------- MODULE ReadingFeed -----------------------------
(***************************************************************************)
(* The readings on their way to the pages: the broadcast channel main      *)
(* makes, what the polling loop sends on it, and a task per WebSocket      *)
(* (handle_websocket, src/server/mod.rs).                                  *)
(*                                                                         *)
(* The channel is tokio's and external: it keeps the last Capacity values, *)
(* takes none while nobody is subscribed, and moves a receiver that fell   *)
(* further behind to the oldest it keeps.                                  *)
(***************************************************************************)
EXTENDS Naturals, Sequences

CONSTANTS
  Clients,      \* the pages followed, each with one WebSocket at a time
  Capacity,     \* of the channel: 256
  MaxReadings   \* bound: the readings made

ASSUME FeedAssumption ==
  /\ Capacity \in Nat \ {0}
  /\ MaxReadings \in Nat

VARIABLES
  made, since, seen,   \* as in OrderedFeed
  sent,    \* what the channel has taken
  ws,      \* per page, where its task is
  pos,     \* its next position in sent
  frame,   \* the reading it is writing
  start,   \* the position it subscribed at
  lagged,  \* it was moved forward
  left     \* the page has gone

pageVars == <<since, seen, ws, pos, frame, start, lagged, left>>
feedVars == <<made, sent, pageVars>>

Tasks == {"none", "accepted", "waiting", "writing"}

Subscribed == {c \in Clients : ws[c] \in {"waiting", "writing"}}

(* The oldest position the channel keeps.                                  *)
Oldest == IF Len(sent) > Capacity THEN Len(sent) - Capacity + 1 ELSE 1

FeedTypeOK ==
  /\ made \in 0 .. MaxReadings
  /\ since \in [Clients -> 0 .. made]
  /\ sent \in Seq(1 .. made)
  /\ ws \in [Clients -> Tasks]
  /\ \A c \in Clients : seen[c] \in Seq(1 .. made)
  /\ \A c \in Subscribed : start[c] <= pos[c] /\ pos[c] <= Len(sent) + 1
  /\ \A c \in Clients : ws[c] = "writing" => frame[c] \in 1 .. made
  /\ lagged \in [Clients -> BOOLEAN]
  /\ left \in [Clients -> BOOLEAN]

Each(v) == [c \in Clients |-> v]

FeedInit ==
  /\ made = 0 /\ sent = <<>>
  /\ since = Each(0) /\ seen = Each(<<>>)
  /\ ws = Each("none") /\ pos = Each(1) /\ frame = Each(0) /\ start = Each(1)
  /\ lagged = Each(FALSE) /\ left = Each(FALSE)

-----------------------------------------------------------------------------
(* make_reading and tx.send, whose error is ignored.  With none of Clients *)
(* subscribed the channel takes the reading if any other page is.          *)
Sends ==
  /\ made < MaxReadings
  /\ made' = made + 1
  /\ \/ sent' = Append(sent, made + 1)
     \/ Subscribed = {} /\ sent' = sent
  /\ UNCHANGED pageVars

(* The 101 has been written; the task is not subscribed yet.               *)
Accepts(c) ==
  /\ ws[c] = "none"
  /\ ws' = [ws EXCEPT ![c] = "accepted"]
  /\ since' = [since EXCEPT ![c] = made]
  /\ seen' = [seen EXCEPT ![c] = <<>>]
  /\ lagged' = [lagged EXCEPT ![c] = FALSE]
  /\ left' = [left EXCEPT ![c] = FALSE]
  /\ UNCHANGED <<made, sent, pos, frame, start>>

SubscribesFrom(c, p) ==
  /\ ws[c] = "accepted"
  /\ ws' = [ws EXCEPT ![c] = "waiting"]
  /\ pos' = [pos EXCEPT ![c] = p]
  /\ start' = [start EXCEPT ![c] = p]
  /\ UNCHANGED <<made, sent, since, seen, frame, lagged, left>>

(* Wrong: the subscription begins with what the channel keeps.             *)
SubscribesToAll(c) == SubscribesFrom(c, Oldest)

Subscribes(c) == SubscribesFrom(c, Len(sent) + 1)

Takes(c, p) ==
  /\ ws[c] = "waiting" /\ Oldest <= pos[c] /\ pos[c] <= Len(sent)
  /\ frame' = [frame EXCEPT ![c] = sent[p]]
  /\ pos' = [pos EXCEPT ![c] = p + 1]
  /\ ws' = [ws EXCEPT ![c] = "writing"]
  /\ UNCHANGED <<made, sent, since, seen, start, lagged, left>>

(* Wrong: the newest reading is taken, those before it dropped.            *)
ReceivesNewest(c) == Takes(c, Len(sent))

Receives(c) == Takes(c, pos[c])

(* RecvError::Lagged, a warning.                                           *)
Lags(c) ==
  /\ ws[c] = "waiting" /\ pos[c] < Oldest
  /\ pos' = [pos EXCEPT ![c] = Oldest]
  /\ lagged' = [lagged EXCEPT ![c] = TRUE]
  /\ UNCHANGED <<made, sent, since, seen, ws, frame, start, left>>

WritesThen(c, w) ==
  /\ ws[c] = "writing" /\ ~ left[c]
  /\ seen' = [seen EXCEPT ![c] = Append(@, frame[c])]
  /\ frame' = [frame EXCEPT ![c] = 0]
  /\ ws' = [ws EXCEPT ![c] = w]
  /\ UNCHANGED <<made, sent, since, pos, start, lagged, left>>

(* Wrong: subscribe inside the loop, anew for every reading.               *)
WritesAndResubscribes(c) == WritesThen(c, "accepted")

Writes(c) == WritesThen(c, "waiting")

(* What is written to a page that has gone is lost, or ends the task.      *)
WritesToNobody(c) ==
  /\ ws[c] = "writing" /\ left[c]
  /\ frame' = [frame EXCEPT ![c] = 0]
  /\ ws' \in {[ws EXCEPT ![c] = w] : w \in {"waiting", "none"}}
  /\ UNCHANGED <<made, sent, since, seen, pos, start, lagged, left>>

Leaves(c) ==
  /\ ws[c] # "none" /\ ~ left[c]
  /\ left' = [left EXCEPT ![c] = TRUE]
  /\ UNCHANGED <<made, sent, since, seen, ws, pos, frame, start, lagged>>

Task(c) == \/ Subscribes(c) \/ Receives(c) \/ Lags(c)
           \/ Writes(c) \/ WritesToNobody(c)

Pages == \E c \in Clients : Accepts(c) \/ Task(c) \/ Leaves(c)

(* The process is killed: channel and tasks go, the pages keep what they   *)
(* have been shown.                                                        *)
FeedDies ==
  /\ sent' = <<>>
  /\ ws' = Each("none") /\ pos' = Each(1) /\ frame' = Each(0) /\ start' = Each(1)
  /\ lagged' = Each(FALSE) /\ left' = Each(FALSE)
  /\ UNCHANGED <<made, since, seen>>
=============================================================================
