------------------------------ MODULE Dashboard ------------------------------
(***************************************************************************)
(* The page (assets/ui/index.html): its WebSocket to the Rust process, the *)
(* timer with which it comes back, and the server's check of its origin    *)
(* (src/server/mod.rs, ws_origin_allowed).                                 *)
(*                                                                         *)
(* A page is served to the WebView of an activity, or opened from a file   *)
(* by a developer.  The actions take whether a process is serving.         *)
(***************************************************************************)
EXTENDS Naturals, FiniteSets

CONSTANTS
  Pages,      \* the pages, one for each WebView
  FilePages,  \* and some that are opened from a file
  Timers,     \* bound: identifiers of the timers of a page
  Sockets     \* bound: identifiers of the sockets of a page

(* A script can set a timer.                                               *)
ASSUME TimerAssumption == Timers # {}

VARIABLES
  running,         \* the pages whose script has run
  timers,          \* for each page, its timers that have not fired
  reconnectTimer,  \* the variable of that name: a set of at most one timer
  sockets          \* for each page, its sockets: none, connecting, open or
                   \* broken (the server has gone)

pvars == <<running, timers, reconnectTimer, sockets>>

NoSocket == [s \in Sockets |-> "none"]

DashboardInit ==
  /\ running = {}
  /\ timers = [p \in Pages |-> {}]
  /\ reconnectTimer = [p \in Pages |-> {}]
  /\ sockets = [p \in Pages |-> NoSocket]

Origin(p) == IF p \in FilePages THEN "null" ELSE "http://127.0.0.1:8080"

(* ws_origin_allowed, of a request that has the header.                    *)
OriginAllowed(p) == Origin(p) \in {"null", "http://127.0.0.1", "http://localhost"}

(* Any that is free.                                                       *)
NewTimer(p)  == CHOOSE t \in Timers : t \notin timers[p]
NewSocket(p) == CHOOSE s \in Sockets : sockets[p][s] = "none"

Connected(p) == \E s \in Sockets : sockets[p][s] = "open"

-----------------------------------------------------------------------------
(* The script sets the first timer, which it does not keep.                *)
Opens(p) ==
  /\ p \notin running
  /\ running' = running \cup {p}
  /\ timers' = [timers EXCEPT ![p] = {NewTimer(p)}]
  /\ reconnectTimer' = [reconnectTimer EXCEPT ![p] = {}]
  /\ sockets' = [sockets EXCEPT ![p] = NoSocket]

(* Pages are left, and the process that served may have gone with every    *)
(* connection to it.                                                       *)
Loses(closed, gone) ==
  LET Broken(p) == [s \in Sockets |->
                     IF sockets[p][s] = "open" THEN "broken" ELSE sockets[p][s]]
  IN  /\ running' = running \ closed
      /\ timers' = [p \in Pages |-> IF p \in closed THEN {} ELSE timers[p]]
      /\ reconnectTimer' =
           [p \in Pages |-> IF p \in closed THEN {} ELSE reconnectTimer[p]]
      /\ sockets' =
           [p \in Pages |-> IF p \in closed THEN NoSocket
                            ELSE IF gone THEN Broken(p) ELSE sockets[p]]

(* connect.  There is nothing to clear of a timer that has fired.          *)
Fires(p, t) ==
  /\ t \in timers[p]
  /\ timers' = [timers EXCEPT ![p] = @ \ {t}]
  /\ reconnectTimer' = [reconnectTimer EXCEPT ![p] = @ \ {t}]
  /\ \E s \in Sockets : sockets[p][s] = "none"
  /\ sockets' = [sockets EXCEPT ![p][NewSocket(p)] = "connecting"]
  /\ UNCHANGED running

(* onopen                                                                  *)
OnOpen(p, s, serving) ==
  /\ sockets[p][s] = "connecting" /\ serving /\ OriginAllowed(p)
  /\ sockets' = [sockets EXCEPT ![p][s] = "open"]
  /\ timers' = [timers EXCEPT ![p] = @ \ reconnectTimer[p]]
  /\ reconnectTimer' = [reconnectTimer EXCEPT ![p] = {}]
  /\ UNCHANGED running

(* Wrong: only a timer that could be cleared is set again.                 *)
OnCloseOnce(p, s) ==
  /\ sockets' = [sockets EXCEPT ![p][s] = "none"]
  /\ timers' = [timers EXCEPT ![p] = reconnectTimer[p]]
  /\ UNCHANGED <<running, reconnectTimer>>

(* Wrong: the timer is set by onerror, and by onclose.                     *)
OnCloseTwice(p, s) ==
  /\ sockets' = [sockets EXCEPT ![p][s] = "none"]
  /\ timers' = [timers EXCEPT ![p] = Timers]
  /\ reconnectTimer' = [reconnectTimer EXCEPT ![p] = {NewTimer(p)}]
  /\ UNCHANGED running

(* onclose                                                                 *)
OnClose(p, s) ==
  /\ sockets' = [sockets EXCEPT ![p][s] = "none"]
  /\ timers[p] # Timers
  /\ timers' = [timers EXCEPT ![p] = @ \cup {NewTimer(p)}]
  /\ reconnectTimer' = [reconnectTimer EXCEPT ![p] = {NewTimer(p)}]
  /\ UNCHANGED running

(* The connection or the handshake fails, with 403 if the origin is        *)
(* refused: onerror, whose close() finds the socket closed, then onclose.  *)
OnError(p, s, serving) ==
  /\ sockets[p][s] = "connecting" /\ ~ (serving /\ OriginAllowed(p))
  /\ OnClose(p, s)

OnBroken(p, s) == sockets[p][s] = "broken" /\ OnClose(p, s)

Pursues(p, serving) ==
  \/ \E t \in Timers : Fires(p, t)
  \/ \E s \in Sockets :
       OnOpen(p, s, serving) \/ OnError(p, s, serving) \/ OnBroken(p, s)

-----------------------------------------------------------------------------
DashboardTypeOK ==
  /\ running \subseteq Pages
  /\ timers \in [Pages -> SUBSET Timers]
  /\ reconnectTimer \in [Pages -> SUBSET Timers]
  /\ \A p \in Pages : Cardinality(reconnectTimer[p]) <= 1
  /\ sockets \in [Pages -> [Sockets -> {"none", "connecting", "open", "broken"}]]

(* A page has one way back to the server at any time, a timer or a socket: *)
(* it neither gives up nor multiplies its connections, whatever opens,     *)
(* fails or goes.                                                          *)
OnePursuit ==
  \A p \in running :
     Cardinality(timers[p]) + Cardinality({s \in Sockets : sockets[p][s] # "none"}) = 1
=============================================================================
