----------------------------- MODULE ServiceLife -----------------------------
(***************************************************************************)
(* The Android service (BluetoothService.kt) with what it starts: the      *)
(* Bluetooth link, the proxy and the Rust process.                         *)
(*                                                                         *)
(* Every start has a coroutine, connect, that blocks a thread: destroying  *)
(* the service does not interrupt it once it runs, and it goes on to the   *)
(* end, storing into the fields of an object nobody will destroy again.    *)
(* The fields are overwritten by a second start of the same instance.      *)
(*                                                                         *)
(* The proxy is ProxyBridge in a few words: it binds its port, accepts one *)
(* connection and bridges it as long as the link is up.  The process is    *)
(* main: it serves once the transport is initialised, and then for ever.   *)
(***************************************************************************)
EXTENDS Naturals

CONSTANT MaxStarts   \* bound: the starts of the service

Starts == 1 .. MaxStarts
None == 0

VARIABLES
  service,  \* the instance, named for the start that created it
  owner,    \* for each start, its instance
  step,     \* where its connect is
  links,    \* the starts whose Bluetooth socket is open
  proxy,    \* its TCP proxy
  rust,     \* its process
  peer,     \* for each proxy, the process whose connection it bridges
  field,    \* btSocket, proxy and rustProcess of the instance
  late      \* the starts that were connecting when it was destroyed, or whose
            \* server socket stop did not see

svars == <<service, owner, step, links, proxy, rust, peer, field, late>>

NoFields == [link |-> None, proxy |-> None, rust |-> None]

ServiceInit ==
  /\ service = None /\ field = NoFields /\ late = {}
  /\ owner = [c \in Starts |-> None]
  /\ step = [c \in Starts |-> "none"]
  /\ links = {}
  /\ proxy = [c \in Starts |-> "none"]
  /\ rust = [c \in Starts |-> "none"]
  /\ peer = [c \in Starts |-> None]

InProgress == {"connecting", "linked", "proxied"}

(* The scope of the instance that c belongs to has not been cancelled.     *)
Live(c) == owner[c] # None /\ owner[c] = service

(* Fields of an instance that has been destroyed are not seen again.       *)
Stores(c, f) == field' = IF Live(c) THEN [field EXCEPT ![f] = c] ELSE field

Serving == \E r \in Starts : rust[r] = "serving"

-----------------------------------------------------------------------------
(* onCreate, unless the service is there, and onStartCommand.  Both run on *)
(* the main thread, in the order of the calls that ask for them.           *)
StartService(c) ==
  /\ step[c] = "none"
  /\ service' = IF service = None THEN c ELSE service
  /\ field' = IF service = None THEN NoFields ELSE field
  /\ owner' = [owner EXCEPT ![c] = service']
  /\ step' = [step EXCEPT ![c] = "launched"]
  /\ UNCHANGED <<links, proxy, rust, peer, late>>

(* stop closes the server socket its field shows it: none that has not     *)
(* been stored, and one it may miss, since acceptLoop stores it without    *)
(* synchronisation.  A bridge ends with the link in any case.              *)
Unseen(c, sees) == proxy[c] = "binding" \/ (proxy[c] = "listening" /\ ~ sees)
Stopped(c, sees) == c = field.proxy /\ ~ Unseen(c, sees)

(* A connect that runs is not interrupted either.                          *)
Escapes(c, stepNow, sees) == stepNow[c] \in InProgress \/ Unseen(c, sees)

(* Wrong: the process is left running.                                     *)
DestroyServiceOnly(stepNow) ==
  \E sees \in BOOLEAN :
    /\ service' = None
    /\ field' = NoFields
    /\ step' = [c \in Starts |->
         IF Live(c) /\ stepNow[c] = "launched" THEN "done" ELSE stepNow[c]]
    /\ late' = late \cup {c \in Starts : Live(c) /\ Escapes(c, stepNow, sees)}
    /\ proxy' = [c \in Starts |-> IF Stopped(c, sees) THEN "none" ELSE proxy[c]]
    /\ links' = links \ {field.link}
    /\ peer' = [c \in Starts |-> IF Stopped(c, sees) THEN None ELSE peer[c]]
    /\ UNCHANGED <<owner, rust>>

(* onDestroy: a coroutine that has not begun never runs, one that runs is  *)
(* not interrupted; what the fields hold is killed, stopped and closed.    *)
DestroyService(stepNow) ==
  \E sees \in BOOLEAN :
    /\ service' = None
    /\ field' = NoFields
    /\ step' = [c \in Starts |->
         IF Live(c) /\ stepNow[c] = "launched" THEN "done" ELSE stepNow[c]]
    /\ late' = late \cup {c \in Starts : Live(c) /\ Escapes(c, stepNow, sees)}
    /\ rust' = [c \in Starts |-> IF c = field.rust THEN "none" ELSE rust[c]]
    /\ proxy' = [c \in Starts |-> IF Stopped(c, sees) THEN "none" ELSE proxy[c]]
    /\ links' = links \ {field.link}
    /\ peer' = [c \in Starts |-> IF Stopped(c, sees) THEN None ELSE peer[c]]
    /\ UNCHANGED owner

StopService ==
  IF service = None THEN UNCHANGED svars ELSE DestroyService(step)

(* logAndStop: stopSelf of an instance that is gone does nothing.          *)
LogAndStop(c) ==
  LET ended == [step EXCEPT ![c] = "done"]
  IN  IF Live(c)
        THEN DestroyService(ended)
        ELSE step' = ended
             /\ UNCHANGED <<service, owner, links, proxy, rust, peer, field, late>>

-----------------------------------------------------------------------------
(* connect                                                                 *)
Begins(c) ==
  /\ step[c] = "launched"
  /\ step' = [step EXCEPT ![c] = "connecting"]
  /\ UNCHANGED <<service, owner, links, proxy, rust, peer, field, late>>

(* The adapter takes one connection at a time.                             *)
Links(c) ==
  /\ step[c] = "connecting" /\ links = {}
  /\ step' = [step EXCEPT ![c] = "linked"]
  /\ links' = {c}
  /\ Stores(c, "link")
  /\ UNCHANGED <<service, owner, proxy, rust, peer, late>>

LinkFails(c) == step[c] = "connecting" /\ LogAndStop(c)

(* In a scope that has been cancelled the coroutine of the proxy never     *)
(* runs.                                                                   *)
StartsProxy(c) ==
  /\ step[c] = "linked"
  /\ step' = [step EXCEPT ![c] = "proxied"]
  /\ proxy' = IF Live(c) THEN [proxy EXCEPT ![c] = "binding"] ELSE proxy
  /\ Stores(c, "proxy")
  /\ UNCHANGED <<service, owner, links, rust, peer, late>>

ExtractFails(c) == step[c] = "proxied" /\ LogAndStop(c)

LaunchRust(c) ==
  /\ step[c] = "proxied"
  /\ step' = [step EXCEPT ![c] = "done"]
  /\ rust' = [rust EXCEPT ![c] = "dialing"]
  /\ Stores(c, "rust")
  /\ UNCHANGED <<service, owner, links, proxy, peer, late>>

Connect(c) == \/ Begins(c) \/ Links(c) \/ LinkFails(c) \/ StartsProxy(c)
              \/ ExtractFails(c) \/ LaunchRust(c)

-----------------------------------------------------------------------------
(* The link goes down, and a bridge with it.                               *)
LinkLost(c) ==
  /\ c \in links
  /\ links' = links \ {c}
  /\ UNCHANGED <<service, owner, step, proxy, rust, peer, field, late>>

(* The proxy has its port and has stored its server socket, or it had been *)
(* cancelled before it began.  While another proxy has the port acceptLoop *)
(* throws, which nobody catches: the app dies (ServiceDies).               *)
Listens(c) ==
  /\ proxy[c] = "binding"
  /\ \/ /\ \A d \in Starts : proxy[d] \notin {"listening", "bridging"}
        /\ proxy' = [proxy EXCEPT ![c] = "listening"]
     \/ /\ ~ Live(c)
        /\ proxy' = [proxy EXCEPT ![c] = "none"]
  /\ UNCHANGED <<service, owner, step, links, rust, peer, field, late>>

BridgeEnds(c) ==
  /\ proxy[c] = "bridging" /\ c \notin links
  /\ proxy' = [proxy EXCEPT ![c] = "none"]
  /\ peer' = [peer EXCEPT ![c] = None]
  /\ UNCHANGED <<service, owner, step, links, rust, field, late>>

(* The process dials the port of the proxy, whoever listens there.         *)
Dials(r, c) ==
  /\ rust[r] = "dialing" /\ proxy[c] = "listening"
  /\ rust' = [rust EXCEPT ![r] = "init"]
  /\ proxy' = [proxy EXCEPT ![c] = "bridging"]
  /\ peer' = [peer EXCEPT ![c] = r]
  /\ UNCHANGED <<service, owner, step, links, field, late>>

(* Nobody listens, or the connection is left in a queue.                   *)
DialFails(r) ==
  /\ rust[r] = "dialing" /\ \A c \in Starts : proxy[c] # "listening"
  /\ rust' = [rust EXCEPT ![r] = "none"]
  /\ UNCHANGED <<service, owner, step, links, proxy, peer, field, late>>

InitFails(r) ==
  /\ rust[r] = "init"
  /\ rust' = [rust EXCEPT ![r] = "none"]
  /\ UNCHANGED <<service, owner, step, links, proxy, peer, field, late>>

(* The server binds its port, or the process ends (try_join).              *)
Serves(r) ==
  /\ rust[r] = "init"
  /\ \E c \in Starts : peer[c] = r /\ proxy[c] = "bridging" /\ c \in links
  /\ rust' = [rust EXCEPT ![r] = IF Serving THEN "none" ELSE "serving"]
  /\ UNCHANGED <<service, owner, step, links, proxy, peer, field, late>>

Beside(c) == \/ LinkLost(c) \/ Listens(c) \/ BridgeEnds(c)
             \/ \E d \in Starts : Dials(c, d)
             \/ DialFails(c) \/ InitFails(c) \/ Serves(c)

(* The app dies, and its process group with it.  The service comes         *)
(* back with a null intent and stops itself.                               *)
ServiceDies ==
  /\ service' = None /\ field' = NoFields /\ late' = {}
  /\ owner' = [c \in Starts |-> None]
  /\ step' = [c \in Starts |-> IF step[c] = "none" THEN "none" ELSE "done"]
  /\ links' = {}
  /\ proxy' = [c \in Starts |-> "none"]
  /\ rust' = [c \in Starts |-> "none"]
  /\ peer' = [c \in Starts |-> None]

-----------------------------------------------------------------------------
ServiceTypeOK ==
  /\ service \in Starts \cup {None} /\ late \subseteq Starts
  /\ owner \in [Starts -> Starts \cup {None}]
  /\ step \in [Starts -> InProgress \cup {"none", "launched", "done"}]
  /\ links \subseteq Starts
  /\ proxy \in [Starts -> {"none", "binding", "listening", "bridging"}]
  /\ rust \in [Starts -> {"none", "dialing", "init", "serving"}]
  /\ peer \in [Starts -> Starts \cup {None}]
  /\ field \in [{"link", "proxy", "rust"} -> Starts \cup {None}]
  /\ service = None => field = NoFields

(* A start the service lost sight of: it was destroyed while connect ran,  *)
(* or without seeing the server socket of the proxy, or another start of   *)
(* the same instance took its place in the fields.                         *)
Stray(c) ==
  \/ c \in late
  \/ \E d \in Starts \ {c} : owner[d] = owner[c] /\ step[d] # "launched"

Holds(c) == c \in links \/ proxy[c] # "none" \/ rust[c] # "none"

(* A service that has been destroyed leaves no link, proxy or process      *)
(* behind, but of a start it had lost sight of.                            *)
NothingLeft == \A c \in Starts : Holds(c) => Live(c) \/ Stray(c)

(* The one connection a proxy takes is that of the process of its own      *)
(* start, but for what a service lost sight of.                            *)
OwnProcess ==
  \A c \in Starts :
     (proxy[c] = "bridging" /\ ~ Stray(c) /\ ~ Stray(peer[c])) => peer[c] = c
=============================================================================
