--------------------------- MODULE AndroidAppProofs ---------------------------
(***************************************************************************)
(* What a destroyed service leaves behind, and whose process a proxy       *)
(* bridges, how an activity comes to its page and a page to the server,    *)
(* for every number of starts, pages, timers and sockets.                  *)
(*                                                                         *)
(* The argument for the service: a start it has not lost sight of holds    *)
(* only what the fields of the instance hold, so that onDestroy takes all  *)
(* of it.  For a page: it waits on one timer with no socket, or has one    *)
(* socket and no timer, and every step takes it from one to the other.     *)
(***************************************************************************)
EXTENDS AndroidApp, FiniteSetTheorems, TLAPS

(* How far a start has come, and what it can hold by then.                 *)
Stage(c) ==
  /\ step[c] = "none" => owner[c] = None
  /\ owner[c] # None => step[owner[c]] # "none"
  /\ owner[c] = None => ~ Holds(c) /\ step[c] \in {"none", "done"}
  /\ step[c] = "launched" => Live(c)
  /\ step[c] \in InProgress => Live(c) \/ c \in late
  /\ step[c] \in {"none", "launched", "connecting"} => ~ Holds(c)
  /\ proxy[c] = "bridging" => peer[c] \in Starts /\ owner[peer[c]] # None

Stages ==
  /\ service # None => step[service] # "none"
  /\ \A c \in Starts : Stage(c)

(* The fields have what a start holds that the service sees.               *)
InFields ==
  \A c \in Starts : ~ Stray(c) =>
    /\ c \in links => Live(c) /\ field.link = c
    /\ proxy[c] # "none" => Live(c) /\ field.proxy = c
    /\ rust[c] # "none" => Live(c) /\ field.rust = c

IInv == ServiceTypeOK /\ Stages /\ InFields /\ OwnProcess

LEMMA StartsAreNumbers == Starts \subseteq Nat /\ None \notin Starts
BY DEF Starts, None

LEMMA NothingLeftOfInFields == ASSUME InFields PROVE NothingLeft
BY DEF InFields, NothingLeft, Holds

(* What the service has lost sight of it does not see again.               *)
LEMMA StrayStays ==
  ASSUME NEW c \in Starts, owner[c] # None, late \subseteq late',
         \A d \in Starts : owner[d] # None => owner'[d] = owner[d],
         \A d \in Starts : owner[d] # None /\ step[d] # "launched" => step'[d] # "launched",
         Stray(c)
  PROVE  Stray(c)'
BY DEF Stray

(* Two starts of the instance in place see each other stray.               *)
LEMMA TwoLive ==
  ASSUME NEW c \in Starts, NEW d \in Starts, c # d, Live(c), Live(d),
         step[d] # "launched"
  PROVE  Stray(c)
BY DEF Stray, Live

LEMMA InitIInv == ASSUME ServiceInit PROVE IInv
BY StartsAreNumbers
   DEF ServiceInit, IInv, ServiceTypeOK, Stages, Stage, InFields, OwnProcess, NoFields,
       InProgress, Live, Stray, Holds

-----------------------------------------------------------------------------
LEMMA StartKeeps ==
  ASSUME IInv, NEW c \in Starts, StartService(c) PROVE IInv'
<1> USE StartsAreNumbers
<1>1. owner[c] = None /\ step[c] = "none" /\ ~ Holds(c)
  BY DEF IInv, Stages, Stage, StartService
<1>2. /\ service' \in Starts /\ owner' = [owner EXCEPT ![c] = service']
      /\ step' = [step EXCEPT ![c] = "launched"]
      /\ UNCHANGED <<links, proxy, rust, peer, late>>
      /\ service # None => service' = service /\ field' = field
      /\ service = None => service' = c /\ field' = NoFields
  BY DEF StartService, IInv, ServiceTypeOK
<1>3. ServiceTypeOK'
  BY <1>2 DEF IInv, ServiceTypeOK, NoFields
<1>4. \A d \in Starts : (Live(d) => Live(d)') /\ (Holds(d)' <=> Holds(d))
  BY <1>1, <1>2 DEF Live, Holds, IInv, ServiceTypeOK
<1>5. Stages'
  <2>1. step'[c] = "launched" /\ owner'[c] = service' /\ service' # None
    BY <1>2 DEF IInv, ServiceTypeOK
  <2>2. step'[service'] # "none"
    <3>1. CASE service = None
      BY <3>1, <1>2, <2>1
    <3>2. CASE service # None
      BY <3>2, <1>2 DEF IInv, ServiceTypeOK, Stages
    <3> QED BY <3>1, <3>2
  <2>3. Stage(c)'
    <3>1. Live(c)'
      BY <2>1 DEF Live
    <3> QED BY <1>1, <1>4, <2>1, <2>2, <3>1, <1>2 DEF Stage, InProgress, Holds
  <2>4. ASSUME NEW d \in Starts, d # c PROVE Stage(d)'
    <3>1. owner'[d] = owner[d] /\ step'[d] = step[d]
      BY <2>4, <1>2 DEF IInv, ServiceTypeOK
    <3>2. owner[d] # None => step'[owner[d]] # "none"
      BY <1>2 DEF IInv, ServiceTypeOK, Stages, Stage
    <3>3. proxy[d] = "bridging" => peer[d] # c
      BY <1>1 DEF IInv, Stages, Stage
    <3> QED BY <3>1, <3>2, <3>3, <1>2, <1>4 DEF IInv, Stages, Stage, ServiceTypeOK
  <2> QED BY <2>2, <2>3, <2>4 DEF Stages
<1>6. ASSUME NEW d \in Starts, owner[d] # None, ~ Stray(d)' PROVE ~ Stray(d)
  <2>1. \A e \in Starts : owner[e] # None => owner'[e] = owner[e]
    BY <1>1, <1>2 DEF IInv, ServiceTypeOK
  <2>2. \A e \in Starts : owner[e] # None /\ step[e] # "launched" => step'[e] # "launched"
    BY <1>1, <1>2 DEF IInv, ServiceTypeOK
  <2> QED BY <1>2, <1>6, <2>1, <2>2, StrayStays
<1>7. InFields'
  <2> SUFFICES ASSUME NEW d \in Starts, ~ Stray(d)', Holds(d)
               PROVE  /\ d \in links => Live(d)' /\ field'.link = d
                      /\ proxy[d] # "none" => Live(d)' /\ field'.proxy = d
                      /\ rust[d] # "none" => Live(d)' /\ field'.rust = d
    BY <1>2 DEF InFields, Holds
  <2>1. owner[d] # None
    BY DEF IInv, Stages, Stage
  <2>2. ~ Stray(d)
    BY <2>1, <1>6
  <2>3. Live(d) /\ service # None
    BY <2>2, <2>1 DEF IInv, InFields, Holds, Live
  <2> QED BY <2>2, <2>3, <1>2, <1>4 DEF IInv, InFields
<1>8. OwnProcess'
  <2>1. \A d \in Starts : proxy[d] = "bridging" =>
          owner[d] # None /\ peer[d] \in Starts /\ owner[peer[d]] # None
    BY DEF IInv, Stages, Stage, Holds
  <2> SUFFICES ASSUME NEW d \in Starts, NEW r \in Starts, r = peer[d],
                      proxy[d] = "bridging", ~ Stray(d)', ~ Stray(r)'
               PROVE  r = d
    BY <1>2, <2>1 DEF OwnProcess, Stray
  <2>2. ~ Stray(d) /\ ~ Stray(r)
    BY <2>1, <1>6
  <2> QED BY <2>2 DEF IInv, OwnProcess
<1> QED BY <1>3, <1>5, <1>7, <1>8 DEF IInv

(* A step that neither starts, destroys nor kills: what the service sees   *)
(* and has lost sight of stays, and its connects go on.                    *)
Goes ==
  /\ UNCHANGED <<service, owner, late>>
  /\ \A d \in Starts : step'[d] # step[d] =>
       /\ step[d] \in InProgress \cup {"launched"}
       /\ step'[d] \in InProgress \cup {"done"}
       /\ step'[d] = "connecting" => step[d] = "launched"

LEMMA GoesOn ==
  ASSUME IInv, Goes, NEW d \in Starts
  PROVE  /\ Live(d)' <=> Live(d)
         /\ owner[d] # None /\ ~ Stray(d)' => ~ Stray(d)
         /\ step'[d] = "none" => owner'[d] = None
         /\ owner'[d] # None => step'[owner'[d]] # "none"
         /\ service' # None => step'[service'] # "none"
         /\ step'[d] \in InProgress => Live(d)' \/ d \in late'
         /\ step'[d] = "launched" => Live(d)'
         /\ owner'[d] = None => step'[d] \in {"none", "done"}
         /\ step'[d] \in {"none", "launched", "connecting"}
              => step[d] \in {"none", "launched", "connecting"}
<1>1. Live(d)' <=> Live(d)
  BY DEF Goes, Live
<1>2. owner[d] # None /\ ~ Stray(d)' => ~ Stray(d)
  <2>1. \A e \in Starts : step[e] # "launched" => step'[e] # "launched"
    BY DEF Goes, InProgress
  <2> QED BY <2>1, StrayStays DEF Goes
<1>3. step'[d] = "none" => owner'[d] = None
  BY DEF Goes, IInv, Stages, Stage, InProgress
<1>4. \A e \in Starts : step[e] # "none" => step'[e] # "none"
  BY DEF Goes, InProgress
<1>5. owner'[d] # None => step'[owner'[d]] # "none"
  BY <1>4 DEF Goes, IInv, Stages, Stage, ServiceTypeOK
<1>6. service' # None => step'[service'] # "none"
  BY <1>4 DEF Goes, IInv, Stages, ServiceTypeOK
<1>7. step'[d] \in InProgress => Live(d)' \/ d \in late'
  BY <1>1 DEF Goes, IInv, Stages, Stage
<1>8. step'[d] = "launched" => Live(d)'
  BY <1>1 DEF Goes, IInv, Stages, Stage, InProgress
<1>9. owner'[d] = None => step'[d] \in {"none", "done"}
  BY DEF Goes, IInv, Stages, Stage, InProgress
<1>10. step'[d] \in {"none", "launched", "connecting"}
         => step[d] \in {"none", "launched", "connecting"}
  BY DEF Goes, InProgress
<1> QED BY <1>1, <1>2, <1>3, <1>5, <1>6, <1>7, <1>8, <1>9, <1>10

(* In such a step nothing new is held.                                     *)
Frees ==
  /\ field' = field /\ links' \subseteq links
  /\ \A d \in Starts :
       /\ proxy'[d] # "none" => proxy[d] # "none"
       /\ proxy'[d] = "bridging" => proxy[d] = "bridging" /\ peer'[d] = peer[d]
       /\ rust'[d] # "none" => rust[d] # "none"

LEMMA FreesKeeps ==
  ASSUME IInv, ServiceTypeOK', Goes, Frees PROVE IInv'
<1>1. \A d \in Starts : Holds(d)' => Holds(d) /\ owner[d] # None
  BY DEF Frees, Holds, IInv, Stages, Stage
<1>2. Stages'
  <2>1. ASSUME NEW d \in Starts PROVE Stage(d)'
    <3>1. proxy'[d] = "bridging" => peer'[d] \in Starts /\ owner'[peer'[d]] # None
      BY DEF Frees, Goes, IInv, Stages, Stage
    <3>2. owner'[d] = owner[d]
      BY DEF Goes
    <3> QED BY <1>1, <3>1, <3>2, GoesOn DEF IInv, Stages, Stage
  <2>2. service' # None => step'[service'] # "none"
    BY GoesOn DEF IInv, ServiceTypeOK, Goes
  <2> QED BY <2>1, <2>2 DEF Stages
<1>3. InFields'
  <2> SUFFICES ASSUME NEW d \in Starts, ~ Stray(d)', Holds(d)'
               PROVE  /\ d \in links' => Live(d)' /\ field'.link = d
                      /\ proxy'[d] # "none" => Live(d)' /\ field'.proxy = d
                      /\ rust'[d] # "none" => Live(d)' /\ field'.rust = d
    BY DEF InFields, Holds
  <2>1. ~ Stray(d) /\ (Live(d)' <=> Live(d))
    BY <1>1, GoesOn
  <2> QED BY <2>1 DEF Frees, IInv, InFields
<1>4. OwnProcess'
  <2>1. \A d \in Starts : proxy'[d] = "bridging" =>
          /\ proxy[d] = "bridging" /\ peer'[d] = peer[d] /\ owner[d] # None
          /\ peer[d] \in Starts /\ owner[peer[d]] # None
    BY <1>1 DEF Frees, IInv, Stages, Stage, Holds
  <2> SUFFICES ASSUME NEW d \in Starts, NEW r \in Starts, r = peer'[d],
                      proxy'[d] = "bridging", ~ Stray(d)', ~ Stray(r)'
               PROVE  r = d
    BY <2>1 DEF OwnProcess
  <2>2. ~ Stray(d) /\ ~ Stray(r)
    BY <2>1, GoesOn
  <2> QED BY <2>1, <2>2 DEF IInv, OwnProcess
<1> QED BY <1>2, <1>3, <1>4 DEF IInv

LEMMA FreesSteps ==
  ASSUME IInv, NEW c \in Starts,
         \/ Begins(c) \/ LinkLost(c) \/ Listens(c) \/ BridgeEnds(c)
         \/ DialFails(c) \/ InitFails(c) \/ Serves(c)
         \/ (LinkFails(c) \/ ExtractFails(c)) /\ ~ Live(c)
  PROVE  IInv'
<1>1. CASE Begins(c)
  <2>1. ServiceTypeOK'
    BY <1>1 DEF Begins, IInv, ServiceTypeOK, InProgress
  <2>2. Goes /\ Frees
    BY <1>1 DEF Begins, Goes, Frees, IInv, ServiceTypeOK, InProgress
  <2> QED BY <2>1, <2>2, FreesKeeps
<1>2. CASE LinkLost(c)
  <2>1. ServiceTypeOK'
    BY <1>2 DEF LinkLost, IInv, ServiceTypeOK
  <2>2. Goes /\ Frees
    BY <1>2 DEF LinkLost, Goes, Frees
  <2> QED BY <2>1, <2>2, FreesKeeps
<1>3. CASE BridgeEnds(c)
  <2>1. ServiceTypeOK'
    BY <1>3 DEF BridgeEnds, IInv, ServiceTypeOK
  <2>2. Goes /\ Frees
    BY <1>3 DEF BridgeEnds, Goes, Frees, IInv, ServiceTypeOK
  <2> QED BY <2>1, <2>2, FreesKeeps
<1>7. CASE Listens(c)
  <2>1. ServiceTypeOK'
    BY <1>7 DEF Listens, IInv, ServiceTypeOK
  <2>2. Goes /\ Frees
    BY <1>7 DEF Listens, Goes, Frees, IInv, ServiceTypeOK
  <2> QED BY <2>1, <2>2, FreesKeeps
<1>4. CASE DialFails(c) \/ InitFails(c)
  <2>1. ServiceTypeOK'
    BY <1>4 DEF DialFails, InitFails, IInv, ServiceTypeOK
  <2>2. Goes /\ Frees
    BY <1>4 DEF DialFails, InitFails, Goes, Frees, IInv, ServiceTypeOK
  <2> QED BY <2>1, <2>2, FreesKeeps
<1>5. CASE Serves(c)
  <2>1. ServiceTypeOK'
    BY <1>5 DEF Serves, IInv, ServiceTypeOK
  <2>2. Goes /\ Frees
    BY <1>5 DEF Serves, Goes, Frees, IInv, ServiceTypeOK
  <2> QED BY <2>1, <2>2, FreesKeeps
<1>6. CASE (LinkFails(c) \/ ExtractFails(c)) /\ ~ Live(c)
  <2>1. /\ step[c] \in InProgress /\ step' = [step EXCEPT ![c] = "done"]
        /\ UNCHANGED <<service, owner, links, proxy, rust, peer, field, late>>
    BY <1>6 DEF LinkFails, ExtractFails, LogAndStop, InProgress
  <2>2. ServiceTypeOK'
    BY <2>1 DEF IInv, ServiceTypeOK, InProgress
  <2>3. Goes /\ Frees
    BY <2>1 DEF Goes, Frees, IInv, ServiceTypeOK, InProgress
  <2> QED BY <2>2, <2>3, FreesKeeps
<1> QED BY <1>1, <1>2, <1>3, <1>4, <1>5, <1>6, <1>7

(* The steps that take hold of something.                                  *)
LEMMA GoesKeeps ==
  ASSUME IInv, ServiceTypeOK', Goes, InFields', OwnProcess',
         \A d \in Starts : Holds(d)' =>
            owner[d] # None /\ step'[d] \notin {"none", "launched", "connecting"},
         \A d \in Starts : proxy'[d] = "bridging" =>
            peer'[d] \in Starts /\ owner[peer'[d]] # None
  PROVE  IInv'
<1>1. ASSUME NEW d \in Starts PROVE Stage(d)'
  <2>1. owner' = owner
    BY DEF Goes
  <2> QED BY <2>1, GoesOn DEF Stage
<1>2. service' # None => step'[service'] # "none"
  BY GoesOn DEF IInv, ServiceTypeOK, Goes
<1> QED BY <1>1, <1>2 DEF Stages, IInv

(* In a step that bridges nothing new, the processes stay where they are.  *)
LEMMA OwnProcessGoesOn ==
  ASSUME IInv, Goes, peer' = peer,
         \A d \in Starts : proxy'[d] = "bridging" => proxy[d] = "bridging"
  PROVE  /\ OwnProcess'
         /\ \A d \in Starts : proxy'[d] = "bridging" =>
               peer'[d] \in Starts /\ owner[peer'[d]] # None
<1>1. \A d \in Starts : proxy'[d] = "bridging" =>
        /\ proxy[d] = "bridging" /\ owner[d] # None
        /\ peer[d] \in Starts /\ owner[peer[d]] # None
  BY DEF IInv, Stages, Stage, Holds
<1> SUFFICES ASSUME NEW d \in Starts, NEW r \in Starts, r = peer[d],
                    proxy'[d] = "bridging", ~ Stray(d)', ~ Stray(r)'
             PROVE  r = d
  BY <1>1 DEF OwnProcess
<1>2. ~ Stray(d) /\ ~ Stray(r)
  BY <1>1, GoesOn
<1> QED BY <1>1, <1>2 DEF IInv, OwnProcess

(* Two starts of the instance in place whose connects have begun: each of  *)
(* them is stray.                                                          *)
LEMMA OtherIsStray ==
  ASSUME IInv, Goes, NEW c \in Starts, NEW d \in Starts, c # d,
         Live(c), Live(d), step[c] \in InProgress
  PROVE  Stray(d)'
<1>1. step[c] # "launched" /\ owner[d] # None
  BY DEF InProgress, Live
<1>2. Stray(d)
  BY <1>1, TwoLive
<1> QED BY <1>1, <1>2, GoesOn

LEMMA LinksKeeps ==
  ASSUME IInv, NEW c \in Starts, Links(c) PROVE IInv'
<1> USE StartsAreNumbers
<1>1. /\ step[c] = "connecting" /\ step' = [step EXCEPT ![c] = "linked"]
      /\ links = {} /\ links' = {c}
      /\ Live(c) => field' = [field EXCEPT !.link = c]
      /\ ~ Live(c) => field' = field
      /\ UNCHANGED <<service, owner, proxy, rust, peer, late>>
  BY DEF Links, Stores
<1>2. ServiceTypeOK'
  BY <1>1 DEF IInv, ServiceTypeOK, InProgress, Live
<1>3. Goes
  BY <1>1 DEF Goes, IInv, ServiceTypeOK, InProgress
<1>4. ~ Holds(c) /\ owner[c] # None /\ (Live(c) \/ c \in late)
  BY <1>1 DEF IInv, Stages, Stage, InProgress
<1>5. /\ field'.proxy = field.proxy /\ field'.rust = field.rust
      /\ Live(c) => field'.link = c
  BY <1>1 DEF IInv, ServiceTypeOK
<1>6. InFields'
  <2>1. ASSUME NEW d \in Starts, ~ Stray(d)'
        PROVE  /\ d \in links' => Live(d)' /\ field'.link = d
               /\ proxy'[d] # "none" => Live(d)' /\ field'.proxy = d
               /\ rust'[d] # "none" => Live(d)' /\ field'.rust = d
    <3>1. CASE d = c
      <4>1. c \notin late
        BY <2>1, <3>1, <1>1 DEF Stray
      <4>2. Live(c) /\ Live(c)'
        BY <4>1, <1>3, <1>4, GoesOn
      <4> QED BY <3>1, <4>2, <1>1, <1>4, <1>5 DEF Holds
    <3>2. CASE d # c
      <4>1. Holds(d)' => ~ Stray(d) /\ (Live(d)' <=> Live(d))
        BY <1>1, <1>3, <2>1, <3>2, GoesOn DEF IInv, Stages, Stage, Holds
      <4> QED BY <3>2, <4>1, <1>1, <1>5 DEF Holds, IInv, InFields
    <3> QED BY <3>1, <3>2
  <2> QED BY <2>1 DEF InFields
<1>7. \A d \in Starts : Holds(d)' =>
        owner[d] # None /\ step'[d] \notin {"none", "launched", "connecting"}
  BY <1>1, <1>4 DEF Holds, IInv, ServiceTypeOK, Stages, Stage
<1> QED BY <1>1, <1>2, <1>3, <1>6, <1>7, OwnProcessGoesOn, GoesKeeps

LEMMA StartsProxyKeeps ==
  ASSUME IInv, NEW c \in Starts, StartsProxy(c) PROVE IInv'
<1> USE StartsAreNumbers
<1>1. /\ step[c] = "linked" /\ step' = [step EXCEPT ![c] = "proxied"]
      /\ Live(c) => proxy' = [proxy EXCEPT ![c] = "binding"]
      /\ ~ Live(c) => proxy' = proxy
      /\ Live(c) => field' = [field EXCEPT !.proxy = c]
      /\ ~ Live(c) => field' = field
      /\ UNCHANGED <<service, owner, links, rust, peer, late>>
  BY DEF StartsProxy, Stores
<1>2. ServiceTypeOK'
  BY <1>1 DEF IInv, ServiceTypeOK, InProgress, Live
<1>3. Goes
  BY <1>1 DEF Goes, IInv, ServiceTypeOK, InProgress
<1>4. owner[c] # None /\ step[c] \in InProgress
  BY <1>1 DEF IInv, Stages, Stage, InProgress
<1>5. /\ field'.link = field.link /\ field'.rust = field.rust
      /\ Live(c) => field'.proxy = c
      /\ ~ Live(c) => field'.proxy = field.proxy
      /\ \A d \in Starts : d # c => proxy'[d] = proxy[d]
      /\ proxy'[c] = "binding" \/ proxy'[c] = proxy[c]
      /\ ~ Live(c) => proxy' = proxy
  BY <1>1 DEF IInv, ServiceTypeOK
<1>6. InFields'
  <2>1. ASSUME NEW d \in Starts, ~ Stray(d)', Holds(d)'
        PROVE  /\ d \in links' => Live(d)' /\ field'.link = d
               /\ proxy'[d] # "none" => Live(d)' /\ field'.proxy = d
               /\ rust'[d] # "none" => Live(d)' /\ field'.rust = d
    <3>1. owner[d] # None
      BY <2>1, <1>1, <1>4, <1>5 DEF Holds, IInv, Stages, Stage
    <3>2. ~ Stray(d) /\ (Live(d)' <=> Live(d))
      BY <2>1, <3>1, <1>3, GoesOn
    <3>3. CASE d = c
      BY <3>2, <3>3, <1>1, <1>5 DEF IInv, InFields
    <3>4. CASE d # c /\ ~ Live(c)
      BY <3>2, <3>4, <1>1, <1>5 DEF IInv, InFields
    <3>5. CASE d # c /\ Live(c)
      <4>1. ~ Live(d)
        BY <3>5, <2>1, <1>3, <1>4, OtherIsStray
      <4> QED BY <4>1, <3>2, <3>5, <1>1, <1>5 DEF IInv, InFields
    <3> QED BY <3>3, <3>4, <3>5
  <2> QED BY <2>1 DEF InFields, Holds
<1>7. \A d \in Starts : Holds(d)' =>
        owner[d] # None /\ step'[d] \notin {"none", "launched", "connecting"}
  <2>1. ASSUME NEW d \in Starts, d # c PROVE (Holds(d)' => Holds(d)) /\ step'[d] = step[d]
    BY <2>1, <1>1, <1>5 DEF Holds, IInv, ServiceTypeOK
  <2>2. step'[c] = "proxied"
    BY <1>1 DEF IInv, ServiceTypeOK
  <2> QED BY <2>1, <2>2, <1>4 DEF IInv, Stages, Stage
<1>8. \A d \in Starts : proxy'[d] = "bridging" => proxy[d] = "bridging"
  BY <1>5
<1> QED BY <1>1, <1>2, <1>3, <1>6, <1>7, <1>8, OwnProcessGoesOn, GoesKeeps

LEMMA LaunchRustKeeps ==
  ASSUME IInv, NEW c \in Starts, LaunchRust(c) PROVE IInv'
<1> USE StartsAreNumbers
<1>1. /\ step[c] = "proxied" /\ step' = [step EXCEPT ![c] = "done"]
      /\ rust' = [rust EXCEPT ![c] = "dialing"]
      /\ Live(c) => field' = [field EXCEPT !.rust = c]
      /\ ~ Live(c) => field' = field
      /\ UNCHANGED <<service, owner, links, proxy, peer, late>>
  BY DEF LaunchRust, Stores
<1>2. ServiceTypeOK'
  BY <1>1 DEF IInv, ServiceTypeOK, InProgress, Live
<1>3. Goes
  BY <1>1 DEF Goes, IInv, ServiceTypeOK, InProgress
<1>4. owner[c] # None /\ step[c] \in InProgress /\ (Live(c) \/ c \in late)
  BY <1>1 DEF IInv, Stages, Stage, InProgress
<1>5. /\ field'.link = field.link /\ field'.proxy = field.proxy
      /\ Live(c) => field'.rust = c
      /\ ~ Live(c) => field'.rust = field.rust
      /\ \A d \in Starts : d # c => rust'[d] = rust[d]
  BY <1>1 DEF IInv, ServiceTypeOK
<1>6. InFields'
  <2>1. ASSUME NEW d \in Starts, ~ Stray(d)', Holds(d)'
        PROVE  /\ d \in links' => Live(d)' /\ field'.link = d
               /\ proxy'[d] # "none" => Live(d)' /\ field'.proxy = d
               /\ rust'[d] # "none" => Live(d)' /\ field'.rust = d
    <3>1. owner[d] # None
      BY <2>1, <1>1, <1>4, <1>5 DEF Holds, IInv, Stages, Stage
    <3>2. ~ Stray(d) /\ (Live(d)' <=> Live(d))
      BY <2>1, <3>1, <1>3, GoesOn
    <3>3. CASE d = c
      <4>1. Live(c)
        BY <3>2, <3>3, <1>4 DEF Stray
      <4> QED BY <4>1, <3>2, <3>3, <1>1, <1>5 DEF IInv, InFields
    <3>4. CASE d # c /\ ~ Live(c)
      BY <3>2, <3>4, <1>1, <1>5 DEF IInv, InFields
    <3>5. CASE d # c /\ Live(c)
      <4>1. ~ Live(d)
        BY <3>5, <2>1, <1>3, <1>4, OtherIsStray
      <4> QED BY <4>1, <3>2, <3>5, <1>1, <1>5 DEF IInv, InFields
    <3> QED BY <3>3, <3>4, <3>5
  <2> QED BY <2>1 DEF InFields, Holds
<1>7. \A d \in Starts : Holds(d)' =>
        owner[d] # None /\ step'[d] \notin {"none", "launched", "connecting"}
  <2>1. ASSUME NEW d \in Starts, d # c PROVE (Holds(d)' => Holds(d)) /\ step'[d] = step[d]
    BY <2>1, <1>1, <1>5 DEF Holds, IInv, ServiceTypeOK
  <2>2. step'[c] = "done"
    BY <1>1 DEF IInv, ServiceTypeOK
  <2> QED BY <2>1, <2>2, <1>4 DEF IInv, Stages, Stage
<1> QED BY <1>1, <1>2, <1>3, <1>6, <1>7, OwnProcessGoesOn, GoesKeeps

LEMMA DialsKeeps ==
  ASSUME IInv, NEW r \in Starts, NEW c \in Starts, Dials(r, c) PROVE IInv'
<1> USE StartsAreNumbers
<1>1. /\ rust[r] = "dialing" /\ proxy[c] = "listening"
      /\ rust' = [rust EXCEPT ![r] = "init"]
      /\ proxy' = [proxy EXCEPT ![c] = "bridging"]
      /\ peer' = [peer EXCEPT ![c] = r]
      /\ UNCHANGED <<service, owner, step, links, field, late>>
  BY DEF Dials
<1>2. ServiceTypeOK'
  BY <1>1 DEF IInv, ServiceTypeOK
<1>3. Goes
  BY <1>1 DEF Goes
<1>4. /\ owner[r] # None /\ owner[c] # None
      /\ step[r] \notin {"none", "launched", "connecting"}
      /\ step[c] \notin {"none", "launched", "connecting"}
  BY <1>1 DEF IInv, Stages, Stage, Holds
<1>5. \A d \in Starts : /\ rust'[d] # "none" <=> rust[d] # "none"
                        /\ proxy'[d] # "none" <=> proxy[d] # "none"
                        /\ Live(d)' <=> Live(d)
                        /\ Stray(d)' <=> Stray(d)
                        /\ Holds(d)' <=> Holds(d)
  BY <1>1 DEF IInv, ServiceTypeOK, Live, Stray, Holds
<1>6. InFields'
  BY <1>1, <1>5 DEF IInv, InFields
<1>7. \A d \in Starts : Holds(d)' =>
        owner[d] # None /\ step'[d] \notin {"none", "launched", "connecting"}
  BY <1>1, <1>5 DEF IInv, Stages, Stage
<1>8. \A d \in Starts : proxy'[d] = "bridging" =>
        peer'[d] \in Starts /\ owner[peer'[d]] # None
  BY <1>1, <1>4 DEF IInv, ServiceTypeOK, Stages, Stage
<1>9. OwnProcess'
  <2>1. ASSUME NEW d \in Starts, NEW e \in Starts, d # c, e = peer[d],
               proxy'[d] = "bridging", ~ Stray(d)', ~ Stray(e)'
        PROVE  e = d
    <3>1. proxy[d] = "bridging"
      BY <2>1, <1>1 DEF IInv, ServiceTypeOK
    <3>2. ~ Stray(d) /\ ~ Stray(e)
      BY <2>1, <1>5
    <3> QED BY <2>1, <3>1, <3>2 DEF IInv, OwnProcess
  <2>2. ASSUME ~ Stray(c)', ~ Stray(r)' PROVE r = c
    <3>1. ~ Stray(c) /\ ~ Stray(r)
      BY <2>2, <1>5
    <3>2. Live(c) /\ Live(r)
      BY <3>1, <1>1 DEF IInv, InFields
    <3> QED BY <3>1, <3>2, <1>4, TwoLive
  <2>3. peer'[c] = r /\ \A d \in Starts : d # c => peer'[d] = peer[d]
    BY <1>1 DEF IInv, ServiceTypeOK
  <2>4. ASSUME NEW d \in Starts, NEW e \in Starts, e = peer'[d],
               proxy'[d] = "bridging", ~ Stray(d)', ~ Stray(e)'
        PROVE  e = d
    BY <2>1, <2>2, <2>3, <2>4
  <2> QED BY <2>4, <1>8 DEF OwnProcess
<1> QED BY <1>2, <1>3, <1>6, <1>7, <1>8, <1>9, GoesKeeps

-----------------------------------------------------------------------------
(* onDestroy takes all that a start holds which is not stray: the fields   *)
(* have it.                                                                *)
LEMMA DestroyKeeps ==
  ASSUME IInv, NEW now \in [Starts -> InProgress \cup {"none", "launched", "done"}],
         \A d \in Starts : \/ now[d] = step[d]
                           \/ Live(d) /\ step[d] \in InProgress /\ now[d] = "done",
         DestroyService(now)
  PROVE  IInv'
<1> USE StartsAreNumbers
<1>0. PICK sees \in BOOLEAN :
           /\ service' = None /\ field' = NoFields /\ owner' = owner
           /\ step' = [c \in Starts |->
                IF Live(c) /\ now[c] = "launched" THEN "done" ELSE now[c]]
           /\ late' = late \cup {c \in Starts : Live(c) /\ Escapes(c, now, sees)}
           /\ rust' = [c \in Starts |-> IF c = field.rust THEN "none" ELSE rust[c]]
           /\ proxy' = [c \in Starts |-> IF Stopped(c, sees) THEN "none" ELSE proxy[c]]
           /\ links' = links \ {field.link}
           /\ peer' = [c \in Starts |-> IF Stopped(c, sees) THEN None ELSE peer[c]]
  BY DEF DestroyService
<1>1. /\ service' = None /\ field' = NoFields /\ owner' = owner
      /\ \A d \in Starts : step'[d] =
           IF Live(d) /\ now[d] = "launched" THEN "done" ELSE now[d]
      /\ late' = late \cup {d \in Starts : Live(d) /\ Escapes(d, now, sees)}
      /\ links' = links \ {field.link}
      /\ \A d \in Starts :
           /\ rust'[d] = IF d = field.rust THEN "none" ELSE rust[d]
           /\ proxy'[d] = IF Stopped(d, sees) THEN "none" ELSE proxy[d]
           /\ peer'[d] = IF Stopped(d, sees) THEN None ELSE peer[d]
  BY <1>0
<1>2. ServiceTypeOK'
  <2>1. /\ step' \in [Starts -> InProgress \cup {"none", "launched", "done"}]
        /\ rust' \in [Starts -> {"none", "dialing", "init", "serving"}]
        /\ proxy' \in [Starts -> {"none", "binding", "listening", "bridging"}]
        /\ peer' \in [Starts -> Starts \cup {None}]
    BY <1>0 DEF IInv, ServiceTypeOK
  <2>2. NoFields \in [{"link", "proxy", "rust"} -> Starts \cup {None}]
    BY DEF NoFields
  <2>3. late' \subseteq Starts /\ links' \subseteq Starts
    BY <1>1 DEF IInv, ServiceTypeOK
  <2>4. /\ service' \in Starts \cup {None} /\ owner' \in [Starts -> Starts \cup {None}]
        /\ field' \in [{"link", "proxy", "rust"} -> Starts \cup {None}]
        /\ field' = NoFields
    BY <1>1, <2>2 DEF IInv, ServiceTypeOK
  <2> QED BY <2>1, <2>3, <2>4 DEF ServiceTypeOK
<1>3. \A d \in Starts : Holds(d)' => Holds(d) /\ owner[d] # None
  BY <1>1 DEF Holds, IInv, Stages, Stage
<1>4. ASSUME NEW d \in Starts, Holds(d)' PROVE Stray(d)'
  <2>1. CASE Stray(d)
    <3>1. \A e \in Starts : step[e] # "launched" => step'[e] # "launched"
      BY <1>1 DEF InProgress
    <3> QED BY <2>1, <3>1, <1>1, <1>3, <1>4, StrayStays
  <2>2. CASE ~ Stray(d)
    <3>1. Live(d) /\ Unseen(d, sees)
      BY <2>2, <1>1, <1>4 DEF IInv, InFields, Holds, Stopped
    <3>2. d \in late'
      BY <3>1, <1>1 DEF Escapes
    <3> QED BY <3>2 DEF Stray
  <2> QED BY <2>1, <2>2
<1>5. Stages'
  <2>1. ASSUME NEW d \in Starts PROVE Stage(d)'
    <3>1. step'[d] = "none" => step[d] = "none"
      BY <1>1 DEF InProgress
    <3>2. \A e \in Starts : step[e] # "none" => step'[e] # "none"
      BY <1>1 DEF InProgress
    <3>3. owner'[d] # None => step'[owner'[d]] # "none"
      <4>1. owner'[d] = owner[d] /\ owner[d] \in Starts \cup {None}
        BY <1>1 DEF IInv, ServiceTypeOK
      <4>2. owner[d] # None => step[owner[d]] # "none"
        BY DEF IInv, Stages, Stage
      <4> QED BY <4>1, <4>2, <3>2
    <3>4. owner[d] = None => ~ Holds(d)' /\ step'[d] \in {"none", "done"}
      BY <1>1, <1>3 DEF IInv, Stages, Stage, Live, InProgress
    <3>5. step'[d] # "launched"
      BY <1>1 DEF IInv, Stages, Stage, InProgress
    <3>6. step'[d] \in InProgress => d \in late'
      BY <1>1 DEF Escapes, IInv, Stages, Stage, InProgress
    <3>7. step'[d] \in {"none", "connecting"} => ~ Holds(d)'
      BY <1>1, <1>3 DEF IInv, Stages, Stage, InProgress
    <3>8. proxy'[d] = "bridging" => peer'[d] \in Starts /\ owner'[peer'[d]] # None
      BY <1>1 DEF IInv, Stages, Stage
    <3> QED BY <1>1, <3>1, <3>3, <3>4, <3>5, <3>6, <3>7, <3>8 DEF Stage, IInv, Stages
  <2> QED BY <1>1, <2>1 DEF Stages
<1>6. InFields'
  BY <1>4 DEF InFields, Holds
<1>7. OwnProcess'
  BY <1>4 DEF OwnProcess, Holds
<1> QED BY <1>2, <1>5, <1>6, <1>7 DEF IInv

LEMMA DestroySteps ==
  ASSUME IInv,
         \/ StopService
         \/ \E c \in Starts : (LinkFails(c) \/ ExtractFails(c)) /\ Live(c)
  PROVE  IInv'
<1>1. CASE StopService /\ service = None
  BY <1>1 DEF StopService, svars, IInv, ServiceTypeOK, Stages, Stage, InFields, OwnProcess,
              Live, Stray, Holds
<1>2. CASE StopService /\ service # None
  <2>1. DestroyService(step)
    BY <1>2 DEF StopService
  <2>2. step \in [Starts -> InProgress \cup {"none", "launched", "done"}]
    BY DEF IInv, ServiceTypeOK
  <2> QED BY <2>1, <2>2, DestroyKeeps
<1>3. ASSUME NEW c \in Starts, LinkFails(c) \/ ExtractFails(c), Live(c) PROVE IInv'
  <2> DEFINE ended == [step EXCEPT ![c] = "done"]
  <2>1. step[c] \in InProgress /\ DestroyService(ended)
    BY <1>3 DEF LinkFails, ExtractFails, LogAndStop, InProgress
  <2>2. ended \in [Starts -> InProgress \cup {"none", "launched", "done"}]
    BY DEF IInv, ServiceTypeOK
  <2>3. \A d \in Starts : \/ ended[d] = step[d]
                          \/ Live(d) /\ step[d] \in InProgress /\ ended[d] = "done"
    BY <1>3, <2>1 DEF IInv, ServiceTypeOK
  <2> HIDE DEF ended
  <2> QED BY <2>1, <2>2, <2>3, DestroyKeeps
<1> QED BY <1>1, <1>2, <1>3

LEMMA DiesKeeps == ASSUME IInv, ServiceDies PROVE IInv'
BY StartsAreNumbers
   DEF ServiceDies, IInv, ServiceTypeOK, Stages, Stage, InFields, OwnProcess, NoFields,
       InProgress, Live, Stray, Holds

-----------------------------------------------------------------------------
(* What any step of the app does to the service.                           *)
LEMMA ServiceChanges ==
  ASSUME [Next]_vars
  PROVE  \/ UNCHANGED svars \/ StopService \/ ServiceDies
         \/ \E c \in Starts : StartService(c) \/ Connect(c) \/ Beside(c)
<1>1. CASE UNCHANGED vars
  BY <1>1 DEF vars
<1>2. CASE User
  BY <1>2 DEF User, FirstLaunch, Launch, Picks, Create, Leaves, Answers, Quits,
              FileOpens, FileCloses
<1>3. CASE AppDies
  BY <1>3 DEF AppDies
<1>4. ASSUME NEW a \in Starts, Destroyed(a) \/ WebView(a) \/ ServiceStep(a)
      PROVE  \/ UNCHANGED svars \/ StopService
             \/ \E c \in Starts : Connect(c) \/ Beside(c)
  BY <1>4 DEF Destroyed, WebView, Loads, LoadEnds, OnReceivedError, ServiceStep
<1>5. CASE \E p \in Pages : PageStep(p)
  BY <1>5 DEF PageStep
<1> QED BY <1>1, <1>2, <1>3, <1>4, <1>5 DEF Next

LEMMA StepKeeps == ASSUME IInv, [Next]_vars PROVE IInv'
<1>1. CASE UNCHANGED svars
  BY <1>1 DEF svars, IInv, ServiceTypeOK, Stages, Stage, InFields, OwnProcess, Live, Stray,
              Holds
<1>2. CASE StopService
  BY <1>2, DestroySteps
<1>3. CASE ServiceDies
  BY <1>3, DiesKeeps
<1>4. ASSUME NEW c \in Starts, StartService(c) PROVE IInv'
  BY <1>4, StartKeeps
<1>5. ASSUME NEW c \in Starts, Connect(c) PROVE IInv'
  <2>1. CASE Begins(c)
    BY <2>1, FreesSteps
  <2>2. CASE Links(c)
    BY <2>2, LinksKeeps
  <2>3. CASE LinkFails(c) \/ ExtractFails(c)
    BY <2>3, FreesSteps, DestroySteps
  <2>4. CASE StartsProxy(c)
    BY <2>4, StartsProxyKeeps
  <2>5. CASE LaunchRust(c)
    BY <2>5, LaunchRustKeeps
  <2> QED BY <1>5, <2>1, <2>2, <2>3, <2>4, <2>5 DEF Connect
<1>6. ASSUME NEW c \in Starts, Beside(c) PROVE IInv'
  BY <1>6, FreesSteps, DialsKeeps DEF Beside
<1> QED BY <1>1, <1>2, <1>3, <1>4, <1>5, <1>6, ServiceChanges

(* However starts, stops, failures and deaths of the app interleave, the   *)
(* service leaves behind only what it had lost sight of (onDestroy), and   *)
(* but for that a proxy bridges the process of its own start (launchRust,  *)
(* acceptLoop).                                                            *)
THEOREM ServiceSafe == Spec => [](NothingLeft /\ OwnProcess)
<1>1. Init => IInv
  BY InitIInv DEF Init
<1>2. IInv /\ [Next]_vars => IInv'
  BY StepKeeps
<1>3. IInv => NothingLeft /\ OwnProcess
  BY NothingLeftOfInFields DEF IInv
<1> QED BY <1>1, <1>2, <1>3, PTL DEF Spec

-----------------------------------------------------------------------------
LoadTypes ==
  /\ activity \in [Starts -> {"none", "shown", "left", "gone"}]
  /\ delays \in [Starts -> Nat]
  /\ view \in [Starts -> {"blank", "loading", "error", "page"}]

LoadInv == LoadTypes /\ OneLoad

(* Only the two launches, the end of an activity, the death of the app and *)
(* the WebView touch a load.                                               *)
LEMMA LoadKeeps == ASSUME LoadInv, [Next]_vars PROVE LoadInv'
<1> USE DEF LoadInv, LoadTypes, OneLoad, Alive
<1>1. ASSUME NEW a \in Starts, Create(a) PROVE LoadInv'
  BY <1>1 DEF Create
<1>2. ASSUME NEW a \in Starts, Leaves(a) PROVE LoadInv'
  BY <1>2 DEF Leaves
<1>3. ASSUME NEW a \in Starts, Destroyed(a) PROVE LoadInv'
  BY <1>3 DEF Destroyed
<1>4. ASSUME NEW a \in Starts, Loads(a) PROVE LoadInv'
  <2>1. delays[a] \in Nat /\ delays[a] > 0
    BY <1>4 DEF Loads
  <2>2. /\ delays' = [delays EXCEPT ![a] = delays[a] - 1]
        /\ view' = [view EXCEPT ![a] = "loading"] /\ activity' = activity
    BY <1>4 DEF Loads
  <2>3. LoadTypes'
    BY <2>1, <2>2
  <2> QED BY <2>1, <2>2, <2>3
<1>5. ASSUME NEW a \in Starts, LoadEnds(a) PROVE LoadInv'
  BY <1>5 DEF LoadEnds
<1>6. ASSUME NEW a \in Starts, OnReceivedError(a) PROVE LoadInv'
  BY <1>6 DEF OnReceivedError
<1>7. CASE AppDies
  BY <1>7 DEF AppDies
<1>8. CASE UNCHANGED <<activity, delays, view>>
  BY <1>8
<1>9. CASE User
  BY <1>9, <1>1, <1>2, <1>8
     DEF User, FirstLaunch, Launch, Picks, Answers, Quits, FileOpens, FileCloses, avars
<1>10. ASSUME NEW a \in Starts, Destroyed(a) \/ WebView(a) \/ ServiceStep(a)
       PROVE  LoadInv'
  BY <1>10, <1>3, <1>4, <1>5, <1>6, <1>8 DEF WebView, ServiceStep, avars
<1>11. CASE (\E p \in Pages : PageStep(p)) \/ UNCHANGED vars
  BY <1>11, <1>8 DEF PageStep, vars, avars
<1> QED BY <1>7, <1>9, <1>10, <1>11 DEF Next

(* The delayed call of onCreate and those of onReceivedError never run     *)
(* beside each other: an activity has one way to its page.                 *)
THEOREM LoadsOneAtATime == Spec => []OneLoad
<1>1. Init => LoadInv
  BY DEF Init, LoadInv, LoadTypes, OneLoad, Alive
<1>2. LoadInv /\ [Next]_vars => LoadInv'
  BY LoadKeeps
<1>3. LoadInv => OneLoad
  BY DEF LoadInv
<1> QED BY <1>1, <1>2, <1>3, PTL DEF Spec

-----------------------------------------------------------------------------
Idle(p) == \A s \in Sockets : sockets[p][s] = "none"

(* The one socket of a page that is not idle.                              *)
Busy(p, s) ==
  sockets[p][s] # "none" /\ \A r \in Sockets \ {s} : sockets[p][r] = "none"

Pursuit(p) ==
  /\ reconnectTimer[p] \subseteq timers[p]
  /\ p \notin running => timers[p] = {} /\ Idle(p)
  /\ p \in running =>
       \/ Idle(p) /\ \E t \in Timers : timers[p] = {t}
       \/ timers[p] = {} /\ \E s \in Sockets : Busy(p, s)

PageTypes ==
  /\ running \subseteq Pages
  /\ timers \in [Pages -> SUBSET Timers]
  /\ reconnectTimer \in [Pages -> SUBSET Timers]
  /\ sockets \in [Pages -> [Sockets -> {"none", "connecting", "open", "broken"}]]

Pursuits == PageTypes /\ \A p \in Pages : Pursuit(p)

LEMMA PursuitCounts ==
  ASSUME PageTypes, NEW p \in Pages, Pursuit(p)
  PROVE  /\ Cardinality(reconnectTimer[p]) <= 1
         /\ p \in running =>
              Cardinality(timers[p])
                + Cardinality({s \in Sockets : sockets[p][s] # "none"}) = 1
<1> DEFINE busy == {s \in Sockets : sockets[p][s] # "none"}
<1>1. Cardinality({}) = 0 /\ \A x : Cardinality({x}) = 1
  BY FS_EmptySet, FS_Singleton
<1>2. CASE timers[p] = {}
  <2>1. Cardinality(reconnectTimer[p]) = 0
    BY <1>1, <1>2 DEF Pursuit
  <2>2. p \in running => \E s \in Sockets : busy = {s}
    BY <1>2 DEF Pursuit, Busy
  <2> HIDE DEF busy
  <2>3. p \in running => Cardinality(busy) = 1
    BY <1>1, <2>2
  <2>4. Cardinality(timers[p]) = 0
    BY <1>1, <1>2
  <2> QED BY <2>1, <2>3, <2>4 DEF busy
<1>3. CASE timers[p] # {}
  <2>1. PICK t \in Timers : timers[p] = {t}
    BY <1>3 DEF Pursuit
  <2>2. busy = {}
    BY <1>3 DEF Pursuit, Idle
  <2>3. reconnectTimer[p] = {} \/ reconnectTimer[p] = {t}
    BY <2>1 DEF Pursuit
  <2> HIDE DEF busy
  <2>4. Cardinality(busy) = 0 /\ Cardinality(timers[p]) = 1
    BY <1>1, <2>1, <2>2
  <2>5. Cardinality(reconnectTimer[p]) \in {0, 1}
    BY <1>1, <2>3
  <2> QED BY <2>4, <2>5 DEF busy
<1> QED BY <1>2, <1>3

LEMMA FreeTimer ==
  ASSUME PageTypes, NEW p \in Pages, timers[p] # Timers
  PROVE  NewTimer(p) \in Timers
BY DEF PageTypes, NewTimer

(* A page whose variables do not change is where it was.                   *)
LEMMA PursuitStays ==
  ASSUME NEW p, Pursuit(p), p \in running' <=> p \in running,
         timers'[p] = timers[p], reconnectTimer'[p] = reconnectTimer[p],
         sockets'[p] = sockets[p]
  PROVE  Pursuit(p)'
BY DEF Pursuit, Idle, Busy

LEMMA OpensKeeps ==
  ASSUME Pursuits, NEW p \in Pages, Opens(p)
  PROVE  Pursuits'
<1>1. PageTypes /\ Pursuit(p) /\ p \notin running
  BY DEF Pursuits, Opens
<1>2. timers[p] = {} /\ timers[p] # Timers
  BY <1>1, TimerAssumption DEF Pursuit
<1>3. NewTimer(p) \in Timers
  BY <1>1, <1>2, FreeTimer
<1>4. /\ running' = running \cup {p}
      /\ timers' = [timers EXCEPT ![p] = {NewTimer(p)}]
      /\ reconnectTimer' = [reconnectTimer EXCEPT ![p] = {}]
      /\ sockets' = [sockets EXCEPT ![p] = NoSocket]
  BY DEF Opens
<1>5. NoSocket \in [Sockets -> {"none", "connecting", "open", "broken"}]
      /\ \A s \in Sockets : NoSocket[s] = "none"
  BY DEF NoSocket
<1> HIDE DEF NoSocket, NewTimer
<1>6. PageTypes'
  BY <1>1, <1>3, <1>4, <1>5 DEF PageTypes
<1>7. timers'[p] = {NewTimer(p)} /\ reconnectTimer'[p] = {} /\ sockets'[p] = NoSocket
  BY <1>1, <1>4 DEF PageTypes
<1>8. Pursuit(p)'
  BY <1>3, <1>4, <1>5, <1>7 DEF Pursuit, Idle
<1>9. ASSUME NEW q \in Pages, q # p PROVE Pursuit(q)'
  <2>1. /\ q \in running' <=> q \in running
        /\ timers'[q] = timers[q] /\ reconnectTimer'[q] = reconnectTimer[q]
        /\ sockets'[q] = sockets[q]
    BY <1>1, <1>4, <1>9 DEF PageTypes
  <2> QED BY <2>1, PursuitStays DEF Pursuits
<1> QED BY <1>6, <1>8, <1>9 DEF Pursuits

LEMMA LosesKeeps ==
  ASSUME Pursuits, NEW closed, NEW gone \in BOOLEAN, Loses(closed, gone)
  PROVE  Pursuits'
<1> DEFINE broken(p) == [s \in Sockets |->
                           IF sockets[p][s] = "open" THEN "broken" ELSE sockets[p][s]]
<1>1. /\ running' = running \ closed
      /\ timers' = [p \in Pages |-> IF p \in closed THEN {} ELSE timers[p]]
      /\ reconnectTimer' = [p \in Pages |-> IF p \in closed THEN {} ELSE reconnectTimer[p]]
      /\ sockets' = [p \in Pages |-> IF p \in closed THEN NoSocket
                                     ELSE IF gone THEN broken(p) ELSE sockets[p]]
  BY DEF Loses
<1>2. PageTypes
  BY DEF Pursuits
<1>3. NoSocket \in [Sockets -> {"none", "connecting", "open", "broken"}]
      /\ \A s \in Sockets : NoSocket[s] = "none"
  BY DEF NoSocket
<1>4. ASSUME NEW p \in Pages
      PROVE  /\ broken(p) \in [Sockets -> {"none", "connecting", "open", "broken"}]
             /\ \A s \in Sockets : broken(p)[s] = "none" <=> sockets[p][s] = "none"
  BY <1>2 DEF PageTypes
<1> HIDE DEF broken, NoSocket
<1>5. PageTypes'
  BY <1>1, <1>2, <1>3, <1>4 DEF PageTypes
<1>6. ASSUME NEW p \in Pages PROVE Pursuit(p)'
  <2>1. CASE p \in closed
    <3>1. p \notin running' /\ timers'[p] = {} /\ reconnectTimer'[p] = {}
          /\ sockets'[p] = NoSocket
      BY <1>1, <2>1
    <3> QED BY <3>1, <1>3 DEF Pursuit, Idle
  <2>2. CASE p \notin closed
    <3>1. (p \in running' <=> p \in running) /\ timers'[p] = timers[p]
          /\ reconnectTimer'[p] = reconnectTimer[p]
      BY <1>1, <2>2
    <3>2. \A s \in Sockets : sockets'[p][s] = "none" <=> sockets[p][s] = "none"
      BY <1>1, <1>4, <2>2
    <3>3. Pursuit(p)
      BY DEF Pursuits
    <3> QED BY <3>1, <3>2, <3>3 DEF Pursuit, Idle, Busy
  <2> QED BY <2>1, <2>2
<1> QED BY <1>5, <1>6 DEF Pursuits

(* A step of one page: only its own variables change.                      *)
LEMMA PageOnly ==
  ASSUME Pursuits, PageTypes', NEW p \in Pages, Pursuit(p)', running' = running,
         \A q \in Pages \ {p} : /\ timers'[q] = timers[q]
                                /\ reconnectTimer'[q] = reconnectTimer[q]
                                /\ sockets'[q] = sockets[q]
  PROVE  Pursuits'
<1>1. ASSUME NEW q \in Pages, q # p PROVE Pursuit(q)'
  BY <1>1, PursuitStays DEF Pursuits
<1> QED BY <1>1 DEF Pursuits

LEMMA FiresKeeps ==
  ASSUME Pursuits, NEW p \in Pages, NEW t \in Timers, Fires(p, t)
  PROVE  Pursuits'
<1>1. PageTypes /\ Pursuit(p) /\ t \in timers[p]
  BY DEF Pursuits, Fires
<1>2. p \in running /\ timers[p] = {t} /\ Idle(p)
  BY <1>1 DEF Pursuit
<1>3. PICK s \in Sockets : s = NewSocket(p)
  BY DEF Fires, NewSocket
<1>4. /\ timers' = [timers EXCEPT ![p] = timers[p] \ {t}]
      /\ reconnectTimer' = [reconnectTimer EXCEPT ![p] = reconnectTimer[p] \ {t}]
      /\ sockets' = [sockets EXCEPT ![p][s] = "connecting"]
      /\ running' = running
  BY <1>3 DEF Fires
<1>5. PageTypes'
  BY <1>1, <1>3, <1>4 DEF PageTypes
<1>6. /\ timers'[p] = {} /\ reconnectTimer'[p] = {}
      /\ sockets'[p] = [sockets[p] EXCEPT ![s] = "connecting"]
  BY <1>1, <1>2, <1>4 DEF PageTypes, Pursuit
<1>7. Busy(p, s)'
  BY <1>1, <1>2, <1>3, <1>6 DEF PageTypes, Busy, Idle
<1>8. Pursuit(p)'
  BY <1>2, <1>3, <1>4, <1>6, <1>7 DEF Pursuit
<1> QED BY <1>1, <1>4, <1>5, <1>8, PageOnly DEF PageTypes

LEMMA OnOpenKeeps ==
  ASSUME Pursuits, NEW p \in Pages, NEW s \in Sockets, NEW serving, OnOpen(p, s, serving)
  PROVE  Pursuits'
<1>1. PageTypes /\ Pursuit(p) /\ sockets[p][s] = "connecting"
  BY DEF Pursuits, OnOpen
<1>2. p \in running /\ timers[p] = {} /\ Busy(p, s)
  BY <1>1 DEF Pursuit, Idle, Busy
<1>3. /\ timers' = [timers EXCEPT ![p] = timers[p] \ reconnectTimer[p]]
      /\ reconnectTimer' = [reconnectTimer EXCEPT ![p] = {}]
      /\ sockets' = [sockets EXCEPT ![p][s] = "open"]
      /\ running' = running
  BY DEF OnOpen
<1>4. PageTypes'
  BY <1>1, <1>3 DEF PageTypes
<1>5. /\ timers'[p] = {} /\ reconnectTimer'[p] = {}
      /\ sockets'[p] = [sockets[p] EXCEPT ![s] = "open"]
  BY <1>1, <1>2, <1>3 DEF PageTypes
<1>6. Busy(p, s)'
  BY <1>1, <1>2, <1>5 DEF PageTypes, Busy
<1>7. Pursuit(p)'
  BY <1>2, <1>3, <1>5, <1>6 DEF Pursuit
<1> QED BY <1>1, <1>3, <1>4, <1>7, PageOnly DEF PageTypes

LEMMA OnCloseKeeps ==
  ASSUME Pursuits, NEW p \in Pages, NEW s \in Sockets, sockets[p][s] # "none", OnClose(p, s)
  PROVE  Pursuits'
<1>1. PageTypes /\ Pursuit(p) /\ timers[p] # Timers
  BY DEF Pursuits, OnClose
<1>2. p \in running /\ timers[p] = {} /\ Busy(p, s)
  BY <1>1 DEF Pursuit, Idle, Busy
<1>3. NewTimer(p) \in Timers
  BY <1>1, FreeTimer
<1>4. /\ timers' = [timers EXCEPT ![p] = timers[p] \cup {NewTimer(p)}]
      /\ reconnectTimer' = [reconnectTimer EXCEPT ![p] = {NewTimer(p)}]
      /\ sockets' = [sockets EXCEPT ![p][s] = "none"]
      /\ running' = running
  BY DEF OnClose
<1> HIDE DEF NewTimer
<1>5. PageTypes'
  BY <1>1, <1>3, <1>4 DEF PageTypes
<1>6. /\ timers'[p] = {NewTimer(p)} /\ reconnectTimer'[p] = {NewTimer(p)}
      /\ sockets'[p] = [sockets[p] EXCEPT ![s] = "none"]
  BY <1>1, <1>2, <1>4 DEF PageTypes
<1>7. Idle(p)'
  BY <1>1, <1>2, <1>6 DEF PageTypes, Busy, Idle
<1>8. Pursuit(p)'
  BY <1>2, <1>3, <1>4, <1>6, <1>7 DEF Pursuit
<1> QED BY <1>1, <1>4, <1>5, <1>8, PageOnly DEF PageTypes

LEMMA PageStepKeeps ==
  ASSUME Pursuits, NEW p \in Pages, PageStep(p)
  PROVE  Pursuits'
<1>1. ASSUME NEW t \in Timers, Fires(p, t) PROVE Pursuits'
  BY <1>1, FiresKeeps
<1>2. ASSUME NEW s \in Sockets, OnOpen(p, s, Serving) PROVE Pursuits'
  BY <1>2, OnOpenKeeps
<1>3. ASSUME NEW s \in Sockets, OnError(p, s, Serving) \/ OnBroken(p, s) PROVE Pursuits'
  BY <1>3, OnCloseKeeps DEF OnError, OnBroken
<1> QED BY <1>1, <1>2, <1>3 DEF PageStep, Pursues

(* What any step of the app does to the pages.                             *)
LEMMA PageChanges ==
  ASSUME [Next]_vars
  PROVE  \/ UNCHANGED pvars
         \/ \E closed : \E gone \in BOOLEAN : Loses(closed, gone)
         \/ \E p \in Pages : Opens(p) \/ PageStep(p)
<1>1. FilePages \subseteq Pages /\ Starts \subseteq Pages
  BY AppAssumption
<1>2. (Serving /\ ~ Serving') \in BOOLEAN /\ TRUE \in BOOLEAN /\ FALSE \in BOOLEAN
  OBVIOUS
<1>3. CASE UNCHANGED vars
  BY <1>3 DEF vars
<1>4. CASE User
  BY <1>1, <1>2, <1>4, Zenon
     DEF User, FirstLaunch, Launch, Picks, Create, Leaves, Answers, Quits, FileOpens, FileCloses
<1>5. CASE AppDies
  BY <1>2, <1>5 DEF AppDies
<1>6. ASSUME NEW a \in Starts, Destroyed(a) \/ ServiceStep(a)
      PROVE  \E closed : \E gone \in BOOLEAN : Loses(closed, gone)
  BY <1>2, <1>6, Zenon DEF Destroyed, ServiceStep
<1>7. ASSUME NEW a \in Starts, WebView(a)
      PROVE  UNCHANGED pvars \/ \E p \in Pages : Opens(p)
  BY <1>1, <1>7, Zenon DEF WebView, Loads, LoadEnds, OnReceivedError
<1>8. CASE \E p \in Pages : PageStep(p)
  BY <1>8
<1> QED BY <1>3, <1>4, <1>5, <1>6, <1>7, <1>8 DEF Next

LEMMA PursuitsKeep == ASSUME Pursuits, [Next]_vars PROVE Pursuits'
<1>1. CASE UNCHANGED pvars
  BY <1>1 DEF pvars, Pursuits, PageTypes, Pursuit, Idle, Busy
<1> QED BY <1>1, PageChanges, LosesKeeps, OpensKeeps, PageStepKeeps

LEMMA InitPursuits == ASSUME DashboardInit PROVE Pursuits
BY DEF DashboardInit, NoSocket, Pursuits, PageTypes, Pursuit, Idle

LEMMA AlwaysPursuits == Spec => []Pursuits
<1>1. Init => Pursuits
  BY InitPursuits DEF Init
<1> QED BY <1>1, PursuitsKeep, PTL DEF Spec

(* Whatever opens, fails, is refused, closes or dies, a page has one timer *)
(* or one socket and never both: it neither gives up nor multiplies its    *)
(* connections (index.html, ll. 384-422).                                  *)
THEOREM PursuesOnce == Spec => []OnePursuit
<1>1. Pursuits => OnePursuit
  BY PursuitCounts DEF Pursuits, PageTypes, OnePursuit
<1> QED BY <1>1, AlwaysPursuits, PTL

-----------------------------------------------------------------------------
UserTypes ==
  /\ saved \in BOOLEAN /\ granted \in BOOLEAN
  /\ picker \in {"closed", "asking", "listing"}

(* What is not alive neither loads nor shows; a page is shown where its    *)
(* script runs.                                                            *)
Shown(a) ==
  /\ ~ Alive(a) => delays[a] = 0 /\ view[a] = "blank"
  /\ view[a] = "page" <=> a \in running

ViewInv == LoadInv /\ UserTypes /\ \A a \in Starts : Shown(a)

(* Where neither the activities, the loads nor the pages served change.    *)
LEMMA ShownStays ==
  ASSUME NEW a, Shown(a), activity'[a] = activity[a], delays'[a] = delays[a],
         view'[a] = view[a], a \in running' <=> a \in running
  PROVE  Shown(a)'
BY DEF Shown, Alive

LEMMA CreateShows ==
  ASSUME ViewInv, NEW a \in Starts, IsNext(a), Create(a)
  PROVE  \A b \in Starts : Shown(b)'
<1>1. LoadTypes /\ \A b \in Starts : Shown(b)
  BY DEF ViewInv, LoadInv
<1>2. a \notin running /\ running' = running
  BY <1>1 DEF IsNext, Shown, Alive, Create, pvars
<1>3. /\ activity'[a] = "shown" /\ view'[a] = "blank"
      /\ \A b \in Starts \ {a} : /\ activity'[b] = activity[b] /\ delays'[b] = delays[b]
                                 /\ view'[b] = view[b]
  BY <1>1 DEF Create, LoadTypes
<1>4. Shown(a)'
  BY <1>2, <1>3 DEF Shown, Alive
<1>5. ASSUME NEW b \in Starts \ {a} PROVE Shown(b)'
  BY <1>1, <1>2, <1>3, ShownStays
<1> QED BY <1>4, <1>5

LEMMA LoadsShow ==
  ASSUME ViewInv, NEW a \in Starts, Loads(a) \/ LoadEnds(a) \/ OnReceivedError(a)
  PROVE  \A b \in Starts : Shown(b)'
<1>1. LoadTypes /\ OneLoad /\ \A b \in Starts : Shown(b)
  BY DEF ViewInv, LoadInv
<1>2. activity' = activity
  BY DEF Loads, LoadEnds, OnReceivedError
<1>3. \A b \in Starts \ {a} :
        delays'[b] = delays[b] /\ view'[b] = view[b] /\ (b \in running' <=> b \in running)
  BY <1>1 DEF LoadTypes, Loads, LoadEnds, OnReceivedError, Opens, pvars
<1>4. Alive(a)
  <2>1. delays[a] # 0 \/ view[a] # "blank"
    BY DEF Loads, LoadEnds, OnReceivedError
  <2> QED BY <2>1, <1>1 DEF Shown
<1>5. Shown(a)'
  <2>1. CASE Loads(a)
    <3>1. view[a] # "page"
      <4>1. delays[a] \in Nat /\ delays[a] > 0
        BY <2>1, <1>1 DEF Loads, LoadTypes
      <4>2. delays[a] + (IF view[a] \in {"loading", "page"} THEN 1 ELSE 0) = 1
        BY <1>1, <1>4 DEF OneLoad
      <4> QED BY <4>1, <4>2
    <3>2. view'[a] = "loading" /\ running' = running
      BY <2>1, <1>1 DEF Loads, LoadTypes, pvars
    <3> QED BY <3>1, <3>2, <1>1, <1>2, <1>4 DEF Shown, Alive
  <2>2. CASE LoadEnds(a)
    <3>1. view'[a] = "page" /\ a \in running'
      BY <2>2, <1>1 DEF LoadEnds, LoadTypes, Opens
    <3> QED BY <3>1, <1>2, <1>4 DEF Shown, Alive
  <2>3. CASE OnReceivedError(a)
    <3>1. view[a] = "loading" /\ view'[a] = "error" /\ running' = running
      BY <2>3, <1>1 DEF OnReceivedError, LoadTypes, pvars
    <3> QED BY <3>1, <1>1, <1>2, <1>4 DEF Shown, Alive
  <2> QED BY <2>1, <2>2, <2>3
<1>6. ASSUME NEW b \in Starts \ {a} PROVE Shown(b)'
  BY <1>1, <1>2, <1>3, ShownStays
<1> QED BY <1>5, <1>6

LEMMA EndsShow ==
  ASSUME ViewInv, AppDies \/ \E a \in Starts : Destroyed(a)
  PROVE  \A b \in Starts : Shown(b)'
<1>1. LoadTypes /\ \A b \in Starts : Shown(b)
  BY DEF ViewInv, LoadInv
<1>2. CASE AppDies
  <2>1. ASSUME NEW b \in Starts
        PROVE  delays'[b] = 0 /\ view'[b] = "blank" /\ b \notin running'
    BY <1>2 DEF AppDies, Loses
  <2> QED BY <2>1 DEF Shown
<1>3. ASSUME NEW a \in Starts, Destroyed(a) PROVE \A b \in Starts : Shown(b)'
  <2>1. delays'[a] = 0 /\ view'[a] = "blank" /\ a \notin running'
    BY <1>1, <1>3 DEF LoadTypes, Destroyed, Loses
  <2>2. Shown(a)'
    BY <2>1 DEF Shown
  <2>3. ASSUME NEW b \in Starts \ {a} PROVE Shown(b)'
    <3>1. /\ activity'[b] = activity[b] /\ delays'[b] = delays[b] /\ view'[b] = view[b]
          /\ b \in running' <=> b \in running
      BY <1>1, <1>3 DEF LoadTypes, Destroyed, Loses
    <3> QED BY <3>1, <1>1, ShownStays
  <2> QED BY <2>2, <2>3
<1> QED BY <1>2, <1>3

LEMMA ServedOnly ==
  ASSUME NEW p \in FilePages, FileOpens(p) \/ FileCloses(p)
  PROVE  UNCHANGED avars /\ \A a \in Starts : a \in running' <=> a \in running
<1>1. \A a \in Starts : a # p
  BY AppAssumption
<1> QED BY <1>1 DEF FileOpens, FileCloses, Opens, Loses

LEMMA OthersShow ==
  ASSUME ViewInv, UNCHANGED <<activity, delays, view>>,
         \A a \in Starts : a \in running' <=> a \in running
  PROVE  \A b \in Starts : Shown(b)'
BY ShownStays DEF ViewInv

LEMMA PageStepRuns == ASSUME NEW p, PageStep(p) PROVE running' = running
BY DEF PageStep, Pursues, Fires, OnOpen, OnError, OnBroken, OnClose

LEMMA ViewKeeps == ASSUME ViewInv, [Next]_vars PROVE ViewInv'
<1>1. LoadInv'
  BY LoadKeeps DEF ViewInv
<1>2. UserTypes'
  <2>1. CASE User
    BY <2>1 DEF User, FirstLaunch, PickerOpens, Launch, Picks, Answers, Quits, Leaves,
                FileOpens, FileCloses, avars, ViewInv, UserTypes
  <2>2. CASE ~ User
    BY <2>2 DEF Next, AppDies, Destroyed, WebView, Loads, LoadEnds, OnReceivedError,
                ServiceStep, PageStep, vars, avars, ViewInv, UserTypes
  <2> QED BY <2>1, <2>2
<1>3. \A b \in Starts : Shown(b)'
  <2>1. CASE UNCHANGED vars
    BY <2>1, OthersShow DEF vars, avars, pvars
  <2>2. CASE User
    <3>1. ASSUME NEW a \in Starts, Launch(a) \/ Picks(a) PROVE \A b \in Starts : Shown(b)'
      BY <3>1, CreateShows DEF Launch, Picks
    <3>2. ASSUME NEW a \in Starts, Leaves(a) PROVE \A b \in Starts : Shown(b)'
      <4>1. /\ running' = running /\ delays' = delays /\ view' = view
            /\ \A b \in Starts : Alive(b)' <=> Alive(b)
        BY <3>2 DEF Leaves, pvars, Alive, ViewInv, LoadInv, LoadTypes
      <4> QED BY <4>1 DEF ViewInv, Shown
    <3>3. CASE FirstLaunch \/ Quits \/ \E grants \in BOOLEAN : Answers(grants)
      BY <3>3, OthersShow DEF FirstLaunch, Quits, Answers, pvars
    <3>4. ASSUME NEW p \in FilePages, FileOpens(p) \/ FileCloses(p)
          PROVE  \A b \in Starts : Shown(b)'
      BY <3>4, ServedOnly, OthersShow DEF avars
    <3> QED BY <2>2, <3>1, <3>2, <3>3, <3>4 DEF User
  <2>3. CASE AppDies \/ \E a \in Starts : Destroyed(a)
    BY <2>3, EndsShow
  <2>4. ASSUME NEW a \in Starts, WebView(a) PROVE \A b \in Starts : Shown(b)'
    BY <2>4, LoadsShow DEF WebView
  <2>5. ASSUME NEW a \in Starts, ServiceStep(a) PROVE \A b \in Starts : Shown(b)'
    BY <2>5, OthersShow DEF ServiceStep, Loses, avars
  <2>6. ASSUME NEW p \in Pages, PageStep(p) PROVE \A b \in Starts : Shown(b)'
    BY <2>6, PageStepRuns, OthersShow DEF PageStep, avars
  <2> QED BY <2>1, <2>2, <2>3, <2>4, <2>5, <2>6 DEF Next
<1> QED BY <1>1, <1>2, <1>3 DEF ViewInv

LEMMA InitViewInv == ASSUME Init PROVE ViewInv
BY DEF Init, DashboardInit, ViewInv, UserTypes, LoadInv, LoadTypes, OneLoad, Shown, Alive

LEMMA TypesOfParts ==
  ASSUME IInv, Pursuits, ViewInv
  PROVE  TypeOK
<1>1. DashboardTypeOK
  BY PursuitCounts DEF Pursuits, PageTypes, DashboardTypeOK
<1>2. delays \in [Starts -> 0 .. 1]
  <2>1. ASSUME NEW a \in Starts PROVE delays[a] \in 0 .. 1
    <3>1. CASE Alive(a)
      <4>1. delays[a] \in Nat
        BY DEF ViewInv, LoadInv, LoadTypes
      <4>2. delays[a] + (IF view[a] \in {"loading", "page"} THEN 1 ELSE 0) = 1
        BY <3>1 DEF ViewInv, LoadInv, OneLoad
      <4> QED BY <4>1, <4>2
    <3>2. CASE ~ Alive(a)
      BY <3>2 DEF ViewInv, Shown
    <3> QED BY <3>1, <3>2
  <2> QED BY <2>1 DEF ViewInv, LoadInv, LoadTypes
<1>3. \A a \in Starts : view[a] = "page" <=> a \in running
  BY DEF ViewInv, Shown
<1> QED BY <1>1, <1>2, <1>3 DEF IInv, ViewInv, UserTypes, LoadInv, LoadTypes, TypeOK

(* Every part of the app keeps its types; above all, no activity has two   *)
(* delayed loads, no page two timers to clear, and a page is shown where   *)
(* its script runs and nowhere else.                                       *)
THEOREM AppTypes == Spec => []TypeOK
<1>1. Init => IInv /\ Pursuits /\ ViewInv
  BY InitIInv, InitPursuits, InitViewInv DEF Init
<1>2. IInv /\ Pursuits /\ ViewInv /\ [Next]_vars => (IInv /\ Pursuits /\ ViewInv)'
  BY StepKeeps, PursuitsKeep, ViewKeeps
<1> QED BY <1>1, <1>2, TypesOfParts, PTL DEF Spec
=============================================================================
