---------------------------- MODULE ReadingsProofs ----------------------------
(***************************************************************************)
(* Proofs about Readings, for every number of pages and readings, every    *)
(* capacity of the channel and every clock: what a page is shown is in     *)
(* order, and is accounted for by the table.                               *)
(***************************************************************************)
EXTENDS Readings, SequenceTheorems, TLAPS

(* What the tasks hold.  The channel is in order; what a page has been     *)
(* shown, what its task is writing and what it has yet to receive follow   *)
(* each other, and all of it was made after the page was accepted.         *)
Made == made \in Nat /\ sent \in Seq(1 .. made)

InOrder(s) == \A i, j \in DOMAIN s : i < j => s[i] < s[j]

Held(c) ==
  /\ seen[c] \in Seq(1 .. made)
  /\ since[c] \in 0 .. made
  /\ ws[c] \in Tasks
  /\ start[c] \in Nat \ {0} /\ pos[c] \in Nat \ {0}
  /\ ws[c] = "accepted" => seen[c] = <<>>

(* A reading that may still be shown comes after all those shown.          *)
Ahead(c, r) == r > since[c] /\ \A i \in DOMAIN seen[c] : seen[c][i] < r

Follows(c) ==
  /\ ws[c] \in {"waiting", "writing"} =>
       \A i \in DOMAIN sent : i >= pos[c] => Ahead(c, sent[i])
  /\ ws[c] = "writing" =>
       /\ frame[c] \in 1 .. made
       /\ Ahead(c, frame[c])
       /\ \A i \in DOMAIN sent : i >= pos[c] => frame[c] < sent[i]

Arrays ==
  /\ since \in [Clients -> Nat]
  /\ seen \in [Clients -> Seq(Nat)]
  /\ ws \in [Clients -> Tasks]
  /\ pos \in [Clients -> Nat] /\ start \in [Clients -> Nat]
  /\ frame \in [Clients -> Nat]

FeedInv ==
  /\ Made /\ InOrder(sent) /\ Arrays
  /\ \A c \in Clients : Held(c) /\ Follows(c)

-----------------------------------------------------------------------------
LEMMA InitFeedInv == Init => FeedInv
  BY FeedAssumption DEF Init, FeedInit, Each, FeedInv, Made, InOrder, Arrays, Held,
     Follows, Ahead, Tasks

LEMMA OldestFacts ==
  ASSUME Made PROVE Oldest \in Nat \ {0}
  BY FeedAssumption DEF Made, Oldest

-----------------------------------------------------------------------------
LEMMA Widens ==
  ASSUME NEW n \in Nat, NEW s \in Seq(1 .. n)
  PROVE  s \in Seq(1 .. n + 1)
<1>1. \A i \in 1 .. Len(s) : s[i] \in 1 .. n + 1
  BY ElementOfSeq
<1>2. s \in [1 .. Len(s) -> 1 .. n + 1] /\ Len(s) \in Nat
  BY <1>1, LenProperties
<1> QED BY <1>2, SeqDef

(* One lemma for each operation of the feed.                               *)
LEMMA SendsKeeps == FeedInv /\ Sends => FeedInv'
<1> SUFFICES ASSUME FeedInv, Sends PROVE FeedInv'
  OBVIOUS
<1> USE DEF Sends, pageVars
<1>1. made \in Nat /\ made' = made + 1 /\ sent \in Seq(1 .. made)
  BY DEF FeedInv, Made
<1>2. \A i \in DOMAIN sent : sent[i] \in 1 .. made
  BY <1>1, ElementOfSeq
<1>3. /\ made' \in Nat /\ sent' \in Seq(1 .. made')
      /\ \A i \in DOMAIN sent' :
           \/ i \in DOMAIN sent /\ sent'[i] = sent[i]
           \/ i = Len(sent) + 1 /\ sent'[i] = made + 1
  <2>1. sent \in Seq(1 .. made')
    BY <1>1, Widens
  <2>2. CASE sent' = sent
    BY <1>1, <2>1, <2>2
  <2>3. CASE sent' = Append(sent, made + 1)
    <3> HIDE DEF Sends, pageVars
    <3>1. made + 1 \in 1 .. made' /\ made' \in Nat
      BY <1>1
    <3>2. /\ sent' \in Seq(1 .. made') /\ Len(sent') = Len(sent) + 1
          /\ \A i \in 1 .. Len(sent) : sent'[i] = sent[i]
          /\ sent'[Len(sent) + 1] = made + 1
      BY <2>1, <2>3, <3>1, AppendProperties
    <3>3. DOMAIN sent = 1 .. Len(sent) /\ DOMAIN sent' = 1 .. Len(sent') /\ Len(sent) \in Nat
      BY <2>1, <3>2, LenProperties
    <3> QED BY <3>1, <3>2, <3>3
  <2> QED BY <2>2, <2>3
<1>4. InOrder(sent)'
  BY <1>1, <1>2, <1>3 DEF FeedInv, InOrder
<1>5. Arrays'
  BY DEF FeedInv, Arrays
<1>6. ASSUME NEW c \in Clients PROVE Held(c)' /\ Follows(c)'
  <2>1. Held(c) /\ Follows(c)
    BY DEF FeedInv
  <2>2. seen[c] \in Seq(1 .. made')
    BY <1>1, <2>1, Widens DEF Held
  <2>3. Held(c)'
    BY <1>1, <2>1, <2>2 DEF Held
  <2>4. \A i \in DOMAIN seen[c] : seen[c][i] \in 1 .. made
    <3>1. seen[c] \in Seq(1 .. made)
      BY <2>1 DEF Held
    <3> HIDE DEF Sends, pageVars
    <3> QED BY <3>1, ElementOfSeq, LenProperties
  <2>5. Ahead(c, made + 1) /\ (ws[c] = "writing" => frame[c] < made + 1)
    BY <1>1, <2>1, <2>4 DEF Held, Follows, Ahead
  <2>6. ASSUME NEW i \in DOMAIN sent', i >= pos[c], ws[c] \in {"waiting", "writing"}
        PROVE  Ahead(c, sent'[i]) /\ (ws[c] = "writing" => frame[c] < sent'[i])
    BY <1>3, <2>1, <2>5, <2>6 DEF Follows
  <2>7. Follows(c)'
    BY <1>1, <2>1, <2>6 DEF Follows, Ahead
  <2> QED BY <2>3, <2>7
<1> QED BY <1>3, <1>4, <1>5, <1>6 DEF FeedInv, Made

(* A step that is about one page leaves the channel and the others alone.  *)
LEMMA OtherPages ==
  ASSUME NEW c \in Clients, NEW d \in Clients, c # d, Held(d), Follows(d),
         made' = made, sent' = sent,
         since'[d] = since[d], seen'[d] = seen[d], ws'[d] = ws[d],
         pos'[d] = pos[d], start'[d] = start[d], frame'[d] = frame[d]
  PROVE  Held(d)' /\ Follows(d)'
  BY DEF Held, Follows, Ahead

LEMMA AcceptsKeeps ==
  ASSUME FeedInv, NEW c \in Clients, Accepts(c) PROVE FeedInv'
<1> USE DEF Accepts
<1>1. Made' /\ InOrder(sent)'
  BY DEF FeedInv, Made
<1>2. Arrays'
  BY DEF FeedInv, Arrays, Made, Tasks
<1>3. Held(c)' /\ Follows(c)'
  BY DEF FeedInv, Made, Arrays, Held, Follows, Tasks
<1>4. ASSUME NEW d \in Clients, c # d PROVE Held(d)' /\ Follows(d)'
  BY <1>4, OtherPages DEF FeedInv, Arrays
<1> QED BY <1>1, <1>2, <1>3, <1>4 DEF FeedInv

LEMMA SubscribesKeeps ==
  ASSUME FeedInv, NEW c \in Clients, Subscribes(c) PROVE FeedInv'
<1> USE DEF Subscribes, SubscribesFrom
<1>1. Made' /\ InOrder(sent)' /\ Len(sent) \in Nat /\ DOMAIN sent = 1 .. Len(sent)
  BY DEF FeedInv, Made
<1>2. Arrays'
  BY <1>1 DEF FeedInv, Arrays, Tasks
<1>3. Held(c)' /\ Follows(c)'
  BY <1>1 DEF FeedInv, Arrays, Held, Follows, Tasks
<1>4. ASSUME NEW d \in Clients, c # d PROVE Held(d)' /\ Follows(d)'
  BY <1>4, OtherPages DEF FeedInv, Arrays
<1> QED BY <1>1, <1>2, <1>3, <1>4 DEF FeedInv

LEMMA ReceivesKeeps ==
  ASSUME FeedInv, NEW c \in Clients, Receives(c) PROVE FeedInv'
<1> USE DEF Receives, Takes
<1>1. /\ Made' /\ InOrder(sent)' /\ Made /\ InOrder(sent)
      /\ Len(sent) \in Nat /\ DOMAIN sent = 1 .. Len(sent)
  BY DEF FeedInv, Made
<1>2. pos[c] \in DOMAIN sent /\ sent[pos[c]] \in 1 .. made
  BY <1>1, ElementOfSeq DEF FeedInv, Made, Held
<1>3. Arrays'
  BY <1>1, <1>2 DEF FeedInv, Arrays, Tasks, Made
<1>4. Held(c)' /\ Follows(c)'
  <2>1. Held(c)'
    BY DEF FeedInv, Arrays, Held, Tasks
  <2>2. /\ ws'[c] = "writing" /\ frame'[c] = sent[pos[c]] /\ pos'[c] = pos[c] + 1
        /\ ws[c] = "waiting" /\ pos[c] \in Nat
    BY DEF FeedInv, Arrays
  <2>3. \A i \in DOMAIN sent : i >= pos[c] => Ahead(c, sent[i])
    BY <2>2 DEF FeedInv, Follows
  <2>4. \A r : Ahead(c, r) => Ahead(c, r)'
    BY DEF Ahead
  <2> QED BY <1>1, <1>2, <2>1, <2>2, <2>3, <2>4 DEF Follows, InOrder, Ahead
<1>5. ASSUME NEW d \in Clients, c # d PROVE Held(d)' /\ Follows(d)'
  BY <1>5, OtherPages DEF FeedInv, Arrays
<1> QED BY <1>1, <1>3, <1>4, <1>5 DEF FeedInv

LEMMA LagsKeeps ==
  ASSUME FeedInv, NEW c \in Clients, Lags(c) PROVE FeedInv'
<1> USE DEF Lags
<1>1. Made' /\ InOrder(sent)' /\ Oldest \in Nat \ {0}
  BY OldestFacts DEF FeedInv, Made
<1>2. Arrays'
  BY <1>1 DEF FeedInv, Arrays
<1>3. Held(c)' /\ Follows(c)'
  BY <1>1 DEF FeedInv, Made, Arrays, Held, Follows, Ahead
<1>4. ASSUME NEW d \in Clients, c # d PROVE Held(d)' /\ Follows(d)'
  BY <1>4, OtherPages DEF FeedInv, Arrays
<1> QED BY <1>1, <1>2, <1>3, <1>4 DEF FeedInv

LEMMA WritesKeeps ==
  ASSUME FeedInv, NEW c \in Clients, Writes(c) PROVE FeedInv'
<1> USE DEF Writes, WritesThen
<1>1. Made' /\ InOrder(sent)'
  BY DEF FeedInv, Made
<1>2. /\ seen[c] \in Seq(1 .. made) /\ frame[c] \in 1 .. made /\ Ahead(c, frame[c])
      /\ \A i \in DOMAIN sent : i >= pos[c] => frame[c] < sent[i] /\ Ahead(c, sent[i])
  BY DEF FeedInv, Held, Follows
<1>3. /\ seen'[c] = Append(seen[c], frame[c]) /\ ws'[c] = "waiting"
      /\ seen'[c] \in Seq(1 .. made)
      /\ \A i \in DOMAIN seen'[c] :
           \/ i \in DOMAIN seen[c] /\ seen'[c][i] = seen[c][i]
           \/ seen'[c][i] = frame[c]
  BY <1>2, AppendProperties DEF FeedInv, Arrays
<1>4. Arrays'
  <2>1. seen[c] \in Seq(Nat) /\ frame[c] \in Nat
    BY DEF FeedInv, Arrays
  <2>2. Append(seen[c], frame[c]) \in Seq(Nat)
    BY <2>1, AppendProperties
  <2> QED BY <2>2 DEF FeedInv, Arrays, Tasks
<1>5. Held(c)'
  BY <1>3 DEF FeedInv, Arrays, Held, Tasks
<1>6. Follows(c)'
  BY <1>2, <1>3 DEF Follows, Ahead
<1>7. ASSUME NEW d \in Clients, c # d PROVE Held(d)' /\ Follows(d)'
  BY <1>7, OtherPages DEF FeedInv, Arrays
<1> QED BY <1>1, <1>4, <1>5, <1>6, <1>7 DEF FeedInv

LEMMA WritesToNobodyKeeps ==
  ASSUME FeedInv, NEW c \in Clients, WritesToNobody(c) PROVE FeedInv'
<1> USE DEF WritesToNobody
<1>1. Made' /\ InOrder(sent)'
  BY DEF FeedInv, Made
<1>2. Arrays'
  BY DEF FeedInv, Arrays, Tasks
<1>3. Held(c)' /\ Follows(c)'
  BY DEF FeedInv, Arrays, Held, Follows, Ahead, Tasks
<1>4. ASSUME NEW d \in Clients, c # d PROVE Held(d)' /\ Follows(d)'
  BY <1>4, OtherPages DEF FeedInv, Arrays
<1> QED BY <1>1, <1>2, <1>3, <1>4 DEF FeedInv

LEMMA FeedDiesKeeps == FeedInv /\ FeedDies => FeedInv'
<1> SUFFICES ASSUME FeedInv, FeedDies PROVE FeedInv'
  OBVIOUS
<1> QED BY DEF FeedInv, FeedDies, Each, Made, InOrder, Arrays, Held, Follows, Tasks

LEMMA FeedVarsKept == FeedInv /\ UNCHANGED feedVars => FeedInv'
  BY DEF FeedInv, feedVars, pageVars, Made, InOrder, Arrays, Held, Follows, Ahead

LEMMA LeavesKeeps ==
  ASSUME FeedInv, NEW c \in Clients, Leaves(c) PROVE FeedInv'
  BY DEF Leaves, FeedInv, Made, InOrder, Arrays, Held, Follows, Ahead

LEMMA NextFeedInv == FeedInv /\ [Next]_vars => FeedInv'
<1> SUFFICES ASSUME FeedInv, [Next]_vars PROVE FeedInv'
  OBVIOUS
<1>1. CASE Publish
  BY <1>1, SendsKeeps DEF Publish
<1>2. CASE Log
  BY <1>2, FeedVarsKept DEF Log
<1>3. CASE Serve
  BY <1>3, AcceptsKeeps, SubscribesKeeps, ReceivesKeeps, LagsKeeps, WritesKeeps,
     WritesToNobodyKeeps, LeavesKeeps DEF Serve, Pages, Task
<1>4. CASE Export
  BY <1>4, FeedVarsKept DEF Export
<1>5. CASE Killed
  BY <1>5, FeedDiesKeeps DEF Killed
<1>6. CASE UNCHANGED vars
  BY <1>6, FeedVarsKept DEF vars
<1> QED BY <1>1, <1>2, <1>3, <1>4, <1>5, <1>6 DEF Next


-----------------------------------------------------------------------------
(* Every step of the feed is a step of OrderedFeed, or leaves it alone.    *)
LEMMA InitOrdered == Init => Feed!Init
  BY DEF Init, FeedInit, Each, Feed!Init

LEMMA StepOrdered ==
  FeedInv /\ [Next]_vars => [Feed!Next]_<<made, since, seen>>
<1> SUFFICES ASSUME FeedInv, [Next]_vars
             PROVE  Feed!Next \/ UNCHANGED <<made, since, seen>>
  BY DEF Feed!Next
<1>1. CASE Publish
  BY <1>1 DEF Publish, Sends, pageVars, Feed!Next, Feed!Make
<1>2. ASSUME NEW c \in Clients, Accepts(c) PROVE Feed!Next
  BY <1>2 DEF Accepts, Feed!Next, Feed!Open
<1>3. ASSUME NEW c \in Clients, Writes(c) PROVE Feed!Next
  <2>1. frame[c] \in 1 .. made /\ Ahead(c, frame[c])
    BY <1>3 DEF FeedInv, Follows, Writes, WritesThen
  <2>2. Feed!Show(c, frame[c])
    BY <1>3, <2>1 DEF Writes, WritesThen, Ahead, Feed!Show
  <2> QED BY <2>1, <2>2 DEF Feed!Next
<1>4. ASSUME NEW c \in Clients,
             Subscribes(c) \/ Receives(c) \/ Lags(c) \/ WritesToNobody(c) \/ Leaves(c)
      PROVE  UNCHANGED <<made, since, seen>>
  BY <1>4 DEF Subscribes, SubscribesFrom, Receives, Takes, Lags, WritesToNobody, Leaves
<1>5. CASE Serve
  BY <1>2, <1>3, <1>4, <1>5 DEF Serve, Pages, Task
<1>6. CASE Log \/ Export \/ Killed \/ UNCHANGED vars
  BY <1>6 DEF Log, Export, Killed, FeedDies, vars, feedVars, pageVars
<1> QED BY <1>1, <1>5, <1>6 DEF Next

(* Whatever lags, leaves or is killed, a page is shown readings made since *)
(* its WebSocket was accepted, in order and none twice: the channel and    *)
(* the tasks implement OrderedFeed (handle_websocket,                      *)
(* src/server/mod.rs:112-125).                                             *)
THEOREM FeedIsOrdered == Spec => FeedsInOrder
<1>1. Init => FeedInv
  BY InitFeedInv
<1>2. FeedInv /\ [Next]_vars => FeedInv'
  BY NextFeedInv
<1>3. Init => Feed!Init
  BY InitOrdered
<1>4. FeedInv /\ [Next]_vars => [Feed!Next]_<<made, since, seen>>
  BY StepOrdered
<1> QED BY <1>1, <1>2, <1>3, <1>4, PTL DEF Spec, FeedsInOrder, Feed!Spec

-----------------------------------------------------------------------------
(* Every reading made is in the table, on its way there or dropped.        *)
Accounted ==
  /\ rows \in Seq([reading : Nat, ts : Nat, session : Nat])
  /\ now \in Nat /\ ts \in Nat /\ pending \in Nat
  /\ 1 .. made \subseteq Logged \cup unlogged \cup {pending}

LEMMA InitAccounted == Init => Accounted
  BY DEF Init, FeedInit, LogInit, Accounted

LEMMA InsertAppends ==
  ASSUME Accounted, Insert,
         NEW row, row = [reading |-> pending, ts |-> ts, session |-> now' \div Second]
  PROVE  /\ rows' \in Seq([reading : Nat, ts : Nat, session : Nat])
         /\ Len(rows') = Len(rows) + 1
         /\ \A i \in DOMAIN rows : rows'[i] = rows[i]
         /\ Rows' = Rows \cup {row}
<1>1. now' \in Nat
  BY DEF Accounted, Insert, TimePasses
<1>2. now' \div Second \in Nat
  <2>1. \A n \in Nat, d \in Nat \ {0} : n \div d \in Nat
    OBVIOUS
  <2> QED BY <1>1, <2>1, LogAssumption
<1>3. row \in [reading : Nat, ts : Nat, session : Nat] /\ rows' = Append(rows, row)
  BY <1>2 DEF Accounted, Insert
<1>4. /\ rows' \in Seq([reading : Nat, ts : Nat, session : Nat])
      /\ DOMAIN rows = 1 .. Len(rows) /\ Len(rows) \in Nat
      /\ DOMAIN rows' = 1 .. Len(rows) + 1
      /\ \A i \in DOMAIN rows : rows'[i] = rows[i]
      /\ rows'[Len(rows) + 1] = row
  BY <1>3, AppendProperties DEF Accounted
<1>5. Rows' = Rows \cup {row}
  <2>1. ASSUME NEW i \in DOMAIN rows' PROVE rows'[i] \in Rows \cup {row}
    <3>1. CASE i \in DOMAIN rows
      BY <1>4, <3>1, Zenon DEF Rows
    <3>2. CASE i = Len(rows) + 1
      BY <1>4, <3>2
    <3> QED BY <1>4, <2>1, <3>1, <3>2
  <2>2. \A i \in DOMAIN rows : rows[i] = rows'[i] /\ i \in DOMAIN rows'
    BY <1>4
  <2>3. row = rows'[Len(rows) + 1] /\ Len(rows) + 1 \in DOMAIN rows'
    BY <1>4
  <2> QED BY <2>1, <2>2, <2>3, Zenon DEF Rows
<1> QED BY <1>4, <1>5, LenProperties

LEMMA InsertLogs ==
  ASSUME Accounted, Insert
  PROVE  /\ rows' \in Seq([reading : Nat, ts : Nat, session : Nat])
         /\ Logged' = Logged \cup {pending}
<1> DEFINE row == [reading |-> pending, ts |-> ts, session |-> now' \div Second]
<1>1. row.reading = pending
  OBVIOUS
<1> HIDE DEF row
<1>2. /\ rows' \in Seq([reading : Nat, ts : Nat, session : Nat])
      /\ Rows' = Rows \cup {row}
  BY InsertAppends DEF row
<1> QED BY <1>1, <1>2 DEF Logged

LEMMA NextAccounted ==
  FeedInv /\ Accounted /\ [Next]_vars => Accounted'
<1> SUFFICES ASSUME FeedInv, Accounted, [Next]_vars PROVE Accounted'
  OBVIOUS
<1>0. made \in Nat
  BY DEF FeedInv, Made
<1>1. CASE Publish
  <2>1. made' = made + 1 /\ pending = 0 /\ pending' = made + 1 /\ Logged' = Logged
    BY <1>1 DEF Publish, Sends, Stamps, Logged, Rows
  <2>2. ts' \in Nat /\ now' \in Nat
    BY <1>1 DEF Publish, Stamps, TimePasses, Accounted
  <2> QED BY <1>0, <1>1, <2>1, <2>2 DEF Accounted, Publish, Stamps
<1>2. CASE Log
  <2>1. CASE Insert
    BY <1>2, <2>1, InsertLogs DEF Accounted, Log, Insert, TimePasses, feedVars
  <2>2. CASE InsertFails
    BY <1>2, <2>2 DEF Accounted, Log, InsertFails, Logged, Rows, feedVars
  <2> QED BY <1>2, <2>1, <2>2 DEF Log
<1>3. CASE Serve
  BY <1>3 DEF Accounted, Serve, Pages, Task, logVars, Logged, Rows, Accepts, Subscribes,
     SubscribesFrom, Receives, Takes, Lags, Writes, WritesThen, WritesToNobody, Leaves
<1>4. CASE Export
  BY <1>4 DEF Accounted, Export, Exports, LatestSession, ExportCsv, Logged, Rows, feedVars
<1>5. CASE Killed
  BY <1>0, <1>5 DEF Accounted, Killed, FeedDies, LogDies, Logged, Rows
<1>6. CASE UNCHANGED vars
  BY <1>6 DEF Accounted, vars, feedVars, logVars, Logged, Rows
<1> QED BY <1>1, <1>2, <1>3, <1>4, <1>5, <1>6 DEF Next

(* What a page shows is in the table, or is the one reading the loop is    *)
(* inserting, unless its insertion failed or the process was killed before *)
(* it (src/scheduler/mod.rs:74-79).                                        *)
THEOREM ShownIsAlwaysLogged == Spec => []ShownIsLogged
<1>1. Init => FeedInv /\ Accounted
  BY InitFeedInv, InitAccounted
<1>2. FeedInv /\ Accounted /\ [Next]_vars => (FeedInv /\ Accounted)'
  BY NextFeedInv, NextAccounted
<1>3. FeedInv /\ Accounted => ShownIsLogged
  <2> SUFFICES ASSUME FeedInv, Accounted, NEW c \in Clients, NEW i \in DOMAIN seen[c]
               PROVE  seen[c][i] \in Logged \cup unlogged \cup {pending}
    BY DEF ShownIsLogged
  <2>1. seen[c] \in Seq(1 .. made)
    BY DEF FeedInv, Held
  <2>2. seen[c][i] \in 1 .. made
    BY <2>1, ElementOfSeq, LenProperties
  <2> QED BY <2>2 DEF Accounted
<1> QED BY <1>1, <1>2, <1>3, PTL DEF Spec

-----------------------------------------------------------------------------
(* A page that neither lagged nor left has been shown, one for one, what   *)
(* the channel took from its first position to the last its task wrote.    *)
Unshown(c) == IF ws[c] = "writing" THEN pos[c] - 1 ELSE pos[c]

Matches(c) ==
  \A i \in 1 .. Len(seen[c]) : seen[c][i] = sent[start[c] + i - 1]

Gapless(c) ==
  ws[c] \in {"waiting", "writing"} =>
    /\ start[c] <= pos[c] /\ pos[c] <= Len(sent) + 1
    /\ ws[c] = "writing" => start[c] < pos[c] /\ frame[c] = sent[pos[c] - 1]
    /\ ~ lagged[c] /\ ~ left[c] => /\ Len(seen[c]) = Unshown(c) - start[c]
                                   /\ Matches(c)

GapInv ==
  /\ lagged \in [Clients -> BOOLEAN] /\ left \in [Clients -> BOOLEAN]
  /\ \A c \in Clients : Gapless(c)

LEMMA InitGapInv == Init => GapInv
  BY DEF Init, FeedInit, Each, GapInv, Gapless

LEMMA PageFacts ==
  ASSUME FeedInv, NEW c \in Clients
  PROVE  /\ made \in Nat /\ sent \in Seq(1 .. made) /\ Len(sent) \in Nat
         /\ pos[c] \in Nat \ {0} /\ start[c] \in Nat \ {0}
         /\ seen[c] \in Seq(1 .. made) /\ Len(seen[c]) \in Nat
<1>1. made \in Nat /\ sent \in Seq(1 .. made) /\ Held(c)
  BY DEF FeedInv, Made
<1> QED BY <1>1, LenProperties DEF Held

LEMMA SendsGapless ==
  ASSUME FeedInv, GapInv, Sends, NEW c \in Clients PROVE Gapless(c)'
<1>1. UNCHANGED <<seen, ws, pos, frame, start, lagged, left>>
  BY DEF Sends, pageVars
<1>2. CASE ws[c] \in {"waiting", "writing"}
  <2>1. sent' = Append(sent, made + 1)
    BY <1>2 DEF Sends, Subscribed
  <2>2. sent \in Seq(1 .. made + 1) /\ made + 1 \in 1 .. made + 1
    BY PageFacts, Widens
  <2>3. /\ Len(sent') = Len(sent) + 1
        /\ \A i \in 1 .. Len(sent) : sent'[i] = sent[i]
    BY <2>1, <2>2, AppendProperties
  <2>4. pos[c] \in Nat \ {0} /\ start[c] \in Nat \ {0} /\ Len(sent) \in Nat
        /\ Len(seen[c]) \in Nat
    BY PageFacts
  <2>5. Gapless(c)
    BY DEF GapInv
  <2>6. ws[c] = "writing" => frame[c] = sent'[pos[c] - 1]
    BY <1>2, <2>3, <2>4, <2>5 DEF Gapless
  <2>7. ASSUME Matches(c), Len(seen[c]) = Unshown(c) - start[c] PROVE Matches(c)'
    <3> SUFFICES ASSUME NEW i \in 1 .. Len(seen[c])
                 PROVE  seen[c][i] = sent'[start[c] + i - 1]
      BY <1>1 DEF Matches
    <3>1. start[c] + i - 1 \in 1 .. Len(sent)
      BY <1>2, <2>4, <2>5, <2>7 DEF Gapless, Unshown
    <3> QED BY <2>3, <2>7, <3>1 DEF Matches
  <2>8. Unshown(c)' = Unshown(c)
    BY <1>1 DEF Unshown
  <2>9. pos[c] <= Len(sent) + 1 => pos[c] <= Len(sent') + 1
    BY <2>3, <2>4
  <2> QED BY <1>1, <2>5, <2>6, <2>7, <2>8, <2>9 DEF Gapless
<1>3. CASE ws[c] \notin {"waiting", "writing"}
  BY <1>1, <1>3 DEF Gapless
<1> QED BY <1>2, <1>3

LEMMA WritesGapless ==
  ASSUME FeedInv, GapInv, NEW c \in Clients, Writes(c) PROVE Gapless(c)'
<1>1. /\ ws[c] = "writing" /\ ws'[c] = "waiting"
      /\ seen'[c] = Append(seen[c], frame[c])
      /\ UNCHANGED <<sent, pos, start, lagged, left>>
  BY DEF Writes, WritesThen, FeedInv, Arrays
<1>2. /\ start[c] < pos[c] /\ pos[c] <= Len(sent) + 1 /\ frame[c] = sent[pos[c] - 1]
      /\ ~ lagged[c] /\ ~ left[c] => /\ Len(seen[c]) = pos[c] - 1 - start[c]
                                     /\ Matches(c)
  BY <1>1 DEF GapInv, Gapless, Unshown
<1>3. Len(seen[c]) \in Nat /\ pos[c] \in Nat /\ start[c] \in Nat /\ Len(sent) \in Nat
  BY PageFacts
<1>4. /\ Len(seen'[c]) = Len(seen[c]) + 1
      /\ \A i \in 1 .. Len(seen[c]) : seen'[c][i] = seen[c][i]
      /\ seen'[c][Len(seen[c]) + 1] = frame[c]
  <2>1. frame[c] \in 1 .. made
    BY <1>1 DEF FeedInv, Follows
  <2>2. seen[c] \in Seq(1 .. made)
    BY PageFacts
  <2> DEFINE s == seen[c]
             x == frame[c]
  <2>3. seen'[c] = Append(s, x) /\ s \in Seq(1 .. made) /\ x \in 1 .. made
    BY <1>1, <2>1, <2>2
  <2> HIDE DEF s, x
  <2>4. /\ Len(seen'[c]) = Len(s) + 1
        /\ \A i \in 1 .. Len(s) : seen'[c][i] = s[i]
        /\ seen'[c][Len(s) + 1] = x
    BY <2>3, AppendProperties
  <2> QED BY <2>4 DEF s, x
<1>5. ASSUME ~ lagged[c], ~ left[c]
      PROVE  Len(seen'[c]) = pos[c] - start[c] /\ Matches(c)'
  <2>1. Len(seen[c]) = pos[c] - 1 - start[c] /\ Matches(c)
    BY <1>2, <1>5
  <2>2. Len(seen'[c]) = pos[c] - start[c]
    BY <1>3, <1>4, <2>1
  <2>3. ASSUME NEW i \in 1 .. Len(seen'[c]) PROVE seen'[c][i] = sent[start[c] + i - 1]
    <3>1. CASE i \in 1 .. Len(seen[c])
      BY <1>4, <2>1, <3>1 DEF Matches
    <3>2. CASE i = Len(seen[c]) + 1
      <4>1. start[c] + i - 1 = pos[c] - 1
        BY <1>3, <2>1, <3>2
      <4> QED BY <1>2, <1>4, <3>2, <4>1
    <3> QED BY <1>3, <1>4, <2>3, <3>1, <3>2
  <2> QED BY <1>1, <2>2, <2>3 DEF Matches
<1>6. Unshown(c)' = pos[c] /\ start[c] <= pos[c]
  BY <1>1, <1>2, <1>3 DEF Unshown
<1> QED BY <1>1, <1>2, <1>5, <1>6 DEF Gapless

LEMMA TaskGapless ==
  ASSUME FeedInv, GapInv, NEW c \in Clients, Accepts(c) \/ Task(c) \/ Leaves(c)
  PROVE  Gapless(c)'
<1>0. /\ pos[c] \in Nat \ {0} /\ start[c] \in Nat \ {0} /\ Len(sent) \in Nat
      /\ Gapless(c)
  BY PageFacts DEF GapInv
<1>1. CASE Accepts(c)
  BY <1>1 DEF Accepts, Gapless, FeedInv, Arrays
<1>2. CASE Subscribes(c)
  <2>1. seen[c] = <<>>
    BY <1>2 DEF Subscribes, SubscribesFrom, FeedInv, Held
  <2>2. /\ ws'[c] = "waiting" /\ pos'[c] = Len(sent) + 1 /\ start'[c] = Len(sent) + 1
        /\ UNCHANGED <<sent, seen, lagged, left>>
    BY <1>2, <1>0 DEF Subscribes, SubscribesFrom, FeedInv, Arrays
  <2>3. Len(seen'[c]) = 0 /\ Matches(c)'
    BY <2>1, <2>2 DEF Matches
  <2> QED BY <1>0, <2>2, <2>3 DEF Gapless, Unshown
<1>3. CASE Receives(c)
  <2>1. /\ ws[c] = "waiting" /\ ws'[c] = "writing" /\ pos[c] <= Len(sent)
        /\ pos'[c] = pos[c] + 1 /\ frame'[c] = sent[pos[c]]
        /\ UNCHANGED <<sent, seen, start, lagged, left>>
    BY <1>3 DEF Receives, Takes, FeedInv, Arrays
  <2>2. Matches(c)' = Matches(c)
    BY <2>1 DEF Matches
  <2>3. pos'[c] - 1 = pos[c] /\ Unshown(c)' = pos[c] /\ Unshown(c) = pos[c]
    BY <1>0, <2>1 DEF Unshown
  <2>4. /\ start[c] <= pos[c]
        /\ ~ lagged[c] /\ ~ left[c] => Len(seen[c]) = pos[c] - start[c] /\ Matches(c)
    BY <1>0, <2>1, <2>3 DEF Gapless
  <2>5. start[c] <= pos'[c] /\ start[c] < pos'[c] /\ pos'[c] <= Len(sent) + 1
    BY <1>0, <2>1, <2>4
  <2>6. frame'[c] = sent[pos'[c] - 1]
    BY <2>1, <2>3
  <2> QED BY <2>1, <2>2, <2>3, <2>4, <2>5, <2>6 DEF Gapless
<1>4. CASE Lags(c)
  <2>1. /\ ws[c] = "waiting" /\ pos[c] < Oldest /\ pos'[c] = Oldest
        /\ lagged'[c] = TRUE /\ UNCHANGED <<sent, start, ws>>
    BY <1>4 DEF Lags, FeedInv, Arrays, GapInv
  <2>2. Oldest \in Nat /\ Oldest <= Len(sent) + 1
    BY <1>0, FeedAssumption DEF Oldest
  <2> QED BY <1>0, <2>1, <2>2 DEF Gapless
<1>5. CASE Writes(c)
  BY <1>5, WritesGapless
<1>6. CASE WritesToNobody(c)
  <2>1. /\ left[c] /\ ws[c] = "writing" /\ ws'[c] \in {"waiting", "none"}
        /\ UNCHANGED <<sent, pos, start, left>>
    BY <1>6 DEF WritesToNobody, FeedInv, Arrays
  <2> QED BY <1>0, <2>1 DEF Gapless
<1>7. CASE Leaves(c)
  <2>1. left'[c] = TRUE /\ UNCHANGED <<sent, ws, pos, frame, start>>
    BY <1>7 DEF Leaves, GapInv
  <2> QED BY <1>0, <2>1 DEF Gapless
<1> QED BY <1>1, <1>2, <1>3, <1>4, <1>5, <1>6, <1>7 DEF Task

LEMMA OthersGapless ==
  ASSUME FeedInv, GapInv, NEW c \in Clients, Accepts(c) \/ Task(c) \/ Leaves(c),
         NEW d \in Clients, d # c
  PROVE  Gapless(d)'
<1>1. /\ sent' = sent /\ seen'[d] = seen[d] /\ ws'[d] = ws[d] /\ pos'[d] = pos[d]
      /\ start'[d] = start[d] /\ frame'[d] = frame[d]
      /\ lagged'[d] = lagged[d] /\ left'[d] = left[d]
  BY DEF Accepts, Task, Subscribes, SubscribesFrom, Receives, Takes, Lags, Writes,
         WritesThen, WritesToNobody, Leaves, FeedInv, Arrays, GapInv
<1>2. Matches(d)' = Matches(d) /\ Unshown(d)' = Unshown(d)
  BY <1>1 DEF Matches, Unshown
<1> QED BY <1>1, <1>2 DEF GapInv, Gapless

LEMMA NextGapInv == FeedInv /\ GapInv /\ [Next]_vars => GapInv'
<1> SUFFICES ASSUME FeedInv, GapInv, [Next]_vars PROVE GapInv'
  OBVIOUS
<1>1. CASE Publish
  BY <1>1, SendsGapless DEF Publish, GapInv, Sends, pageVars
<1>2. CASE Serve
  <2>1. PICK c \in Clients : Accepts(c) \/ Task(c) \/ Leaves(c)
    BY <1>2 DEF Serve, Pages
  <2>2. lagged' \in [Clients -> BOOLEAN] /\ left' \in [Clients -> BOOLEAN]
    BY <2>1 DEF Accepts, Task, Subscribes, SubscribesFrom, Receives, Takes, Lags, Writes,
                WritesThen, WritesToNobody, Leaves, GapInv
  <2> QED BY <2>1, <2>2, TaskGapless, OthersGapless DEF GapInv
<1>3. CASE Killed
  BY <1>3 DEF Killed, FeedDies, Each, GapInv, Gapless
<1>4. CASE UNCHANGED feedVars
  BY <1>4 DEF feedVars, pageVars, GapInv, Gapless, Unshown, Matches
<1> QED BY <1>1, <1>2, <1>3, <1>4 DEF Next, Log, Export, vars

(* A page that was never told of a lag has been shown everything the       *)
(* channel took since it subscribed, without a gap or a repetition         *)
(* (handle_websocket, src/server/mod.rs:112-125).                          *)
THEOREM NeverBroken == Spec => []Unbroken
<1>1. Init => FeedInv /\ GapInv
  BY InitFeedInv, InitGapInv
<1>2. FeedInv /\ GapInv /\ [Next]_vars => (FeedInv /\ GapInv)'
  BY NextFeedInv, NextGapInv
<1>3. FeedInv /\ GapInv => Unbroken
  <2> SUFFICES ASSUME FeedInv, GapInv, NEW c \in Clients,
                      ws[c] \in {"waiting", "writing"}, ~ lagged[c], ~ left[c]
               PROVE  seen[c] = SubSeq(sent, start[c],
                                  IF ws[c] = "writing" THEN pos[c] - 2 ELSE pos[c] - 1)
    BY DEF Unbroken, Subscribed
  <2> DEFINE m == start[c]
             n == IF ws[c] = "writing" THEN pos[c] - 2 ELSE pos[c] - 1
             given == SubSeq(sent, m, n)
  <2>1. /\ made \in Nat /\ sent \in Seq(1 .. made) /\ Len(sent) \in Nat
        /\ pos[c] \in Nat \ {0} /\ start[c] \in Nat \ {0}
        /\ seen[c] \in Seq(1 .. made) /\ Len(seen[c]) \in Nat
    BY PageFacts
  <2>2. Gapless(c)
    BY DEF GapInv
  <2>3. /\ n \in Int /\ m \in Nat \ {0} /\ n <= Len(sent)
        /\ Len(seen[c]) = n - m + 1
    <3>1. /\ n = Unshown(c) - 1 /\ Unshown(c) \in Nat
          /\ pos[c] \in Nat /\ start[c] \in Nat /\ Len(seen[c]) \in Nat
      BY <2>1 DEF Unshown
    <3>2. Unshown(c) <= pos[c] /\ pos[c] <= Len(sent) + 1
      BY <2>1, <2>2 DEF Gapless, Unshown
    <3>3. Len(seen[c]) = Unshown(c) - start[c]
      BY <2>2 DEF Gapless
    <3>4. m = start[c] /\ m \in Nat \ {0} /\ Len(sent) \in Nat
      BY <2>1
    <3> HIDE DEF m, n
    <3>5. n \in Int
      BY <3>1
    <3>6. n <= Len(sent)
      BY <3>1, <3>2, <3>4
    <3>7. Len(seen[c]) = n - m + 1
      BY <3>1, <3>3, <3>4
    <3> QED BY <3>4, <3>5, <3>6, <3>7
  <2>4. \A i \in 1 .. Len(seen[c]) : seen[c][i] = sent[m + i - 1]
    BY <2>2 DEF Gapless, Matches
  <2> HIDE DEF m, n
  <2>5. \A i \in m .. n : sent[i] \in 1 .. made
    BY <2>1, <2>3, ElementOfSeq
  <2>6. /\ given \in Seq(1 .. made)
        /\ Len(given) = IF m <= n THEN n - m + 1 ELSE 0
        /\ \A i \in 1 .. n - m + 1 : given[i] = sent[m + i - 1]
    BY <2>3, <2>5, SubSeqProperties
  <2> HIDE DEF given
  <2>7. Len(given) = Len(seen[c])
    BY <2>1, <2>3, <2>6
  <2>8. \A i \in 1 .. Len(seen[c]) : seen[c][i] = given[i]
    BY <2>3, <2>4, <2>6
  <2>9. seen[c] = given
    BY <2>1, <2>6, <2>7, <2>8, SeqEqual
  <2> QED BY <2>9 DEF given, m, n
<1> QED BY <1>1, <1>2, <1>3, PTL DEF Spec

-----------------------------------------------------------------------------
(* While an export is under way its session goes on holding a row as late  *)
(* as every row there was when it was asked for.                           *)
Kept ==
  export # Idle =>
    \A i \in 1 .. export.had : \E row \in Csv(export.session) : rows[i].ts <= row.ts

ExportInv == FeedInv /\ Accounted /\ made <= MaxReadings /\ LogTypeOK /\ ts \in 0 .. now
             /\ Kept

LEMMA InitExportInv == Init => ExportInv
<1> SUFFICES ASSUME Init PROVE ExportInv
  OBVIOUS
<1>1. FeedInv /\ Accounted
  BY InitFeedInv, InitAccounted
<1>2. made <= MaxReadings
  BY FeedAssumption DEF Init, FeedInit
<1>3. LogTypeOK /\ Kept /\ ts \in 0 .. now
  BY LogAssumption DEF Init, LogInit, LogTypeOK, Kept, Rows
<1> QED BY <1>1, <1>2, <1>3 DEF ExportInv

LEMMA SecondsAreSessions ==
  ASSUME NEW t \in 0 .. MaxTime PROVE t \div Second \in Sessions
<1>1. \A n, m \in Nat, d \in Nat \ {0} : n <= m => n \div d <= m \div d /\ n \div d \in Nat
  OBVIOUS
<1> QED BY <1>1, LogAssumption DEF Sessions

LEMMA RowsFacts ==
  ASSUME Accounted
  PROVE  /\ Len(rows) \in Nat /\ DOMAIN rows = 1 .. Len(rows)
         /\ \A row \in Rows : row \in [reading : Nat, ts : Nat, session : Nat]
<1>1. rows \in Seq([reading : Nat, ts : Nat, session : Nat])
  BY DEF Accounted
<1>2. Len(rows) \in Nat /\ DOMAIN rows = 1 .. Len(rows)
  BY <1>1, LenProperties
<1>3. \A i \in 1 .. Len(rows) : rows[i] \in [reading : Nat, ts : Nat, session : Nat]
  BY <1>1, ElementOfSeq
<1> QED BY <1>2, <1>3, Zenon DEF Rows

LEMMA InsertKeepsExport ==
  ASSUME ExportInv, Insert PROVE LogTypeOK' /\ Kept' /\ ts' \in 0 .. now'
<1> DEFINE row == [reading |-> pending, ts |-> ts, session |-> now' \div Second]
<1>1. /\ now' \in 0 .. MaxTime /\ now <= now' /\ now \in 0 .. MaxTime
      /\ export' = export /\ first' = first /\ ts' = 0 /\ ts \in 0 .. now
  BY DEF Insert, TimePasses, ExportInv, LogTypeOK
<1>2. /\ row.ts = ts /\ row.session \in Sessions
  BY <1>1, SecondsAreSessions
<1> HIDE DEF row
<1>3. Accounted /\ Len(rows) \in Nat /\ DOMAIN rows = 1 .. Len(rows)
  BY RowsFacts DEF ExportInv
<1>4. /\ Len(rows') = Len(rows) + 1
      /\ \A i \in 1 .. Len(rows) : rows'[i] = rows[i]
      /\ Rows' = Rows \cup {row}
  BY <1>3, InsertAppends DEF row
<1>5. LogTypeOK'
  BY <1>1, <1>2, <1>3, <1>4, LogAssumption DEF ExportInv, LogTypeOK
<1>6. ASSUME export # Idle, NEW i \in 1 .. export.had
      PROVE  \E r \in Csv(export.session)' : rows'[i].ts <= r.ts
  <2>1. i \in 1 .. Len(rows)
    BY <1>3, <1>6 DEF ExportInv, LogTypeOK
  <2>2. PICK r \in Csv(export.session) : rows[i].ts <= r.ts
    BY <1>6 DEF ExportInv, Kept
  <2>3. r \in Csv(export.session)'
    BY <1>1, <1>4, <2>2 DEF Csv
  <2> QED BY <1>4, <2>1, <2>2, <2>3
<1> QED BY <1>1, <1>5, <1>6 DEF Kept, Csv

LEMMA NextExportInv == ExportInv /\ [Next]_vars => ExportInv'
<1> SUFFICES ASSUME ExportInv, [Next]_vars PROVE ExportInv'
  OBVIOUS
<1>1. FeedInv' /\ Accounted'
  BY NextFeedInv, NextAccounted DEF ExportInv
<1>2. made' <= MaxReadings
  <2>1. made \in Nat /\ made <= MaxReadings
    BY DEF ExportInv, FeedInv, Made
  <2>2. CASE Publish
    BY <2>1, <2>2, FeedAssumption DEF Publish, Sends
  <2>3. CASE Serve
    <3>1. made' = made
      BY <2>3 DEF Serve, Pages, Task, Accepts, Subscribes, SubscribesFrom, Receives, Takes,
                  Lags, Writes, WritesThen, WritesToNobody, Leaves
    <3> QED BY <2>1, <3>1
  <2>4. CASE Log \/ Export \/ Killed \/ UNCHANGED vars
    BY <2>1, <2>4 DEF Log, Export, Killed, FeedDies, vars, feedVars
  <2> QED BY <2>2, <2>3, <2>4 DEF Next
<1>3. Len(rows) \in Nat /\ DOMAIN rows = 1 .. Len(rows)
  BY RowsFacts DEF ExportInv
<1>4. CASE Publish
  <2>1. now' \in 0 .. MaxTime /\ now <= now' /\ ts' = now' /\ UNCHANGED <<rows, first, export>>
    BY <1>4 DEF Publish, Stamps, TimePasses, ExportInv, LogTypeOK
  <2>2. LogTypeOK' /\ Kept'
    BY <2>1, LogAssumption DEF ExportInv, LogTypeOK, Kept, Rows, Csv
  <2> QED BY <1>1, <1>2, <2>1, <2>2 DEF ExportInv
<1>5. CASE Log
  <2>1. CASE Insert
    BY <1>1, <1>2, <2>1, InsertKeepsExport DEF ExportInv
  <2>2. CASE InsertFails
    <3>1. ts' = 0 /\ UNCHANGED <<now, rows, first, export>>
      BY <2>2 DEF InsertFails
    <3>2. LogTypeOK' /\ Kept' /\ ts' \in 0 .. now'
      BY <3>1, LogAssumption DEF ExportInv, LogTypeOK, Kept, Rows, Csv
    <3> QED BY <1>1, <1>2, <3>2 DEF ExportInv
  <2> QED BY <1>5, <2>1, <2>2 DEF Log
<1>6. CASE Serve \/ UNCHANGED vars
  <2>1. UNCHANGED logVars
    BY <1>6 DEF Serve, vars
  <2>2. LogTypeOK' /\ Kept' /\ ts' \in 0 .. now'
    BY <2>1 DEF logVars, ExportInv, LogTypeOK, Kept, Rows, Csv
  <2> QED BY <1>1, <1>2, <2>2 DEF ExportInv
<1>7. CASE Export
  <2>1. UNCHANGED <<now, rows, first, ts>>
    BY <1>7 DEF Export, Exports, LatestSession, ExportCsv
  <2>2. CASE LatestSession
    <3>1. PICK row \in Rows : /\ Latest(row)
                              /\ export' = [session |-> row.session, had |-> Len(rows)]
      BY <2>2 DEF LatestSession
    <3>2. export'.session = row.session /\ export'.had = Len(rows)
          /\ row.session \in Sessions
      BY <3>1 DEF ExportInv, LogTypeOK
    <3>3. LogTypeOK' /\ ts' \in 0 .. now'
      BY <1>3, <2>1, <3>2 DEF ExportInv, LogTypeOK, Rows
    <3>4. row \in Csv(export.session)'
      BY <2>1, <3>2 DEF Csv, Rows
    <3>5. \A i \in 1 .. Len(rows) : rows[i] \in Rows /\ rows[i].ts <= row.ts
      BY <1>3, <3>1 DEF Latest, Rows
    <3>6. Kept'
      BY <2>1, <3>2, <3>4, <3>5 DEF Kept
    <3> QED BY <1>1, <1>2, <3>3, <3>6 DEF ExportInv
  <2>3. CASE ExportCsv
    <3>1. LogTypeOK' /\ Kept' /\ ts' \in 0 .. now'
      BY <2>1, <2>3 DEF ExportCsv, ExportInv, LogTypeOK, Kept, Rows
    <3> QED BY <1>1, <1>2, <3>1 DEF ExportInv
  <2> QED BY <1>7, <2>2, <2>3 DEF Export, Exports
<1>8. CASE Killed
  <2>1. ts' = 0 /\ export' = Idle /\ first' = Len(rows) /\ UNCHANGED <<now, rows>>
    BY <1>8 DEF Killed, LogDies
  <2>2. LogTypeOK' /\ Kept' /\ ts' \in 0 .. now'
    BY <1>3, <2>1, LogAssumption DEF ExportInv, LogTypeOK, Kept, Rows
  <2> QED BY <1>1, <1>2, <2>2 DEF ExportInv
<1> QED BY <1>4, <1>5, <1>6, <1>7, <1>8 DEF Next

(* The export of the most recent session leaves out no row that is newer   *)
(* than all it holds, whatever is inserted between latest_session and      *)
(* export_csv (src/server/mod.rs:181-193).                                 *)
THEOREM ExportsTheLatest == Spec => ExportIsRecent
<1>1. ExportInv /\ [Next]_vars =>
        [ExportCsv =>
           \A i \in 1 .. export.had :
             \E row \in Csv(export.session) : rows[i].ts <= row.ts]_vars
  BY DEF ExportInv, Kept, ExportCsv
<1> QED BY <1>1, InitExportInv, NextExportInv, PTL DEF Spec, ExportIsRecent

(* Channel, tasks, table and export have their types, the positions and    *)
(* the frame of a task among them.                                         *)
THEOREM ReadingsTyped == Spec => []TypeOK
<1>1. ExportInv /\ GapInv => TypeOK
  <2> SUFFICES ASSUME ExportInv, GapInv PROVE FeedTypeOK
    BY DEF TypeOK, ExportInv
  <2>1. FeedInv /\ made \in 0 .. MaxReadings /\ sent \in Seq(1 .. made)
    BY FeedAssumption DEF ExportInv, FeedInv, Made
  <2>2. since \in [Clients -> 0 .. made]
    BY <2>1 DEF FeedInv, Held, Arrays
  <2>3. ws \in [Clients -> Tasks] /\ \A c \in Clients : seen[c] \in Seq(1 .. made)
    BY <2>1 DEF FeedInv, Held, Arrays
  <2>4. \A c \in Subscribed : start[c] <= pos[c] /\ pos[c] <= Len(sent) + 1
    BY DEF GapInv, Gapless, Subscribed
  <2>5. \A c \in Clients : ws[c] = "writing" => frame[c] \in 1 .. made
    BY <2>1 DEF FeedInv, Follows
  <2> QED BY <2>1, <2>2, <2>3, <2>4, <2>5 DEF GapInv, FeedTypeOK
<1>2. ExportInv /\ GapInv /\ [Next]_vars => (ExportInv /\ GapInv)'
  BY NextExportInv, NextGapInv DEF ExportInv
<1>3. Init => ExportInv /\ GapInv
  BY InitExportInv, InitGapInv
<1> QED BY <1>1, <1>2, <1>3, PTL DEF Spec
=============================================================================
