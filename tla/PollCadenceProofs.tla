-------------------------- MODULE PollCadenceProofs --------------------------
(* Proofs about PollCadence, for every table of PIDs, every divisors,      *)
(* every threshold and every wrap of the tick.                             *)
EXTENDS PollCadence, TLAPS

-----------------------------------------------------------------------------
(* The steps of the polling loop keep the types of its state.              *)
LEMMA WrapType ==
  ASSUME NEW t \in Nat
  PROVE  (t + 1) % TickMod \in 0 .. TickMod - 1
BY SchedulerAssumption

LEMMA NoPidBeforeFirst == 0 \notin DOMAIN Pids
BY SchedulerAssumption

LEMMA EndCycleType ==
  ASSUME NEW t \in Nat, EndCycle(t)
  PROVE  /\ phase' = "tick" /\ idx' = 0
         /\ tick' \in 0 .. TickMod - 1
BY WrapType DEF EndCycle

LEMMA NextPidType ==
  ASSUME SchedulerTypeOK, NEW i, NextPid(i)
  PROVE  /\ phase' \in {"tick", "poll"}
         /\ idx' \in DOMAIN Pids \cup {0}
         /\ tick' \in 0 .. TickMod - 1
         /\ phase' = "poll" => idx' # 0
<1>1. tick \in Nat
  BY SchedulerAssumption DEF SchedulerTypeOK
<1>2. CASE EndCycle(tick)
  BY <1>1, <1>2, EndCycleType
<1>3. CASE \E j \in DueAfter(i, tick) : phase' = "poll" /\ idx' = j /\ tick' = tick
  BY <1>3, NoPidBeforeFirst DEF DueAfter, SchedulerTypeOK
<1> QED BY <1>2, <1>3 DEF NextPid

LEMMA SchedulerInitType == SchedulerInit => SchedulerTypeOK
BY SchedulerAssumption DEF SchedulerInit, SchedulerTypeOK, Phases

THEOREM SchedulerNextType ==
  ASSUME SchedulerTypeOK, [SchedulerNext]_svars
  PROVE  SchedulerTypeOK'
<1> USE DEF SchedulerTypeOK, Phases
<1>1. CASE Booted \/ BootFailed \/ Reconnected \/ TransportError
  BY <1>1 DEF Booted, BootFailed, Reconnected, TransportError
<1>2. CASE TimerFires \/ GotError
  BY <1>2, NextPidType DEF TimerFires, GotError
<1>3. CASE GotBytes
  <2>1. 0 \in 0 .. Threshold - 1
    BY SchedulerAssumption
  <2> QED BY <1>3, <2>1, NextPidType DEF GotBytes
<1>4. CASE GotStopped
  <2>1. stopped' \in 0 .. Threshold - 1
    BY <1>4, SchedulerAssumption DEF GotStopped
  <2> QED BY <1>4, <2>1, NextPidType DEF GotStopped
<1>5. CASE GotLastStopped
  <2>1. 0 \in 0 .. Threshold - 1
    BY SchedulerAssumption
  <2> QED BY <1>5, <2>1 DEF GotLastStopped
<1>6. CASE ReconnectFailed
  BY <1>6, EndCycleType DEF ReconnectFailed
<1>7. CASE HeaderDone
  BY <1>7, EndCycleType DEF HeaderDone
<1>8. CASE UNCHANGED svars
  BY <1>8 DEF svars
<1> QED BY <1>1, <1>2, <1>3, <1>4, <1>5, <1>6, <1>7, <1>8 DEF SchedulerNext

-----------------------------------------------------------------------------
(* The inductive invariant: the answers in a row that say STOPPED are all  *)
(* counted, so that the count bounds them.                                 *)
StopsInv == TypeOK /\ StopsCaught

LEMMA StopsInitInv == Init => StopsInv
<1> SUFFICES ASSUME Init PROVE StopsInv
  OBVIOUS
<1>1. SchedulerTypeOK /\ stopped = 0
  BY SchedulerInitType DEF Init, SchedulerInit
<1>2. 0 \in 0 .. Threshold - 1
  BY SchedulerAssumption
<1> QED BY <1>1, <1>2 DEF Init, StopsInv, TypeOK, StopsCaught

LEMMA NextScheduler == [Next]_vars => [SchedulerNext]_svars
BY DEF Next, SchedulerNext, vars, svars, Boot, Timer, Bytes, Error, Stops,
       Limit, Broken, Back, Failed, Header, Ended

LEMMA WaitsType ==
  ASSUME TypeOK, [Next]_vars
  PROVE  waited' \in [DOMAIN Pids -> Nat]
<1>1. CASE waited' = waited
  BY <1>1 DEF TypeOK
<1>2. CASE StartOver
  BY <1>2 DEF StartOver
<1>3. CASE Asked(TRUE) \/ Asked(FALSE)
  <2>1. ASSUME NEW i \in DOMAIN Pids PROVE waited[i] \in Nat /\ Longer(i) \in Nat
    BY DEF Longer, TypeOK
  <2> QED BY <1>3, <2>1 DEF Asked
<1>4. waited' = waited \/ StartOver \/ Asked(TRUE) \/ Asked(FALSE)
  BY DEF Next, vars, history, Boot, Timer, Bytes, Error, Stops,
         Limit, Broken, Back, Failed, Header, Ended
<1> QED BY <1>1, <1>2, <1>3, <1>4

LEMMA StopsNextInv ==
  ASSUME StopsInv, [Next]_vars
  PROVE  StopsInv'
<1>1. SchedulerTypeOK'
  BY NextScheduler, SchedulerNextType DEF StopsInv, TypeOK
<1>2. waited' \in [DOMAIN Pids -> Nat]
  BY WaitsType DEF StopsInv
<1>3. /\ streak \in Nat /\ stopped \in Nat /\ streak <= stopped
      /\ stopped < Threshold /\ Threshold \in Nat
  BY SchedulerAssumption DEF StopsInv, TypeOK, StopsCaught, SchedulerTypeOK
<1>4. streak' \in Nat /\ streak' <= stopped'
  <2>1. stopped' \in Nat
    BY <1>1, SchedulerAssumption DEF SchedulerTypeOK
  <2>2. CASE Bytes \/ Error \/ Limit \/ Broken
    <3>1. streak' = 0
      BY <2>2 DEF Bytes, Error, Limit, Broken
    <3> QED BY <3>1, <2>1
  <2>3. CASE Stops
    BY <1>3, <2>3 DEF Stops, GotStopped
  <2>4. CASE Boot \/ Timer \/ Back \/ Failed \/ Header \/ Ended \/ UNCHANGED vars
    <3>1. streak' = streak /\ stopped' = stopped
      BY <2>4 DEF Boot, Timer, Back, Failed, Header, Ended, vars, history,
           Booted, BootFailed, TimerFires, Reconnected, ReconnectFailed, HeaderDone
    <3> QED BY <3>1, <1>3
  <2> QED BY <2>2, <2>3, <2>4 DEF Next
<1>5. streak' \in 0 .. Threshold - 1
  BY <1>1, <1>4, SchedulerAssumption DEF SchedulerTypeOK
<1> QED BY <1>1, <1>2, <1>4, <1>5 DEF StopsInv, TypeOK, StopsCaught

(* STOPPED_RECONNECT_THRESHOLD answers in a row that say STOPPED never go  *)
(* by without a reconnection, whatever errors came in between before.      *)
THEOREM StopsAlwaysCaught == Spec => [](TypeOK /\ StopsCaught)
<1>1. Init => StopsInv
  BY StopsInitInv
<1>2. StopsInv /\ [Next]_vars => StopsInv'
  BY StopsNextInv
<1> QED BY <1>1, <1>2, PTL DEF Spec, StopsInv

-----------------------------------------------------------------------------
(* Remainders of a tick that grows by one.                                 *)
LEMMA RemainderIs ==
  ASSUME NEW d \in Nat \ {0}, NEW q \in Nat, NEW r \in 0 .. d - 1
  PROVE  (d * q + r) % d = r
OBVIOUS

LEMMA RemainderNext ==
  ASSUME NEW d \in Nat \ {0}, NEW t \in Nat
  PROVE  /\ t % d \in 0 .. d - 1
         /\ (t + 1) % d = IF t % d = d - 1 THEN 0 ELSE (t % d) + 1
<1> DEFINE q == t \div d
           r == t % d
<1>1. q \in Nat /\ r \in 0 .. d - 1 /\ t = d * q + r
  OBVIOUS
<1> HIDE DEF q, r
<1>2. CASE r = d - 1
  <2>1. t + 1 = d * (q + 1) + 0 /\ q + 1 \in Nat /\ 0 \in 0 .. d - 1
    BY <1>1, <1>2
  <2>2. (t + 1) % d = 0
    BY <2>1, RemainderIs
  <2> QED BY <2>2, <1>1, <1>2 DEF r
<1>3. CASE r # d - 1
  <2>1. t + 1 = d * q + (r + 1) /\ r + 1 \in 0 .. d - 1
    BY <1>1, <1>3
  <2>2. (t + 1) % d = r + 1
    BY <2>1, <1>1, RemainderIs
  <2> QED BY <2>2, <1>1, <1>3 DEF r
<1> QED BY <1>2, <1>3

LEMMA RemainderSmall ==
  ASSUME NEW d \in Nat \ {0}, NEW t \in Nat, t < d
  PROVE  t % d = t
OBVIOUS

(* The cycles begun since the last multiple of d when tick t is next.      *)
Since(t, d) == IF t % d = 0 THEN d - 1 ELSE (t % d) - 1

(* From one tick to the next, or to the wrap.                              *)
LEMMA SinceNext ==
  ASSUME NEW d \in Nat \ {0}, NEW t \in 0 .. TickMod - 1
  PROVE  Since((t + 1) % TickMod, d) >= t % d
<1>0. TickMod \in Nat \ {0} /\ t \in Nat
  BY SchedulerAssumption
<1>1. t \in Nat /\ t % d \in 0 .. d - 1
  BY <1>0, RemainderNext
<1>2. CASE t + 1 < TickMod
  <2>1. (t + 1) % TickMod = t + 1
    <3>1. t + 1 \in Nat
      BY <1>0
    <3> QED BY <3>1, <1>0, <1>2, RemainderSmall
  <2>2. (t + 1) % d = IF t % d = d - 1 THEN 0 ELSE (t % d) + 1
    BY <1>1, RemainderNext
  <2>3. Since(t + 1, d) = t % d
    BY <1>1, <2>2 DEF Since
  <2> QED BY <1>1, <2>1, <2>3
<1>3. CASE t + 1 = TickMod
  <2>1. (t + 1) % TickMod = 0
    <3>1. TickMod = TickMod * 1 + 0 /\ 0 \in 0 .. TickMod - 1
      BY SchedulerAssumption
    <3> QED BY <3>1, <1>3, RemainderIs, SchedulerAssumption
  <2>2. 0 % d = 0
    BY RemainderSmall
  <2>3. Since(0, d) = d - 1
    BY <2>2 DEF Since
  <2> QED BY <1>1, <2>1, <2>3
<1> QED BY <1>2, <1>3, SchedulerAssumption

LEMMA SinceNat ==
  ASSUME NEW d \in Nat \ {0}, NEW t \in Nat
  PROVE  Since(t, d) \in 0 .. d - 1 /\ Since(t, d) \in Nat
<1>1. t % d \in 0 .. d - 1
  BY RemainderNext
<1> QED BY <1>1 DEF Since

-----------------------------------------------------------------------------
(* What PID i may have waited, by where the loop is.  In a cycle, a PID    *)
(* that is not due has waited less than its divisor, as the tick says; one *)
(* that is has been asked for once the loop has passed it.                 *)
WaitFits(i) ==
  LET d == Divisor[Pids[i].priority]
  IN  /\ phase \in {"boot", "exit", "init"} => waited[i] = 0
      /\ phase = "tick" => waited[i] <= Since(tick, d)
      /\ phase = "poll" =>
           /\ tick % d = 0 => waited[i] <= d /\ (i <= idx => waited[i] = 0)
           /\ tick % d # 0 => waited[i] <= tick % d
      /\ phase \in {"reconnect", "reinit"} => waited[i] <= d

CadenceInv == TypeOK /\ \A i \in DOMAIN Pids : WaitFits(i)

LEMMA PidTypes ==
  ASSUME NEW i \in DOMAIN Pids
  PROVE  i \in Nat \ {0} /\ Divisor[Pids[i].priority] \in Nat \ {0}
BY SchedulerAssumption

(* The loop goes on after the i-th PID: every PID that is due has been     *)
(* asked for, or comes later, and the next one is reached in order.        *)
LEMMA NextPidFits ==
  ASSUME TypeOK, NEW i \in DOMAIN Pids, NEW n \in Nat, NEW b \in BOOLEAN,
         NextPid(n), Asked(b),
         NEW w \in Nat, w = IF b THEN Longer(i) ELSE waited[i],
         tick % Divisor[Pids[i].priority] = 0 =>
           w <= Divisor[Pids[i].priority] /\ (i <= n => w = 0),
         tick % Divisor[Pids[i].priority] # 0 =>
           w <= tick % Divisor[Pids[i].priority]
  PROVE  WaitFits(i)'
<1> DEFINE d == Divisor[Pids[i].priority]
<1>1. d \in Nat \ {0} /\ i \in Nat
  BY PidTypes
<1>2. tick \in 0 .. TickMod - 1 /\ tick \in Nat
  BY SchedulerAssumption DEF TypeOK, SchedulerTypeOK
<1>3. tick % d \in 0 .. d - 1
  BY <1>1, <1>2, RemainderNext
<1>4. waited'[i] = IF phase' = "poll" /\ idx' = i THEN 0 ELSE w
  BY DEF Asked
<1>5. tick % d = 0 => w <= d /\ (i <= n => w = 0)
  OBVIOUS
<1>6. tick % d # 0 => w <= tick % d
  OBVIOUS
<1>7. CASE DueAfter(n, tick) = {} /\ EndCycle(tick)
  <2>1. phase' = "tick" /\ tick' = (tick + 1) % TickMod
    BY <1>7 DEF EndCycle
  <2>2. tick % d = 0 => i <= n
    BY <1>1, <1>7 DEF DueAfter, ShouldPoll
  <2>3. waited'[i] = w /\ w <= tick % d
    BY <2>1, <2>2, <1>3, <1>4, <1>5, <1>6
  <2>4. Since(tick', d) >= tick % d
    BY <2>1, <1>1, <1>2, SinceNext
  <2>5. tick' \in Nat
    BY <2>1, <1>2, EndCycleType, <1>7, SchedulerAssumption
  <2>6. Since(tick', d) \in Nat
    BY <2>5, <1>1, SinceNat
  <2>7. waited'[i] <= Since(tick', d)
    BY <2>3, <2>4, <2>6, <1>3
  <2> QED BY <2>1, <2>7 DEF WaitFits
<1>8. CASE \E j \in DueAfter(n, tick) :
             /\ \A k \in DueAfter(n, tick) : j <= k
             /\ phase' = "poll" /\ idx' = j /\ UNCHANGED tick
  <2>1. PICK j \in DueAfter(n, tick) :
             /\ \A k \in DueAfter(n, tick) : j <= k
             /\ phase' = "poll" /\ idx' = j /\ UNCHANGED tick
    BY <1>8
  <2>2. j \in Nat
    BY <2>1, PidTypes DEF DueAfter
  <2>3. tick % d = 0 => i <= n \/ j <= i
    BY <2>1, <1>1 DEF DueAfter, ShouldPoll
  <2>4. tick % d = 0 => waited'[i] <= d /\ (i <= j => waited'[i] = 0)
    BY <2>1, <2>2, <2>3, <1>1, <1>4, <1>5
  <2>5. tick % d # 0 => waited'[i] <= tick % d
    BY <1>3, <1>4, <1>6
  <2> QED BY <2>1, <2>4, <2>5 DEF WaitFits
<1> QED BY <1>7, <1>8 DEF NextPid

(* The ticks start over at 1.                                              *)
LEMMA StartOverFits ==
  ASSUME NEW i \in DOMAIN Pids, EndCycle(0), StartOver
  PROVE  WaitFits(i)'
<1>1. phase' = "tick" /\ tick' \in Nat
  BY EndCycleType, SchedulerAssumption
<1>2. Since(tick', Divisor[Pids[i].priority]) \in Nat
  BY <1>1, PidTypes, SinceNat
<1>3. waited'[i] = 0
  BY DEF StartOver
<1> QED BY <1>1, <1>2, <1>3 DEF WaitFits

LEMMA CadenceInitInv == Init => CadenceInv
<1> SUFFICES ASSUME Init PROVE CadenceInv
  OBVIOUS
<1>1. TypeOK
  BY StopsInitInv DEF StopsInv
<1>2. ASSUME NEW i \in DOMAIN Pids PROVE WaitFits(i)
  BY DEF Init, SchedulerInit, WaitFits
<1> QED BY <1>1, <1>2 DEF CadenceInv

(* The invariant needs StopsInv only for the type of streak.               *)
LEMMA CadenceNextInv ==
  ASSUME CadenceInv, StopsInv, [Next]_vars, NEW i \in DOMAIN Pids
  PROVE  WaitFits(i)'
<1> DEFINE d == Divisor[Pids[i].priority]
<1>1. d \in Nat \ {0} /\ i \in Nat \ {0}
  BY PidTypes
<1>2. TypeOK /\ WaitFits(i)
  BY DEF CadenceInv
<1>3. /\ waited[i] \in Nat /\ tick \in Nat
      /\ idx \in Nat
  BY <1>2, PidTypes, SchedulerAssumption DEF TypeOK, SchedulerTypeOK
<1>4. tick % d \in 0 .. d - 1
  BY <1>1, <1>3, RemainderNext
<1>5. CASE Timer
  <2>1. phase = "tick" /\ NextPid(0) /\ Asked(TRUE)
    BY <1>5 DEF Timer, TimerFires
  <2>2. waited[i] <= Since(tick, d) /\ Since(tick, d) \in 0 .. d - 1
    BY <2>1, <1>1, <1>2, <1>3, SinceNat DEF WaitFits
  <2>3. Longer(i) = waited[i] + 1 /\ waited[i] + 1 \in Nat /\ ~ (i <= 0)
    BY <2>2, <1>1, <1>3 DEF Longer
  <2>4. tick % d = 0 => waited[i] + 1 <= d
    BY <2>2, <1>1, <1>3
  <2>5. tick % d # 0 => waited[i] + 1 <= tick % d
    BY <2>2, <1>1, <1>3, <1>4 DEF Since
  <2> QED BY <2>1, <2>3, <2>4, <2>5, <1>2, NextPidFits
<1>6. CASE Bytes \/ Error \/ Stops
  <2>1. phase = "poll" /\ NextPid(idx) /\ Asked(FALSE)
    BY <1>6 DEF Bytes, Error, Stops, GotBytes, GotError, GotStopped
  <2>2. tick % d = 0 => waited[i] <= d /\ (i <= idx => waited[i] = 0)
    BY <2>1, <1>2 DEF WaitFits
  <2>3. tick % d # 0 => waited[i] <= tick % d
    BY <2>1, <1>2 DEF WaitFits
  <2> QED BY <2>1, <2>2, <2>3, <1>2, <1>3, NextPidFits
<1>7. CASE Limit \/ Broken
  <2>1. phase = "poll" /\ phase' = "reconnect" /\ waited' = waited
    BY <1>7 DEF Limit, Broken, GotLastStopped, TransportError
  <2>2. waited[i] <= d
    BY <2>1, <1>1, <1>2, <1>3, <1>4 DEF WaitFits
  <2> QED BY <2>1, <2>2 DEF WaitFits
<1>8. CASE Failed
  BY <1>8, StartOverFits DEF Failed, ReconnectFailed
<1>9. CASE Header
  <2>1. CASE phase = "reinit"
    BY <1>9, <2>1, StartOverFits DEF Header, HeaderDone
  <2>2. CASE phase # "reinit"
    <3>1. phase = "init" /\ phase' = "tick" /\ waited' = waited /\ tick' = tick
      BY <1>9, <2>2 DEF Header, HeaderDone
    <3>2. waited[i] = 0
      BY <3>1, <1>2 DEF WaitFits
    <3>3. Since(tick, d) \in Nat
      BY <1>1, <1>3, SinceNat
    <3> QED BY <3>1, <3>2, <3>3 DEF WaitFits
  <2> QED BY <2>1, <2>2
<1>10. CASE Back
  <2>1. phase = "reconnect" /\ phase' = "reinit" /\ waited' = waited
    BY <1>10 DEF Back, Reconnected, history
  <2> QED BY <2>1, <1>2 DEF WaitFits
<1>11. CASE Boot
  <2>1. phase = "boot" /\ phase' \in {"init", "exit"} /\ waited' = waited
    BY <1>11 DEF Boot, Booted, BootFailed, history
  <2> QED BY <2>1, <1>2 DEF WaitFits
<1>12. CASE Ended \/ UNCHANGED vars
  BY <1>2, <1>12 DEF Ended, vars, WaitFits
<1> QED BY <1>5, <1>6, <1>7, <1>8, <1>9, <1>10, <1>11, <1>12 DEF Next

(* Between two questions for a PID there are never more cycles than its    *)
(* divisor, whatever the divisors and wherever the tick wraps.             *)
THEOREM CadenceAlwaysKept == Spec => []CadenceKept
<1>1. Init => CadenceInv /\ StopsInv
  BY CadenceInitInv, StopsInitInv
<1>2. CadenceInv /\ StopsInv /\ [Next]_vars => CadenceInv' /\ StopsInv'
  <2> SUFFICES ASSUME CadenceInv, StopsInv, [Next]_vars
               PROVE  CadenceInv' /\ StopsInv'
    OBVIOUS
  <2>1. StopsInv'
    BY StopsNextInv
  <2>2. ASSUME NEW i \in DOMAIN Pids PROVE WaitFits(i)'
    BY CadenceNextInv
  <2> QED BY <2>1, <2>2 DEF CadenceInv, StopsInv
<1>3. CadenceInv => CadenceKept
  <2> SUFFICES ASSUME CadenceInv, NEW i \in DOMAIN Pids
               PROVE  waited[i] <= Divisor[Pids[i].priority]
    BY DEF CadenceKept
  <2> DEFINE d == Divisor[Pids[i].priority]
  <2>1. /\ d \in Nat \ {0} /\ waited[i] \in Nat /\ tick \in Nat
        /\ phase \in Phases /\ WaitFits(i)
    BY PidTypes, SchedulerAssumption DEF CadenceInv, TypeOK, SchedulerTypeOK
  <2>2. Since(tick, d) \in 0 .. d - 1 /\ tick % d \in 0 .. d - 1
    BY <2>1, SinceNat, RemainderNext
  <2> QED BY <2>1, <2>2 DEF WaitFits, Phases
<1> QED BY <1>1, <1>2, <1>3, PTL DEF Spec
=============================================================================
