------------------------------ MODULE Scheduler ------------------------------
(***************************************************************************)
(* PidScheduler::run (src/scheduler/mod.rs): every period of the timer the *)
(* PIDs due at the tick are asked for one after the other; three STOPPED   *)
(* or one transport error end the cycle early with a reconnection.         *)
(*                                                                         *)
(* The steps of the loop are operators on the scheduler's own state, for   *)
(* the modules that say where the answers come from: PollCadence lets them *)
(* be anything, ObdLink takes them from the transport.                     *)
(***************************************************************************)
EXTENDS Naturals, Sequences

CONSTANTS
  Pids,       \* ej205_pids, in order: [cmd, priority, need]
  Divisor,    \* of each priority, in ticks
  Threshold,  \* STOPPED_RECONNECT_THRESHOLD: 3
  TickMod     \* bound: the tick wraps here, at 2^64 in the code

Priorities == {"Critical", "High", "Normal", "Low"}

ASSUME SchedulerAssumption ==
  /\ Pids # <<>>
  /\ Len(Pids) \in Nat /\ DOMAIN Pids = 1 .. Len(Pids)
  /\ \A i \in DOMAIN Pids : Pids[i].priority \in Priorities
  /\ Divisor \in [Priorities -> Nat \ {0}]
  /\ Threshold \in Nat \ {0}
  /\ TickMod \in Nat \ {0}

VARIABLES
  phase,    \* where run is
  idx,      \* the PID of the for loop, 0 outside it
  tick,
  stopped   \* stopped_count

svars == <<phase, idx, tick, stopped>>

(* "boot" and "exit" are main's: the transport is connected before run     *)
(* starts, or the program ends.  The others are awaits of run: the AT SH   *)
(* of init_elm327 ("init", and "reinit" after a reconnection), the timer,  *)
(* the answer of a PID, and the sleeps and connect of reconnect.           *)
Phases == {"boot", "exit", "init", "tick", "poll", "reconnect", "reinit"}

-----------------------------------------------------------------------------
ShouldPoll(t, priority) == t % Divisor[priority] = 0

(* Wrong: the PID after the last one asked for is passed over.             *)
DueAfterNext(i, t) ==
  {j \in DOMAIN Pids : j > i + 1 /\ ShouldPoll(t, Pids[j].priority)}

(* The PIDs the loop still has to ask for at tick t after the i-th.        *)
DueAfter(i, t) ==
  {j \in DOMAIN Pids : j > i /\ ShouldPoll(t, Pids[j].priority)}

(* The end of the loop's body, with t the tick it leaves.                  *)
EndCycle(t) ==
  /\ phase' = "tick"
  /\ idx' = 0
  /\ tick' = (t + 1) % TickMod

(* Wrong: every cycle starts the ticks over.                               *)
NextPidStartsOver(i) ==
  \/ /\ DueAfter(i, tick) = {}
     /\ EndCycle(0)
  \/ \E j \in DueAfter(i, tick) :
       /\ \A k \in DueAfter(i, tick) : j <= k
       /\ phase' = "poll"
       /\ idx' = j
       /\ UNCHANGED tick

(* The for loop goes on after the i-th PID.                                *)
NextPid(i) ==
  \/ /\ DueAfter(i, tick) = {}
     /\ EndCycle(tick)
  \/ \E j \in DueAfter(i, tick) :
       /\ \A k \in DueAfter(i, tick) : j <= k
       /\ phase' = "poll"
       /\ idx' = j
       /\ UNCHANGED tick

-----------------------------------------------------------------------------
SchedulerInit ==
  /\ phase = "boot"
  /\ idx = 0
  /\ tick = 0
  /\ stopped = 0

(* main's connect, before run starts.                                      *)
Booted ==
  /\ phase = "boot"
  /\ phase' = "init"
  /\ UNCHANGED <<idx, tick, stopped>>

BootFailed ==
  /\ phase = "boot"
  /\ phase' = "exit"
  /\ UNCHANGED <<idx, tick, stopped>>

TimerFires ==
  /\ phase = "tick"
  /\ NextPid(0)
  /\ UNCHANGED stopped

(* parse_response returns bytes, whether or not the PID's decode does.     *)
GotBytes ==
  /\ phase = "poll"
  /\ stopped' = 0
  /\ NextPid(idx)

(* Wrong: an error breaks out of the for loop.                             *)
GotErrorBreaks ==
  /\ phase = "poll"
  /\ EndCycle(tick)
  /\ UNCHANGED stopped

(* NO DATA, an error of the device or of the bus, or digits that are not.  *)
GotError ==
  /\ phase = "poll"
  /\ NextPid(idx)
  /\ UNCHANGED stopped

(* Wrong: the threshold is compared too late.                              *)
GotStoppedLate ==
  /\ phase = "poll"
  /\ stopped + 1 <= Threshold
  /\ stopped' = stopped + 1
  /\ NextPid(idx)

(* Wrong: the counter is set instead of incremented.                       *)
GotStoppedOnce ==
  /\ phase = "poll"
  /\ stopped + 1 < Threshold
  /\ stopped' = 1
  /\ NextPid(idx)

GotStopped ==
  /\ phase = "poll"
  /\ stopped + 1 < Threshold
  /\ stopped' = stopped + 1
  /\ NextPid(idx)

GotLastStopped ==
  /\ phase = "poll"
  /\ stopped + 1 >= Threshold
  /\ stopped' = 0
  /\ phase' = "reconnect"
  /\ UNCHANGED <<idx, tick>>

(* Wrong: a transport error counts as a STOPPED, past the threshold.       *)
TransportErrorCounts ==
  /\ phase = "poll"
  /\ phase' = "reconnect"
  /\ stopped' = stopped + 1
  /\ UNCHANGED <<idx, tick>>

TransportError ==
  /\ phase = "poll"
  /\ phase' = "reconnect"
  /\ UNCHANGED <<idx, tick, stopped>>

Reconnected ==
  /\ phase = "reconnect"
  /\ phase' = "reinit"
  /\ UNCHANGED <<idx, tick, stopped>>

(* The tick is set to 0 and the for loop broken out of.                    *)
ReconnectFailed ==
  /\ phase = "reconnect"
  /\ EndCycle(0)
  /\ UNCHANGED stopped

(* init_elm327 is done, whatever the answer, and after a reconnection so   *)
(* is the cycle.                                                           *)
HeaderDone ==
  \/ /\ phase = "init"
     /\ phase' = "tick"
     /\ UNCHANGED <<idx, tick, stopped>>
  \/ /\ phase = "reinit"
     /\ EndCycle(0)
     /\ UNCHANGED stopped

SchedulerNext == \/ Booted \/ BootFailed \/ TimerFires
                 \/ GotBytes \/ GotError \/ GotStopped \/ GotLastStopped
                 \/ TransportError \/ Reconnected \/ ReconnectFailed \/ HeaderDone

-----------------------------------------------------------------------------
SchedulerTypeOK ==
  /\ phase \in Phases
  /\ idx \in DOMAIN Pids \cup {0}
  /\ tick \in 0 .. TickMod - 1
  /\ stopped \in 0 .. Threshold - 1
  /\ phase = "poll" => idx # 0
=============================================================================
