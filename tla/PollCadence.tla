----------------------------- MODULE PollCadence -----------------------------
(***************************************************************************)
(* How often each PID is asked for, and when STOPPED answers bring a       *)
(* reconnection: the scheduler with answers that may be anything, beside   *)
(* two histories the code does not keep.                                   *)
(***************************************************************************)
EXTENDS Scheduler

VARIABLES
  streak,  \* consecutive STOPPED answers up to now
  waited   \* per PID, cycles begun since it was last asked for, or since
           \* the ticks last started over

history == <<streak, waited>>
vars    == <<phase, idx, tick, stopped, streak, waited>>

Init ==
  /\ SchedulerInit
  /\ streak = 0
  /\ waited = [i \in DOMAIN Pids |-> 0]

(* One cycle more; beyond the divisor there is no need to go on counting.  *)
Longer(i) ==
  IF waited[i] > Divisor[Pids[i].priority] THEN waited[i] ELSE waited[i] + 1

(* What the step does to the waits: the PID that is asked for has waited   *)
(* enough, and a cycle that begins is one more for every other.            *)
Asked(begins) ==
  waited' = [i \in DOMAIN Pids |->
               IF phase' = "poll" /\ idx' = i THEN 0
               ELSE IF begins THEN Longer(i) ELSE waited[i]]

StartOver == waited' = [i \in DOMAIN Pids |-> 0]

Boot   == (Booted \/ BootFailed) /\ UNCHANGED history
Timer  == TimerFires /\ Asked(TRUE) /\ UNCHANGED streak
Bytes  == GotBytes /\ streak' = 0 /\ Asked(FALSE)
Error  == GotError /\ streak' = 0 /\ Asked(FALSE)
Stops  == GotStopped /\ streak' = streak + 1 /\ Asked(FALSE)
Limit  == GotLastStopped /\ streak' = 0 /\ UNCHANGED waited
Broken == TransportError /\ streak' = 0 /\ UNCHANGED waited
Back   == Reconnected /\ UNCHANGED history
Failed == ReconnectFailed /\ StartOver /\ UNCHANGED streak
Header == /\ HeaderDone
          /\ IF phase = "reinit" THEN StartOver ELSE UNCHANGED waited
          /\ UNCHANGED streak
Ended  == phase = "exit" /\ UNCHANGED vars

Next == \/ Boot \/ Timer \/ Bytes \/ Error \/ Stops \/ Limit \/ Broken
        \/ Back \/ Failed \/ Header \/ Ended

Spec == Init /\ [][Next]_vars /\ WF_vars(Next)

-----------------------------------------------------------------------------
TypeOK ==
  /\ SchedulerTypeOK
  /\ streak \in 0 .. Threshold - 1
  /\ waited \in [DOMAIN Pids -> Nat]

(* The counter may run ahead of the STOPPED answers in a row, never behind *)
(* them: STOPPED_RECONNECT_THRESHOLD in a row always reconnect, whatever   *)
(* errors, timeouts and reconnections came before.                         *)
StopsCaught == streak <= stopped

(* Between two questions for a PID, or since the ticks started over, there *)
(* are no more cycles than its divisor, across the wrap of the tick, which *)
(* the divisors do not divide.                                             *)
CadenceKept ==
  \A i \in DOMAIN Pids : waited[i] <= Divisor[Pids[i].priority]

Serves(i) == phase = "exit" \/ (phase = "poll" /\ idx = i)

(* Every cycle comes to its end and the first PID of the table, which is   *)
(* critical, is asked for again and again, even if every question ends in  *)
(* an error or in a reconnection.                                          *)
FirstPidServed == []<>Serves(1)

(* Every PID is asked for again and again once reconnections cease: each   *)
(* of them starts the ticks over, so a PID that is due every tenth tick    *)
(* is never asked for on a link that breaks more often than that.          *)
AllServed ==
  <>[](phase # "reconnect") =>
    \A i \in DOMAIN Pids : []<>Serves(i)
=============================================================================
