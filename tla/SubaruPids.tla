------------------------------ MODULE SubaruPids ------------------------------
(* The PIDs of the EJ205 (src/subaru/mod.rs), in the order in which the    *)
(* loop asks for them.  need is the number of bytes the decoder of the PID *)
(* requires of check_len; the names, units and formulas are left out.      *)
PidDef(cmd, priority, need) == [cmd |-> cmd, priority |-> priority, need |-> need]

Ej205Pids == <<
  PidDef("010C", "Critical", 4),   \* rpm
  PidDef("010B", "Critical", 3),   \* map
  PidDef("0111", "High", 3),       \* tps
  PidDef("0110", "High", 4),       \* maf
  PidDef("0105", "Normal", 3),     \* coolant
  PidDef("010F", "Normal", 3),     \* iat
  PidDef("010A", "Normal", 3),     \* fuel_pres
  PidDef("0104", "Low", 3),        \* load
  PidDef("2101", "Critical", 23),  \* knock_fine
  PidDef("2101", "High", 27),      \* knock_learn
  PidDef("2101", "High", 24),      \* timing
  PidDef("2101", "Critical", 17),  \* boost_psi
  PidDef("2101", "Low", 31) >>     \* iam

(* The divisors of should_poll (src/scheduler/mod.rs).                     *)
PollDivisors == [Critical |-> 1, High |-> 3, Normal |-> 5, Low |-> 10]
=============================================================================
