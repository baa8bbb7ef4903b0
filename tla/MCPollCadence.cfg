CONSTANTS
  Pids <- Ej205Pids
  Divisor <- PollDivisors
  Threshold = 3
  TickMod = 32
SPECIFICATION Spec
INVARIANTS TypeOK StopsCaught CadenceKept
PROPERTIES FirstPidServed AllServed
