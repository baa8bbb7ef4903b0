CONSTANTS
  ATZ = ATZ
  ATE0 = ATE0
  Warm = Warm
  ATSH = ATSH
  P1 = P1
  P2 = P2
  C03 = C03
  C04 = C04
  banner = banner
  okay = okay
  data = data
  halted = halted
  codes = codes
  cleared = cleared
  loop = loop
  get = get
  post = post
  Commands <- MCCommands
  Kinds <- MCKinds
  Answers <- MCAnswers
  Reset = ATZ
  InitTail <- MCInitTail
  MaxConnect = 2
  Backlog = 2
  Pids <- MCPids
  Divisor <- MCDivisors
  Threshold = 2
  TickMod = 1
  Readers = {get}
  Clearers = {post}
  Sched = loop
  Header = ATSH
  ReadCmd = C03
  ClearCmd = C04
  TextOf <- MCTextOf
SPECIFICATION Spec
INVARIANTS TypeOK OneCaller QueueKept InStep
PROPERTIES UsesTransport ForeignOutOfStep Reconciled RequestsAnswered LoopGoesOn
