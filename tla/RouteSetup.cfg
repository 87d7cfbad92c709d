SPECIFICATION LiveSpec
CONSTANTS
  A = A
  B = B
  C = C
  p = p
  q = q
  Nodes = {A, B, C}
  Reqs = {p, q}
  Src <- BothSrc
  Dst <- BothDst
  PingKey <- BothKeys
  Paths <- BothPaths
  Faulty = {A, B}
  Deadlines = {p, q}
  NoPing = NoPing
  AppPort = AppPort
  MaxHops = 2
CHECK_DEADLOCK FALSE
INVARIANTS
  TypeOK
  RoutesAreSound
PROPERTIES
  RulesKept
  SetupEnds
