CONSTANTS
  a = a
  b = b
  c = c
  x = x
  d1 = d1
  d2 = d2
  None = None
  Incoming = {a, b, c}
  Dialed = {x}
  Descs = {d1, d2}
  DescOf <- MCDescOf
  AcceptSize = 1
  Plans <- MCPlans
SPECIFICATION LiveSpec
CHECK_DEADLOCK FALSE
INVARIANTS
  TypeOK
  HandOver
  OpenGroupRegistered
PROPERTIES
  CallsReturn
