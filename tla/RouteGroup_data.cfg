\* Packets of two bytes to a reader with a one-byte buffer.
CONSTANTS
    A = A
    B = B
    Plans <- DataPlan
    MaxPackets = 2
    PacketBytes = 2
    ReadBytes = 1
    ReadChBufSize = 1
    MaxPings = 1
SPECIFICATION Spec
INVARIANTS
    TypeOK TornDownInOrder ReadIsComplete
\* Both ends may be closed and quiet.
CHECK_DEADLOCK FALSE
