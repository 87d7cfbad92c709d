\* Closing by the application, the rules collector and a broken transport; a full readCh.
CONSTANTS
    A = A
    B = B
    Plans <- LivePlans
    MaxPackets = 2
    PacketBytes = 1
    ReadBytes = 1
    ReadChBufSize = 1
    MaxPings = 1
SPECIFICATION LiveSpec
INVARIANTS
    ErrorKnownAtEOF
PROPERTIES
    CloseEnds PeerLearnsOfClose RouterNeverStuck
\* Both ends may be closed and quiet.
CHECK_DEADLOCK FALSE
