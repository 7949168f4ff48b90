\* A user with two connections, to one node or to two, and one fault.
SPECIFICATION FairSpec
CONSTANTS
    Users = {u}
    Nodes = {n1, n2}
    NoNode = NoNode
    MaxConnections = 2
    BufferSize = 1
    MaxFaults = 1
INVARIANT TypeOK
INVARIANT TheNewestIsRegistered
INVARIANT OldConnectionsAreClosed
INVARIANT RegisteredIsOnline
PROPERTY BackOnline
PROPERTY GhostsFade
PROPERTY ClosedIsTornDown
CHECK_DEADLOCK FALSE
