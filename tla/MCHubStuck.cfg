\* One connection: its reader can stay at a send nobody will receive.
SPECIFICATION FairSpec
CONSTANTS
    Users = {u}
    Nodes = {n1}
    NoNode = NoNode
    MaxConnections = 1
    BufferSize = 1
    MaxFaults = 0
PROPERTY ClosedIsUnregistered
CHECK_DEADLOCK FALSE
