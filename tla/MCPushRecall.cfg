\* No fault: a message is edited, then recalled, and its reader gets both events in order.
SPECIFICATION Spec
CONSTANTS
    Messages = {text}
    TextMessages = {text}
    MaxEvents = 3
    MaxEdits = 1
    Nodes = {n1, n2}
    Readers = {u}
    NoNode = NoNode
    BufferSize = 2
    MaxFaults = 0
SYMMETRY NodeSymmetry
INVARIANT RecallReachesTheReader
CHECK_DEADLOCK FALSE
