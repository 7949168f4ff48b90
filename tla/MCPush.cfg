\* Two nodes, one reader who moves between them, one message with up to three events, one fault.
SPECIFICATION FairSpec
CONSTANTS
    Messages = {text}
    TextMessages = {text}
    MaxEvents = 3
    MaxEdits = 1
    Nodes = {n1, n2}
    Readers = {u}
    NoNode = NoNode
    BufferSize = 1
    MaxFaults = 1
INVARIANTS TypeOK LatestEventTellsTheRow WindowTellsTheRow
PROPERTY NewMessageIsShown
CHECK_DEADLOCK FALSE
