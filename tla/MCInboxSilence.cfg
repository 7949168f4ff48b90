\* The bot only, one question and its answer, nothing goes wrong but the deadline.
SPECIFICATION AssistantSpec
CONSTANTS
    Peers = {bot}
    NoPeer = NoPeer
    MaxId = 2
    PageSize = 1
    Slots = {}
    MaxUpsets = 0
    Bot = bot
    ContextSize = 1
    MaxRounds = 2
    Goroutines = {g1}
PROPERTY FailureIsTold
CHECK_DEADLOCK FALSE
