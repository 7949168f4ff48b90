\* A friend and the bot, two rows, pages of one row, two requests of the page at a time.
SPECIFICATION AssistantSpec
CONSTANTS
    Peers = {friend, bot}
    NoPeer = NoPeer
    MaxId = 2
    PageSize = 1
    Slots = {s1, s2}
    MaxUpsets = 1
    Bot = bot
    ContextSize = 1
    MaxRounds = 2
    Goroutines = {g1}
SYMMETRY Symmetry
CONSTRAINT Apart
INVARIANT UnshownIsCounted
INVARIANT OfflineMissesOnlyLateCommits
INVARIANT ContextHasTheQuestion
INVARIANT SilenceHasACause
CHECK_DEADLOCK FALSE
