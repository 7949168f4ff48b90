\* A friend and the bot, two rows, pages of one row, nothing goes wrong.
SPECIFICATION AssistantSpec
CONSTANTS
    Peers = {friend, bot}
    NoPeer = NoPeer
    MaxId = 2
    PageSize = 1
    Slots = {s1}
    MaxUpsets = 0
    Bot = bot
    ContextSize = 1
    MaxRounds = 2
    Goroutines = {g1}
PROPERTY OpeningShowsTheNewest
CHECK_DEADLOCK FALSE
