\* Two processes with the AI friend, one without, the bot's account and two users, two faults.
SPECIFICATION FairSpec
CONSTANTS
    Processes = {p, q, r}
    WithAI = {p, q}
    Ids = {i1, i2, i3}
    NoId = NoId
    Names = {ai_assistant, alice, bob}
    BotName = ai_assistant
    NoName = NoName
    MaxFaults = 2
INVARIANT EveryoneHasTheBot
PROPERTY EveryStartSucceeds
CHECK_DEADLOCK FALSE
