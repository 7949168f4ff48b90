\* Two dispatchers, one message that is edited or recalled, both events in a batch, one fault.
SPECIFICATION FairSearchSpec
CONSTANTS
    alice = alice
    bob = bob
    carol = carol
    NoUser = NoUser
    Messages = {text}
    TextMessages = {text}
    MaxEvents = 2
    MaxEdits = 1
    Dispatchers = {d1, d2}
    BatchSize = 2
    LockFor = 0
    MaxBackoff = 1
    MaxFaults = 1
    Users = {alice, bob, carol}
    Sender <- MCSender
    Receiver <- MCReceiver
INVARIANTS TypeOK PublishedWasAccepted ExclusiveUnlessLate DuplicatesHaveACause IndexTellsTheRow
PROPERTIES FeedSpec EventuallyPublished EventuallySearchable
CHECK_DEADLOCK FALSE
