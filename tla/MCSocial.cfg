\* Three users, two requests, two calls at a time, four calls in all.
SPECIFICATION Spec
CONSTANTS
    Users = {u, v, w}
    NoUser = NoUser
    Calls = {c1, c2}
    MaxRequests = 2
    MaxCalls = 4
SYMMETRY Symmetry
INVARIANT TypeOK
INVARIANT FriendshipIsMutual
INVARIANT AnswersStand
INVARIANT NothingOutlivesTheGroup
PROPERTY MemberRowStands
CHECK_DEADLOCK FALSE
