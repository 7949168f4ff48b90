------------------------------- MODULE Social -------------------------------
(***************************************************************************)
(* Friends, a group and its members.  A call first checks, with reads of   *)
(* its own, what its user may do, and then runs its statement or commits   *)
(* its transaction: other calls happen in between.  A call that its checks *)
(* refuse changes nothing and is not a step.                               *)
(***************************************************************************)
EXTENDS Naturals, FiniteSets

CONSTANTS
    Users,
    NoUser,      \* the group has no owner: it was not created
    Calls,       \* the goroutines that serve requests
    MaxRequests, \* bound: friend and join requests of a behaviour
    MaxCalls     \* bound: calls of a behaviour

ASSUME SocialAssumption ==
    /\ NoUser \notin Users
    /\ MaxRequests \in Nat
    /\ MaxCalls \in Nat

VARIABLES
    friends, \* the rows of friendships: pairs of users
    owner,   \* the owner of the group
    exists,  \* the group has a row
    member,  \* member[u]: u's row in group_members, or None
    allMuted,
    authors, \* who has a message in the group
    request, \* request[r]: a friend request or a join request
    call,    \* call[c]: the call c serves, past its checks
    begun    \* how many calls have begun

groupVars == <<owner, exists, member, allMuted, authors>>
data == <<friends, groupVars, request>>
vars == <<data, call, begun>>

None == [role |-> "none", muted |-> FALSE]

Member == [role : {"member", "admin", "owner"}, muted : BOOLEAN] \cup {None}

IsMember(u) == member[u] # None
IsManager(u) == member[u].role \in {"owner", "admin"}

RequestIds == 1..MaxRequests
NoRequest == [kind |-> "none"]

Request == [kind   : {"friend", "join"},
            from   : Users,
            to     : Users,                            \* of a join request: the owner
            status : {"pending", "accepted", "rejected", "deleted"},
            worked : BOOLEAN,                          \* history: an acceptance of it committed
            raced  : BOOLEAN]                          \* history: two of its answers overlapped

Sent == {r \in RequestIds : request[r] # NoRequest}

Pending(kind, u, v) ==
    \E r \in Sent : /\ request[r].kind = kind /\ request[r].status = "pending"
                    /\ request[r].from = u /\ request[r].to = v

Idle == [op |-> "idle"]

Init ==
    /\ friends = {}
    /\ owner = NoUser
    /\ exists = FALSE
    /\ member = [u \in Users |-> None]
    /\ allMuted = FALSE
    /\ authors = {}
    /\ request = [r \in RequestIds |-> NoRequest]
    /\ call = [c \in Calls |-> Idle]
    /\ begun = 0

\* The checks of a call have passed.
Begin(c, k) ==
    /\ call[c] = Idle
    /\ begun < MaxCalls
    /\ begun' = begun + 1
    /\ call' = [call EXCEPT ![c] = k]

End(c) == call' = [call EXCEPT ![c] = Idle] /\ UNCHANGED begun

Reads == UNCHANGED data

\* The statement fails, its transaction is rolled back, or the process dies.
Fails(c) ==
    /\ call[c] # Idle
    /\ End(c)
    /\ UNCHANGED data

-----------------------------------------------------------------------------
(***************************************************************************)
(* Requests.                                                               *)
(***************************************************************************)
AddRequest(kind, u, v) ==
    \E r \in RequestIds \ Sent :
        /\ \A q \in RequestIds \ Sent : r <= q
        /\ request' = [request EXCEPT ![r] =
                          [kind |-> kind, from |-> u, to |-> v, status |-> "pending",
                           worked |-> FALSE, raced |-> FALSE]]

\* Mutant: a user may ask himself.
UncheckedFriendRequest(c, u, v) ==
    /\ <<u, v>> \notin friends
    /\ ~Pending("friend", u, v)
    /\ Begin(c, [op |-> "friendRequest", by |-> u, who |-> v])
    /\ Reads

SendFriendRequest(c, u, v) ==
    /\ u # v
    /\ <<u, v>> \notin friends
    /\ ~Pending("friend", u, v)
    /\ Begin(c, [op |-> "friendRequest", by |-> u, who |-> v])
    /\ Reads

CreateFriendRequest(c) ==
    /\ call[c].op = "friendRequest"
    /\ AddRequest("friend", call[c].by, call[c].who)
    /\ End(c)
    /\ UNCHANGED <<friends, groupVars>>

RequestGroupJoin(c, u) ==
    /\ exists
    /\ ~IsMember(u)
    /\ ~Pending("join", u, owner)
    /\ Begin(c, [op |-> "joinRequest", by |-> u])
    /\ Reads

\* The foreign key refuses a group that is gone.
CreateGroupJoinRequest(c) ==
    /\ call[c].op = "joinRequest"
    /\ exists
    /\ AddRequest("join", call[c].by, owner)
    /\ End(c)
    /\ UNCHANGED <<friends, groupVars>>

Link(r) == {<<request[r].from, request[r].to>>, <<request[r].to, request[r].from>>}

\* Mutant: the request need not be pending.
AnswerAnew(c, r, kind, accept) ==
    /\ r \in Sent
    /\ request[r].kind = kind
    /\ Begin(c, [op |-> kind, req |-> r, accept |-> accept,
                 found |-> IF kind = "friend" THEN friends ELSE {u \in Users : IsMember(u)}])
    /\ Reads

\* The transaction's first read: the request is pending.  It takes no lock, and sets the
\* snapshot in which FirstOrCreate will look for rows.
ReadRequest(c, r, kind, accept) ==
    /\ r \in Sent
    /\ request[r].kind = kind
    /\ request[r].status = "pending"
    /\ Begin(c, [op |-> kind, req |-> r, accept |-> accept,
                 found |-> IF kind = "friend" THEN friends ELSE {u \in Users : IsMember(u)}])
    /\ Reads

Serves(c, r) == call[c].op \in {"friend", "join"} /\ call[c].req = r

\* The last statement finds the request by its id only.
Settle(c, r, accept) ==
    request' = [request EXCEPT
        ![r].status = IF accept THEN "accepted" ELSE "rejected",
        ![r].worked = @ \/ accept,
        ![r].raced = @ \/ \E d \in Calls \ {c} : Serves(d, r)]

\* Rows the snapshot lacks are inserted: a duplicate key rolls the answer back.
RespondFriendRequest(c) ==
    /\ call[c].op = "friend"
    /\ LET r == call[c].req
           new == IF call[c].accept THEN Link(r) \ call[c].found ELSE {}
       IN  /\ new \cap friends = {}
           /\ friends' = friends \cup new
           /\ Settle(c, r, call[c].accept)
    /\ End(c)
    /\ UNCHANGED groupVars

Joined == [role |-> "member", muted |-> FALSE]

RespondGroupJoinRequest(c) ==
    /\ call[c].op = "join"
    /\ LET r == call[c].req
           new == IF call[c].accept THEN {request[r].from} \ call[c].found ELSE {}
       IN  /\ request[r].status # "deleted"
           /\ \A u \in new : ~IsMember(u)
           /\ member' = [u \in Users |-> IF u \in new THEN Joined ELSE member[u]]
           /\ Settle(c, r, call[c].accept)
    /\ End(c)
    /\ UNCHANGED <<friends, owner, exists, allMuted, authors>>

RemoveFriend(c, u, v) ==
    /\ <<u, v>> \in friends
    /\ Begin(c, [op |-> "unfriend", by |-> u, who |-> v])
    /\ Reads

\* Mutant: the other's row stays.
DeleteOneSide(c) ==
    /\ call[c].op = "unfriend"
    /\ friends' = friends \ {<<call[c].by, call[c].who>>}
    /\ End(c)
    /\ UNCHANGED <<groupVars, request>>

DeleteFriendship(c) ==
    /\ call[c].op = "unfriend"
    /\ friends' = friends \ {<<call[c].by, call[c].who>>, <<call[c].who, call[c].by>>}
    /\ End(c)
    /\ UNCHANGED <<groupVars, request>>

-----------------------------------------------------------------------------
(***************************************************************************)
(* The group.  Its owner never changes and its id is never used again.     *)
(***************************************************************************)
Create(c, u, others) ==
    /\ owner = NoUser
    /\ call[c] = Idle
    /\ owner' = u
    /\ exists' = TRUE
    /\ member' = [v \in Users |-> CASE v = u -> [role |-> "owner", muted |-> FALSE]
                                    [] v \in others \ {u} -> Joined
                                    [] OTHER -> None]
    /\ UNCHANGED <<friends, allMuted, authors, request, call, begun>>

ByOwner(u) == exists /\ u = owner

InviteMember(c, u, v) ==
    /\ ByOwner(u)
    /\ ~IsMember(v)
    /\ Begin(c, [op |-> "invite", who |-> v])
    /\ Reads

\* Mutant: the row is saved, whether there was one or not.
UpsertMember(c) ==
    /\ call[c].op = "invite"
    /\ exists
    /\ member' = [member EXCEPT ![call[c].who] = Joined]
    /\ End(c)
    /\ UNCHANGED <<friends, owner, exists, allMuted, authors, request>>

\* Mutant: group_members has no foreign key to the group.
UnboundAddMember(c) ==
    /\ call[c].op = "invite"
    /\ ~IsMember(call[c].who)
    /\ member' = [member EXCEPT ![call[c].who] = Joined]
    /\ End(c)
    /\ UNCHANGED <<friends, owner, exists, allMuted, authors, request>>

\* The keys refuse a member's second row and a row of a group that is gone.
AddMember(c) ==
    /\ call[c].op = "invite"
    /\ exists
    /\ ~IsMember(call[c].who)
    /\ member' = [member EXCEPT ![call[c].who] = Joined]
    /\ End(c)
    /\ UNCHANGED <<friends, owner, exists, allMuted, authors, request>>

RemoveMember(c, u, v) ==
    /\ ByOwner(u)
    /\ v # u
    /\ IsMember(v)
    /\ Begin(c, [op |-> "remove", who |-> v])
    /\ Reads

Leave(c, u) ==
    /\ IsMember(u)
    /\ member[u].role # "owner"
    /\ Begin(c, [op |-> "remove", who |-> u])
    /\ Reads

DeleteMember(c) ==
    /\ call[c].op = "remove"
    /\ member' = [member EXCEPT ![call[c].who] = IF @.role # "owner" THEN None ELSE @]
    /\ End(c)
    /\ UNCHANGED <<friends, owner, exists, allMuted, authors, request>>

SetMemberRole(c, u, v, role) ==
    /\ ByOwner(u)
    /\ v # u
    /\ Begin(c, [op |-> "role", who |-> v, role |-> role])
    /\ Reads

\* An update of a row that is not there, or of the owner's, does nothing and succeeds.
UpdateRole(c) ==
    /\ call[c].op = "role"
    /\ LET v == call[c].who
       IN  IF member[v].role \notin {"none", "owner"}
           THEN member' = [member EXCEPT ![v].role = call[c].role]
           ELSE UNCHANGED member
    /\ End(c)
    /\ UNCHANGED <<friends, owner, exists, allMuted, authors, request>>

MuteMember(c, u, v, on) ==
    /\ IsManager(u)
    /\ v # u
    /\ Begin(c, [op |-> "mute", who |-> v, on |-> on])
    /\ Reads

SetMemberMutedUntil(c) ==
    /\ call[c].op = "mute"
    /\ LET v == call[c].who
       IN  IF IsMember(v) THEN member' = [member EXCEPT ![v].muted = call[c].on]
           ELSE UNCHANGED member
    /\ End(c)
    /\ UNCHANGED <<friends, owner, exists, allMuted, authors, request>>

SetAllMuted(c, u, on) ==
    /\ IsManager(u)
    /\ Begin(c, [op |-> "muteAll", on |-> on])
    /\ Reads

UpdateAllMuted(c) ==
    /\ call[c].op = "muteAll"
    /\ exists
    /\ allMuted' = call[c].on
    /\ End(c)
    /\ UNCHANGED <<friends, owner, exists, member, authors, request>>

saveGroupMessage(c, u) ==
    /\ IsMember(u)
    /\ ~member[u].muted
    /\ ~(allMuted /\ member[u].role = "member")
    /\ Begin(c, [op |-> "message", by |-> u])
    /\ Reads

SaveAndEnqueue(c) ==
    /\ call[c].op = "message"
    /\ exists
    /\ authors' = authors \cup {call[c].by}
    /\ End(c)
    /\ UNCHANGED <<friends, owner, exists, member, allMuted, request>>

Dissolve(c, u) ==
    /\ ByOwner(u)
    /\ Begin(c, [op |-> "dissolve"])
    /\ Reads

\* Messages and join requests by statements of their own, members by the cascade.
DeleteGroup(c) ==
    /\ call[c].op = "dissolve"
    /\ exists' = FALSE
    /\ authors' = {}
    /\ member' = [u \in Users |-> None]
    /\ allMuted' = FALSE
    /\ request' = [r \in RequestIds |->
                      IF r \in Sent /\ request[r].kind = "join"
                      THEN [request[r] EXCEPT !.status = "deleted"] ELSE request[r]]
    /\ End(c)
    /\ UNCHANGED <<friends, owner>>

-----------------------------------------------------------------------------
Friendship(c) ==
    \/ \E u, v \in Users : SendFriendRequest(c, u, v) \/ RemoveFriend(c, u, v)
    \/ \E r \in RequestIds, accept \in BOOLEAN : ReadRequest(c, r, "friend", accept)
    \/ CreateFriendRequest(c) \/ RespondFriendRequest(c) \/ DeleteFriendship(c)

Membership(c) ==
    \/ \E u \in Users, others \in SUBSET Users : Create(c, u, others)
    \/ \E u \in Users : RequestGroupJoin(c, u) \/ Leave(c, u)
    \/ \E r \in RequestIds, accept \in BOOLEAN : ReadRequest(c, r, "join", accept)
    \/ \E u, v \in Users : InviteMember(c, u, v) \/ RemoveMember(c, u, v)
    \/ \E u, v \in Users, role \in {"member", "admin"} : SetMemberRole(c, u, v, role)
    \/ CreateGroupJoinRequest(c) \/ RespondGroupJoinRequest(c)
    \/ AddMember(c) \/ DeleteMember(c) \/ UpdateRole(c)

Speech(c) ==
    \/ \E u, v \in Users, on \in BOOLEAN : MuteMember(c, u, v, on)
    \/ \E u \in Users, on \in BOOLEAN : SetAllMuted(c, u, on)
    \/ \E u \in Users : saveGroupMessage(c, u) \/ Dissolve(c, u)
    \/ SetMemberMutedUntil(c) \/ UpdateAllMuted(c) \/ SaveAndEnqueue(c) \/ DeleteGroup(c)

Next == \E c \in Calls : Friendship(c) \/ Membership(c) \/ Speech(c) \/ Fails(c)

Spec == Init /\ [][Next]_vars

-----------------------------------------------------------------------------
TypeOK ==
    /\ friends \subseteq {p \in Users \X Users : p[1] # p[2]}
    /\ owner \in Users \cup {NoUser}
    /\ exists \in BOOLEAN
    /\ member \in [Users -> Member]
    /\ allMuted \in BOOLEAN
    /\ authors \subseteq Users
    /\ \A r \in RequestIds : request[r] = NoRequest \/ request[r] \in Request
    /\ begun \in 0..MaxCalls

(***************************************************************************)
(* Friendship is mutual, whatever requests, mirror images of requests,     *)
(* double answers and removals commit between a transaction's snapshot and *)
(* its inserts.                                                            *)
(***************************************************************************)
FriendshipIsMutual ==
    \A u, v \in Users : <<u, v>> \in friends => <<v, u>> \in friends

(***************************************************************************)
(* A request that was refused had no effect, nor has one that waits,       *)
(* except when two answers overlapped: the later one then overwrites the   *)
(* status of a request whose acceptance stays in force.                    *)
(***************************************************************************)
AnswersStand ==
    \A r \in Sent :
        request[r].worked => request[r].status \in {"accepted", "deleted"} \/ request[r].raced

(***************************************************************************)
(* When a group is dissolved nothing of it stays behind, nor appears       *)
(* later: calls that passed their checks before it are refused.            *)
(***************************************************************************)
NothingOutlivesTheGroup ==
    ~exists => /\ authors = {}
               /\ \A u \in Users : ~IsMember(u)
               /\ \A r \in Sent : request[r].kind = "join" => request[r].status # "pending"

(***************************************************************************)
(* A member's role and mute change by the operations on him only: an       *)
(* invitation or an accepted request that was checked before he became a   *)
(* member does not make him a plain member again.                          *)
(***************************************************************************)
OnlyBy(c, u) ==
    /\ call'[c] = Idle
    /\ \/ call[c].op = "dissolve"
       \/ call[c].op \in {"remove", "role", "mute"} /\ call[c].who = u

MemberRowStands ==
    [][\A u \in Users : IsMember(u) /\ member'[u] # member[u] => \E c \in Calls : OnlyBy(c, u)]_vars
=============================================================================
