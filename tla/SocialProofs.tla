---------------------------- MODULE SocialProofs ----------------------------
(***************************************************************************)
(* Theorems of friends and the group, for any users, calls and bounds:     *)
(* what is checked in Social for three users holds whatever calls overlap. *)
(***************************************************************************)
EXTENDS Social, TLAPS

-----------------------------------------------------------------------------
(***************************************************************************)
(* The inductive invariant.  What a transaction writes rests on what its   *)
(* call read before, so the invariant says what every call under way may   *)
(* carry: the snapshot of an answer is symmetric, and the request it read  *)
(* as pending is so still, or was deleted, or is known to be raced.        *)
(***************************************************************************)
Symmetric(pairs) == \A u, v \in Users : <<u, v>> \in pairs => <<v, u>> \in pairs

IsCall(k) ==
    /\ k.op = "friendRequest" => k.by \in Users /\ k.who \in Users /\ k.by # k.who
    /\ k.op \in {"joinRequest", "message"} => k.by \in Users
    /\ k.op \in {"friend", "join"} => k.req \in RequestIds /\ k.accept \in BOOLEAN
    /\ k.op = "friend" => Symmetric(k.found)
    /\ k.op = "unfriend" => k.by \in Users /\ k.who \in Users
    /\ k.op \in {"invite", "remove", "role", "mute"} => k.who \in Users
    /\ k.op = "role" => k.role \in {"member", "admin"}
    /\ k.op \in {"mute", "muteAll"} => k.on \in BOOLEAN

AnswersKnown(k) ==
    k.op \in {"friend", "join"} =>
        /\ k.req \in Sent
        /\ request[k.req].kind = k.op
        /\ request[k.req].status \in {"pending", "deleted"} \/ request[k.req].raced

CallsOK ==
    /\ DOMAIN call = Calls
    /\ \A c \in Calls : IsCall(call[c]) /\ AnswersKnown(call[c])

RequestsOK ==
    /\ DOMAIN request = RequestIds
    /\ \A r \in Sent :
        /\ request[r].kind = "friend" => request[r].from # request[r].to
        /\ request[r].status = "pending" => ~request[r].worked
        /\ request[r].status = "deleted" => request[r].kind = "join"

GroupOK ==
    /\ owner = NoUser => ~exists
    /\ ~exists => \A r \in Sent : request[r].kind = "join" => request[r].status = "deleted"

Rows == /\ TypeOK
        /\ RequestsOK
        /\ GroupOK
        /\ FriendshipIsMutual
        /\ AnswersStand
        /\ NothingOutlivesTheGroup

IndInv == Rows /\ CallsOK

LEMMA IndInvInit == Init => IndInv
<1> SUFFICES ASSUME Init PROVE IndInv
  OBVIOUS
<1> USE DEF Init
<1>1. TypeOK
  <2>1. member \in [Users -> Member]
    BY DEF Member
  <2>2. \A r \in RequestIds : request[r] = NoRequest
    OBVIOUS
  <2>3. friends \subseteq {p \in Users \X Users : p[1] # p[2]}
    OBVIOUS
  <2>4. begun \in 0..MaxCalls
    BY SocialAssumption
  <2>5. QED BY <2>1, <2>2, <2>3, <2>4, Zenon DEF TypeOK
<1>2. Sent = {}
  BY DEF Sent
<1>3. RequestsOK /\ GroupOK /\ AnswersStand
  BY <1>2 DEF RequestsOK, GroupOK, AnswersStand
<1>4. FriendshipIsMutual /\ NothingOutlivesTheGroup
  BY <1>2 DEF FriendshipIsMutual, NothingOutlivesTheGroup, IsMember
<1>5. CallsOK
  BY DEF CallsOK, IsCall, AnswersKnown, Idle
<1>6. QED BY <1>1, <1>3, <1>4, <1>5 DEF IndInv, Rows

-----------------------------------------------------------------------------
(***************************************************************************)
(* The calls.                                                              *)
(***************************************************************************)

\* A call that has only read disturbs nothing.
LEMMA BeginKeeps ==
    ASSUME IndInv, NEW c \in Calls, NEW k, IsCall(k), AnswersKnown(k), Begin(c, k), Reads
    PROVE  IndInv'
<1>1. Rows'
  BY SocialAssumption
  DEF IndInv, Rows, Begin, Reads, data, groupVars, TypeOK, RequestsOK, GroupOK, Sent,
      FriendshipIsMutual, AnswersStand, NothingOutlivesTheGroup, IsMember
<1>2. CallsOK'
  <2>1. UNCHANGED request /\ Sent' = Sent
    BY DEF Reads, data, Sent
  <2>2. DOMAIN call' = Calls /\ \A d \in Calls : call'[d] = IF d = c THEN k ELSE call[d]
    BY DEF IndInv, CallsOK, Begin
  <2>3. QED
    BY <2>1, <2>2 DEF IndInv, CallsOK, AnswersKnown, IsCall, Symmetric
<1>3. QED BY <1>1, <1>2 DEF IndInv

LEMMA EndFreesTheCall ==
    ASSUME CallsOK, NEW c \in Calls, End(c)
    PROVE  /\ DOMAIN call' = Calls
           /\ \A d \in Calls : call'[d] = IF d = c THEN Idle ELSE call[d]
           /\ UNCHANGED begun
BY DEF CallsOK, End

\* A call ends, and the requests others answer are as they were.
LEMMA EndKeepsCalls ==
    ASSUME CallsOK, NEW c \in Calls, End(c), UNCHANGED request
    PROVE  CallsOK'
<1>1. Sent' = Sent
  BY DEF Sent
<1>2. \A d \in Calls : call'[d] = Idle \/ call'[d] = call[d]
  BY EndFreesTheCall
<1>3. QED
  BY <1>1, <1>2, EndFreesTheCall DEF CallsOK, IsCall, AnswersKnown, Idle, Symmetric

LEMMA FailsKeeps ==
    ASSUME IndInv, NEW c \in Calls, Fails(c)
    PROVE  IndInv'
<1>1. Rows'
  BY EndFreesTheCall
  DEF IndInv, Rows, Fails, data, groupVars, TypeOK, RequestsOK, GroupOK, Sent,
      FriendshipIsMutual, AnswersStand, NothingOutlivesTheGroup, IsMember
<1>2. CallsOK'
  BY EndKeepsCalls DEF IndInv, Fails, data
<1>3. QED BY <1>1, <1>2 DEF IndInv

\* The checks of every call let only sound arguments through.
LEMMA ChecksKeep ==
    ASSUME IndInv, NEW c \in Calls, NEW u \in Users, NEW v \in Users,
           NEW on \in BOOLEAN, NEW role \in {"member", "admin"},
           \/ SendFriendRequest(c, u, v) \/ RemoveFriend(c, u, v)
           \/ RequestGroupJoin(c, u) \/ Leave(c, u)
           \/ InviteMember(c, u, v) \/ RemoveMember(c, u, v)
           \/ SetMemberRole(c, u, v, role) \/ MuteMember(c, u, v, on)
           \/ SetAllMuted(c, u, on) \/ saveGroupMessage(c, u) \/ Dissolve(c, u)
    PROVE  IndInv'
<1> USE BeginKeeps DEF IsCall, AnswersKnown
<1>1. CASE SendFriendRequest(c, u, v)
  BY <1>1 DEF SendFriendRequest
<1>2. CASE RemoveFriend(c, u, v)
  BY <1>2 DEF RemoveFriend
<1>3. CASE RequestGroupJoin(c, u)
  BY <1>3 DEF RequestGroupJoin
<1>4. CASE Leave(c, u)
  BY <1>4 DEF Leave
<1>5. CASE InviteMember(c, u, v)
  BY <1>5 DEF InviteMember
<1>6. CASE RemoveMember(c, u, v)
  BY <1>6 DEF RemoveMember
<1>7. CASE SetMemberRole(c, u, v, role)
  BY <1>7 DEF SetMemberRole
<1>8. CASE MuteMember(c, u, v, on)
  BY <1>8 DEF MuteMember
<1>9. CASE SetAllMuted(c, u, on)
  BY <1>9 DEF SetAllMuted
<1>10. CASE saveGroupMessage(c, u)
  BY <1>10 DEF saveGroupMessage
<1>11. CASE Dissolve(c, u)
  BY <1>11 DEF Dissolve
<1>12. QED
  BY <1>1, <1>2, <1>3, <1>4, <1>5, <1>6, <1>7, <1>8, <1>9, <1>10, <1>11

LEMMA ReadRequestKeeps ==
    ASSUME IndInv, NEW c \in Calls, NEW r \in RequestIds, NEW accept \in BOOLEAN,
           ReadRequest(c, r, "friend", accept) \/ ReadRequest(c, r, "join", accept)
    PROVE  IndInv'
<1> USE BeginKeeps DEF IsCall, AnswersKnown
<1>1. CASE ReadRequest(c, r, "friend", accept)
  BY <1>1 DEF ReadRequest, IndInv, Rows, FriendshipIsMutual, Symmetric
<1>2. CASE ReadRequest(c, r, "join", accept)
  BY <1>2 DEF ReadRequest
<1>3. QED BY <1>1, <1>2

-----------------------------------------------------------------------------
(***************************************************************************)
(* Requests and friendships.                                               *)
(***************************************************************************)

\* A new request disturbs no other, and no answer under way.
LEMMA AddRequestKeeps ==
    ASSUME IndInv, NEW c \in Calls, NEW kind \in {"friend", "join"},
           NEW u \in Users, NEW v \in Users, kind = "friend" => u # v, kind = "join" => exists,
           AddRequest(kind, u, v), End(c), UNCHANGED <<friends, groupVars>>
    PROVE  IndInv'
<1> DEFINE new == [kind |-> kind, from |-> u, to |-> v, status |-> "pending",
                   worked |-> FALSE, raced |-> FALSE]
<1>1. PICK r \in RequestIds \ Sent : request' = [request EXCEPT ![r] = new]
  BY DEF AddRequest
<1>2. new \in Request /\ new # NoRequest
  BY DEF Request, NoRequest
<1>3. /\ DOMAIN request' = RequestIds
      /\ \A q \in RequestIds : request'[q] = IF q = r THEN new ELSE request[q]
  BY <1>1 DEF IndInv, Rows, RequestsOK
<1>4. Sent' = Sent \cup {r}
  BY <1>2, <1>3 DEF Sent
<1>5. TypeOK'
  <2>1. \A q \in RequestIds : request'[q] = NoRequest \/ request'[q] \in Request
    BY <1>2, <1>3 DEF IndInv, Rows, TypeOK
  <2>2. QED BY <2>1 DEF IndInv, Rows, TypeOK, End, groupVars
<1>6. RequestsOK' /\ AnswersStand'
  BY <1>3, <1>4 DEF IndInv, Rows, RequestsOK, AnswersStand, Sent
<1>7. FriendshipIsMutual'
  BY DEF IndInv, Rows, FriendshipIsMutual
<1>8. GroupOK' /\ NothingOutlivesTheGroup'
  BY <1>3, <1>4
  DEF IndInv, Rows, GroupOK, NothingOutlivesTheGroup, IsMember, groupVars, Sent
<1>9. CallsOK'
  BY <1>3, <1>4, EndFreesTheCall
  DEF IndInv, CallsOK, IsCall, AnswersKnown, Idle, Symmetric, Sent
<1>10. QED BY <1>5, <1>6, <1>7, <1>8, <1>9 DEF IndInv, Rows

LEMMA RequestsKeep ==
    ASSUME IndInv, NEW c \in Calls, CreateFriendRequest(c) \/ CreateGroupJoinRequest(c)
    PROVE  IndInv'
<1>1. CASE CreateFriendRequest(c)
  BY <1>1, AddRequestKeeps DEF CreateFriendRequest, IndInv, CallsOK, IsCall
<1>2. CASE CreateGroupJoinRequest(c)
  <2>1. owner \in Users /\ call[c].by \in Users
    BY <1>2 DEF CreateGroupJoinRequest, IndInv, Rows, TypeOK, GroupOK, CallsOK, IsCall
  <2>2. QED
    BY <1>2, <2>1, AddRequestKeeps DEF CreateGroupJoinRequest
<1>3. QED BY <1>1, <1>2

\* An answer settles its request, and is seen by every other answer under way to it.
LEMMA SettleKeeps ==
    ASSUME IndInv, NEW c \in Calls, call[c].op \in {"friend", "join"},
           request[call[c].req].status # "deleted",
           Settle(c, call[c].req, call[c].accept), End(c), UNCHANGED <<owner, exists>>
    PROVE  /\ Sent' = Sent
           /\ RequestsOK' /\ AnswersStand' /\ CallsOK'
           /\ \A r \in RequestIds : request'[r] = NoRequest \/ request'[r] \in Request
           /\ \A r \in Sent : request'[r].kind = request[r].kind
           /\ \A r \in Sent : request'[r].status = request[r].status \/ r = call[c].req
           /\ request'[call[c].req].status \in {"accepted", "rejected"}
<1> DEFINE r == call[c].req
           accept == call[c].accept
           row == [kind   |-> request[r].kind, from |-> request[r].from, to |-> request[r].to,
                   status |-> IF accept THEN "accepted" ELSE "rejected",
                   worked |-> request[r].worked \/ accept,
                   raced  |-> request[r].raced \/ \E d \in Calls \ {c} : Serves(d, r)]
<1>1. /\ r \in Sent /\ r \in RequestIds /\ accept \in BOOLEAN
      /\ request[r].kind = call[c].op
      /\ request[r].status = "pending" \/ request[r].raced
      /\ request[r] \in Request
      /\ DOMAIN request = RequestIds
  BY DEF IndInv, Rows, RequestsOK, TypeOK, CallsOK, IsCall, AnswersKnown, Sent
<1>2. row \in Request /\ row # NoRequest
  BY <1>1 DEF Request, NoRequest
<1>3. /\ DOMAIN request' = RequestIds
      /\ \A q \in RequestIds : q # r => request'[q] = request[q]
      /\ request'[r] = row
  BY <1>1 DEF Settle, Request
<1>4. Sent' = Sent
  BY <1>1, <1>2, <1>3 DEF Sent
<1>5. \A q \in RequestIds : request'[q] = NoRequest \/ request'[q] \in Request
  BY <1>2, <1>3 DEF IndInv, Rows, TypeOK
<1>6. request[r].status = "pending" => ~request[r].worked
  BY <1>1 DEF IndInv, Rows, RequestsOK
<1>7. /\ row.status \in {"accepted", "rejected"} /\ row.kind = request[r].kind
      /\ row.from = request[r].from /\ row.to = request[r].to
      /\ row.worked => row.status = "accepted" \/ row.raced
  BY <1>1, <1>6
<1>8. \A d \in Calls \ {c} : Serves(d, r) => row.raced
  OBVIOUS
<1> HIDE DEF row
<1>9. RequestsOK' /\ AnswersStand'
  BY <1>1, <1>3, <1>4, <1>7 DEF IndInv, Rows, RequestsOK, AnswersStand, Sent
<1>10. CallsOK'
  <2>1. AnswersKnown(Idle)' /\ IsCall(Idle)'
    BY DEF AnswersKnown, IsCall, Idle
  <2>2. ASSUME NEW d \in Calls, d # c
        PROVE  IsCall(call[d]) /\ AnswersKnown(call[d])'
    <3>1. call'[d] = call[d] /\ IsCall(call[d]) /\ AnswersKnown(call[d])
      BY <2>2, EndFreesTheCall DEF IndInv, CallsOK
    <3>2. CASE Serves(d, r)
      BY <1>1, <1>3, <1>4, <1>7, <1>8, <2>2, <3>1, <3>2 DEF AnswersKnown, Serves
    <3>3. CASE ~Serves(d, r)
      BY <1>3, <1>4, <3>1, <3>3 DEF AnswersKnown, Serves, Sent
    <3>4. QED BY <3>1, <3>2, <3>3
  <2>3. QED
    BY <2>1, <2>2, EndFreesTheCall DEF IndInv, CallsOK, IsCall, Idle, Symmetric
<1>11. QED
  BY <1>1, <1>3, <1>4, <1>5, <1>7, <1>9, <1>10 DEF Sent

\* An accepted friend request adds both rows, or those of the two its snapshot lacks.
LEMMA RespondFriendRequestKeeps ==
    ASSUME IndInv, NEW c \in Calls, RespondFriendRequest(c)
    PROVE  IndInv'
<1> DEFINE r == call[c].req
           new == IF call[c].accept THEN Link(r) \ call[c].found ELSE {}
<1>1. /\ r \in Sent /\ request[r].kind = "friend" /\ request[r].from # request[r].to
      /\ request[r] \in Request /\ request[r].status # "deleted"
      /\ Symmetric(call[c].found)
  BY DEF RespondFriendRequest, IndInv, CallsOK, AnswersKnown, IsCall, Rows, RequestsOK, TypeOK,
         Sent
<1>2. request[r].from \in Users /\ request[r].to \in Users
  BY <1>1 DEF Request
<1>3. friends' = friends \cup new /\ UNCHANGED groupVars /\ End(c) /\ Settle(c, r, call[c].accept)
      /\ call[c].op = "friend"
  BY DEF RespondFriendRequest
<1>4. /\ Sent' = Sent
      /\ RequestsOK' /\ AnswersStand' /\ CallsOK'
      /\ \A q \in RequestIds : request'[q] = NoRequest \/ request'[q] \in Request
      /\ \A q \in Sent : request'[q].kind = request[q].kind
      /\ \A q \in Sent : request'[q].status = request[q].status \/ q = r
  BY <1>1, <1>3, SettleKeeps DEF groupVars
<1>5. TypeOK'
  <2>1. friends' \subseteq {p \in Users \X Users : p[1] # p[2]}
    BY <1>1, <1>2, <1>3 DEF Link, IndInv, Rows, TypeOK
  <2>2. QED BY <1>3, <1>4, <2>1 DEF IndInv, Rows, TypeOK, End, groupVars
<1>6. FriendshipIsMutual'
  <2>1. Symmetric(new)
    BY <1>1 DEF Link, Symmetric
  <2>2. QED BY <1>3, <2>1 DEF IndInv, Rows, FriendshipIsMutual, Symmetric
<1>7. GroupOK' /\ NothingOutlivesTheGroup'
  BY <1>1, <1>3, <1>4
  DEF IndInv, Rows, GroupOK, NothingOutlivesTheGroup, IsMember, groupVars
<1>8. QED BY <1>4, <1>5, <1>6, <1>7 DEF IndInv, Rows

\* While the group exists anything may be written to it that its types allow.
LEMMA GroupWriteKeeps ==
    ASSUME IndInv, NEW c \in Calls, End(c), UNCHANGED <<friends, owner, exists, request>>,
           member' \in [Users -> Member], allMuted' \in BOOLEAN, authors' \subseteq Users,
           ~exists => authors' = {} /\ \A u \in Users : member'[u] = None
    PROVE  IndInv'
<1>1. Sent' = Sent
  BY DEF Sent
<1>2. TypeOK'
  BY DEF IndInv, Rows, TypeOK, End
<1>3. RequestsOK' /\ AnswersStand' /\ GroupOK' /\ FriendshipIsMutual'
  BY <1>1 DEF IndInv, Rows, RequestsOK, AnswersStand, GroupOK, FriendshipIsMutual
<1>4. NothingOutlivesTheGroup'
  BY <1>1 DEF IndInv, Rows, NothingOutlivesTheGroup, IsMember
<1>5. CallsOK'
  BY EndKeepsCalls DEF IndInv
<1>6. QED BY <1>2, <1>3, <1>4, <1>5 DEF IndInv, Rows

-----------------------------------------------------------------------------
(***************************************************************************)
(* Members, and the life of the group.                                     *)
(***************************************************************************)
LEMMA MembersKeep ==
    ASSUME IndInv, NEW c \in Calls,
           \/ AddMember(c) \/ DeleteMember(c) \/ UpdateRole(c) \/ SetMemberMutedUntil(c)
           \/ UpdateAllMuted(c) \/ SaveAndEnqueue(c)
    PROVE  IndInv'
<1>1. /\ member \in [Users -> Member] /\ allMuted \in BOOLEAN /\ authors \subseteq Users
      /\ IsCall(call[c])
      /\ ~exists => authors = {} /\ \A u \in Users : member[u] = None
  BY DEF IndInv, Rows, TypeOK, CallsOK, NothingOutlivesTheGroup, IsMember
<1>2. None \in Member /\ Joined \in Member
  BY DEF None, Joined, Member
<1>3. CASE AddMember(c)
  BY <1>1, <1>2, <1>3, GroupWriteKeeps DEF AddMember, IsCall
<1>4. CASE DeleteMember(c)
  <2>1. \A u \in Users : member'[u] = member[u] \/ member'[u] = None
    BY <1>1, <1>4 DEF DeleteMember
  <2>2. member' \in [Users -> Member]
    BY <1>1, <1>2, <1>4 DEF DeleteMember
  <2>3. QED BY <1>1, <1>4, <2>1, <2>2, GroupWriteKeeps DEF DeleteMember
<1>5. CASE UpdateRole(c)
  <2> DEFINE v == call[c].who
  <2>1. v \in Users /\ call[c].role \in {"member", "admin"}
    BY <1>1, <1>5 DEF UpdateRole, IsCall
  <2>2. CASE member[v].role \notin {"none", "owner"}
    <3>1. member' = [member EXCEPT ![v].role = call[c].role] /\ member[v] # None
      BY <1>5, <2>2 DEF UpdateRole, None
    <3>2. [member[v] EXCEPT !.role = call[c].role] \in Member
      BY <1>1, <2>1, <3>1 DEF Member
    <3>3. member' \in [Users -> Member] /\ exists
      BY <1>1, <2>1, <3>1, <3>2
    <3>4. QED BY <1>1, <1>5, <3>3, GroupWriteKeeps DEF UpdateRole
  <2>3. CASE ~(member[v].role \notin {"none", "owner"})
    BY <1>1, <1>5, <2>3, GroupWriteKeeps DEF UpdateRole
  <2>4. QED BY <2>2, <2>3
<1>6. CASE SetMemberMutedUntil(c)
  <2> DEFINE v == call[c].who
  <2>1. v \in Users /\ call[c].on \in BOOLEAN
    BY <1>1, <1>6 DEF SetMemberMutedUntil, IsCall
  <2>2. CASE IsMember(v)
    <3>1. member' = [member EXCEPT ![v].muted = call[c].on] /\ member[v] # None
      BY <1>6, <2>2 DEF SetMemberMutedUntil, IsMember
    <3>2. [member[v] EXCEPT !.muted = call[c].on] \in Member
      BY <1>1, <2>1, <3>1 DEF Member
    <3>3. member' \in [Users -> Member] /\ exists
      BY <1>1, <2>1, <3>1, <3>2
    <3>4. QED BY <1>1, <1>6, <3>3, GroupWriteKeeps DEF SetMemberMutedUntil
  <2>3. CASE ~IsMember(v)
    BY <1>1, <1>6, <2>3, GroupWriteKeeps DEF SetMemberMutedUntil
  <2>4. QED BY <2>2, <2>3
<1>7. CASE UpdateAllMuted(c)
  BY <1>1, <1>7, GroupWriteKeeps DEF UpdateAllMuted, IsCall
<1>8. CASE SaveAndEnqueue(c)
  BY <1>1, <1>8, GroupWriteKeeps DEF SaveAndEnqueue, IsCall
<1>9. QED BY <1>3, <1>4, <1>5, <1>6, <1>7, <1>8

\* An accepted join request makes its sender a member, unless the group is gone.
LEMMA RespondGroupJoinRequestKeeps ==
    ASSUME IndInv, NEW c \in Calls, RespondGroupJoinRequest(c)
    PROVE  IndInv'
<1> DEFINE r == call[c].req
<1>1. /\ r \in Sent /\ request[r].kind = "join" /\ request[r].status # "deleted"
      /\ Settle(c, r, call[c].accept) /\ End(c) /\ call[c].op = "join"
      /\ UNCHANGED <<friends, owner, exists, allMuted, authors>>
  BY DEF RespondGroupJoinRequest, IndInv, CallsOK, AnswersKnown
<1>2. exists
  BY <1>1 DEF IndInv, Rows, GroupOK
<1>3. /\ Sent' = Sent
      /\ RequestsOK' /\ AnswersStand' /\ CallsOK'
      /\ \A q \in RequestIds : request'[q] = NoRequest \/ request'[q] \in Request
  BY <1>1, SettleKeeps
<1>4. member' \in [Users -> Member]
  BY DEF RespondGroupJoinRequest, Joined, Member, IndInv, Rows, TypeOK
<1>5. TypeOK'
  BY <1>1, <1>3, <1>4 DEF IndInv, Rows, TypeOK, End
<1>6. FriendshipIsMutual' /\ GroupOK' /\ NothingOutlivesTheGroup'
  BY <1>1, <1>2 DEF IndInv, Rows, FriendshipIsMutual, GroupOK, NothingOutlivesTheGroup
<1>7. QED BY <1>3, <1>5, <1>6 DEF IndInv, Rows

LEMMA CreateKeeps ==
    ASSUME IndInv, NEW c \in Calls, NEW u \in Users, NEW others \in SUBSET Users,
           Create(c, u, others)
    PROVE  IndInv'
<1>1. member' \in [Users -> Member]
  BY DEF Create, Joined, Member
<1>2. Sent' = Sent /\ owner' # NoUser /\ exists'
  BY SocialAssumption DEF Create, Sent
<1>3. TypeOK'
  BY <1>1 DEF Create, IndInv, Rows, TypeOK
<1>4. /\ RequestsOK' /\ AnswersStand' /\ GroupOK' /\ FriendshipIsMutual'
      /\ NothingOutlivesTheGroup' /\ CallsOK'
  BY <1>2
  DEF Create, IndInv, Rows, RequestsOK, AnswersStand, GroupOK, FriendshipIsMutual,
      NothingOutlivesTheGroup, CallsOK, IsCall, AnswersKnown, Symmetric
<1>5. QED BY <1>3, <1>4 DEF IndInv, Rows

LEMMA DeleteFriendshipKeeps ==
    ASSUME IndInv, NEW c \in Calls, DeleteFriendship(c)
    PROVE  IndInv'
<1>1. Sent' = Sent /\ End(c) /\ UNCHANGED <<groupVars, request>>
  BY DEF DeleteFriendship, Sent
<1>2. FriendshipIsMutual'
  BY DEF DeleteFriendship, IndInv, Rows, FriendshipIsMutual
<1>3. TypeOK'
  BY <1>1 DEF DeleteFriendship, IndInv, Rows, TypeOK, groupVars, End
<1>4. RequestsOK' /\ AnswersStand' /\ GroupOK' /\ NothingOutlivesTheGroup'
  BY <1>1
  DEF IndInv, Rows, RequestsOK, AnswersStand, GroupOK, NothingOutlivesTheGroup, IsMember,
      groupVars
<1>5. CallsOK'
  BY <1>1, EndKeepsCalls DEF IndInv
<1>6. QED BY <1>2, <1>3, <1>4, <1>5 DEF IndInv, Rows

\* The group goes with its messages, its members and its join requests.
LEMMA DeleteGroupKeeps ==
    ASSUME IndInv, NEW c \in Calls, DeleteGroup(c)
    PROVE  IndInv'
<1> DEFINE gone(q) == [request[q] EXCEPT !.status = "deleted"]
<1>1. /\ DOMAIN request' = RequestIds
      /\ \A q \in RequestIds : request'[q] = IF q \in Sent /\ request[q].kind = "join"
                                             THEN gone(q) ELSE request[q]
  BY DEF DeleteGroup
<1>2. \A q \in Sent : request[q] \in Request
  BY DEF IndInv, Rows, TypeOK, Sent
<1>3. \A q \in Sent : /\ gone(q) \in Request /\ gone(q) # NoRequest
                      /\ gone(q).status = "deleted"
                      /\ gone(q).kind = request[q].kind
  BY <1>2 DEF Request, NoRequest
<1> HIDE DEF gone
<1>4. Sent' = Sent
  BY <1>1, <1>3 DEF Sent
<1>5. /\ End(c) /\ ~exists' /\ authors' = {} /\ allMuted' = FALSE
      /\ member' = [u \in Users |-> None] /\ UNCHANGED <<friends, owner>>
  BY DEF DeleteGroup
<1>6. TypeOK'
  <2>1. \A q \in RequestIds : request'[q] = NoRequest \/ request'[q] \in Request
    BY <1>1, <1>3 DEF IndInv, Rows, TypeOK
  <2>2. member' \in [Users -> Member]
    BY <1>5 DEF Member
  <2>3. /\ friends' = friends /\ owner' = owner /\ begun' = begun
        /\ exists' \in BOOLEAN /\ allMuted' \in BOOLEAN /\ authors' \subseteq Users
    BY <1>5 DEF End, DeleteGroup
  <2>4. QED BY <2>1, <2>2, <2>3, Zenon DEF IndInv, Rows, TypeOK
<1>7. RequestsOK' /\ AnswersStand' /\ GroupOK' /\ FriendshipIsMutual'
  BY <1>1, <1>3, <1>4, <1>5
  DEF IndInv, Rows, RequestsOK, AnswersStand, GroupOK, FriendshipIsMutual, Sent
<1>8. NothingOutlivesTheGroup'
  BY <1>1, <1>3, <1>4, <1>5 DEF NothingOutlivesTheGroup, IsMember, Sent
<1>9. CallsOK'
  <2>1. AnswersKnown(Idle)' /\ IsCall(Idle)
    BY DEF AnswersKnown, IsCall, Idle
  <2>2. ASSUME NEW d \in Calls, d # c
        PROVE  AnswersKnown(call[d])'
    <3>1. call'[d] = call[d] /\ AnswersKnown(call[d])
      BY <2>2, EndFreesTheCall, <1>5 DEF IndInv, CallsOK
    <3>2. QED BY <1>1, <1>3, <1>4, <3>1 DEF AnswersKnown, Sent
  <2>3. QED
    BY <1>5, <2>1, <2>2, EndFreesTheCall DEF IndInv, CallsOK, IsCall, Idle, Symmetric
<1>10. QED BY <1>6, <1>7, <1>8, <1>9 DEF IndInv, Rows

-----------------------------------------------------------------------------
LEMMA IndInvNext == IndInv /\ [Next]_vars => IndInv'
<1> SUFFICES ASSUME IndInv, [Next]_vars PROVE IndInv'
  OBVIOUS
<1>1. ASSUME NEW c \in Calls, Friendship(c) PROVE IndInv'
  <2>1. ASSUME NEW u \in Users, NEW v \in Users,
               SendFriendRequest(c, u, v) \/ RemoveFriend(c, u, v)
        PROVE  IndInv'
    BY <2>1, ChecksKeep
  <2>2. QED
    BY <1>1, <2>1, ReadRequestKeeps, RequestsKeep, RespondFriendRequestKeeps,
       DeleteFriendshipKeeps
    DEF Friendship
<1>2. ASSUME NEW c \in Calls, Membership(c) PROVE IndInv'
  <2>1. ASSUME NEW u \in Users, RequestGroupJoin(c, u) \/ Leave(c, u)
        PROVE  IndInv'
    BY <2>1, ChecksKeep
  <2>2. ASSUME NEW u \in Users, NEW v \in Users, NEW role \in {"member", "admin"},
               InviteMember(c, u, v) \/ RemoveMember(c, u, v) \/ SetMemberRole(c, u, v, role)
        PROVE  IndInv'
    BY <2>2, ChecksKeep
  <2>3. QED
    BY <1>2, <2>1, <2>2, ReadRequestKeeps, RequestsKeep, CreateKeeps,
       RespondGroupJoinRequestKeeps, MembersKeep
    DEF Membership
<1>3. ASSUME NEW c \in Calls, Speech(c) PROVE IndInv'
  <2>1. ASSUME NEW u \in Users, NEW v \in Users, NEW on \in BOOLEAN,
               \/ MuteMember(c, u, v, on) \/ SetAllMuted(c, u, on)
               \/ saveGroupMessage(c, u) \/ Dissolve(c, u)
        PROVE  IndInv'
    BY <2>1, ChecksKeep
  <2>2. QED BY <1>3, <2>1, MembersKeep, DeleteGroupKeeps DEF Speech
<1>4. CASE UNCHANGED vars
  BY <1>4
  DEF vars, data, groupVars, IndInv, Rows, TypeOK, RequestsOK, GroupOK, Sent, CallsOK, IsCall,
      AnswersKnown, Symmetric, FriendshipIsMutual, AnswersStand, NothingOutlivesTheGroup,
      IsMember
<1>5. QED BY <1>1, <1>2, <1>3, <1>4, FailsKeeps DEF Next

LEMMA Invariance == Spec => []IndInv
<1>1. QED BY IndInvInit, IndInvNext, PTL DEF Spec

\* The rows of friends, group, members and requests have the types the schema gives them.
THEOREM SocialTypeCorrect == Spec => []TypeOK
<1>1. IndInv => TypeOK
  BY DEF IndInv, Rows
<1>2. QED BY <1>1, Invariance, PTL

\* Friendship is mutual, whatever requests, answers and removals overlap.
THEOREM FriendsAreMutual == Spec => []FriendshipIsMutual
<1>1. IndInv => FriendshipIsMutual
  BY DEF IndInv, Rows
<1>2. QED BY <1>1, Invariance, PTL

\* A request that was accepted is never refused later, unless two answers to it overlapped.
THEOREM AcceptanceStands == Spec => []AnswersStand
<1>1. IndInv => AnswersStand
  BY DEF IndInv, Rows
<1>2. QED BY <1>1, Invariance, PTL

\* A dissolved group keeps no member, no message and no request that waits.
THEOREM NothingIsLeft == Spec => []NothingOutlivesTheGroup
<1>1. IndInv => NothingOutlivesTheGroup
  BY DEF IndInv, Rows
<1>2. QED BY <1>1, Invariance, PTL

-----------------------------------------------------------------------------
(***************************************************************************)
(* The rows of the members.                                                *)
(***************************************************************************)
RowStands(u) ==
    IsMember(u) /\ member'[u] # member[u] => \E c \in Calls : OnlyBy(c, u)

LEMMA StepLeavesTheRow ==
    ASSUME IndInv, NEW c \in Calls, NEW u \in Users, Friendship(c) \/ Membership(c)
           \/ Speech(c) \/ Fails(c)
    PROVE  RowStands(u)
<1>1. CASE UNCHANGED member
  BY <1>1 DEF RowStands
<1>2. CASE \E v \in Users, others \in SUBSET Users : Create(c, v, others)
  BY <1>2 DEF Create, RowStands, IndInv, Rows, GroupOK, NothingOutlivesTheGroup
<1>3. CASE RespondGroupJoinRequest(c)
  BY <1>3 DEF RespondGroupJoinRequest, RowStands, IndInv, Rows, TypeOK
<1>4. CASE AddMember(c)
  BY <1>4 DEF AddMember, RowStands, IndInv, Rows, TypeOK
<1>5. CASE \/ DeleteMember(c) \/ UpdateRole(c) \/ SetMemberMutedUntil(c) \/ DeleteGroup(c)
  <2>1. End(c) /\ call'[c] = Idle
    BY <1>5, EndFreesTheCall
    DEF IndInv, DeleteMember, UpdateRole, SetMemberMutedUntil, DeleteGroup
  <2>2. CASE DeleteGroup(c)
    BY <2>1, <2>2 DEF DeleteGroup, RowStands, OnlyBy
  <2>3. CASE DeleteMember(c)
    BY <2>1, <2>3 DEF DeleteMember, RowStands, OnlyBy, IndInv, Rows, TypeOK
  <2>4. CASE UpdateRole(c)
    BY <2>1, <2>4 DEF UpdateRole, RowStands, OnlyBy, IndInv, Rows, TypeOK
  <2>5. CASE SetMemberMutedUntil(c)
    BY <2>1, <2>5 DEF SetMemberMutedUntil, RowStands, OnlyBy, IndInv, Rows, TypeOK
  <2>6. QED BY <1>5, <2>2, <2>3, <2>4, <2>5
<1>6. CASE Friendship(c)
  BY <1>1, <1>6
  DEF Friendship, SendFriendRequest, RemoveFriend, ReadRequest, CreateFriendRequest,
      RespondFriendRequest, DeleteFriendship, Reads, data, groupVars
<1>7. CASE Membership(c)
  BY <1>1, <1>2, <1>3, <1>4, <1>5, <1>7
  DEF Membership, RequestGroupJoin, Leave, ReadRequest, InviteMember, RemoveMember,
      SetMemberRole, CreateGroupJoinRequest, Reads, data, groupVars
<1>8. CASE Speech(c)
  BY <1>1, <1>5, <1>8
  DEF Speech, MuteMember, SetAllMuted, saveGroupMessage, Dissolve, UpdateAllMuted,
      SaveAndEnqueue, Reads, data, groupVars
<1>9. CASE Fails(c)
  BY <1>1, <1>9 DEF Fails, data, groupVars
<1>10. QED BY <1>6, <1>7, <1>8, <1>9

\* No late invitation or answer makes a plain member of an admin or of a muted member.
THEOREM MembersKeepTheirRow == Spec => MemberRowStands
<1> DEFINE Stands == \A u \in Users : RowStands(u)
<1>1. IndInv /\ [Next]_vars => [Stands]_vars
  BY StepLeavesTheRow DEF Next
<1> HIDE DEF Stands
<1>2. Spec => [][Stands]_vars
  BY <1>1, Invariance, PTL DEF Spec
<1>3. QED BY <1>2 DEF Stands, RowStands, MemberRowStands
=============================================================================
