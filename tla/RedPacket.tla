------------------------------ MODULE RedPacket ------------------------------
(***************************************************************************)
(* Red packets of one group: redeem codes, balances, packets and receipts, *)
(* and the requests that move money between them.  Amounts are in fen.     *)
(*                                                                         *)
(* A request is a handler at work.  Sending is a membership check, one     *)
(* transaction (CreatePacket) and the group message that shows the packet; *)
(* grabbing is a membership check and one transaction, split at the moment *)
(* it holds the packet's row lock.  The group may change, or be dissolved, *)
(* between any two of these.                                               *)
(***************************************************************************)
EXTENDS Integers, FiniteSets, Functions

CONSTANTS
    Users,     \* the users of the group, but for its owner, who cannot leave
    Packets,   \* the packet ids there is room for
    Codes,     \* the redeem codes
    CodeValue, \* what each of them is worth
    Amounts,   \* what a user may ask to put in a packet
    Counts,    \* how many shares a user may ask for
    Requests,  \* the handlers at work at a time
    NoRequest,
    MaxChanges \* bound: how often members join or leave

ASSUME RedPacketAssumption ==
    /\ IsFiniteSet(Users)
    /\ IsFiniteSet(Packets)
    /\ CodeValue \in Nat
    /\ Amounts \subseteq Nat
    /\ Counts \subseteq Nat
    /\ MaxChanges \in Nat
    /\ NoRequest \notin Requests

VARIABLES
    balance,  \* balance[u]
    usedBy,   \* the redeem codes with used_at set
    packet,   \* packet[p]: the row of p
    receipt,  \* receipt[p][u]: what u got from p; 0: no receipt row
    rowLock,  \* rowLock[p]: the request whose transaction locked p's row
    members,  \* the rows of group_members
    exists,   \* the group has not been dissolved
    changes,  \* how often members joined or left
    request,  \* request[r]: what handler r is doing
    lost      \* history: the money that dissolving the group deleted

moneyVars == <<balance, usedBy, packet, receipt>>
groupVars == <<members, exists, changes>>
vars == <<moneyVars, rowLock, groupVars, request, lost>>

PacketRow == [status : {"none", "open", "deleted"},
              total  : Nat, count : Nat,      \* total_amount, total_count
              left   : Nat, shares : Nat,     \* remaining_amount, remaining_count
              lucky  : BOOLEAN]

NoPacket == [status |-> "none", total |-> 0, count |-> 0, left |-> 0, shares |-> 0, lucky |-> FALSE]

Idle == [phase |-> "idle"]

\* paying: membership is checked; announcing: the packet is paid for;
\* grabbing: membership is checked; granting: the packet row is locked, the amount drawn.
Request ==
    {Idle}
    \cup [phase : {"paying"}, user : Users, amount : Nat \ {0}, count : Nat \ {0}, lucky : BOOLEAN]
    \cup [phase : {"announcing", "grabbing"}, user : Users, packet : Packets]
    \cup [phase : {"granting"}, user : Users, packet : Packets, amount : Nat]

Init ==
    /\ balance = [u \in Users |-> 0]
    /\ usedBy = {}
    /\ packet = [p \in Packets |-> NoPacket]
    /\ receipt = [p \in Packets |-> [u \in Users |-> 0]]
    /\ rowLock = [p \in Packets |-> NoRequest]
    /\ members \in SUBSET Users
    /\ exists = TRUE
    /\ changes = 0
    /\ request = [r \in Requests |-> Idle]
    /\ lost = 0

Becomes(r, q) == request' = [request EXCEPT ![r] = q]

Finish(r) == Becomes(r, Idle)

-----------------------------------------------------------------------------
\* Mutant: the UPDATE does not ask for used_at to be NULL.
RepeatedRedeemCode(u, c) ==
    /\ usedBy' = usedBy \cup {c}
    /\ balance' = [balance EXCEPT ![u] = @ + CodeValue]
    /\ UNCHANGED <<packet, receipt, rowLock, groupVars, request, lost>>

\* One transaction: the code is marked used only if it was not, and the balance is raised.
RedeemCode(u, c) ==
    /\ c \notin usedBy
    /\ usedBy' = usedBy \cup {c}
    /\ balance' = [balance EXCEPT ![u] = @ + CodeValue]
    /\ UNCHANGED <<packet, receipt, rowLock, groupVars, request, lost>>

-----------------------------------------------------------------------------
(***************************************************************************)
(* Sending.                                                                *)
(***************************************************************************)
SendGroupPacket(r, u, amount, count, lucky) ==
    /\ request[r].phase = "idle"
    /\ amount > 0 /\ count > 0 /\ count <= amount
    /\ u \in members
    /\ Becomes(r, [phase |-> "paying", user |-> u, amount |-> amount, count |-> count, lucky |-> lucky])
    /\ UNCHANGED <<moneyVars, rowLock, groupVars, lost>>

\* Mutant: the balance is read before the transaction and not compared in the UPDATE.
UnconditionalDebit(r, p) ==
    LET q == request[r]
    IN  /\ q.phase = "paying"
        /\ exists
        /\ packet[p].status = "none"
        /\ balance' = [balance EXCEPT ![q.user] = @ - q.amount]
        /\ packet' = [packet EXCEPT ![p] = [status |-> "open", total |-> q.amount, count |-> q.count,
                                            left |-> q.amount, shares |-> q.count, lucky |-> q.lucky]]
        /\ Becomes(r, [phase |-> "announcing", user |-> q.user, packet |-> p])
        /\ UNCHANGED <<usedBy, receipt, rowLock, groupVars, lost>>

\* One transaction; the foreign key wants the group to be there.
CreatePacket(r, p) ==
    LET q == request[r]
    IN  /\ q.phase = "paying"
        /\ exists
        /\ balance[q.user] >= q.amount
        /\ packet[p].status = "none"
        /\ balance' = [balance EXCEPT ![q.user] = @ - q.amount]
        /\ packet' = [packet EXCEPT ![p] = [status |-> "open", total |-> q.amount, count |-> q.count,
                                            left |-> q.amount, shares |-> q.count, lucky |-> q.lucky]]
        /\ Becomes(r, [phase |-> "announcing", user |-> q.user, packet |-> p])
        /\ UNCHANGED <<usedBy, receipt, rowLock, groupVars, lost>>

\* ErrInsufficientBalance, or the database refuses or fails: nothing is kept.
CreatePacketFails(r) ==
    /\ request[r].phase = "paying"
    /\ Finish(r)
    /\ UNCHANGED <<moneyVars, rowLock, groupVars, lost>>

\* SaveGroupRedPacket: the sender must still be a member.
Announce(r) ==
    /\ request[r].phase = "announcing"
    /\ exists /\ request[r].user \in members
    /\ Finish(r)
    /\ UNCHANGED <<moneyVars, rowLock, groupVars, lost>>

\* Otherwise, or if the sender is muted or the insert fails, the request is answered with an error.
AnnounceFails(r) ==
    /\ request[r].phase = "announcing"
    /\ Finish(r)
    /\ UNCHANGED <<moneyVars, rowLock, groupVars, lost>>

-----------------------------------------------------------------------------
(***************************************************************************)
(* Grabbing.                                                               *)
(***************************************************************************)
Lesser(a, b) == IF a < b THEN a ELSE b

\* Mutant: the cap leaves nothing for those who have not grabbed yet.
GreedyGrabAmount(remaining, count, lucky) ==
    IF count <= 1 THEN {remaining}
    ELSE IF ~lucky THEN {remaining \div count}
    ELSE 1..(2 * (remaining \div count))

\* The amounts one draw may return.
randomGrabAmount(remaining, count, lucky) ==
    IF count <= 1 THEN {remaining}
    ELSE IF ~lucky THEN {remaining \div count}
    ELSE LET average == IF remaining \div count < 1 THEN 1 ELSE remaining \div count
             maxGrab == Lesser(2 * average, remaining - (count - 1))
         IN  IF maxGrab <= 1 THEN {1} ELSE 1..maxGrab

CheckGrab(r, u, p) ==
    /\ request[r].phase = "idle"
    /\ packet[p].status = "open"
    /\ u \in members
    /\ Becomes(r, [phase |-> "grabbing", user |-> u, packet |-> p])
    /\ UNCHANGED <<moneyVars, rowLock, groupVars, lost>>

\* Mutant: the row is read without FOR UPDATE.
LockFreeGrab(r) ==
    LET u == request[r].user
        p == request[r].packet
        row == packet[p]
    IN  /\ request[r].phase = "grabbing"
        /\ row.status = "open"
        /\ receipt[p][u] = 0
        /\ row.shares > 0
        /\ \E amount \in randomGrabAmount(row.left, row.shares, row.lucky) :
              Becomes(r, [phase |-> "granting", user |-> u, packet |-> p, amount |-> amount])
        /\ rowLock' = [rowLock EXCEPT ![p] = r]
        /\ UNCHANGED <<moneyVars, groupVars, lost>>

\* SELECT ... FOR UPDATE, the check for an earlier receipt and the draw.
LockPacket(r) ==
    LET u == request[r].user
        p == request[r].packet
        row == packet[p]
    IN  /\ request[r].phase = "grabbing"
        /\ rowLock[p] = NoRequest
        /\ row.status = "open"
        /\ receipt[p][u] = 0
        /\ row.shares > 0
        /\ \E amount \in randomGrabAmount(row.left, row.shares, row.lucky) :
              Becomes(r, [phase |-> "granting", user |-> u, packet |-> p, amount |-> amount])
        /\ rowLock' = [rowLock EXCEPT ![p] = r]
        /\ UNCHANGED <<moneyVars, groupVars, lost>>

\* The packet is gone or empty, the user has a receipt, or the database fails.
GrabRefused(r) ==
    /\ request[r].phase = "grabbing"
    /\ Finish(r)
    /\ UNCHANGED <<moneyVars, rowLock, groupVars, lost>>

Unlock(r) == rowLock' = [rowLock EXCEPT ![request[r].packet] = NoRequest]

\* The packet, the receipt and the balance change together.
CommitGrab(r) ==
    LET p == request[r].packet
        u == request[r].user
    IN  /\ request[r].phase = "granting"
        /\ packet[p].shares > 0
        /\ receipt[p][u] = 0
        /\ packet' = [packet EXCEPT ![p].left = @ - request[r].amount, ![p].shares = @ - 1]
        /\ receipt' = [receipt EXCEPT ![p][u] = request[r].amount]
        /\ balance' = [balance EXCEPT ![u] = @ + request[r].amount]
        /\ Unlock(r)
        /\ Finish(r)
        /\ UNCHANGED <<usedBy, groupVars, lost>>

\* Mutant: the statements are no transaction, and the one that inserts the receipt fails.
HalfGrab(r) ==
    LET p == request[r].packet
    IN  /\ request[r].phase = "granting"
        /\ packet' = [packet EXCEPT ![p].left = @ - request[r].amount, ![p].shares = @ - 1]
        /\ Unlock(r)
        /\ Finish(r)
        /\ UNCHANGED <<balance, usedBy, receipt, groupVars, lost>>

\* The transaction rolls back: a statement fails, or the process dies.
AbortGrab(r) ==
    /\ request[r].phase = "granting"
    /\ Unlock(r)
    /\ Finish(r)
    /\ UNCHANGED <<moneyVars, groupVars, lost>>

-----------------------------------------------------------------------------
(***************************************************************************)
(* The group around the packets.                                           *)
(***************************************************************************)
Change ==
    /\ changes < MaxChanges
    /\ changes' = changes + 1
    /\ UNCHANGED <<moneyVars, rowLock, exists, request, lost>>

\* RemoveMember by a manager, or Leave.
RemoveMember(u) ==
    /\ u \in members
    /\ members' = members \ {u}
    /\ Change

AddMember(u) ==
    /\ exists /\ u \notin members
    /\ members' = members \cup {u}
    /\ Change

OpenPackets == {p \in Packets : packet[p].status = "open"}

Remaining == [p \in Packets |-> packet[p].left]

\* The cascade from chat_groups deletes packets and receipts; it waits for locked rows.
Dissolve ==
    /\ exists
    /\ \A p \in OpenPackets : rowLock[p] = NoRequest
    /\ exists' = FALSE
    /\ members' = {}
    /\ lost' = lost + SumFunctionOnSet(Remaining, OpenPackets)
    /\ packet' = [p \in Packets |-> IF p \in OpenPackets
                                    THEN [NoPacket EXCEPT !.status = "deleted"] ELSE packet[p]]
    /\ receipt' = [p \in Packets |-> [u \in Users |-> 0]]
    /\ UNCHANGED <<balance, usedBy, rowLock, changes, request>>

-----------------------------------------------------------------------------
Send(r) ==
    \/ \E u \in Users, a \in Amounts, n \in Counts, lucky \in BOOLEAN :
          SendGroupPacket(r, u, a, n, lucky)
    \/ \E p \in Packets : CreatePacket(r, p)
    \/ CreatePacketFails(r) \/ Announce(r) \/ AnnounceFails(r)

Grab(r) ==
    \/ \E u \in Users, p \in Packets : CheckGrab(r, u, p)
    \/ LockPacket(r) \/ GrabRefused(r) \/ CommitGrab(r) \/ AbortGrab(r)

Next ==
    \/ \E u \in Users, c \in Codes : RedeemCode(u, c)
    \/ \E r \in Requests : Send(r) \/ Grab(r)
    \/ \E u \in Users : RemoveMember(u) \/ AddMember(u)
    \/ Dissolve

Spec == Init /\ [][Next]_vars

-----------------------------------------------------------------------------
\* Types of the rows and of the requests; a balance is never overdrawn.
TypeOK ==
    /\ balance \in [Users -> Nat]
    /\ usedBy \subseteq Codes
    /\ packet \in [Packets -> PacketRow]
    /\ receipt \in [Packets -> [Users -> Nat]]
    /\ rowLock \in [Packets -> Requests \cup {NoRequest}]
    /\ members \subseteq Users
    /\ exists \in BOOLEAN
    /\ changes \in 0..MaxChanges
    /\ request \in [Requests -> Request]

Winners(p) == {u \in Users : receipt[p][u] > 0}

(***************************************************************************)
(* No fen appears or disappears: what was redeemed is in balances, in open *)
(* packets, or was deleted with the group.                                 *)
(***************************************************************************)
MoneyIsConserved ==
    CodeValue * Cardinality(usedBy) =
        SumFunctionOnSet(balance, Users) + SumFunctionOnSet(Remaining, OpenPackets) + lost

(***************************************************************************)
(* A packet is split without a fen of error: what its receipts say and     *)
(* what remains are its total, in money and in shares.                     *)
(***************************************************************************)
PacketAddsUp ==
    \A p \in OpenPackets :
        /\ packet[p].total = packet[p].left + SumFunctionOnSet(receipt[p], Users)
        /\ packet[p].count = packet[p].shares + Cardinality(Winners(p))

(***************************************************************************)
(* Nobody who may still grab ends with nothing: at least one fen remains   *)
(* for each share that is left, and nothing when none is.                  *)
(***************************************************************************)
EveryShareIsCovered ==
    \A p \in OpenPackets :
        /\ packet[p].left >= packet[p].shares
        /\ packet[p].shares = 0 => packet[p].left = 0

(***************************************************************************)
(* The shares of a packet that is not lucky differ by one fen at most,     *)
(* whatever the order in which they are taken.                             *)
(***************************************************************************)
NormalSharesAreEven ==
    \A p \in OpenPackets : ~packet[p].lucky =>
        \A u, v \in Winners(p) : receipt[p][u] <= receipt[p][v] + 1
=============================================================================
