-------------------------------- MODULE Hub --------------------------------
(***************************************************************************)
(* The life of a WebSocket connection: the hub of each node keeps one      *)
(* client per user; a client has a socket, a bounded send channel, a       *)
(* readPump and a writePump; Redis keeps, with a time to live, the node    *)
(* where a user is online.                                                 *)
(*                                                                         *)
(* Connections are numbered in the order they register.  What is sent does *)
(* not matter here: a channel is the number of its payloads.               *)
(***************************************************************************)
EXTENDS Integers, FiniteSets

CONSTANTS
    Users,
    Nodes,
    NoNode,         \* not online
    MaxConnections, \* bound: connections of a behaviour
    BufferSize,     \* capacity of Client.send
    MaxFaults       \* bound: faults of a behaviour

ASSUME HubAssumption ==
    /\ NoNode \notin Nodes
    /\ MaxConnections \in Nat
    /\ BufferSize \in Nat \ {0}
    /\ MaxFaults \in Nat

Connections == 1..MaxConnections

VARIABLES
    opened,   \* how many connections have registered
    conn,     \* conn[c]: the connection, its channel, pumps and timers
    clients,  \* clients[n][u]: the client of u in the hub of n, or 0
    held,     \* held[n]: the client a delivery of n has looked up, or 0
    presence, \* presence[u]: the node Redis names for u
    faults    \* how many faults have happened

vars == <<opened, conn, clients, held, presence, faults>>

Client == [
    user   : Users,
    node   : Nodes,
    here   : BOOLEAN,                                     \* the browser is at the other end
    closed : BOOLEAN,                                     \* conn.Close was called
    reader : {"reading", "answering", "leaving", "done"}, \* answering: at c.send <-
    writer : {"writing", "done"},
    send   : 0..BufferSize]

Fresh(u, n) ==
    [user |-> u, node |-> n, here |-> TRUE, closed |-> FALSE, reader |-> "reading",
     writer |-> "writing", send |-> 0]

Opened == 1..opened

Fault == /\ faults < MaxFaults
         /\ faults' = faults + 1

Init ==
    /\ opened = 0
    /\ conn = <<>>
    /\ clients = [n \in Nodes |-> [u \in Users |-> 0]]
    /\ held = [n \in Nodes |-> 0]
    /\ presence = [u \in Users |-> NoNode]
    /\ faults = 0

-----------------------------------------------------------------------------
(***************************************************************************)
(* The presence store.  Its errors are only logged.                        *)
(***************************************************************************)
SetOnline(u, n) ==
    \/ presence' = [presence EXCEPT ![u] = n] /\ UNCHANGED faults
    \/ Fault /\ UNCHANGED presence

SetOffline(u) ==
    \/ presence' = [presence EXCEPT ![u] = NoNode] /\ UNCHANGED faults
    \/ Fault /\ UNCHANGED presence

-----------------------------------------------------------------------------
Close(c) == [c EXCEPT !.closed = TRUE]

\* Mutant: the old connection is left open.
OverwritingRegister(u, n, new) ==
    /\ conn' = [c \in 1..new |-> IF c = new THEN Fresh(u, n) ELSE conn[c]]
    /\ clients' = [clients EXCEPT ![n][u] = new]
    /\ SetOnline(u, n)

\* register, under the hub's lock: the user's older connection to this node is closed.
register(u, n, new) ==
    /\ conn' = [c \in 1..new |->
                   IF c = new THEN Fresh(u, n)
                   ELSE IF c = clients[n][u] THEN Close(conn[c]) ELSE conn[c]]
    /\ clients' = [clients EXCEPT ![n][u] = new]
    /\ SetOnline(u, n)

ServeWS(u, n) ==
    /\ opened < MaxConnections
    /\ opened' = opened + 1
    /\ register(u, n, opened + 1)
    /\ UNCHANGED held

\* Mutant: the user is unregistered whichever his client is.
CarelessUnregister(c) ==
    /\ clients' = [clients EXCEPT ![conn[c].node][conn[c].user] = 0]
    /\ SetOffline(conn[c].user)

\* Mutant: the user is marked offline whichever his client is.
OfflineAnyway(c) ==
    /\ clients' = [clients EXCEPT ![conn[c].node][conn[c].user] = IF @ = c THEN 0 ELSE @]
    /\ SetOffline(conn[c].user)

\* unregister, under the hub's lock: only the client that is registered.
unregister(c) ==
    LET u == conn[c].user
        n == conn[c].node
    IN  \/ /\ clients[n][u] = c
           /\ clients' = [clients EXCEPT ![n][u] = 0]
           /\ SetOffline(u)
        \/ /\ clients[n][u] # c
           /\ UNCHANGED <<clients, presence, faults>>

-----------------------------------------------------------------------------
(***************************************************************************)
(* deliver: the client is looked up under the lock and sent to after it.   *)
(***************************************************************************)
DeliverLookup(n, u) ==
    /\ held[n] = 0
    /\ clients[n][u] # 0
    /\ held' = [held EXCEPT ![n] = clients[n][u]]
    /\ UNCHANGED <<opened, conn, clients, presence, faults>>

\* Mutant: a full channel does not stop the delivery.
UnboundedSend(n) ==
    /\ held[n] # 0
    /\ conn' = [conn EXCEPT ![held[n]].send = @ + 1]
    /\ held' = [held EXCEPT ![n] = 0]
    /\ UNCHANGED <<opened, clients, presence, faults>>

DeliverSend(n) ==
    LET c == held[n]
    IN  /\ c # 0
        /\ \/ conn[c].send < BufferSize /\ conn' = [conn EXCEPT ![c].send = @ + 1]
           \/ conn[c].send = BufferSize /\ conn' = [conn EXCEPT ![c] = Close(@)]
        /\ held' = [held EXCEPT ![n] = 0]
        /\ UNCHANGED <<opened, clients, presence, faults>>

-----------------------------------------------------------------------------
(***************************************************************************)
(* readPump.                                                               *)
(***************************************************************************)
onlyConn == <<opened, clients, held, presence, faults>>

\* A frame that is answered (an ack or an error) and not a typing hint.
ReadFrame(c) ==
    /\ conn[c].reader = "reading"
    /\ conn[c].here
    /\ ~conn[c].closed
    /\ conn' = [conn EXCEPT ![c].reader = "answering"]
    /\ UNCHANGED onlyConn

\* The frame has been handled; the send blocks on a full channel.
Answer(c) ==
    /\ conn[c].reader = "answering"
    /\ conn[c].send < BufferSize
    /\ conn' = [conn EXCEPT ![c].reader = "reading", ![c].send = @ + 1]
    /\ UNCHANGED onlyConn

\* The socket was closed, the browser left, or its pongs stopped until the read deadline.
ReadFails(c) ==
    /\ conn[c].reader = "reading"
    /\ conn[c].closed \/ ~conn[c].here
    /\ conn' = [conn EXCEPT ![c].reader = "leaving"]
    /\ UNCHANGED onlyConn

\* The deferred calls.
ReaderLeaves(c) ==
    /\ conn[c].reader = "leaving"
    /\ unregister(c)
    /\ conn' = [conn EXCEPT ![c].reader = "done", ![c].closed = TRUE]
    /\ UNCHANGED <<opened, held>>

-----------------------------------------------------------------------------
(***************************************************************************)
(* writePump.  A write on a closed socket fails; to a browser that is not  *)
(* there any more it may fail.                                             *)
(***************************************************************************)
CanWrite(c) == ~conn[c].closed
CanFail(c) == conn[c].closed \/ ~conn[c].here

WriterDone(c) == [c EXCEPT !.writer = "done", !.closed = TRUE]

Write(c) ==
    /\ conn[c].writer = "writing"
    /\ conn[c].send > 0
    /\ \/ CanWrite(c) /\ conn' = [conn EXCEPT ![c].send = @ - 1]
       \/ /\ CanFail(c)
          /\ conn' = [conn EXCEPT ![c].writer = "done", ![c].closed = TRUE, ![c].send = @ - 1]
    /\ UNCHANGED onlyConn

\* Mutant: the ping goes out and Redis is not told.
PingOnly(c) ==
    /\ conn[c].writer = "writing"
    /\ \/ CanWrite(c) /\ UNCHANGED conn
       \/ CanFail(c) /\ conn' = [conn EXCEPT ![c] = WriterDone(@)]
    /\ UNCHANGED onlyConn

\* Mutant: a failed ping does not end the writePump.
TirelessHeartbeat(c) ==
    /\ conn[c].writer = "writing"
    /\ SetOnline(conn[c].user, conn[c].node)
    /\ UNCHANGED <<opened, conn, clients, held>>

\* The ticker: Redis is told first, whatever becomes of the ping.
Heartbeat(c) ==
    /\ conn[c].writer = "writing"
    /\ SetOnline(conn[c].user, conn[c].node)
    /\ \/ CanWrite(c) /\ UNCHANGED conn
       \/ CanFail(c) /\ conn' = [conn EXCEPT ![c] = WriterDone(@)]
    /\ UNCHANGED <<opened, clients, held>>

-----------------------------------------------------------------------------
(***************************************************************************)
(* The browser, the processes and time.                                    *)
(***************************************************************************)
PeerLeaves(c) ==
    /\ conn[c].here
    /\ conn' = [conn EXCEPT ![c].here = FALSE]
    /\ UNCHANGED onlyConn

Dead(c) == [c EXCEPT !.closed = TRUE, !.reader = "done", !.writer = "done", !.send = 0]

\* The node dies and starts with an empty hub; Redis is not told.
NodeCrash(n) ==
    /\ Fault
    /\ conn' = [c \in Opened |-> IF conn[c].node = n THEN Dead(conn[c]) ELSE conn[c]]
    /\ clients' = [clients EXCEPT ![n] = [u \in Users |-> 0]]
    /\ held' = [held EXCEPT ![n] = 0]
    /\ UNCHANGED <<opened, presence>>

HasWriter(u) == \E c \in Opened : conn[c].user = u /\ conn[c].writer = "writing"

\* The entry lives 60 s and every writer renews it after 30: it outlives them alone, or
\* their renewals failed.
PresenceExpires(u) ==
    /\ presence[u] # NoNode
    /\ \/ ~HasWriter(u) /\ UNCHANGED faults
       \/ HasWriter(u) /\ Fault
    /\ presence' = [presence EXCEPT ![u] = NoNode]
    /\ UNCHANGED <<opened, conn, clients, held>>

-----------------------------------------------------------------------------
Pump(c) ==
    \/ ReadFrame(c) \/ Answer(c) \/ ReadFails(c) \/ ReaderLeaves(c)
    \/ Write(c) \/ Heartbeat(c)

Next ==
    \/ \E u \in Users, n \in Nodes : ServeWS(u, n) \/ DeliverLookup(n, u)
    \/ \E n \in Nodes : DeliverSend(n) \/ NodeCrash(n)
    \/ \E u \in Users : PresenceExpires(u)
    \/ \E c \in Opened : Pump(c) \/ PeerLeaves(c)

Spec == Init /\ [][Next]_vars

(***************************************************************************)
(* A goroutine that can run does, and entries expire.  A channel serves    *)
(* its blocked sender first: hence SF.                                     *)
(***************************************************************************)
FairSpec ==
    /\ Spec
    /\ \A c \in Connections :
          /\ SF_vars(c \in Opened /\ Answer(c))
          /\ WF_vars(c \in Opened /\ Heartbeat(c))
          /\ WF_vars(c \in Opened /\ (ReadFails(c) \/ ReaderLeaves(c)))
          /\ WF_vars(c \in Opened /\ Write(c))
    /\ \A n \in Nodes : WF_vars(DeliverSend(n))
    /\ \A u \in Users : WF_vars(~HasWriter(u) /\ PresenceExpires(u))

-----------------------------------------------------------------------------
TypeOK ==
    /\ opened \in 0..MaxConnections
    /\ conn \in [Opened -> Client]
    /\ clients \in [Nodes -> [Users -> 0..opened]]
    /\ held \in [Nodes -> 0..opened]
    /\ presence \in [Users -> Nodes \cup {NoNode}]
    /\ faults \in 0..MaxFaults

Of(n, u) == {c \in Opened : conn[c].node = n /\ conn[c].user = u}

IsNewest(c) == \A d \in Of(conn[c].node, conn[c].user) : d <= c

(***************************************************************************)
(* An old connection's teardown, however late, does not evict its          *)
(* successor, and a client whose reader has left is not in the hub: what   *)
(* the hub has for a user is his newest connection to the node, from its   *)
(* registration until its reader leaves.                                   *)
(***************************************************************************)
TheNewestIsRegistered ==
    /\ \A c \in Opened :
          clients[conn[c].node][conn[c].user] = c <=> IsNewest(c) /\ conn[c].reader # "done"
    /\ \A n \in Nodes, u \in Users : clients[n][u] \in Of(n, u) \cup {0}

(***************************************************************************)
(* A user has one open connection to a node: logging in again or reloading *)
(* the page closes the older one ("the old connection will be cut").       *)
(* Across nodes it does not hold.                                          *)
(***************************************************************************)
OldConnectionsAreClosed ==
    \A c \in Opened : IsNewest(c) \/ conn[c].closed

(***************************************************************************)
(* A user who uses one node is shown online there from his registration    *)
(* until his connection is closed: no late teardown of an older one marks  *)
(* him offline.  Redis errors and crashes aside; with several nodes it     *)
(* does not hold (see BackOnline).                                         *)
(***************************************************************************)
RegisteredIsOnline ==
    \A n \in Nodes, u \in Users :
        /\ faults = 0
        /\ clients[n][u] # 0 /\ ~conn[clients[n][u]].closed
        /\ \A c \in Opened : conn[c].user = u => conn[c].node = n
        => presence[u] = n

Connected(u) == \E c \in Opened : conn[c].user = u /\ ~conn[c].closed

(***************************************************************************)
(* A connected user marked offline, by a teardown at another node or by    *)
(* Redis errors, is shown online again while he stays connected.           *)
(***************************************************************************)
BackOnline ==
    \A u \in Users : presence[u] = NoNode /\ Connected(u) ~> presence[u] # NoNode \/ ~Connected(u)

(***************************************************************************)
(* A user all of whose browsers have left is in the end shown offline for  *)
(* good, although the writer of a closed connection may set him online     *)
(* once more after he was unregistered.                                    *)
(***************************************************************************)
GhostsFade ==
    \A u \in Users :
        <>[](\A c \in Opened : conn[c].user = u => ~conn[c].here \/ conn[c].closed)
            => <>[](presence[u] = NoNode)

Closed(c) == c \in Opened /\ conn[c].closed

TornDown(c) == c \in Opened /\ conn[c].reader = "done" /\ conn[c].writer = "done"

\* The reader is at c.send <- with a full channel that nothing drains.
Stuck(c) == c \in Opened /\ conn[c].reader = "answering" /\ conn[c].send = BufferSize /\ conn[c].writer = "done"

(***************************************************************************)
(* A closed connection is torn down: both pumps end and it leaves the hub, *)
(* unless its reader is caught at a send on a full channel.                *)
(***************************************************************************)
ClosedIsTornDown ==
    \A c \in Connections :
        Closed(c) ~> Stuck(c) \/ TornDown(c)

(***************************************************************************)
(* "unregister: when the client disconnects, remove it from the hub and    *)
(* the presence store": a closed connection leaves the hub.  It does not   *)
(* hold: the reader of a connection closed because its channel is full may *)
(* wait for ever to answer the frame it was handling.                      *)
(***************************************************************************)
ClosedIsUnregistered ==
    \A c \in Connections :
        Closed(c) ~> \A n \in Nodes, u \in Users : clients[n][u] # c
=============================================================================
