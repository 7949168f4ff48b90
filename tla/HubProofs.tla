----------------------------- MODULE HubProofs -----------------------------
(***************************************************************************)
(* Theorems of the hub, for any number of users, nodes and connections:    *)
(* which client a hub has, which sockets are open, and when Redis shows a  *)
(* user online.                                                            *)
(***************************************************************************)
EXTENDS Hub, TLAPS

-----------------------------------------------------------------------------
(***************************************************************************)
(* The inductive invariant.  That a superseded connection is closed is     *)
(* inductive only if a pump that ended has closed it, and if the hub's     *)
(* client is the one a registration supersedes.                            *)
(***************************************************************************)
EndedIsClosed ==
    \A c \in Opened :
        conn[c].reader = "done" \/ conn[c].writer = "done" => conn[c].closed

Inv ==
    /\ TypeOK
    /\ EndedIsClosed
    /\ TheNewestIsRegistered
    /\ OldConnectionsAreClosed
    /\ RegisteredIsOnline

\* What a pump or the browser may do to a connection without the hub.
Moves(c) ==
    /\ conn' \in [Opened -> Client]
    /\ \A d \in Opened :
          /\ conn'[d].user = conn[d].user /\ conn'[d].node = conn[d].node
          /\ conn'[d].reader = "done" <=> conn[d].reader = "done"
          /\ conn[d].closed => conn'[d].closed
          /\ conn[d].writer = "done" => conn'[d].writer = "done"
          /\ conn'[d].writer = "done" => conn'[d].closed

LEMMA OpenedIsNat == TypeOK => Opened \subseteq Nat \ {0} /\ opened \in Nat
BY HubAssumption DEF TypeOK, Opened

\* The invariant at the start.
LEMMA InvInit == Init => Inv
<1> SUFFICES ASSUME Init PROVE Inv
  OBVIOUS
<1>1. Opened = {}
  BY DEF Init, Opened
<1>2. TypeOK
  BY <1>1, HubAssumption DEF Init, TypeOK
<1>3. QED
  BY <1>1, <1>2 DEF Init, Inv, EndedIsClosed, TheNewestIsRegistered, OldConnectionsAreClosed,
        RegisteredIsOnline, Of

\* The part of the invariant that is not about Redis depends on these facts only.
LEMMA MovesKeep ==
    ASSUME Inv, NEW c, Moves(c), UNCHANGED <<opened, clients>>
    PROVE  EndedIsClosed' /\ TheNewestIsRegistered' /\ OldConnectionsAreClosed'
<1>1. Opened' = Opened
  BY DEF Opened
<1>2. \A n \in Nodes, u \in Users : Of(n, u)' = Of(n, u)
  BY <1>1 DEF Of, Moves
<1>3. \A d \in Opened : IsNewest(d)' <=> IsNewest(d)
  BY <1>1, <1>2 DEF IsNewest, Of, Moves
<1>4. EndedIsClosed'
  BY <1>1 DEF EndedIsClosed, Moves, Inv
<1>5. OldConnectionsAreClosed'
  BY <1>1, <1>3 DEF OldConnectionsAreClosed, Moves, Inv
<1>6. TheNewestIsRegistered'
  BY <1>1, <1>2, <1>3 DEF TheNewestIsRegistered, Moves, Inv
<1>7. QED BY <1>4, <1>5, <1>6

\* Redis keeps what it has of a user, or is told a node he is connected to.
LEMMA MovesKeepOnline ==
    ASSUME Inv, NEW c, Moves(c), UNCHANGED <<opened, clients>>,
           faults' = 0 => /\ faults = 0
                          /\ \A u \in Users :
                                \/ presence'[u] = presence[u]
                                \/ \E d \in Opened : conn[d].user = u /\ presence'[u] = conn[d].node
    PROVE  RegisteredIsOnline'
<1> SUFFICES ASSUME NEW n \in Nodes, NEW u \in Users,
                    faults' = 0, clients[n][u] # 0, ~conn'[clients[n][u]].closed,
                    \A d \in Opened : conn'[d].user = u => conn'[d].node = n
             PROVE  presence'[u] = n
  BY DEF RegisteredIsOnline, Opened
<1>1. clients[n][u] \in Opened
  BY DEF Inv, TheNewestIsRegistered, Of
<1>2. ~conn[clients[n][u]].closed
  BY <1>1 DEF Moves
<1>3. \A d \in Opened : conn[d].user = u => conn[d].node = n
  BY DEF Moves
<1>4. presence[u] = n
  BY <1>2, <1>3 DEF Inv, RegisteredIsOnline
<1>5. QED BY <1>3, <1>4

-----------------------------------------------------------------------------
(***************************************************************************)
(* The actions.                                                            *)
(***************************************************************************)

\* A step of one connection that neither the hub nor Redis sees.
LEMMA PumpMovesKeep ==
    ASSUME Inv, NEW c, Moves(c), UNCHANGED <<opened, clients, presence, faults>>,
           held' \in [Nodes -> 0..opened]
    PROVE  Inv'
<1>1. TypeOK'
  BY DEF Inv, TypeOK, Moves, Opened
<1>2. QED BY <1>1, MovesKeep, MovesKeepOnline DEF Inv

\* A registration.
LEMMA ServeWSStep ==
    ASSUME Inv, NEW u \in Users, NEW n \in Nodes, ServeWS(u, n)
    PROVE  Inv'
<1>0. opened + 1 \in Nat
  BY HubAssumption DEF Inv, TypeOK
<1> SUFFICES ASSUME NEW new \in Nat, new = opened + 1 PROVE Inv'
  BY <1>0
<1>1. opened \in Nat /\ new \in 1..MaxConnections /\ new \notin Opened
  BY HubAssumption DEF Inv, TypeOK, ServeWS, Opened
<1>2. opened' = new /\ Opened' = Opened \cup {new} /\ Opened' = 1..new
  BY <1>1 DEF ServeWS, Opened
<1>3. clients[n][u] \in 0..opened
  BY DEF Inv, TypeOK
<1>4. /\ conn'[new] = Fresh(u, n)
      /\ \A c \in Opened : conn'[c] = IF c = clients[n][u] THEN Close(conn[c]) ELSE conn[c]
  BY <1>1, <1>2 DEF ServeWS, register
<1>5. clients' = [clients EXCEPT ![n][u] = new]
  BY DEF ServeWS, register
<1>6. TypeOK'
  <2>1. Fresh(u, n) \in Client
    BY HubAssumption DEF Fresh, Client
  <2>2. \A c \in Opened : Close(conn[c]) \in Client
    BY DEF Close, Client, Inv, TypeOK
  <2>3. \A c \in Opened : conn'[c] \in Client
    BY <1>4, <2>2 DEF Inv, TypeOK
  <2>4. conn' \in [Opened' -> Client]
    BY <1>2, <1>4, <2>1, <2>3 DEF ServeWS, register
  <2>5. clients' \in [Nodes -> [Users -> 0..opened']]
    BY <1>1, <1>2, <1>5 DEF Inv, TypeOK
  <2>6. held' \in [Nodes -> 0..opened']
    BY <1>1, <1>2 DEF Inv, TypeOK, ServeWS
  <2>7. presence' \in [Users -> Nodes \cup {NoNode}] /\ faults' \in 0..MaxFaults
    <3>1. SetOnline(u, n)
      BY DEF ServeWS, register
    <3>2. QED BY <3>1, HubAssumption DEF Inv, TypeOK, SetOnline, Fault
  <2>8. QED BY <1>1, <1>2, <2>4, <2>5, <2>6, <2>7 DEF TypeOK
<1>7. \A c \in Opened : /\ conn'[c].user = conn[c].user /\ conn'[c].node = conn[c].node
                        /\ conn'[c].reader = conn[c].reader /\ conn'[c].writer = conn[c].writer
                        /\ conn[c].closed \/ c = clients[n][u] => conn'[c].closed
  <2> TAKE c \in Opened
  <2>1. conn[c] \in Client
    BY DEF Inv, TypeOK
  <2>2. CASE c = clients[n][u]
    BY <2>1, <2>2, <1>4 DEF Close, Client
  <2>3. CASE c # clients[n][u]
    BY <2>3, <1>4
  <2>4. QED BY <2>2, <2>3
<1>8. conn'[new].user = u /\ conn'[new].node = n /\ ~conn'[new].closed
      /\ conn'[new].reader = "reading" /\ conn'[new].writer = "writing"
  BY <1>4 DEF Fresh
<1>9. \A m \in Nodes, v \in Users :
          Of(m, v)' = IF m = n /\ v = u THEN Of(m, v) \cup {new} ELSE Of(m, v)
  BY <1>1, <1>2, <1>7, <1>8 DEF Of
<1>10. IsNewest(new)'
  BY <1>1, <1>2, <1>8, <1>9 DEF IsNewest, Of, Opened
<1>11. \A c \in Opened :
          IsNewest(c)' <=> IsNewest(c) /\ ~(conn[c].node = n /\ conn[c].user = u)
  <2> TAKE c \in Opened
  <2>1. conn[c].node \in Nodes /\ conn[c].user \in Users
    BY DEF Inv, TypeOK, Client
  <2>2. ~(new <= c)
    BY <1>1 DEF Opened
  <2>3. QED BY <1>7, <1>9, <2>1, <2>2 DEF IsNewest
<1>12. EndedIsClosed'
  BY <1>2, <1>7, <1>8 DEF Inv, EndedIsClosed
<1>13. OldConnectionsAreClosed'
  <2> SUFFICES ASSUME NEW c \in Opened, ~IsNewest(c)' PROVE conn'[c].closed
    BY <1>2, <1>10 DEF OldConnectionsAreClosed
  <2>1. CASE ~IsNewest(c)
    BY <2>1, <1>7 DEF Inv, OldConnectionsAreClosed
  <2>2. CASE IsNewest(c) /\ conn[c].node = n /\ conn[c].user = u
    BY <2>2, <1>7 DEF Inv, TheNewestIsRegistered, EndedIsClosed
  <2>3. QED BY <2>1, <2>2, <1>11
<1>14. TheNewestIsRegistered'
  <2>1. ASSUME NEW c \in Opened
        PROVE  clients'[conn[c].node][conn[c].user] = c <=> IsNewest(c)' /\ conn[c].reader # "done"
    <3>1. conn[c].node \in Nodes /\ conn[c].user \in Users
      BY DEF Inv, TypeOK, Client
    <3>2. CASE conn[c].node = n /\ conn[c].user = u
      BY <3>2, <1>1, <1>5, <1>11 DEF Inv, TypeOK
    <3>3. CASE ~(conn[c].node = n /\ conn[c].user = u)
      BY <3>1, <3>3, <1>5, <1>11 DEF Inv, TypeOK, TheNewestIsRegistered
    <3>4. QED BY <3>2, <3>3
  <2>2. clients'[n][u] = new
    BY <1>5 DEF Inv, TypeOK
  <2>3. \A m \in Nodes, v \in Users : clients'[m][v] \in Of(m, v)' \cup {0}
    BY <1>5, <1>9 DEF Inv, TypeOK, TheNewestIsRegistered
  <2>4. QED BY <2>1, <2>2, <2>3, <1>2, <1>7, <1>8, <1>10 DEF TheNewestIsRegistered
<1>15. RegisteredIsOnline'
  <2> SUFFICES ASSUME NEW m \in Nodes, NEW v \in Users,
                      faults' = 0, clients'[m][v] # 0, ~conn'[clients'[m][v]].closed,
                      \A c \in Opened' : conn'[c].user = v => conn'[c].node = m
               PROVE  presence'[v] = m
    BY DEF RegisteredIsOnline
  <2>1. faults = 0 /\ presence' = [presence EXCEPT ![u] = n]
    BY DEF ServeWS, register, SetOnline, Fault, Inv, TypeOK
  <2>2. CASE v = u
    <3>1. m = n
      BY <2>2, <1>2, <1>8
    <3>2. QED BY <3>1, <2>1, <2>2 DEF Inv, TypeOK
  <2>3. CASE v # u
    <3>1. clients'[m][v] = clients[m][v] /\ clients[m][v] \in Of(m, v)
      BY <2>3, <1>5 DEF Inv, TypeOK, TheNewestIsRegistered
    <3>2. ~conn[clients[m][v]].closed
      BY <3>1, <1>7 DEF Of
    <3>3. \A c \in Opened : conn[c].user = v => conn[c].node = m
      BY <1>2, <1>7
    <3>4. presence[v] = m
      BY <2>1, <3>1, <3>2, <3>3 DEF Inv, RegisteredIsOnline
    <3>5. QED BY <2>1, <2>3, <3>4 DEF Inv, TypeOK
  <2>4. QED BY <2>2, <2>3
<1>16. QED BY <1>6, <1>12, <1>13, <1>14, <1>15 DEF Inv

\* A client that is deregistered has the newest connection, whose reader is leaving.
LEMMA ReaderLeavesStep ==
    ASSUME Inv, NEW c \in Opened, ReaderLeaves(c)
    PROVE  Inv'
<1>1. Opened' = Opened /\ opened' = opened /\ held' = held
  BY DEF ReaderLeaves, Opened
<1>2. conn[c] \in Client /\ conn[c].user \in Users /\ conn[c].node \in Nodes
  BY DEF Inv, TypeOK, Client
<1>3. /\ conn' = [conn EXCEPT ![c].reader = "done", ![c].closed = TRUE]
      /\ conn[c].reader = "leaving"
  BY DEF ReaderLeaves
<1>4. conn' \in [Opened -> Client]
  BY <1>2, <1>3 DEF Inv, TypeOK, Client
<1>5. /\ \A d \in Opened : /\ conn'[d].user = conn[d].user /\ conn'[d].node = conn[d].node
                           /\ conn'[d].writer = conn[d].writer
                           /\ conn[d].closed => conn'[d].closed
                           /\ d # c => conn'[d].reader = conn[d].reader
      /\ conn'[c].reader = "done" /\ conn'[c].closed
  BY <1>2, <1>3 DEF Inv, TypeOK, Client
<1>6. \A n \in Nodes, u \in Users : Of(n, u)' = Of(n, u)
  BY <1>1, <1>5 DEF Of
<1>7. \A d \in Opened : IsNewest(d)' <=> IsNewest(d)
  BY <1>1, <1>5, <1>6 DEF IsNewest, Of
<1>8. EndedIsClosed' /\ OldConnectionsAreClosed'
  BY <1>1, <1>5, <1>7 DEF Inv, EndedIsClosed, OldConnectionsAreClosed
<1>9. c # 0
  BY OpenedIsNat DEF Inv
<1>10. TypeOK'
  <2>1. clients' \in [Nodes -> [Users -> 0..opened]]
    <3>1. \/ clients' = [clients EXCEPT ![conn[c].node][conn[c].user] = 0]
          \/ clients' = clients
      BY DEF ReaderLeaves, unregister
    <3>2. 0 \in 0..opened
      BY OpenedIsNat DEF Inv
    <3>3. clients \in [Nodes -> [Users -> 0..opened]]
      BY DEF Inv, TypeOK
    <3>4. clients[conn[c].node] \in [Users -> 0..opened]
      BY <3>3, <1>2
    <3>5. [clients[conn[c].node] EXCEPT ![conn[c].user] = 0] \in [Users -> 0..opened]
      BY <3>2, <3>4
    <3>6. QED BY <3>1, <3>3, <3>5
  <2>2. presence' \in [Users -> Nodes \cup {NoNode}] /\ faults' \in 0..MaxFaults
    BY HubAssumption DEF Inv, TypeOK, ReaderLeaves, unregister, SetOffline, Fault
  <2>3. QED BY <1>1, <1>4, <2>1, <2>2 DEF Inv, TypeOK
<1>11. CASE clients[conn[c].node][conn[c].user] = c
  <2>1. clients' = [clients EXCEPT ![conn[c].node][conn[c].user] = 0]
    BY <1>11 DEF ReaderLeaves, unregister
  <2>2. TheNewestIsRegistered'
    <3>1. ASSUME NEW d \in Opened
          PROVE  clients'[conn[d].node][conn[d].user] = d <=> IsNewest(d) /\ conn'[d].reader # "done"
      <4>1. d # 0 /\ conn[d].user \in Users /\ conn[d].node \in Nodes
        BY OpenedIsNat DEF Inv, TypeOK, Client
      <4>2. CASE conn[d].node = conn[c].node /\ conn[d].user = conn[c].user
        BY <2>1, <4>1, <4>2, <1>2, <1>5, <1>11 DEF Inv, TypeOK, TheNewestIsRegistered
      <4>3. CASE ~(conn[d].node = conn[c].node /\ conn[d].user = conn[c].user)
        BY <2>1, <4>1, <4>3, <1>2, <1>5 DEF Inv, TypeOK, TheNewestIsRegistered
      <4>4. QED BY <4>2, <4>3
    <3>2. \A n \in Nodes, u \in Users : clients'[n][u] \in Of(n, u) \cup {0}
      BY <2>1, <1>2 DEF Inv, TypeOK, TheNewestIsRegistered
    <3>3. QED BY <3>1, <3>2, <1>1, <1>5, <1>6, <1>7 DEF TheNewestIsRegistered
  <2>3. RegisteredIsOnline'
    <3> SUFFICES ASSUME NEW n \in Nodes, NEW u \in Users,
                        faults' = 0, clients'[n][u] # 0, ~conn'[clients'[n][u]].closed,
                        \A d \in Opened : conn'[d].user = u => conn'[d].node = n
                 PROVE  presence'[u] = n
      BY <1>1 DEF RegisteredIsOnline
    <3>1. u # conn[c].user
      BY <2>1, <1>2, <1>5 DEF Inv, TypeOK
    <3>2. clients'[n][u] = clients[n][u] /\ clients[n][u] \in Opened
      BY <3>1, <2>1 DEF Inv, TypeOK, TheNewestIsRegistered, Of
    <3>3. ~conn[clients[n][u]].closed
      BY <3>2, <1>5
    <3>4. faults = 0 /\ presence'[u] = presence[u]
      BY <3>1, <1>11 DEF ReaderLeaves, unregister, SetOffline, Fault, Inv, TypeOK
    <3>5. \A d \in Opened : conn[d].user = u => conn[d].node = n
      BY <1>5
    <3>6. QED BY <3>2, <3>3, <3>4, <3>5 DEF Inv, RegisteredIsOnline
  <2>4. QED BY <1>8, <1>10, <2>2, <2>3 DEF Inv
<1>12. CASE clients[conn[c].node][conn[c].user] # c
  <2>1. UNCHANGED <<clients, presence, faults>>
    BY <1>12 DEF ReaderLeaves, unregister
  <2>2. ~IsNewest(c)
    BY <1>3, <1>12 DEF Inv, TheNewestIsRegistered
  <2>3. TheNewestIsRegistered'
    BY <2>1, <2>2, <1>1, <1>5, <1>6, <1>7 DEF Inv, TheNewestIsRegistered
  <2>4. RegisteredIsOnline'
    <3> SUFFICES ASSUME NEW n \in Nodes, NEW u \in Users,
                        faults = 0, clients[n][u] # 0, ~conn'[clients[n][u]].closed,
                        \A d \in Opened : conn'[d].user = u => conn'[d].node = n
                 PROVE  presence[u] = n
      BY <1>1, <2>1 DEF RegisteredIsOnline
    <3>1. clients[n][u] \in Opened
      BY DEF Inv, TheNewestIsRegistered, Of
    <3>2. QED BY <3>1, <1>5 DEF Inv, RegisteredIsOnline
  <2>5. QED BY <1>8, <1>10, <2>3, <2>4 DEF Inv
<1>13. QED BY <1>11, <1>12

\* A pump's step that only its connection shows.
LEMMA PumpStep ==
    ASSUME Inv, NEW c \in Opened,
           ReadFrame(c) \/ Answer(c) \/ ReadFails(c) \/ Write(c) \/ PeerLeaves(c)
    PROVE  Inv'
<1>1. conn[c] \in Client
  BY DEF Inv, TypeOK
<1>2. Moves(c)
  <2>1. CASE ReadFrame(c)
    BY <2>1, <1>1 DEF ReadFrame, Moves, Client, Inv, TypeOK, EndedIsClosed
  <2>4. CASE ReadFails(c)
    BY <2>4, <1>1 DEF ReadFails, Moves, Client, Inv, TypeOK, EndedIsClosed
  <2>5. CASE PeerLeaves(c)
    BY <2>5, <1>1 DEF PeerLeaves, Moves, Client, Inv, TypeOK, EndedIsClosed
  <2>2. CASE Answer(c)
    <3>1. conn[c].send + 1 \in 0..BufferSize
      BY <2>2, <1>1, HubAssumption DEF Answer, Client
    <3>2. conn' = [conn EXCEPT ![c].reader = "reading", ![c].send = @ + 1]
      BY <2>2 DEF Answer
    <3>3. conn[c].reader # "done"
      BY <2>2 DEF Answer
    <3>4. QED BY <3>1, <3>2, <3>3, <1>1 DEF Moves, Client, Inv, TypeOK, EndedIsClosed
  <2>3. CASE Write(c)
    <3>1. conn[c].send - 1 \in 0..BufferSize
      BY <2>3, <1>1, HubAssumption DEF Write, Client
    <3>2. CASE conn' = [conn EXCEPT ![c].send = @ - 1]
      BY <3>1, <3>2, <1>1 DEF Moves, Client, Inv, TypeOK, EndedIsClosed
    <3>3. CASE conn' = [conn EXCEPT ![c].writer = "done", ![c].closed = TRUE, ![c].send = @ - 1]
      BY <3>1, <3>3, <1>1 DEF Moves, Client, Inv, TypeOK, EndedIsClosed
    <3>4. QED BY <2>3, <3>2, <3>3 DEF Write
  <2>6. QED BY <2>1, <2>2, <2>3, <2>4, <2>5
<1>3. UNCHANGED <<opened, clients, held, presence, faults>>
  BY DEF ReadFrame, Answer, ReadFails, Write, PeerLeaves, onlyConn
<1>4. QED BY <1>2, <1>3, PumpMovesKeep DEF Inv, TypeOK

\* A heartbeat names the node of a connection of its user.
LEMMA HeartbeatStep ==
    ASSUME Inv, NEW c \in Opened, Heartbeat(c)
    PROVE  Inv'
<1>1. conn[c] \in Client /\ conn[c].user \in Users /\ conn[c].node \in Nodes
  BY DEF Inv, TypeOK, Client
<1>2. Moves(c)
  <2>1. CASE UNCHANGED conn
    BY <2>1 DEF Moves, Inv, TypeOK, EndedIsClosed
  <2>2. CASE conn' = [conn EXCEPT ![c] = WriterDone(@)]
    BY <2>2, <1>1 DEF WriterDone, Moves, Client, Inv, TypeOK, EndedIsClosed
  <2>3. QED BY <2>1, <2>2 DEF Heartbeat
<1>3. UNCHANGED <<opened, clients, held>>
  BY DEF Heartbeat
<1>4. TypeOK'
  <2>1. presence' \in [Users -> Nodes \cup {NoNode}] /\ faults' \in 0..MaxFaults
    BY <1>1, HubAssumption DEF Inv, TypeOK, Heartbeat, SetOnline, Fault
  <2>2. QED BY <1>2, <1>3, <2>1 DEF Inv, TypeOK, Moves, Opened
<1>5. RegisteredIsOnline'
  <2>1. ASSUME faults' = 0
        PROVE  faults = 0 /\ presence' = [presence EXCEPT ![conn[c].user] = conn[c].node]
    BY <2>1 DEF Heartbeat, SetOnline, Fault, Inv, TypeOK
  <2>2. QED BY <1>1, <1>2, <1>3, <2>1, MovesKeepOnline DEF Inv, TypeOK
<1>6. QED BY <1>2, <1>3, <1>4, <1>5, MovesKeep DEF Inv

\* A delivery writes to, or closes, the client it looked up.
LEMMA DeliverSendStep ==
    ASSUME Inv, NEW n \in Nodes, DeliverSend(n)
    PROVE  Inv'
<1> DEFINE c == held[n]
<1>1. c \in Opened
  BY DEF Inv, TypeOK, DeliverSend, Opened
<1>2. conn[c] \in Client
  BY <1>1 DEF Inv, TypeOK
<1>3. Moves(c)
  <2>1. CASE conn[c].send < BufferSize /\ conn' = [conn EXCEPT ![c].send = @ + 1]
    <3>1. conn[c].send + 1 \in 0..BufferSize
      BY <2>1, <1>2, HubAssumption DEF Client
    <3>2. QED BY <2>1, <3>1, <1>1, <1>2 DEF Moves, Client, Inv, TypeOK, EndedIsClosed
  <2>2. CASE conn' = [conn EXCEPT ![c] = Close(@)]
    BY <2>2, <1>1, <1>2 DEF Close, Moves, Client, Inv, TypeOK, EndedIsClosed
  <2>3. QED BY <2>1, <2>2 DEF DeliverSend
<1>4. held' \in [Nodes -> 0..opened]
  BY DEF DeliverSend, Inv, TypeOK
<1>5. QED BY <1>3, <1>4, PumpMovesKeep DEF DeliverSend

\* A crash empties the hub and closes what it had.
LEMMA NodeCrashStep ==
    ASSUME Inv, NEW n \in Nodes, NodeCrash(n)
    PROVE  Inv'
<1>1. Opened' = Opened /\ opened' = opened /\ presence' = presence
  BY DEF NodeCrash, Opened
<1>2. faults' \in 1..MaxFaults
  BY HubAssumption DEF NodeCrash, Fault, Inv, TypeOK
<1>3. \A d \in Opened : conn[d] \in Client /\ conn'[d] =
          IF conn[d].node = n THEN Dead(conn[d]) ELSE conn[d]
  BY DEF NodeCrash, Inv, TypeOK
<1>4. \A d \in Opened :
          /\ conn'[d] \in Client
          /\ conn'[d].user = conn[d].user /\ conn'[d].node = conn[d].node
          /\ conn[d].node = n => conn'[d].closed /\ conn'[d].reader = "done"
          /\ conn[d].node # n => conn'[d] = conn[d]
          /\ conn[d].closed => conn'[d].closed
  <2> TAKE d \in Opened
  <2>1. CASE conn[d].node = n
    <3>1. conn'[d] = Dead(conn[d]) /\ conn[d] \in Client
      BY <2>1, <1>3
    <3>2. 0 \in 0..BufferSize
      BY HubAssumption
    <3>3. Dead(conn[d]) \in Client
      BY <3>1, <3>2 DEF Dead, Client
    <3>4. QED BY <2>1, <3>1, <3>3 DEF Dead, Client
  <2>2. CASE conn[d].node # n
    BY <2>2, <1>3
  <2>3. QED BY <2>1, <2>2
<1>5. conn' \in [Opened -> Client]
  BY <1>4 DEF NodeCrash
<1>6. clients' = [clients EXCEPT ![n] = [u \in Users |-> 0]]
  BY DEF NodeCrash
<1>7. TypeOK'
  <2>1. clients' \in [Nodes -> [Users -> 0..opened]] /\ held' \in [Nodes -> 0..opened]
    BY <1>6 DEF Inv, TypeOK, NodeCrash
  <2>2. QED BY <1>1, <1>2, <1>5, <2>1 DEF Inv, TypeOK
<1>8. \A m \in Nodes, u \in Users : Of(m, u)' = Of(m, u)
  BY <1>1, <1>4 DEF Of
<1>9. \A d \in Opened : IsNewest(d)' <=> IsNewest(d)
  BY <1>1, <1>4, <1>8 DEF IsNewest, Of
<1>10. EndedIsClosed' /\ OldConnectionsAreClosed'
  BY <1>1, <1>4, <1>9 DEF Inv, EndedIsClosed, OldConnectionsAreClosed
<1>11. TheNewestIsRegistered'
  <2>1. ASSUME NEW d \in Opened
        PROVE  clients'[conn[d].node][conn[d].user] = d <=> IsNewest(d) /\ conn'[d].reader # "done"
    <3>1. d # 0 /\ conn[d].user \in Users /\ conn[d].node \in Nodes
      BY OpenedIsNat DEF Inv, TypeOK, Client
    <3>2. QED BY <3>1, <1>4, <1>6 DEF Inv, TypeOK, TheNewestIsRegistered
  <2>2. \A m \in Nodes, u \in Users : clients'[m][u] \in Of(m, u) \cup {0}
    BY <1>6 DEF Inv, TypeOK, TheNewestIsRegistered
  <2>3. QED BY <2>1, <2>2, <1>1, <1>4, <1>8, <1>9 DEF TheNewestIsRegistered
<1>12. RegisteredIsOnline'
  BY <1>2 DEF RegisteredIsOnline
<1>13. QED BY <1>7, <1>10, <1>11, <1>12 DEF Inv

\* An entry expires when no writer renews it: then no connection of its user is open.
LEMMA PresenceExpiresStep ==
    ASSUME Inv, NEW u \in Users, PresenceExpires(u)
    PROVE  Inv'
<1>1. UNCHANGED <<opened, conn, clients, held>> /\ Opened' = Opened
  BY DEF PresenceExpires, Opened
<1>2. presence' = [presence EXCEPT ![u] = NoNode] /\ faults' \in 0..MaxFaults
  BY HubAssumption DEF PresenceExpires, Fault, Inv, TypeOK
<1>3. TypeOK'
  BY <1>1, <1>2 DEF Inv, TypeOK
<1>4. EndedIsClosed' /\ OldConnectionsAreClosed' /\ TheNewestIsRegistered'
  BY <1>1 DEF Inv, EndedIsClosed, OldConnectionsAreClosed, TheNewestIsRegistered, IsNewest, Of
<1>5. RegisteredIsOnline'
  <2> SUFFICES ASSUME NEW n \in Nodes, NEW v \in Users,
                      faults' = 0, clients[n][v] # 0, ~conn[clients[n][v]].closed,
                      \A d \in Opened : conn[d].user = v => conn[d].node = n
               PROVE  presence'[v] = n
    BY <1>1 DEF RegisteredIsOnline
  <2>1. faults = 0 /\ ~HasWriter(u)
    BY DEF PresenceExpires, Fault, Inv, TypeOK
  <2>2. clients[n][v] \in Of(n, v)
    BY DEF Inv, TheNewestIsRegistered
  <2>3. conn[clients[n][v]].writer = "writing"
    BY <2>2 DEF Of, Inv, EndedIsClosed, TypeOK, Client
  <2>4. v # u
    BY <2>1, <2>2, <2>3 DEF HasWriter, Of
  <2>5. QED BY <1>2, <2>1, <2>4 DEF Inv, TypeOK, RegisteredIsOnline
<1>6. QED BY <1>3, <1>4, <1>5 DEF Inv

\* Every step.
LEMMA InvStep == Inv /\ [Next]_vars => Inv'
<1> SUFFICES ASSUME Inv, [Next]_vars PROVE Inv'
  OBVIOUS
<1>1. ASSUME NEW u \in Users, NEW n \in Nodes, ServeWS(u, n) PROVE Inv'
  BY <1>1, ServeWSStep
<1>2. ASSUME NEW u \in Users, NEW n \in Nodes, DeliverLookup(n, u) PROVE Inv'
  <2>1. held' \in [Nodes -> 0..opened] /\ UNCHANGED <<opened, conn, clients, presence, faults>>
    BY <1>2 DEF DeliverLookup, Inv, TypeOK
  <2>2. Opened' = Opened
    BY <2>1 DEF Opened
  <2>3. TypeOK'
    BY <2>1, <2>2 DEF Inv, TypeOK
  <2>4. QED BY <2>1, <2>2, <2>3 DEF Inv, EndedIsClosed, TheNewestIsRegistered,
               OldConnectionsAreClosed, RegisteredIsOnline, IsNewest, Of
<1>3. ASSUME NEW n \in Nodes, DeliverSend(n) PROVE Inv'
  BY <1>3, DeliverSendStep
<1>4. ASSUME NEW n \in Nodes, NodeCrash(n) PROVE Inv'
  BY <1>4, NodeCrashStep
<1>5. ASSUME NEW u \in Users, PresenceExpires(u) PROVE Inv'
  BY <1>5, PresenceExpiresStep
<1>6. ASSUME NEW c \in Opened, Pump(c) \/ PeerLeaves(c) PROVE Inv'
  BY <1>6, PumpStep, HeartbeatStep, ReaderLeavesStep DEF Pump
<1>7. CASE UNCHANGED vars
  <2>1. Opened' = Opened
    BY <1>7 DEF vars, Opened
  <2>2. QED BY <1>7, <2>1 DEF vars, Inv, TypeOK, EndedIsClosed, TheNewestIsRegistered,
               OldConnectionsAreClosed, RegisteredIsOnline, IsNewest, Of
<1>8. QED BY <1>1, <1>2, <1>3, <1>4, <1>5, <1>6, <1>7 DEF Next

LEMMA InvHolds == Spec => []Inv
BY InvInit, InvStep, PTL DEF Spec

-----------------------------------------------------------------------------
(***************************************************************************)
(* The theorems.                                                           *)
(***************************************************************************)

\* Every variable has its type; no channel holds more than its capacity.
THEOREM TypeCorrect == Spec => []TypeOK
BY InvHolds, PTL DEF Inv

\* An old connection's teardown never evicts its successor (unregister's test of identity).
THEOREM SuccessorsStay == Spec => []TheNewestIsRegistered
BY InvHolds, PTL DEF Inv

\* A registration closes the connection it supersedes, however the pumps interleave.
THEOREM OneOpenPerNode == Spec => []OldConnectionsAreClosed
BY InvHolds, PTL DEF Inv

\* A user who uses one node is shown there for as long as his connection is open.
THEOREM ShownWhileConnected == Spec => []RegisteredIsOnline
BY InvHolds, PTL DEF Inv
=============================================================================
