-------------------------------- MODULE Push --------------------------------
(***************************************************************************)
(* From the broker to the readers' windows.  Every node (server process)   *)
(* consumes its own queue; its hub hands an event to the readers connected *)
(* to it, whose browsers apply it to the conversation they show.           *)
(*                                                                         *)
(* The conversation is a group.  Readers are its members other than the    *)
(* author (whose own window is fed by the reply to his request), each with *)
(* one browser.  What reaches the broker is what Feed promises: any        *)
(* committed event, in any order, more than once.                          *)
(***************************************************************************)
EXTENDS MessageStore, Sequences

CONSTANTS
    Nodes,      \* the server processes that consume from RabbitMQ
    Readers,    \* the members who have the conversation open
    NoNode,     \* connected nowhere
    BufferSize, \* capacity of Client.send
    MaxFaults   \* bound: faults of a behaviour

ASSUME PushAssumption ==
    /\ NoNode \notin Nodes
    /\ BufferSize \in Nat \ {0}
    /\ MaxFaults \in Nat

VARIABLES
    accepted, \* the events the broker has confirmed
    up,       \* up[n]: node n runs
    queue,    \* queue[n]: the events waiting in n's queue
    node,     \* node[u]: the node whose hub has u's connection
    presence, \* presence[u]: the node Redis names for u
    buffer,   \* buffer[u]: the events written to u's connection and not yet applied
    window,   \* window[u][m]: how u's browser shows m
    answer,   \* answer[u]: <<>>, or the rows and the events a history request of u read
    newest,   \* history: newest[u][m]: the greatest event of m in u's last history or since
    known,    \* history: known[u]: the messages u got the creation of
    skewed,   \* history: skewed[u]: the messages u got an old event of after a newer one
    faults    \* how many faults have happened

nodeVars    == <<up, queue>>
hubVars     == <<node, presence, buffer>>
browserVars == <<window, answer, newest, known, skewed>>
vars == <<messages, outbox, accepted, nodeVars, hubVars, browserVars, faults>>

TheFeed == INSTANCE Feed WITH published <- {}

Shown == [here : BOOLEAN, text : Texts, edited : BOOLEAN, recalled : BOOLEAN]

Absent == [here |-> FALSE, text |-> 0, edited |-> FALSE, recalled |-> FALSE]

Fault == /\ faults < MaxFaults
         /\ faults' = faults + 1

Init ==
    /\ TheFeed!Init
    /\ up = [n \in Nodes |-> TRUE]
    /\ queue = [n \in Nodes |-> <<>>]
    /\ node = [u \in Readers |-> NoNode]
    /\ presence = [u \in Readers |-> NoNode]
    /\ buffer = [u \in Readers |-> <<>>]
    /\ window = [u \in Readers |-> [m \in Messages |-> Absent]]
    /\ answer = [u \in Readers |-> <<>>]
    /\ newest = [u \in Readers |-> [m \in Messages |-> 0]]
    /\ known = [u \in Readers |-> {}]
    /\ skewed = [u \in Readers |-> {}]
    /\ faults = 0

Change ==
    /\ TheFeed!Change
    /\ UNCHANGED <<nodeVars, hubVars, browserVars, faults>>

\* The exchange copies an accepted event to the queue of every node that runs.
BrokerAccepts(e) ==
    /\ TheFeed!Accept(e)
    /\ IF e \in accepted THEN Fault ELSE UNCHANGED faults
    /\ queue' = [n \in Nodes |-> IF up[n] THEN Append(queue[n], e) ELSE queue[n]]
    /\ UNCHANGED <<up, hubVars, browserVars>>

-----------------------------------------------------------------------------
(***************************************************************************)
(* DispatchMessageCreated: edited_at is tested before recalled_at.         *)
(***************************************************************************)
Kind(e) ==
    CASE outbox[e].edited   -> "edit"
      [] ~outbox[e].edited /\ outbox[e].recalled -> "recall"
      [] OTHER -> "chat"

\* An edit goes to whom the hub has; the others only to whom Redis places on this node.
Addressed(n, e) == {u \in Readers : Kind(e) # "edit" => presence[u] = n}

\* Mutant: the buffer has no limit.
UnboundedDeliver(n, e, receivers) ==
    /\ buffer' = [u \in Readers |-> IF u \in receivers /\ node[u] = n
                                   THEN Append(buffer[u], e) ELSE buffer[u]]
    /\ UNCHANGED <<node, presence>>

\* deliver: a full buffer costs the reader his connection, and what was in it.
Deliver(n, e, receivers) ==
    LET served == {u \in receivers : node[u] = n}
        slow   == {u \in served : Len(buffer[u]) >= BufferSize}
    IN  /\ buffer' = [u \in Readers |-> CASE u \in slow -> <<>>
                                          [] u \in served \ slow -> Append(buffer[u], e)
                                          [] OTHER -> buffer[u]]
        /\ node' = [u \in Readers |-> IF u \in slow THEN NoNode ELSE node[u]]
        /\ presence' = [u \in Readers |-> IF u \in slow THEN NoNode ELSE presence[u]]

Handle(n) ==
    /\ up[n]
    /\ queue[n] # <<>>
    /\ LET e == Head(queue[n]) IN Deliver(n, e, Addressed(n, e))
    /\ queue' = [queue EXCEPT ![n] = Tail(@)]
    /\ UNCHANGED <<messages, outbox, accepted, up, browserVars, faults>>

\* Mutant: the failed event is rejected without requeue.
Discarded(rest, e) == {rest}

\* All places a requeued event may come back to: others were prefetched before it.
Requeued(rest, e) ==
    {SubSeq(rest, 1, i) \o <<e>> \o SubSeq(rest, i + 1, Len(rest)) : i \in 0..Len(rest)}

\* The handler returns an error: before any member (an edit has no later lookup), or at
\* some member's presence lookup, when the earlier members have been served.
HandleFails(n) ==
    /\ up[n]
    /\ queue[n] # <<>>
    /\ Fault
    /\ LET e == Head(queue[n])
       IN  /\ \E served \in SUBSET Addressed(n, e) :
                 /\ Kind(e) = "edit" => served = {}
                 /\ Deliver(n, e, served)
           /\ \E q \in Requeued(Tail(queue[n]), e) : queue' = [queue EXCEPT ![n] = q]
    /\ UNCHANGED <<messages, outbox, accepted, up, browserVars>>

\* The node's queue is neither durable nor kept without its consumer; Redis is not told.
NodeCrash(n) ==
    /\ up[n]
    /\ Fault
    /\ up' = [up EXCEPT ![n] = FALSE]
    /\ queue' = [queue EXCEPT ![n] = <<>>]
    /\ node' = [u \in Readers |-> IF node[u] = n THEN NoNode ELSE node[u]]
    /\ buffer' = [u \in Readers |-> IF node[u] = n THEN <<>> ELSE buffer[u]]
    /\ UNCHANGED <<messages, outbox, accepted, presence, browserVars>>

NodeStart(n) ==
    /\ ~up[n]
    /\ up' = [up EXCEPT ![n] = TRUE]
    /\ UNCHANGED <<messages, outbox, accepted, queue, hubVars, browserVars, faults>>

-----------------------------------------------------------------------------
\* A browser reconnects to any node; its window stays as it was.
Connect(u, n) ==
    /\ node[u] = NoNode
    /\ up[n]
    /\ node' = [node EXCEPT ![u] = n]
    /\ presence' = [presence EXCEPT ![u] = n]
    /\ UNCHANGED <<messages, outbox, accepted, nodeVars, buffer, browserVars, faults>>

Disconnect(u) ==
    /\ node[u] # NoNode
    /\ node' = [node EXCEPT ![u] = NoNode]
    /\ presence' = [presence EXCEPT ![u] = NoNode]
    /\ buffer' = [buffer EXCEPT ![u] = <<>>]
    /\ UNCHANGED <<messages, outbox, accepted, nodeVars, browserVars, faults>>

\* The Redis entry is lost: its TTL passed, or its last SetOnline failed.
PresenceLapses(u) ==
    /\ presence[u] # NoNode
    /\ Fault
    /\ presence' = [presence EXCEPT ![u] = NoNode]
    /\ UNCHANGED <<messages, outbox, accepted, nodeVars, node, buffer, browserVars>>

Heartbeat(u) ==
    /\ node[u] # NoNode
    /\ presence[u] # node[u]
    /\ presence' = [presence EXCEPT ![u] = node[u]]
    /\ UNCHANGED <<messages, outbox, accepted, nodeVars, node, buffer, browserVars, faults>>

-----------------------------------------------------------------------------
(***************************************************************************)
(* The browser.                                                            *)
(***************************************************************************)

\* Mutant: an event of a message already shown replaces it.
ReplacingAppend(shown, event) ==
    [here |-> TRUE, text |-> event.content, edited |-> event.edited, recalled |-> event.recalled]

appendMessage(shown, event) ==
    IF shown.here THEN shown
    ELSE [here |-> TRUE, text |-> event.content, edited |-> event.edited, recalled |-> event.recalled]

applyRecall(shown, event) ==
    IF shown.here THEN [shown EXCEPT !.recalled = TRUE, !.text = 0] ELSE shown

applyEdit(shown, event) ==
    IF shown.here THEN [shown EXCEPT !.text = event.content, !.edited = TRUE] ELSE shown

Applied(shown, e) ==
    CASE Kind(e) = "chat"   -> appendMessage(shown, outbox[e])
      [] Kind(e) = "recall" -> applyRecall(shown, outbox[e])
      [] Kind(e) = "edit"   -> applyEdit(shown, outbox[e])

\* writePump writes the next event and onmessage applies it.
Receive(u) ==
    /\ buffer[u] # <<>>
    /\ LET e == Head(buffer[u])
           m == outbox[e].msg
           repeated == Kind(e) = "chat" /\ m \in known[u]
       IN  /\ window' = [window EXCEPT ![u][m] = Applied(@, e)]
           /\ skewed' = IF e < newest[u][m] /\ ~repeated
                        THEN [skewed EXCEPT ![u] = @ \cup {m}] ELSE skewed
           /\ newest' = [newest EXCEPT ![u][m] = IF e > @ THEN e ELSE @]
           /\ known' = IF Kind(e) = "chat" THEN [known EXCEPT ![u] = @ \cup {m}] ELSE known
    /\ buffer' = [buffer EXCEPT ![u] = Tail(@)]
    /\ UNCHANGED <<messages, outbox, accepted, nodeVars, node, presence, answer, faults>>

\* loadConversation: the rows are read now and shown when the answer arrives.
AskHistory(u) ==
    /\ answer[u] = <<>>
    /\ answer' = [answer EXCEPT ![u] = <<messages, DOMAIN outbox>>]
    /\ UNCHANGED <<messages, outbox, accepted, nodeVars, hubVars, window, newest, known, skewed, faults>>

FromRow(row) ==
    IF row.content = 0 THEN Absent
    ELSE [here |-> TRUE, text |-> row.content, edited |-> Edited(row.content), recalled |-> row.recalled]

LastOf(S) == IF S = {} THEN 0 ELSE CHOOSE e \in S : \A f \in S : f <= e

\* The answer replaces the window, pushes it does not know of included.
HistoryAnswers(u) ==
    /\ answer[u] # <<>>
    /\ LET rows == answer[u][1]
           events == answer[u][2]
       IN  /\ window' = [window EXCEPT ![u] = [m \in Messages |-> FromRow(rows[m])]]
           /\ newest' = [newest EXCEPT ![u] =
                            [m \in Messages |-> LastOf({e \in events : outbox[e].msg = m})]]
           /\ known' = [known EXCEPT ![u] = {m \in Messages : rows[m].content > 0}]
    /\ skewed' = [skewed EXCEPT ![u] = {}]
    /\ answer' = [answer EXCEPT ![u] = <<>>]
    /\ UNCHANGED <<messages, outbox, accepted, nodeVars, hubVars, faults>>

-----------------------------------------------------------------------------
Next ==
    \/ Change
    \/ \E e \in DOMAIN outbox : BrokerAccepts(e)
    \/ \E n \in Nodes : Handle(n) \/ HandleFails(n) \/ NodeCrash(n) \/ NodeStart(n)
    \/ \E u \in Readers :
          \/ \E n \in Nodes : Connect(u, n)
          \/ Disconnect(u) \/ PresenceLapses(u) \/ Heartbeat(u)
          \/ Receive(u) \/ AskHistory(u) \/ HistoryAnswers(u)

Spec == Init /\ [][Next]_vars

(***************************************************************************)
(* The outbox publishes every event (Outbox, EventuallyPublished), a node  *)
(* that runs consumes its queue, and a connection is written.              *)
(***************************************************************************)
FairSpec ==
    /\ Spec
    /\ \A e \in EventIds : WF_vars(e \in DOMAIN outbox \ accepted /\ BrokerAccepts(e))
    /\ \A n \in Nodes : WF_vars(Handle(n))
    /\ \A u \in Readers : WF_vars(Receive(u))

-----------------------------------------------------------------------------
TypeOK ==
    /\ StoreTypeOK
    /\ accepted \subseteq DOMAIN outbox
    /\ up \in [Nodes -> BOOLEAN]
    /\ \A n \in Nodes : \A i \in DOMAIN queue[n] : queue[n][i] \in DOMAIN outbox
    /\ node \in [Readers -> Nodes \cup {NoNode}]
    /\ presence \in [Readers -> Nodes \cup {NoNode}]
    /\ \A u \in Readers : Len(buffer[u]) <= BufferSize
    /\ window \in [Readers -> [Messages -> Shown]]
    /\ newest \in [Readers -> [Messages -> 0..MaxEvents]]
    /\ known \in [Readers -> SUBSET Messages]
    /\ skewed \in [Readers -> SUBSET Messages]
    /\ faults \in 0..MaxFaults

\* u has m, got its events in order (repeats of the creation aside), the last one included.
UpToDate(u, m) ==
    /\ m \in known[u] \ skewed[u]
    /\ newest[u][m] \in DOMAIN outbox
    /\ IsLatestEvent(newest[u][m], m)

(***************************************************************************)
(* What a reader sees: gaps in what he was sent, duplicates, requeues,     *)
(* reconnections and history answers do not matter.  A reader who got the  *)
(* creation of a message (pushed or in a history) and, in order, the       *)
(* latest event of it sees the message as its row tells it.  The case of a *)
(* message recalled after an edit is left to RecallReachesTheReader.       *)
(***************************************************************************)
WindowTellsTheRow ==
    \A u \in Readers, m \in Messages :
        LET row == messages[m]
        IN  UpToDate(u, m) /\ ~(Edited(row.content) /\ row.recalled) =>
                /\ window[u][m].recalled = row.recalled
                /\ ~row.recalled => /\ window[u][m].text = row.content
                                    /\ window[u][m].edited = Edited(row.content)

(***************************************************************************)
(* "DispatchMessageRecalled broadcasts a recall update to every            *)
(* participant": a reader who got all that was sent about a recalled       *)
(* message sees it recalled.  It does not hold: the recall event of an     *)
(* edited message carries edited_at, and is dispatched as an edit.         *)
(***************************************************************************)
RecallReachesTheReader ==
    \A u \in Readers, m \in Messages :
        UpToDate(u, m) /\ messages[m].recalled => window[u][m].recalled

Reachable(u) == \E n \in Nodes : up[n] /\ node[u] = n /\ presence[u] = n

(***************************************************************************)
(* A new message appears in the window of every reader whose connection    *)
(* and presence entry stay up from its commit on, although the handler may *)
(* fail and the event come back to the queue.                              *)
(***************************************************************************)
NewMessageIsShown ==
    \A u \in Readers, m \in Messages :
        /\ \E e \in DOMAIN outbox \ accepted : outbox[e].msg = m /\ Kind(e) = "chat"
        /\ Reachable(u)
        ~> window[u][m].here \/ ~Reachable(u)
=============================================================================
