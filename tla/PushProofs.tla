----------------------------- MODULE PushProofs -----------------------------
(***************************************************************************)
(* Theorems of the push path, for any number of messages, events, nodes,   *)
(* readers and faults and any buffer: type correctness, and that the       *)
(* window of a reader who got a message's creation and, in order, its      *)
(* latest event tells the message's row.                                   *)
(***************************************************************************)
EXTENDS Push, StoreProofs, SequenceTheorems, WellFoundedInduction

-----------------------------------------------------------------------------
(***************************************************************************)
(* Facts about the operators.                                              *)
(***************************************************************************)

\* A set of event ids that is not empty has a last one.
LEMMA LastOfIsLast ==
    ASSUME NEW S \in SUBSET EventIds, S # {}
    PROVE  LastOf(S) \in S /\ \A f \in S : f <= LastOf(S)
<1> USE StoreAssumption DEF StoreAssumption
<1> DEFINE T == {MaxEvents - i : i \in S}
<1>1. \A i \in S : i \in Nat /\ MaxEvents - i \in Nat /\ MaxEvents - i \in T
  BY DEF EventIds
<1>2. T \subseteq Nat /\ T # {}
  BY <1>1
<1>3. PICK x \in T : \A y \in T : ~(<<y, x>> \in OpToRel(<, Nat))
  BY <1>2, NatLessThanWellFounded, WFMin
<1>4. \A y \in T : ~(y < x)
  BY <1>2, <1>3 DEF OpToRel
<1>5. PICK i \in S : x = MaxEvents - i
  OBVIOUS
<1>6. \A j \in S : j <= i
  <2> TAKE j \in S
  <2>1. ~(MaxEvents - j < MaxEvents - i)
    BY <1>1, <1>4, <1>5
  <2>2. QED BY <1>1, <2>1
<1>7. QED BY <1>6 DEF LastOf

\* A failed event comes back among those that wait.
LEMMA RequeuedKeeps ==
    ASSUME NEW S, NEW rest \in Seq(S), NEW e \in S, NEW q \in Requeued(rest, e)
    PROVE  q \in Seq(S)
<1> PICK i \in 0..Len(rest) : q = SubSeq(rest, 1, i) \o <<e>> \o SubSeq(rest, i + 1, Len(rest))
  BY DEF Requeued
<1>1. Len(rest) \in Nat
  BY LenProperties
<1>2. \A j \in 1..Len(rest) : rest[j] \in S
  BY ElementOfSeq
<1>3. SubSeq(rest, 1, i) \in Seq(S) /\ SubSeq(rest, i + 1, Len(rest)) \in Seq(S)
  BY <1>1, <1>2, SubSeqProperties
<1>4. <<e>> \in Seq(S)
  OBVIOUS
<1>5. SubSeq(rest, 1, i) \o <<e>> \in Seq(S)
  BY <1>3, <1>4, ConcatProperties
<1>6. QED BY <1>3, <1>5, ConcatProperties

-----------------------------------------------------------------------------
(***************************************************************************)
(* What is on the way to a reader is committed, and a buffer is a buffer.  *)
(***************************************************************************)
PathOK ==
    /\ accepted \subseteq DOMAIN outbox
    /\ up \in [Nodes -> BOOLEAN]
    /\ queue \in [Nodes -> Seq(DOMAIN outbox)]
    /\ node \in [Readers -> Nodes \cup {NoNode}]
    /\ presence \in [Readers -> Nodes \cup {NoNode}]
    /\ buffer \in [Readers -> Seq(DOMAIN outbox)]
    /\ \A u \in Readers : Len(buffer[u]) <= BufferSize
    /\ faults \in 0..MaxFaults

(***************************************************************************)
(* What a history request has read: committed events, and rows that the    *)
(* latest of those events tell.                                            *)
(***************************************************************************)
SoundAnswer(rows, events) ==
    /\ rows \in [Messages -> Row]
    /\ events \subseteq DOMAIN outbox
    /\ \A m \in Messages : rows[m].content > 0 =>
          \E e \in events :
              /\ outbox[e].msg = m
              /\ \A f \in events : outbox[f].msg = m => f <= e
              /\ outbox[e].recalled = rows[m].recalled
              /\ outbox[e].edited = Edited(rows[m].content)
              /\ outbox[e].content = IF rows[m].recalled THEN 0 ELSE rows[m].content

AnswerOK ==
    /\ answer = [u \in Readers |-> answer[u]]
    /\ \A u \in Readers :
          answer[u] # <<>> => \E rows, events : answer[u] = <<rows, events>> /\ SoundAnswer(rows, events)

(***************************************************************************)
(* The window follows the greatest event the reader got.  What it shows of *)
(* a message is what that event tells, as long as he got the creation and  *)
(* nothing older after something newer; of a message that was recalled     *)
(* after an edit nothing is said.                                          *)
(***************************************************************************)
Follows(shown, e) ==
    /\ outbox[e].edited /\ ~outbox[e].recalled =>
          shown.text = outbox[e].content /\ shown.edited /\ ~shown.recalled
    /\ ~outbox[e].edited /\ outbox[e].recalled => shown.recalled
    /\ ~outbox[e].edited /\ ~outbox[e].recalled =>
          shown.text = outbox[e].content /\ ~shown.edited /\ ~shown.recalled

FollowsAt(u, m) ==
    /\ newest[u][m] # 0 => newest[u][m] \in DOMAIN outbox /\ outbox[newest[u][m]].msg = m
    /\ window[u][m].here <=> m \in known[u]
    /\ m \in known[u] => newest[u][m] # 0
    /\ m \in known[u] \ skewed[u] => Follows(window[u][m], newest[u][m])

WindowOK ==
    /\ window \in [Readers -> [Messages -> Shown]]
    /\ newest \in [Readers -> [Messages -> 0..MaxEvents]]
    /\ known \in [Readers -> SUBSET Messages]
    /\ skewed \in [Readers -> SUBSET Messages]
    /\ \A u \in Readers, m \in Messages : FollowsAt(u, m)

StoreOK == StoreTypeOK /\ LatestEventTellsTheRow /\ StoryOK

PushInv == StoreOK /\ PathOK /\ AnswerOK /\ WindowOK

LEMMA PushInvInit == Init => PushInv
<1> SUFFICES ASSUME Init PROVE PushInv
  OBVIOUS
<1>1. StoreInit /\ accepted = {}
  BY DEF Init, TheFeed!Init, StoreInit, TheFeed!StoreInit
<1>2. StoreOK
  BY <1>1, StoreInitOK, StoryInit DEF StoreOK
<1>3. PathOK
  BY <1>1, PushAssumption DEF Init, PathOK, PushAssumption
<1>4. AnswerOK
  BY DEF Init, AnswerOK
<1>5. Absent \in Shown /\ Absent.here = FALSE /\ 0 \in 0..MaxEvents
  BY StoreAssumption DEF Absent, Shown, Texts, StoreAssumption
<1>6. WindowOK
  BY <1>5 DEF Init, WindowOK, FollowsAt
<1>7. QED BY <1>2, <1>3, <1>4, <1>6 DEF PushInv

-----------------------------------------------------------------------------
(***************************************************************************)
(* A step of the store: what is on the way, in an answer or in a window    *)
(* is about events that stay as they are.                                  *)
(***************************************************************************)
LEMMA SameStoreStep == TheFeed!StoreNext => StoreNext
BY DEF StoreNext, TheFeed!StoreNext, SaveAndEnqueue, TheFeed!SaveAndEnqueue,
       Edit, TheFeed!Edit, Recall, TheFeed!Recall,
       RecallWindowCloses, TheFeed!RecallWindowCloses, Enqueue, TheFeed!Enqueue,
       NewMessageCreatedEvent, TheFeed!NewMessageCreatedEvent,
       NewMessageRecalledEvent, TheFeed!NewMessageRecalledEvent,
       Edited, TheFeed!Edited, EventIds, TheFeed!EventIds

LEMMA ChangeKeeps == PushInv /\ Change => PushInv'
<1> SUFFICES ASSUME PushInv, Change PROVE PushInv'
  OBVIOUS
<1>1. StoreNext
  BY SameStoreStep DEF Change, TheFeed!Change
<1>2. UNCHANGED <<accepted, nodeVars, hubVars, browserVars, faults>>
  BY DEF Change, TheFeed!Change
<1>3. StoreOK' /\ OutboxKept
  BY <1>1, StoreStep, LatestStep, StoryStep DEF PushInv, StoreOK
<1>4. \A e \in DOMAIN outbox : e \in DOMAIN outbox' /\ outbox'[e] = outbox[e]
  BY <1>3 DEF OutboxKept
<1>5. DOMAIN outbox \subseteq DOMAIN outbox'
  BY <1>4
<1>6. PathOK'
  <2>1. \A q \in Seq(DOMAIN outbox) : q \in Seq(DOMAIN outbox')
    BY <1>5, SeqMonotonic
  <2>2. QED BY <1>2, <1>5, <2>1 DEF PushInv, PathOK, nodeVars, hubVars
<1>7. AnswerOK'
  <2>1. ASSUME NEW rows, NEW events, SoundAnswer(rows, events) PROVE SoundAnswer(rows, events)'
    <3>1. events \subseteq DOMAIN outbox' /\ \A e \in events : outbox'[e] = outbox[e]
      BY <1>4, <2>1 DEF SoundAnswer
    <3>2. ASSUME NEW m \in Messages, rows[m].content > 0
          PROVE  \E e \in events :
                    /\ outbox'[e].msg = m
                    /\ \A f \in events : outbox'[f].msg = m => f <= e
                    /\ outbox'[e].recalled = rows[m].recalled
                    /\ outbox'[e].edited = Edited(rows[m].content)
                    /\ outbox'[e].content = IF rows[m].recalled THEN 0 ELSE rows[m].content
      BY <2>1, <3>1, <3>2 DEF SoundAnswer
    <3>3. QED BY <2>1, <3>1, <3>2 DEF SoundAnswer, Edited
  <2>2. answer' = answer
    BY <1>2 DEF browserVars
  <2>3. QED BY <2>1, <2>2 DEF PushInv, AnswerOK
<1>8. WindowOK'
  <2>1. ASSUME NEW u \in Readers, NEW m \in Messages, FollowsAt(u, m) PROVE FollowsAt(u, m)'
    BY <1>2, <1>4, <2>1 DEF FollowsAt, Follows, browserVars
  <2>2. QED BY <1>2, <2>1 DEF PushInv, WindowOK, browserVars
<1>9. QED BY <1>3, <1>6, <1>7, <1>8 DEF PushInv

-----------------------------------------------------------------------------
(***************************************************************************)
(* The broker, the nodes and the connections: only the path moves.         *)
(***************************************************************************)
PathStep == PathOK' /\ UNCHANGED <<messages, outbox, browserVars>>

LEMMA PathStepKeeps == PushInv /\ PathStep => PushInv'
BY DEF PathStep, PushInv, StoreOK, StoreTypeOK, LatestEventTellsTheRow, IsLatestEvent, StoryOK,
       EventsInOrder, LatestTextTellsTheRow, Texted, AnswerOK, SoundAnswer, WindowOK, FollowsAt,
       Follows, browserVars

LEMMA BrokerAcceptsKeeps ==
    ASSUME PushInv, NEW e \in DOMAIN outbox, BrokerAccepts(e)
    PROVE  PushInv'
<1>1. /\ accepted' = accepted \cup {e} /\ UNCHANGED <<messages, outbox, up, hubVars, browserVars>>
      /\ faults' = faults \/ Fault
  BY DEF BrokerAccepts, TheFeed!Accept
<1>2. faults' \in 0..MaxFaults
  BY <1>1, PushAssumption DEF PushInv, PathOK, Fault, PushAssumption
<1>3. queue' \in [Nodes -> Seq(DOMAIN outbox)]
  <2>1. \A n \in Nodes : queue[n] \in Seq(DOMAIN outbox) /\ Append(queue[n], e) \in Seq(DOMAIN outbox)
    BY AppendProperties DEF PushInv, PathOK
  <2>2. QED BY <2>1 DEF BrokerAccepts
<1>4. PathOK'
  BY <1>1, <1>2, <1>3 DEF PushInv, PathOK, hubVars
<1>5. QED BY <1>1, <1>4, PathStepKeeps DEF PathStep

LEMMA DeliverKeeps ==
    ASSUME PathOK, NEW n \in Nodes, NEW e \in DOMAIN outbox, NEW receivers, Deliver(n, e, receivers)
    PROVE  /\ node' \in [Readers -> Nodes \cup {NoNode}]
           /\ presence' \in [Readers -> Nodes \cup {NoNode}]
           /\ buffer' \in [Readers -> Seq(DOMAIN outbox)]
           /\ \A u \in Readers : Len(buffer'[u]) <= BufferSize
<1>1. /\ node' \in [Readers -> Nodes \cup {NoNode}]
      /\ presence' \in [Readers -> Nodes \cup {NoNode}]
  BY DEF Deliver, PathOK
<1> DEFINE served == {u \in receivers : node[u] = n}
           slow   == {u \in served : Len(buffer[u]) >= BufferSize}
           new(u) == CASE u \in slow -> <<>>
                       [] u \in served \ slow -> Append(buffer[u], e)
                       [] OTHER -> buffer[u]
<1>2. buffer' = [u \in Readers |-> new(u)]
  BY DEF Deliver
<1>3. ASSUME NEW u \in Readers PROVE new(u) \in Seq(DOMAIN outbox) /\ Len(new(u)) <= BufferSize
  <2>1. /\ buffer[u] \in Seq(DOMAIN outbox) /\ Len(buffer[u]) <= BufferSize
        /\ Len(buffer[u]) \in Nat /\ BufferSize \in Nat
    BY PushAssumption DEF PathOK, PushAssumption
  <2>2. CASE u \in slow
    <3>1. new(u) = <<>>
      BY <2>2
    <3> HIDE DEF new
    <3>2. QED BY <2>1, <3>1, EmptySeq
  <2>3. CASE u \in served \ slow
    <3>1. new(u) = Append(buffer[u], e) /\ ~(Len(buffer[u]) >= BufferSize)
      BY <2>3
    <3> HIDE DEF new
    <3>2. QED BY <2>1, <3>1, AppendProperties
  <2>4. CASE u \notin served
    <3>1. new(u) = buffer[u]
      BY <2>4
    <3> HIDE DEF new
    <3>2. QED BY <2>1, <3>1
  <2>5. QED BY <2>2, <2>3, <2>4
<1> HIDE DEF new
<1>4. QED BY <1>1, <1>2, <1>3

LEMMA HandleKeeps ==
    ASSUME PushInv, NEW n \in Nodes, Handle(n) \/ HandleFails(n)
    PROVE  PushInv'
<1>1. queue[n] # <<>> /\ queue[n] \in Seq(DOMAIN outbox)
  BY DEF Handle, HandleFails, PushInv, PathOK
<1> DEFINE e == Head(queue[n])
<1>2. e \in DOMAIN outbox /\ Tail(queue[n]) \in Seq(DOMAIN outbox)
  BY <1>1, HeadTailProperties
<1>3. \E receivers : Deliver(n, e, receivers)
  BY DEF Handle, HandleFails
<1>4. queue' \in [Nodes -> Seq(DOMAIN outbox)]
  <2>1. PICK q : queue' = [queue EXCEPT ![n] = q] /\ (q = Tail(queue[n]) \/ q \in Requeued(Tail(queue[n]), e))
    BY DEF Handle, HandleFails
  <2> HIDE DEF e
  <2>2. q \in Seq(DOMAIN outbox)
    BY <1>2, <2>1, RequeuedKeeps
  <2>3. QED BY <2>1, <2>2 DEF PushInv, PathOK
<1>5. UNCHANGED <<messages, outbox, accepted, up, browserVars>> /\ faults' \in 0..MaxFaults
  BY PushAssumption DEF Handle, HandleFails, Fault, PushInv, PathOK, PushAssumption
<1> HIDE DEF e
<1>6. PathOK'
  BY <1>2, <1>3, <1>4, <1>5, DeliverKeeps DEF PushInv, PathOK
<1>7. QED BY <1>5, <1>6, PathStepKeeps DEF PathStep

LEMMA NodeKeeps ==
    ASSUME PushInv, NEW n \in Nodes, NodeCrash(n) \/ NodeStart(n)
    PROVE  PushInv'
<1>1. UNCHANGED <<messages, outbox, accepted, presence, browserVars>> /\ faults' \in 0..MaxFaults
  BY PushAssumption DEF NodeCrash, NodeStart, Fault, PushInv, PathOK, PushAssumption, hubVars
<1> DEFINE Sent == Seq(DOMAIN outbox)
<1>2. <<>> \in Sent /\ queue \in [Nodes -> Sent] /\ buffer \in [Readers -> Sent]
  BY EmptySeq DEF PushInv, PathOK
<1>3. /\ queue' \in [Nodes -> Sent] /\ up' \in [Nodes -> BOOLEAN]
      /\ node' \in [Readers -> Nodes \cup {NoNode}]
      /\ buffer' \in [Readers -> Sent]
  <2> HIDE DEF Sent
  <2>1. CASE NodeCrash(n)
    BY <1>2, <2>1 DEF NodeCrash, PushInv, PathOK
  <2>2. CASE NodeStart(n)
    BY <1>2, <2>2 DEF NodeStart, PushInv, PathOK, hubVars
  <2>3. QED BY <2>1, <2>2
<1>4. \A u \in Readers : buffer'[u] = buffer[u] \/ buffer'[u] = <<>>
  BY DEF NodeCrash, NodeStart, PushInv, PathOK, hubVars
<1>5. \A u \in Readers : Len(buffer'[u]) <= BufferSize
  BY <1>4, PushAssumption DEF PushInv, PathOK, PushAssumption
<1>6. PathOK'
  BY <1>1, <1>3, <1>5 DEF PushInv, PathOK
<1>7. QED BY <1>1, <1>6, PathStepKeeps DEF PathStep

LEMMA ConnectionKeeps ==
    ASSUME PushInv, NEW u \in Readers,
           \/ \E n \in Nodes : Connect(u, n)
           \/ Disconnect(u) \/ PresenceLapses(u) \/ Heartbeat(u)
    PROVE  PushInv'
<1>1. UNCHANGED <<messages, outbox, accepted, nodeVars, browserVars>> /\ faults' \in 0..MaxFaults
  BY PushAssumption DEF Connect, Disconnect, PresenceLapses, Heartbeat, Fault, PushInv, PathOK, PushAssumption
<1> DEFINE Sent == Seq(DOMAIN outbox)
<1>2. <<>> \in Sent /\ buffer \in [Readers -> Sent]
  BY EmptySeq DEF PushInv, PathOK
<1>3. /\ node' \in [Readers -> Nodes \cup {NoNode}]
      /\ presence' \in [Readers -> Nodes \cup {NoNode}]
      /\ buffer' \in [Readers -> Sent]
  <2> HIDE DEF Sent
  <2>1. CASE \E n \in Nodes : Connect(u, n)
    BY <1>2, <2>1 DEF Connect, PushInv, PathOK
  <2>2. CASE Disconnect(u)
    BY <1>2, <2>2 DEF Disconnect, PushInv, PathOK
  <2>3. CASE PresenceLapses(u) \/ Heartbeat(u)
    BY <1>2, <2>3 DEF PresenceLapses, Heartbeat, PushInv, PathOK
  <2>4. QED BY <2>1, <2>2, <2>3
<1>4. \A v \in Readers : buffer'[v] = buffer[v] \/ buffer'[v] = <<>>
  BY DEF Connect, Disconnect, PresenceLapses, Heartbeat, PushInv, PathOK
<1>5. \A v \in Readers : Len(buffer'[v]) <= BufferSize
  BY <1>4, PushAssumption DEF PushInv, PathOK, PushAssumption
<1>6. PathOK'
  BY <1>1, <1>3, <1>5 DEF PushInv, PathOK, nodeVars
<1>7. QED BY <1>1, <1>6, PathStepKeeps DEF PathStep
-----------------------------------------------------------------------------
(***************************************************************************)
(* The browser.                                                            *)
(***************************************************************************)

\* The three kinds of event: an edit, a recall of what was never edited, a creation.
LEMMA KindOf ==
    ASSUME StoreTypeOK, NEW e \in DOMAIN outbox
    PROVE  \/ Kind(e) = "edit" /\ outbox[e].edited
           \/ Kind(e) = "recall" /\ ~outbox[e].edited /\ outbox[e].recalled
           \/ Kind(e) = "chat" /\ ~outbox[e].edited /\ ~outbox[e].recalled
BY DEF Kind, StoreTypeOK, Payload

LEMMA AppliedIsShown ==
    ASSUME StoreTypeOK, NEW e \in DOMAIN outbox, NEW shown \in Shown
    PROVE  /\ Applied(shown, e) \in Shown
           /\ Applied(shown, e).here <=> shown.here \/ Kind(e) = "chat"
<1>1. outbox[e].content \in Texts /\ outbox[e].edited \in BOOLEAN /\ outbox[e].recalled \in BOOLEAN
  BY DEF StoreTypeOK, Payload
<1>2. 0 \in Texts
  BY StoreAssumption DEF Texts, StoreAssumption
<1>3. CASE Kind(e) = "edit"
  BY <1>1, <1>3 DEF Applied, applyEdit, Shown
<1>4. CASE Kind(e) = "recall"
  BY <1>2, <1>4 DEF Applied, applyRecall, Shown
<1>5. CASE Kind(e) = "chat"
  BY <1>1, <1>5 DEF Applied, appendMessage, Shown
<1>6. QED BY <1>3, <1>4, <1>5, KindOf

\* An event in its turn leaves the window as the event tells; so does a repeated creation.
LEMMA AppliedFollows ==
    ASSUME StoreTypeOK, EventsInOrder, NEW m \in Messages, NEW shown \in Shown,
           NEW e \in DOMAIN outbox, outbox[e].msg = m,
           NEW n \in DOMAIN outbox, outbox[n].msg = m, shown.here, Follows(shown, n)
    PROVE  /\ e >= n => Follows(Applied(shown, e), e)
           /\ Kind(e) = "chat" => e <= n /\ Applied(shown, e) = shown
<1>1. e \in Nat /\ n \in Nat
  BY StoreAssumption DEF StoreAssumption, EventIds, StoreTypeOK
<1>2. Kind(e) = "chat" => e <= n /\ Applied(shown, e) = shown
  <2> SUFFICES ASSUME Kind(e) = "chat" PROVE e <= n /\ Applied(shown, e) = shown
    OBVIOUS
  <2>1. ~outbox[e].edited /\ ~outbox[e].recalled
    BY KindOf
  <2>2. ~(n < e)
    BY <2>1 DEF EventsInOrder
  <2>3. QED BY <1>1, <2>2 DEF Applied, appendMessage
<1>3. ASSUME e >= n PROVE Follows(Applied(shown, e), e)
  <2>1. CASE Kind(e) = "edit" /\ outbox[e].edited
    <3>1. ~outbox[e].recalled => ~outbox[n].recalled
      <4>1. CASE n = e
        BY <4>1
      <4>2. CASE n < e
        BY <4>2 DEF EventsInOrder
      <4>3. QED BY <1>1, <1>3, <4>1, <4>2
    <3>2. ~outbox[n].recalled => ~shown.recalled
      BY DEF Follows
    <3>3. QED BY <2>1, <3>1, <3>2 DEF Follows, Applied, applyEdit, Shown
  <2>2. CASE Kind(e) = "recall" /\ ~outbox[e].edited /\ outbox[e].recalled
    BY <2>2 DEF Follows, Applied, applyRecall, Shown
  <2>3. CASE Kind(e) = "chat" /\ ~outbox[e].edited /\ ~outbox[e].recalled
    BY <1>1, <1>2, <1>3, <2>3
  <2>4. QED BY <2>1, <2>2, <2>3, KindOf
<1>4. QED BY <1>2, <1>3

LEMMA ReceiveKeeps ==
    ASSUME PushInv, NEW u \in Readers, Receive(u)
    PROVE  PushInv'
<1>1. /\ StoreTypeOK /\ EventsInOrder /\ buffer[u] # <<>> /\ buffer[u] \in Seq(DOMAIN outbox)
      /\ Len(buffer[u]) <= BufferSize /\ BufferSize \in Nat
  BY PushAssumption DEF Receive, PushInv, PathOK, StoreOK, StoryOK, PushAssumption
<1> DEFINE first == Head(buffer[u])
<1> PICK e : e = first
  OBVIOUS
<1> PICK m : m = outbox[e].msg
  OBVIOUS
<1> PICK n : n = newest[u][m]
  OBVIOUS
<1> DEFINE repeated == Kind(e) = "chat" /\ m \in known[u]
<1>2. /\ window' = [window EXCEPT ![u][m] = Applied(@, e)]
      /\ skewed' = IF e < n /\ ~repeated THEN [skewed EXCEPT ![u] = @ \cup {m}] ELSE skewed
      /\ newest' = [newest EXCEPT ![u][m] = IF e > @ THEN e ELSE @]
      /\ known' = IF Kind(e) = "chat" THEN [known EXCEPT ![u] = @ \cup {m}] ELSE known
      /\ buffer' = [buffer EXCEPT ![u] = Tail(@)]
      /\ UNCHANGED <<messages, outbox, accepted, nodeVars, node, presence, answer, faults>>
  BY DEF Receive
<1>3. e \in DOMAIN outbox /\ Tail(buffer[u]) \in Seq(DOMAIN outbox) /\ Len(Tail(buffer[u])) <= BufferSize
  <2>1. first \in DOMAIN outbox /\ Tail(buffer[u]) \in Seq(DOMAIN outbox)
    BY <1>1, HeadTailProperties
  <2>2. Len(Tail(buffer[u])) = Len(buffer[u]) - 1 /\ Len(buffer[u]) \in Nat
    BY <1>1, HeadTailProperties, LenProperties
  <2>3. QED BY <1>1, <2>1, <2>2
<1>4. e \in EventIds /\ e \in Nat /\ e # 0 /\ m \in Messages /\ e \in 0..MaxEvents
  BY <1>1, <1>3, StoreAssumption DEF StoreAssumption, EventIds, StoreTypeOK, Payload
<1>5. PathOK'
  <2>1. buffer' \in [Readers -> Seq(DOMAIN outbox)]
    BY <1>2, <1>3 DEF PushInv, PathOK
  <2>2. \A v \in Readers : Len(buffer'[v]) <= BufferSize
    BY <1>2, <1>3 DEF PushInv, PathOK
  <2>3. QED BY <1>2, <2>1, <2>2 DEF PushInv, PathOK, nodeVars
<1> HIDE DEF first
<1>6. /\ window[u][m] \in Shown /\ n \in Nat /\ FollowsAt(u, m)
      /\ window \in [Readers -> [Messages -> Shown]]
      /\ newest \in [Readers -> [Messages -> 0..MaxEvents]]
      /\ known \in [Readers -> SUBSET Messages]
      /\ skewed \in [Readers -> SUBSET Messages]
  BY <1>4, StoreAssumption DEF PushInv, WindowOK, StoreAssumption
<1>7. e \in Nat /\ n \in Nat
  BY <1>4, <1>6
<1>8. /\ window' \in [Readers -> [Messages -> Shown]]
      /\ newest' \in [Readers -> [Messages -> 0..MaxEvents]]
      /\ known' \in [Readers -> SUBSET Messages]
      /\ skewed' \in [Readers -> SUBSET Messages]
  <2>1. Applied(window[u][m], e) \in Shown
    BY <1>1, <1>3, <1>6, AppliedIsShown
  <2>2. window' \in [Readers -> [Messages -> Shown]]
    BY <1>2, <1>6, <2>1
  <2>3. newest' \in [Readers -> [Messages -> 0..MaxEvents]]
    BY <1>2, <1>4, <1>6
  <2>4. known' \in [Readers -> SUBSET Messages] /\ skewed' \in [Readers -> SUBSET Messages]
    BY <1>2, <1>4, <1>6
  <2>5. QED BY <2>2, <2>3, <2>4
<1>9. /\ window'[u][m] = Applied(window[u][m], e)
      /\ newest'[u][m] = IF e > n THEN e ELSE n
      /\ m \in known'[u] <=> m \in known[u] \/ Kind(e) = "chat"
      /\ m \in skewed'[u] <=> m \in skewed[u] \/ (e < n /\ ~repeated)
  <2>1. window'[u][m] = Applied(window[u][m], e)
    BY <1>2, <1>4, <1>6
  <2>2. newest'[u][m] = IF e > n THEN e ELSE n
    BY <1>2, <1>4, <1>6
  <2>3. m \in known'[u] <=> m \in known[u] \/ Kind(e) = "chat"
    BY <1>2, <1>4, <1>6
  <2>4. m \in skewed'[u] <=> m \in skewed[u] \/ (e < n /\ ~repeated)
    BY <1>2, <1>4, <1>6
  <2>5. QED BY <2>1, <2>2, <2>3, <2>4
<1>10. ASSUME NEW v \in Readers, NEW k \in Messages, v # u \/ k # m
      PROVE  FollowsAt(v, k)'
  <2>1. /\ window'[v][k] = window[v][k] /\ newest'[v][k] = newest[v][k]
        /\ k \in known'[v] <=> k \in known[v]
        /\ k \in skewed'[v] <=> k \in skewed[v]
    BY <1>2, <1>6, <1>10
  <2>2. FollowsAt(v, k)
    BY DEF PushInv, WindowOK
  <2>3. QED BY <1>2, <2>1, <2>2 DEF FollowsAt, Follows
<1>11. FollowsAt(u, m)'
  <2>1. newest'[u][m] # 0 /\ newest'[u][m] \in DOMAIN outbox /\ outbox[newest'[u][m]].msg = m
    BY <1>3, <1>4, <1>6, <1>9 DEF FollowsAt
  <2>2. window'[u][m].here <=> m \in known'[u]
    BY <1>1, <1>3, <1>6, <1>9, AppliedIsShown DEF FollowsAt
  <2>3. ASSUME m \in known'[u] \ skewed'[u] PROVE Follows(window'[u][m], newest'[u][m])
    <3>1. m \notin skewed[u] /\ (e >= n \/ repeated)
      BY <1>7, <1>9, <2>3
    <3>2. CASE m \in known[u]
      <4>1. n \in DOMAIN outbox /\ outbox[n].msg = m /\ window[u][m].here /\ Follows(window[u][m], n)
        BY <1>6, <3>1, <3>2 DEF FollowsAt
      <4>2. /\ e >= n => Follows(Applied(window[u][m], e), e)
            /\ Kind(e) = "chat" => e <= n /\ Applied(window[u][m], e) = window[u][m]
        BY <1>1, <1>3, <1>4, <1>6, <4>1, AppliedFollows
      <4>3. CASE e >= n
        <5>1. newest'[u][m] = e
          BY <1>7, <1>9, <4>3
        <5>2. QED BY <1>9, <4>2, <4>3, <5>1
      <4>4. CASE repeated
        <5>1. newest'[u][m] = n /\ window'[u][m] = window[u][m]
          BY <1>7, <1>9, <4>2, <4>4
        <5>2. QED BY <4>1, <5>1
      <4>5. QED BY <3>1, <4>3, <4>4
    <3>3. CASE m \notin known[u]
      <4>1. Kind(e) = "chat" /\ ~window[u][m].here /\ e >= n
        BY <1>6, <1>9, <2>3, <3>1, <3>3 DEF FollowsAt
      <4>2. newest'[u][m] = e
        BY <1>7, <1>9, <4>1
      <4>3. ~outbox[e].edited /\ ~outbox[e].recalled
        BY <1>1, <1>3, <4>1, KindOf
      <4>4. QED BY <1>9, <4>1, <4>2, <4>3 DEF Follows, Applied, appendMessage
    <3>4. QED BY <3>2, <3>3
  <2>4. QED BY <1>2, <2>1, <2>2, <2>3 DEF FollowsAt, Follows
<1>12. WindowOK'
  BY <1>8, <1>10, <1>11 DEF WindowOK
<1>13. StoreOK' /\ AnswerOK'
  BY <1>2 DEF PushInv, StoreOK, StoreTypeOK, LatestEventTellsTheRow, IsLatestEvent, StoryOK,
       EventsInOrder, LatestTextTellsTheRow, Texted, AnswerOK, SoundAnswer
<1>14. QED BY <1>5, <1>12, <1>13 DEF PushInv

LEMMA AskHistoryKeeps ==
    ASSUME PushInv, NEW u \in Readers, AskHistory(u)
    PROVE  PushInv'
<1>1. UNCHANGED <<messages, outbox, accepted, nodeVars, hubVars, window, newest, known, skewed, faults>>
  BY DEF AskHistory
<1>2. StoreOK' /\ PathOK' /\ WindowOK'
  BY <1>1 DEF PushInv, StoreOK, StoreTypeOK, LatestEventTellsTheRow, IsLatestEvent, StoryOK,
       EventsInOrder, LatestTextTellsTheRow, Texted, PathOK, WindowOK, FollowsAt, Follows,
       nodeVars, hubVars
<1>3. SoundAnswer(messages, DOMAIN outbox)
  BY DEF PushInv, StoreOK, StoreTypeOK, LatestEventTellsTheRow, IsLatestEvent, SoundAnswer
<1>4. answer' = [answer EXCEPT ![u] = <<messages, DOMAIN outbox>>] /\ answer = [v \in Readers |-> answer[v]]
  BY DEF AskHistory, PushInv, AnswerOK
<1>5. \A rows, events : SoundAnswer(rows, events) => SoundAnswer(rows, events)'
  BY <1>1 DEF SoundAnswer, Edited
<1>6. AnswerOK'
  <2>1. answer' = [v \in Readers |-> answer'[v]]
    BY <1>4
  <2>2. ASSUME NEW v \in Readers, answer'[v] # <<>>
        PROVE  \E rows, events : answer'[v] = <<rows, events>> /\ SoundAnswer(rows, events)'
    <3>1. CASE v = u
      BY <1>3, <1>4, <1>5, <3>1
    <3>2. CASE v # u
      BY <1>4, <1>5, <2>2, <3>2 DEF PushInv, AnswerOK
    <3>3. QED BY <3>1, <3>2
  <2>3. QED BY <2>1, <2>2 DEF AnswerOK
<1>7. QED BY <1>2, <1>6 DEF PushInv

\* The rows of a sound answer put a window that follows the greatest of its events.
LEMMA HistoryAnswersKeeps ==
    ASSUME PushInv, NEW u \in Readers, HistoryAnswers(u)
    PROVE  PushInv'
<1>1. PICK rows, events : answer[u] = <<rows, events>> /\ SoundAnswer(rows, events)
  BY DEF HistoryAnswers, PushInv, AnswerOK
<1> DEFINE last(m) == LastOf({e \in events : outbox[e].msg = m})
<1>2. /\ window' = [window EXCEPT ![u] = [m \in Messages |-> FromRow(rows[m])]]
      /\ newest' = [newest EXCEPT ![u] = [m \in Messages |-> last(m)]]
      /\ known' = [known EXCEPT ![u] = {m \in Messages : rows[m].content > 0}]
      /\ skewed' = [skewed EXCEPT ![u] = {}]
      /\ answer' = [answer EXCEPT ![u] = <<>>]
      /\ UNCHANGED <<messages, outbox, accepted, nodeVars, hubVars, faults>>
  BY <1>1 DEF HistoryAnswers
<1>3. ASSUME NEW m \in Messages
      PROVE  /\ last(m) # 0 => last(m) \in events /\ outbox[last(m)].msg = m
             /\ last(m) \in 0..MaxEvents
             /\ rows[m].content > 0 => last(m) # 0
             /\ rows[m].content > 0 => Follows(FromRow(rows[m]), last(m))
  <2> DEFINE S == {e \in events : outbox[e].msg = m}
  <2>1. S \subseteq EventIds
    BY <1>1 DEF SoundAnswer, PushInv, StoreOK, StoreTypeOK
  <2>2. CASE S = {}
    <3>1. last(m) = 0 /\ ~(rows[m].content > 0)
      BY <1>1, <2>2 DEF LastOf, SoundAnswer
    <3>2. QED BY <3>1, StoreAssumption DEF StoreAssumption
  <2>3. CASE S # {}
    <3>1. last(m) \in S /\ \A f \in S : f <= last(m)
      BY <2>1, <2>3, LastOfIsLast
    <3> DEFINE n == last(m)
    <3> HIDE DEF last
    <3>2. n \in Nat /\ n # 0 /\ n \in 0..MaxEvents /\ n \in events /\ outbox[n].msg = m
      BY <2>1, <3>1, StoreAssumption DEF StoreAssumption, EventIds
    <3>3. ASSUME rows[m].content > 0 PROVE Follows(FromRow(rows[m]), n)
      <4>1. PICK e \in S : /\ \A f \in S : f <= e
                           /\ outbox[e].recalled = rows[m].recalled
                           /\ outbox[e].edited = Edited(rows[m].content)
                           /\ outbox[e].content = IF rows[m].recalled THEN 0 ELSE rows[m].content
        BY <1>1, <3>3 DEF SoundAnswer
      <4>2. e \in Nat
        BY <2>1, StoreAssumption DEF StoreAssumption, EventIds
      <4>3. e <= n /\ n <= e
        BY <3>1, <4>1
      <4>4. e = n
        BY <3>2, <4>2, <4>3
      <4>5. rows[m] \in Row
        BY <1>1 DEF SoundAnswer
      <4>6. FromRow(rows[m]) = [here |-> TRUE, text |-> rows[m].content,
                                edited |-> Edited(rows[m].content), recalled |-> rows[m].recalled]
        BY <3>3, <4>5 DEF FromRow, Row, Texts
      <4>7. QED BY <4>1, <4>4, <4>5, <4>6 DEF Follows, Row
    <3>4. QED BY <3>2, <3>3
  <2>4. QED BY <2>2, <2>3
<1>4. ASSUME NEW m \in Messages
      PROVE  FromRow(rows[m]) \in Shown /\ (FromRow(rows[m]).here <=> rows[m].content > 0)
  <2>1. rows[m] \in Row /\ 0 \in Texts
    BY <1>1, StoreAssumption DEF SoundAnswer, Texts, StoreAssumption
  <2>2. rows[m].content \in Nat
    BY <2>1, StoreAssumption DEF Row, Texts, StoreAssumption
  <2>3. QED BY <2>1, <2>2 DEF FromRow, Shown, Absent, Row, Edited
<1> HIDE DEF last
<1>5. /\ window' \in [Readers -> [Messages -> Shown]]
      /\ newest' \in [Readers -> [Messages -> 0..MaxEvents]]
      /\ known' \in [Readers -> SUBSET Messages]
      /\ skewed' \in [Readers -> SUBSET Messages]
  <2>1. window' \in [Readers -> [Messages -> Shown]]
    BY <1>2, <1>4 DEF PushInv, WindowOK
  <2>2. newest' \in [Readers -> [Messages -> 0..MaxEvents]]
    BY <1>2, <1>3 DEF PushInv, WindowOK
  <2>3. known' \in [Readers -> SUBSET Messages] /\ skewed' \in [Readers -> SUBSET Messages]
    BY <1>2 DEF PushInv, WindowOK
  <2>4. QED BY <2>1, <2>2, <2>3
<1>6. ASSUME NEW v \in Readers, NEW m \in Messages PROVE FollowsAt(v, m)'
  <2>1. CASE v = u
    <3>1. /\ window'[u][m] = FromRow(rows[m]) /\ newest'[u][m] = last(m)
          /\ m \in known'[u] <=> rows[m].content > 0
      BY <1>2 DEF PushInv, WindowOK
    <3>2. last(m) # 0 => last(m) \in DOMAIN outbox /\ outbox[last(m)].msg = m
      BY <1>1, <1>3 DEF SoundAnswer
    <3>3. QED BY <1>2, <1>3, <1>4, <2>1, <3>1, <3>2 DEF FollowsAt, Follows
  <2>2. CASE v # u
    <3>1. /\ window'[v][m] = window[v][m] /\ newest'[v][m] = newest[v][m]
          /\ known'[v] = known[v] /\ skewed'[v] = skewed[v]
      BY <1>2, <2>2 DEF PushInv, WindowOK
    <3>2. FollowsAt(v, m)
      BY DEF PushInv, WindowOK
    <3>3. QED BY <1>2, <3>1, <3>2 DEF FollowsAt, Follows
  <2>3. QED BY <2>1, <2>2
<1>7. AnswerOK'
  <2>1. \A r, s : SoundAnswer(r, s) => SoundAnswer(r, s)'
    BY <1>2 DEF SoundAnswer, Edited
  <2>2. answer' = [v \in Readers |-> answer'[v]]
    BY <1>2 DEF PushInv, AnswerOK
  <2>3. \A v \in Readers : answer'[v] # <<>> => answer'[v] = answer[v]
    BY <1>2 DEF PushInv, AnswerOK
  <2>4. QED BY <2>1, <2>2, <2>3 DEF PushInv, AnswerOK
<1>8. WindowOK'
  BY <1>5, <1>6 DEF WindowOK
<1>9. StoreOK' /\ PathOK'
  BY <1>2 DEF PushInv, StoreOK, StoreTypeOK, LatestEventTellsTheRow, IsLatestEvent, StoryOK,
       EventsInOrder, LatestTextTellsTheRow, Texted, PathOK, nodeVars, hubVars
<1>10. QED BY <1>7, <1>8, <1>9 DEF PushInv

-----------------------------------------------------------------------------
(***************************************************************************)
(* The theorems.                                                           *)
(***************************************************************************)
LEMMA PushInvStep == PushInv /\ [Next]_vars => PushInv'
<1> SUFFICES ASSUME PushInv, [Next]_vars PROVE PushInv'
  OBVIOUS
<1>1. CASE Change
  BY <1>1, ChangeKeeps
<1>2. ASSUME NEW e \in DOMAIN outbox, BrokerAccepts(e) PROVE PushInv'
  BY <1>2, BrokerAcceptsKeeps
<1>3. ASSUME NEW n \in Nodes, Handle(n) \/ HandleFails(n) PROVE PushInv'
  BY <1>3, HandleKeeps
<1>4. ASSUME NEW n \in Nodes, NodeCrash(n) \/ NodeStart(n) PROVE PushInv'
  BY <1>4, NodeKeeps
<1>5. ASSUME NEW u \in Readers,
             (\E n \in Nodes : Connect(u, n)) \/ Disconnect(u) \/ PresenceLapses(u) \/ Heartbeat(u)
      PROVE  PushInv'
  BY <1>5, ConnectionKeeps
<1>6. ASSUME NEW u \in Readers, Receive(u) PROVE PushInv'
  BY <1>6, ReceiveKeeps
<1>7. ASSUME NEW u \in Readers, AskHistory(u) PROVE PushInv'
  BY <1>7, AskHistoryKeeps
<1>8. ASSUME NEW u \in Readers, HistoryAnswers(u) PROVE PushInv'
  BY <1>8, HistoryAnswersKeeps
<1>9. CASE UNCHANGED vars
  <2>1. PathStep
    BY <1>9 DEF vars, PathStep, PushInv, PathOK, nodeVars, hubVars
  <2>2. QED BY <2>1, PathStepKeeps
<1>10. QED BY <1>1, <1>2, <1>3, <1>4, <1>5, <1>6, <1>7, <1>8, <1>9 DEF Next

LEMMA PushInvariant == Spec => []PushInv
<1>1. QED BY PushInvInit, PushInvStep, PTL DEF Spec

(***************************************************************************)
(* Type correctness of the path: what waits at a node or at a connection   *)
(* is a committed event, and a connection never holds more than its buffer *)
(* takes.                                                                  *)
(***************************************************************************)
THEOREM TypeCorrect == Spec => []TypeOK
<1>1. PushInv => TypeOK
  <2> SUFFICES ASSUME PushInv PROVE TypeOK
    OBVIOUS
  <2>1. ASSUME NEW n \in Nodes, NEW i \in DOMAIN queue[n] PROVE queue[n][i] \in DOMAIN outbox
    <3>1. queue[n] \in Seq(DOMAIN outbox)
      BY DEF PushInv, PathOK
    <3>2. QED BY <3>1, ElementOfSeq, LenProperties
  <2>2. QED BY <2>1 DEF PushInv, StoreOK, PathOK, WindowOK, TypeOK
<1>2. QED BY <1>1, PushInvariant, PTL

(***************************************************************************)
(* The newest outbox row of a saved message tells its row, whatever the    *)
(* nodes and readers do.                                                   *)
(***************************************************************************)
THEOREM LatestEventTells == Spec => []LatestEventTellsTheRow
<1>1. PushInv => LatestEventTellsTheRow
  BY DEF PushInv, StoreOK
<1>2. QED BY <1>1, PushInvariant, PTL

(***************************************************************************)
(* A reader who got the creation of a message and, in order, its latest    *)
(* event sees the message as its row tells it, through crashes, requeues,  *)
(* full buffers, reconnections and history answers that arrive late.       *)
(***************************************************************************)
THEOREM WindowTells == Spec => []WindowTellsTheRow
<1>1. PushInv => WindowTellsTheRow
  <2> SUFFICES ASSUME PushInv, NEW u \in Readers, NEW m \in Messages, UpToDate(u, m),
                      ~(Edited(messages[m].content) /\ messages[m].recalled)
               PROVE  /\ window[u][m].recalled = messages[m].recalled
                      /\ ~messages[m].recalled =>
                            /\ window[u][m].text = messages[m].content
                            /\ window[u][m].edited = Edited(messages[m].content)
    BY DEF WindowTellsTheRow
  <2>1. PICK n : n = newest[u][m]
    OBVIOUS
  <2>2. n \in DOMAIN outbox /\ IsLatestEvent(n, m) /\ Follows(window[u][m], n)
    BY <2>1 DEF UpToDate, PushInv, WindowOK, FollowsAt
  <2>3. messages[m].content > 0
    BY <2>2 DEF PushInv, StoreOK, StoryOK, EventsInOrder, IsLatestEvent
  <2>4. PICK e \in DOMAIN outbox :
            /\ IsLatestEvent(e, m)
            /\ outbox[e].recalled = messages[m].recalled
            /\ outbox[e].edited = Edited(messages[m].content)
            /\ outbox[e].content = IF messages[m].recalled THEN 0 ELSE messages[m].content
    BY <2>3 DEF PushInv, StoreOK, LatestEventTellsTheRow
  <2>5. e = n
    <3>1. e \in Nat /\ n \in Nat
      BY <2>2, StoreAssumption DEF StoreAssumption, EventIds, PushInv, StoreOK, StoreTypeOK
    <3>2. e <= n /\ n <= e
      BY <2>2, <2>4 DEF IsLatestEvent
    <3>3. QED BY <3>1, <3>2
  <2>6. /\ window[u][m] \in Shown /\ messages[m] \in Row
    BY DEF PushInv, StoreOK, StoreTypeOK, WindowOK
  <2>7. CASE messages[m].recalled
    <3>1. ~Edited(messages[m].content) /\ outbox[n].recalled /\ ~outbox[n].edited
      BY <2>4, <2>5, <2>7
    <3>2. QED BY <2>2, <2>6, <2>7, <3>1 DEF Follows, Shown, Row
  <2>8. CASE ~messages[m].recalled
    <3>1. /\ ~outbox[n].recalled /\ outbox[n].content = messages[m].content
          /\ outbox[n].edited <=> Edited(messages[m].content)
      BY <2>4, <2>5, <2>8
    <3>2. /\ window[u][m].text = messages[m].content /\ ~window[u][m].recalled
          /\ window[u][m].edited <=> Edited(messages[m].content)
      BY <2>2, <3>1 DEF Follows
    <3>3. QED BY <2>6, <2>8, <3>2 DEF Shown, Row, Edited
  <2>9. QED BY <2>7, <2>8
<1>2. QED BY <1>1, PushInvariant, PTL
=============================================================================
