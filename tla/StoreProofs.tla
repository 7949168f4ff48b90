---------------------------- MODULE StoreProofs ----------------------------
(***************************************************************************)
(* Lemmas about the message transactions, for the theorems of the modules  *)
(* that extend MessageStore.                                               *)
(***************************************************************************)
EXTENDS MessageStore, TLAPS

-----------------------------------------------------------------------------
(***************************************************************************)
(* The three transactions and the clock of the recall window keep the      *)
(* types of the two tables, and no outbox row is ever taken away.          *)
(***************************************************************************)
LEMMA EnqueueKeeps ==
    ASSUME StoreTypeOK, NEW payload \in Payload, Enqueue(payload)
    PROVE  /\ DOMAIN outbox \subseteq DOMAIN outbox'
           /\ DOMAIN outbox' \subseteq EventIds
           /\ \A e \in DOMAIN outbox' : outbox'[e] \in Payload
BY DEF StoreTypeOK, Enqueue

LEMMA StoreStep ==
    ASSUME StoreTypeOK, StoreNext
    PROVE  StoreTypeOK' /\ DOMAIN outbox \subseteq DOMAIN outbox'
<1> USE StoreAssumption DEF StoreAssumption
<1> PICK m \in Messages : \/ SaveAndEnqueue(m)
                          \/ Edit(m)
                          \/ Recall(m)
                          \/ RecallWindowCloses(m)
  BY DEF StoreNext
<1>1. CASE SaveAndEnqueue(m)
  <2> DEFINE row == [content |-> 1, recalled |-> FALSE, recallable |-> TRUE]
  <2>1. row \in Row
    BY DEF Row, Texts
  <2>2. NewMessageCreatedEvent(m, row) \in Payload
    BY <2>1 DEF NewMessageCreatedEvent, Payload, Edited, Row, Texts
  <2>3. Enqueue(NewMessageCreatedEvent(m, row)) /\ messages' = [messages EXCEPT ![m] = row]
    BY <1>1 DEF SaveAndEnqueue
  <2> HIDE DEF row
  <2>4. QED BY <2>1, <2>2, <2>3, EnqueueKeeps DEF StoreTypeOK
<1>2. CASE Edit(m)
  <2> DEFINE row == [messages[m] EXCEPT !.content = @ + 1]
  <2>1. row \in Row
    BY <1>2 DEF Edit, Row, Texts, StoreTypeOK
  <2>2. NewMessageCreatedEvent(m, row) \in Payload
    BY <2>1 DEF NewMessageCreatedEvent, Payload, Edited, Row, Texts
  <2>3. Enqueue(NewMessageCreatedEvent(m, row)) /\ messages' = [messages EXCEPT ![m] = row]
    BY <1>2 DEF Edit
  <2> HIDE DEF row
  <2>4. QED BY <2>1, <2>2, <2>3, EnqueueKeeps DEF StoreTypeOK
<1>3. CASE Recall(m)
  <2> DEFINE row == [messages[m] EXCEPT !.recalled = TRUE]
  <2>1. row \in Row
    BY DEF Row, StoreTypeOK
  <2>2. NewMessageRecalledEvent(m, row) \in Payload
    BY <2>1 DEF NewMessageRecalledEvent, Payload, Edited, Row, Texts
  <2>3. Enqueue(NewMessageRecalledEvent(m, row)) /\ messages' = [messages EXCEPT ![m] = row]
    BY <1>3 DEF Recall
  <2> HIDE DEF row
  <2>4. QED BY <2>1, <2>2, <2>3, EnqueueKeeps DEF StoreTypeOK
<1>4. CASE RecallWindowCloses(m)
  BY <1>4 DEF RecallWindowCloses, StoreTypeOK, Row
<1>5. QED BY <1>1, <1>2, <1>3, <1>4

-----------------------------------------------------------------------------
(***************************************************************************)
(* The newest event of a message tells its row, and a transaction on one   *)
(* message leaves the newest events of the others alone.                   *)
(***************************************************************************)
Tells(e, m) ==
    /\ IsLatestEvent(e, m)
    /\ outbox[e].recalled = messages[m].recalled
    /\ outbox[e].edited = Edited(messages[m].content)
    /\ outbox[e].content = IF messages[m].recalled THEN 0 ELSE messages[m].content

LEMMA EnqueueIsLatest ==
    ASSUME StoreTypeOK, NEW payload, Enqueue(payload)
    PROVE  /\ \E e \in DOMAIN outbox' : IsLatestEvent(e, payload.msg)' /\ outbox'[e] = payload
           /\ \A m : \A e \in DOMAIN outbox :
                m # payload.msg /\ IsLatestEvent(e, m) =>
                    e \in DOMAIN outbox' /\ IsLatestEvent(e, m)' /\ outbox'[e] = outbox[e]
<1> PICK e \in EventIds \ DOMAIN outbox :
        /\ \A f \in DOMAIN outbox : outbox[f].msg = payload.msg => f < e
        /\ outbox' = [f \in DOMAIN outbox \cup {e} |-> IF f = e THEN payload ELSE outbox[f]]
  BY DEF Enqueue
<1>1. outbox'[e] = payload /\ \A f \in DOMAIN outbox : outbox'[f] = outbox[f]
  OBVIOUS
<1>2. IsLatestEvent(e, payload.msg)'
  <2> SUFFICES ASSUME NEW f \in DOMAIN outbox', outbox'[f].msg = payload.msg PROVE f <= e
    BY <1>1 DEF IsLatestEvent
  <2>1. e \in Nat /\ f \in Nat
    BY StoreAssumption DEF StoreAssumption, EventIds, StoreTypeOK
  <2>2. CASE f = e
    BY <2>1, <2>2
  <2>3. CASE f # e
    <3>1. f \in DOMAIN outbox /\ outbox[f].msg = payload.msg
      BY <1>1, <2>3
    <3>2. QED BY <2>1, <3>1
  <2>4. QED BY <2>2, <2>3
<1>3. ASSUME NEW m, NEW g \in DOMAIN outbox, m # payload.msg, IsLatestEvent(g, m)
      PROVE  IsLatestEvent(g, m)'
  <2>1. \A f \in DOMAIN outbox' : outbox'[f].msg = m => f \in DOMAIN outbox /\ outbox[f].msg = m
    BY <1>1, <1>3
  <2>2. QED BY <1>1, <1>3, <2>1 DEF IsLatestEvent
<1>4. QED BY <1>1, <1>2, <1>3

LEMMA TransactionTells ==
    ASSUME StoreTypeOK, LatestEventTellsTheRow,
           NEW m \in Messages, NEW row \in Row, NEW payload,
           messages' = [messages EXCEPT ![m] = row],
           Enqueue(payload),
           payload.msg = m,
           payload.recalled = row.recalled,
           payload.edited = Edited(row.content),
           payload.content = IF row.recalled THEN 0 ELSE row.content
    PROVE  LatestEventTellsTheRow'
<1> SUFFICES ASSUME NEW n \in Messages, messages'[n].content > 0
             PROVE  \E e \in DOMAIN outbox' : Tells(e, n)'
  BY DEF LatestEventTellsTheRow, Tells
<1>1. CASE n = m
  <2>1. messages'[n] = row
    BY <1>1 DEF StoreTypeOK
  <2>2. QED BY <1>1, <2>1, EnqueueIsLatest DEF Tells, Edited
<1>2. CASE n # m
  <2>1. messages'[n] = messages[n]
    BY <1>2 DEF StoreTypeOK
  <2>2. PICK e \in DOMAIN outbox : Tells(e, n)
    BY <2>1 DEF LatestEventTellsTheRow, Tells
  <2>3. e \in DOMAIN outbox' /\ IsLatestEvent(e, n)' /\ outbox'[e] = outbox[e]
    BY <1>2, <2>2, EnqueueIsLatest DEF Tells
  <2>4. QED BY <2>1, <2>2, <2>3 DEF Tells, Edited
<1>3. QED BY <1>1, <1>2

LEMMA LatestStep ==
    ASSUME StoreTypeOK, LatestEventTellsTheRow, StoreNext
    PROVE  LatestEventTellsTheRow'
<1> PICK m \in Messages : \/ SaveAndEnqueue(m)
                          \/ Edit(m)
                          \/ Recall(m)
                          \/ RecallWindowCloses(m)
  BY DEF StoreNext
<1>1. CASE SaveAndEnqueue(m)
  <2> DEFINE row == [content |-> 1, recalled |-> FALSE, recallable |-> TRUE]
  <2>1. row \in Row
    BY StoreAssumption DEF Row, Texts, StoreAssumption
  <2>2. Enqueue(NewMessageCreatedEvent(m, row)) /\ messages' = [messages EXCEPT ![m] = row]
    BY <1>1 DEF SaveAndEnqueue
  <2>3. QED BY <2>1, <2>2, TransactionTells DEF NewMessageCreatedEvent
<1>2. CASE Edit(m)
  <2> DEFINE row == [messages[m] EXCEPT !.content = @ + 1]
  <2>1. row \in Row /\ ~row.recalled
    BY <1>2, StoreAssumption DEF Edit, Row, Texts, StoreTypeOK, StoreAssumption
  <2>2. Enqueue(NewMessageCreatedEvent(m, row)) /\ messages' = [messages EXCEPT ![m] = row]
    BY <1>2 DEF Edit
  <2> HIDE DEF row
  <2>3. row.recalled = FALSE
    BY <2>1 DEF Row
  <2>4. QED BY <2>1, <2>2, <2>3, TransactionTells DEF NewMessageCreatedEvent
<1>3. CASE Recall(m)
  <2> DEFINE row == [messages[m] EXCEPT !.recalled = TRUE]
  <2>1. row \in Row /\ row.recalled = TRUE
    BY DEF Row, StoreTypeOK
  <2>2. Enqueue(NewMessageRecalledEvent(m, row)) /\ messages' = [messages EXCEPT ![m] = row]
    BY <1>3 DEF Recall
  <2> HIDE DEF row
  <2>3. QED BY <2>1, <2>2, TransactionTells DEF NewMessageRecalledEvent
<1>4. CASE RecallWindowCloses(m)
  <2>1. \A n \in Messages : /\ messages'[n].content = messages[n].content
                            /\ messages'[n].recalled = messages[n].recalled
    BY <1>4 DEF RecallWindowCloses, StoreTypeOK, Row
  <2>2. outbox' = outbox
    BY <1>4 DEF RecallWindowCloses
  <2>3. QED BY <2>1, <2>2 DEF LatestEventTellsTheRow, IsLatestEvent, Edited
<1>5. QED BY <1>1, <1>2, <1>3, <1>4

LEMMA StoreInitOK ==
    ASSUME StoreInit
    PROVE  StoreTypeOK /\ LatestEventTellsTheRow
BY StoreAssumption DEF StoreInit, StoreTypeOK, LatestEventTellsTheRow, Row, Texts, StoreAssumption
-----------------------------------------------------------------------------
(***************************************************************************)
(* The order of a message's events: its creation first, its recall last,   *)
(* and the newest event that carries a text carries that of the row, be    *)
(* the message recalled or not.  An outbox row never changes.              *)
(***************************************************************************)
Texted(e, m) == e \in DOMAIN outbox /\ outbox[e].msg = m /\ ~outbox[e].recalled

EventsInOrder ==
    \A e \in DOMAIN outbox :
        /\ messages[outbox[e].msg].content > 0
        /\ outbox[e].recalled => messages[outbox[e].msg].recalled
        /\ \A f \in DOMAIN outbox :
              outbox[f].msg = outbox[e].msg /\ f < e =>
                  ~outbox[f].recalled /\ (outbox[e].edited \/ outbox[e].recalled)

LatestTextTellsTheRow ==
    \A m \in Messages : messages[m].content > 0 =>
        \E e \in DOMAIN outbox :
            /\ Texted(e, m)
            /\ outbox[e].content = messages[m].content
            /\ \A f \in DOMAIN outbox : Texted(f, m) => f <= e

StoryOK == EventsInOrder /\ LatestTextTellsTheRow

OutboxKept == \A e \in DOMAIN outbox : e \in DOMAIN outbox' /\ outbox'[e] = outbox[e]

LEMMA TransactionKeepsStory ==
    ASSUME StoreTypeOK, StoryOK,
           NEW m \in Messages, NEW row \in Row, NEW payload \in Payload,
           messages' = [messages EXCEPT ![m] = row],
           Enqueue(payload),
           payload.msg = m,
           row.content > 0,
           messages[m].content = 0 \/ ~messages[m].recalled,
           payload.recalled => row.recalled,
           messages[m].content = 0 \/ payload.edited \/ payload.recalled,
           payload.recalled => messages[m].content > 0 /\ row.content = messages[m].content,
           ~payload.recalled => payload.content = row.content
    PROVE  StoryOK' /\ OutboxKept
<1> PICK e \in EventIds \ DOMAIN outbox :
        /\ \A f \in DOMAIN outbox : outbox[f].msg = payload.msg => f < e
        /\ outbox' = [f \in DOMAIN outbox \cup {e} |-> IF f = e THEN payload ELSE outbox[f]]
  BY DEF Enqueue
<1>1. /\ outbox'[e] = payload /\ DOMAIN outbox' = DOMAIN outbox \cup {e}
      /\ \A f \in DOMAIN outbox : outbox'[f] = outbox[f] /\ f # e
  OBVIOUS
<1>2. \A f \in DOMAIN outbox' : f \in Nat
  BY StoreAssumption DEF StoreAssumption, EventIds, StoreTypeOK
<1>3. /\ messages'[m] = row
      /\ \A n \in Messages : n # m => messages'[n] = messages[n]
  BY DEF StoreTypeOK
<1>4. \A f \in DOMAIN outbox : outbox[f].msg \in Messages
  BY DEF StoreTypeOK, Payload
<1>5. OutboxKept
  BY <1>1 DEF OutboxKept
<1>6. EventsInOrder'
  <2> SUFFICES ASSUME NEW g \in DOMAIN outbox'
               PROVE  /\ messages'[outbox'[g].msg].content > 0
                      /\ outbox'[g].recalled => messages'[outbox'[g].msg].recalled
                      /\ \A f \in DOMAIN outbox' :
                            outbox'[f].msg = outbox'[g].msg /\ f < g =>
                                ~outbox'[f].recalled /\ (outbox'[g].edited \/ outbox'[g].recalled)
    BY DEF EventsInOrder
  <2>1. CASE g = e
    <3>1. ASSUME NEW f \in DOMAIN outbox', outbox'[f].msg = m, f < e
          PROVE  ~outbox'[f].recalled /\ (payload.edited \/ payload.recalled)
      <4>1. f \in DOMAIN outbox /\ outbox'[f] = outbox[f]
        BY <1>1, <1>2, <3>1
      <4>2. QED BY <3>1, <4>1 DEF StoryOK, EventsInOrder
    <3>2. QED BY <1>1, <1>3, <2>1, <3>1
  <2>2. CASE g # e
    <3>1. g \in DOMAIN outbox /\ outbox'[g] = outbox[g]
      BY <1>1, <2>2
    <3>2. messages'[outbox[g].msg].content > 0
      BY <1>3, <1>4, <3>1 DEF StoryOK, EventsInOrder
    <3>3. outbox[g].recalled => messages'[outbox[g].msg].recalled
      BY <1>3, <1>4, <3>1 DEF StoryOK, EventsInOrder
    <3>4. ASSUME NEW f \in DOMAIN outbox', outbox'[f].msg = outbox[g].msg, f < g
          PROVE  ~outbox'[f].recalled /\ (outbox[g].edited \/ outbox[g].recalled)
      <4>1. f # e
        BY <1>1, <1>2, <3>1, <3>4
      <4>2. f \in DOMAIN outbox /\ outbox'[f] = outbox[f]
        BY <1>1, <4>1
      <4>3. QED BY <3>1, <3>4, <4>2 DEF StoryOK, EventsInOrder
    <3>5. QED BY <3>1, <3>2, <3>3, <3>4
  <2>3. QED BY <2>1, <2>2
<1>7. LatestTextTellsTheRow'
  <2> SUFFICES ASSUME NEW n \in Messages, messages'[n].content > 0
               PROVE  \E g \in DOMAIN outbox' :
                          /\ Texted(g, n)'
                          /\ outbox'[g].content = messages'[n].content
                          /\ \A f \in DOMAIN outbox' : Texted(f, n)' => f <= g
    BY DEF LatestTextTellsTheRow
  <2>1. CASE n = m /\ ~payload.recalled
    <3>1. \A f \in DOMAIN outbox' : Texted(f, n)' => f <= e
      BY <1>1, <1>2, <2>1 DEF Texted
    <3>2. Texted(e, n)' /\ outbox'[e].content = messages'[n].content
      BY <1>1, <1>3, <2>1 DEF Texted
    <3>3. QED BY <1>1, <3>1, <3>2
  <2>2. CASE n # m \/ payload.recalled
    <3>1. messages[n].content > 0 /\ messages'[n].content = messages[n].content
      BY <1>3, <2>2
    <3>2. PICK g \in DOMAIN outbox : /\ Texted(g, n)
                                     /\ outbox[g].content = messages[n].content
                                     /\ \A f \in DOMAIN outbox : Texted(f, n) => f <= g
      BY <3>1 DEF StoryOK, LatestTextTellsTheRow
    <3>3. ASSUME NEW f \in DOMAIN outbox', Texted(f, n)' PROVE f <= g
      <4>1. f # e
        BY <1>1, <2>2, <3>3 DEF Texted
      <4>2. f \in DOMAIN outbox /\ Texted(f, n)
        BY <1>1, <3>3, <4>1 DEF Texted
      <4>3. QED BY <3>2, <4>2
    <3>4. Texted(g, n)' /\ outbox'[g].content = messages'[n].content
      BY <1>1, <3>1, <3>2 DEF Texted
    <3>5. QED BY <1>1, <3>3, <3>4
  <2>3. QED BY <2>1, <2>2
<1>8. QED BY <1>5, <1>6, <1>7 DEF StoryOK

LEMMA StoryStep ==
    ASSUME StoreTypeOK, StoryOK, StoreNext
    PROVE  StoryOK' /\ OutboxKept
<1> USE StoreAssumption DEF StoreAssumption
<1> PICK m \in Messages : \/ SaveAndEnqueue(m)
                          \/ Edit(m)
                          \/ Recall(m)
                          \/ RecallWindowCloses(m)
  BY DEF StoreNext
<1>1. CASE SaveAndEnqueue(m)
  <2> DEFINE row == [content |-> 1, recalled |-> FALSE, recallable |-> TRUE]
  <2>1. row \in Row /\ row.content > 0
    BY DEF Row, Texts
  <2> DEFINE payload == NewMessageCreatedEvent(m, row)
  <2>2. payload \in Payload
    BY <2>1 DEF NewMessageCreatedEvent, Payload, Edited, Row, Texts
  <2>3. Enqueue(payload) /\ messages' = [messages EXCEPT ![m] = row]
    BY <1>1 DEF SaveAndEnqueue
  <2>4. messages[m].content = 0 /\ payload.msg = m /\ ~payload.recalled /\ payload.content = row.content
    BY <1>1 DEF SaveAndEnqueue, NewMessageCreatedEvent
  <2> HIDE DEF row, payload
  <2>5. QED BY <2>1, <2>2, <2>3, <2>4, TransactionKeepsStory
<1>2. CASE Edit(m)
  <2> DEFINE row == [messages[m] EXCEPT !.content = @ + 1]
  <2>1. row \in Row /\ row.content = messages[m].content + 1 /\ messages[m].content \in 1..MaxEdits
    BY <1>2 DEF Edit, Row, Texts, StoreTypeOK
  <2> DEFINE payload == NewMessageCreatedEvent(m, row)
  <2>2. payload \in Payload /\ payload.edited
    <3> HIDE DEF row
    <3>1. row.content \in Texts /\ Edited(row.content)
      BY <2>1 DEF Row, Edited
    <3>2. QED BY <3>1 DEF NewMessageCreatedEvent, Payload, Edited
  <2>3. Enqueue(payload) /\ messages' = [messages EXCEPT ![m] = row] /\ ~messages[m].recalled
    BY <1>2 DEF Edit
  <2>4. payload.msg = m /\ ~payload.recalled /\ payload.content = row.content
    BY DEF NewMessageCreatedEvent
  <2> HIDE DEF row, payload
  <2>5. row.content > 0
    BY <2>1
  <2>6. QED BY <2>1, <2>2, <2>3, <2>4, <2>5, TransactionKeepsStory
<1>3. CASE Recall(m)
  <2> DEFINE row == [messages[m] EXCEPT !.recalled = TRUE]
  <2>1. row \in Row /\ row.content = messages[m].content /\ row.recalled
    BY DEF Row, StoreTypeOK
  <2> DEFINE payload == NewMessageRecalledEvent(m, row)
  <2>2. payload \in Payload
    BY <2>1 DEF NewMessageRecalledEvent, Payload, Edited, Row, Texts
  <2>3. /\ Enqueue(payload) /\ messages' = [messages EXCEPT ![m] = row]
        /\ ~messages[m].recalled /\ messages[m].content > 0
    BY <1>3 DEF Recall
  <2>4. payload.msg = m /\ payload.recalled
    BY DEF NewMessageRecalledEvent
  <2> HIDE DEF row, payload
  <2>5. QED BY <2>1, <2>2, <2>3, <2>4, TransactionKeepsStory
<1>4. CASE RecallWindowCloses(m)
  <2>1. \A n \in Messages : /\ messages'[n].content = messages[n].content
                            /\ messages'[n].recalled = messages[n].recalled
    BY <1>4 DEF RecallWindowCloses, StoreTypeOK, Row
  <2>2. outbox' = outbox
    BY <1>4 DEF RecallWindowCloses
  <2>3. \A e \in DOMAIN outbox : outbox[e].msg \in Messages
    BY DEF StoreTypeOK, Payload
  <2>4. QED BY <2>1, <2>2, <2>3
            DEF StoryOK, EventsInOrder, LatestTextTellsTheRow, Texted, OutboxKept
<1>5. QED BY <1>1, <1>2, <1>3, <1>4

LEMMA StoryInit ==
    ASSUME StoreInit
    PROVE  StoryOK
BY DEF StoreInit, StoryOK, EventsInOrder, LatestTextTellsTheRow
=============================================================================
