---------------------------- MODULE MessageStore ----------------------------
(***************************************************************************)
(* The messages and outbox_events tables, and the three transactions of    *)
(* the message repository that write both: SaveAndEnqueue, Edit, Recall.   *)
(*                                                                         *)
(* Each transaction is one step: it first writes (and so locks) its        *)
(* message row and then inserts its outbox row, so two transactions on the *)
(* same message are ordered, while those on different messages may commit  *)
(* in either order of their auto-increment ids.  Authorship is not         *)
(* modelled: a request of anybody but the author changes nothing.          *)
(***************************************************************************)
EXTENDS Naturals

CONSTANTS
    Messages,     \* the messages clients may send
    TextMessages, \* those of content_type "text", the only ones Edit accepts
    MaxEvents,    \* bound: outbox ids
    MaxEdits      \* bound: edits of one message

ASSUME StoreAssumption ==
    /\ TextMessages \subseteq Messages
    /\ MaxEvents \in Nat
    /\ MaxEdits \in Nat

VARIABLES
    messages, \* messages[m]: the row of m
    outbox    \* outbox[e]: the payload of the committed outbox row e

storeVars == <<messages, outbox>>

EventIds == 1..MaxEvents

\* A text is the number of its revision.  0: no row yet, or no text published.
Texts == 0..(MaxEdits + 1)

Row == [content    : Texts,
        recalled   : BOOLEAN,  \* recalled_at is set
        recallable : BOOLEAN]  \* created_at is within recallWindow

Edited(text) == text > 1 \* edited_at is set

(***************************************************************************)
(* What a published event says of its message.                             *)
(***************************************************************************)
Payload == [msg : Messages, content : Texts, edited : BOOLEAN, recalled : BOOLEAN]

NewMessageCreatedEvent(m, row) ==
    [msg |-> m, content |-> row.content, edited |-> Edited(row.content), recalled |-> FALSE]

\* A recall drops the text and keeps the edit mark.
NewMessageRecalledEvent(m, row) ==
    [msg |-> m, content |-> 0, edited |-> Edited(row.content), recalled |-> TRUE]

-----------------------------------------------------------------------------

StoreInit ==
    /\ messages = [m \in Messages |-> [content |-> 0, recalled |-> FALSE, recallable |-> FALSE]]
    /\ outbox = [e \in {} |-> {}]

\* The INSERT INTO outbox_events that ends each of the three transactions.
Enqueue(payload) ==
    \E e \in EventIds \ DOMAIN outbox :
        /\ \A f \in DOMAIN outbox : outbox[f].msg = payload.msg => f < e
        /\ outbox' = [f \in DOMAIN outbox \cup {e} |-> IF f = e THEN payload ELSE outbox[f]]

SaveAndEnqueue(m) ==
    /\ messages[m].content = 0
    /\ LET row == [content |-> 1, recalled |-> FALSE, recallable |-> TRUE]
       IN  /\ messages' = [messages EXCEPT ![m] = row]
           /\ Enqueue(NewMessageCreatedEvent(m, row))

\* Mutant: a recalled message may still be edited.
EditRecalledToo(m) ==
    /\ m \in TextMessages
    /\ messages[m].content \in 1..MaxEdits
    /\ LET row == [messages[m] EXCEPT !.content = @ + 1]
       IN  /\ messages' = [messages EXCEPT ![m] = row]
           /\ Enqueue(NewMessageCreatedEvent(m, row))

Edit(m) ==
    /\ m \in TextMessages
    /\ messages[m].content \in 1..MaxEdits
    /\ ~messages[m].recalled
    /\ LET row == [messages[m] EXCEPT !.content = @ + 1]
       IN  /\ messages' = [messages EXCEPT ![m] = row]
           /\ Enqueue(NewMessageCreatedEvent(m, row))

Recall(m) ==
    /\ messages[m].content > 0
    /\ messages[m].recallable
    /\ ~messages[m].recalled
    /\ LET row == [messages[m] EXCEPT !.recalled = TRUE]
       IN  /\ messages' = [messages EXCEPT ![m] = row]
           /\ Enqueue(NewMessageRecalledEvent(m, row))

\* The two minutes of recallWindow run out.
RecallWindowCloses(m) ==
    /\ messages[m].recallable
    /\ messages' = [messages EXCEPT ![m].recallable = FALSE]
    /\ UNCHANGED outbox

StoreNext ==
    \E m \in Messages :
        \/ SaveAndEnqueue(m)
        \/ Edit(m)
        \/ Recall(m)
        \/ RecallWindowCloses(m)

-----------------------------------------------------------------------------

StoreTypeOK ==
    /\ messages \in [Messages -> Row]
    /\ DOMAIN outbox \subseteq EventIds
    /\ \A e \in DOMAIN outbox : outbox[e] \in Payload

\* The outbox row of m with the greatest id.
IsLatestEvent(e, m) ==
    /\ outbox[e].msg = m
    /\ \A f \in DOMAIN outbox : outbox[f].msg = m => f <= e

(***************************************************************************)
(* A consumer that applied a message's events in the order of their ids    *)
(* would end with the row the table holds: the newest outbox row of every  *)
(* saved message tells its recall state, its edit mark and, unless it is   *)
(* recalled, its text.  (Edit and Recall read the row back under the lock  *)
(* their UPDATE took, in the transaction that inserts the event.)          *)
(***************************************************************************)
LatestEventTellsTheRow ==
    \A m \in Messages : messages[m].content > 0 =>
        \E e \in DOMAIN outbox :
            /\ IsLatestEvent(e, m)
            /\ outbox[e].recalled = messages[m].recalled
            /\ outbox[e].edited = Edited(messages[m].content)
            /\ outbox[e].content = IF messages[m].recalled THEN 0 ELSE messages[m].content
=============================================================================
