----------------------------- MODULE SearchIndex -----------------------------
(***************************************************************************)
(* From the outbox to a search: every process consumes one shared, durable *)
(* queue of the exchange and writes what it gets to Elasticsearch, one     *)
(* document per message.                                                   *)
(*                                                                         *)
(* The consumers of the processes run side by side and a failed event goes *)
(* back to the queue, so the waiting events are applied in any order.  A   *)
(* document is written whole and unconditionally: the last write stands.   *)
(* Not modelled: the words of a query, the order and the page size of a    *)
(* search, searches in a group, events that do not parse.                  *)
(***************************************************************************)
EXTENDS Outbox

CONSTANTS
    Users,       \* those who search
    Sender,      \* Sender[m]: from_user_id
    Receiver,    \* Receiver[m]: to_user_id
    NoUser       \* no peer is given

ASSUME SearchAssumption ==
    /\ Sender \in [Messages -> Users]
    /\ Receiver \in [Messages -> Users]
    /\ NoUser \notin Users

VARIABLES
    indexQueue, \* indexQueue[e]: the copies of event e that wait or are being handled
    index,      \* index[m]: the text of m's document, 0 if there is none
    written,    \* history: written[m]: the greatest event of m that was written
    disordered  \* history: the messages an older event of which was written after a newer one

searchVars == <<indexQueue, index, written, disordered>>
allVars == <<vars, searchVars>>

SearchInit ==
    /\ Init
    /\ indexQueue = [e \in EventIds |-> 0]
    /\ index = [m \in Messages |-> 0]
    /\ written = [m \in Messages |-> 0]
    /\ disordered = {}

\* The exchange copies what it accepts to the index queue.
BrokerRoutes(d) ==
    /\ BrokerAcks(d)
    /\ indexQueue' = [indexQueue EXCEPT ![Current(d)] = @ + 1]
    /\ UNCHANGED <<index, written, disordered>>

-----------------------------------------------------------------------------
(***************************************************************************)
(* The index consumer's handler.                                           *)
(***************************************************************************)
\* PUT under the message's id, whatever the document held.
IndexMessage(e) ==
    LET m == outbox[e].msg
    IN  /\ index' = [index EXCEPT ![m] = outbox[e].content]
        /\ written' = [written EXCEPT ![m] = IF e > @ THEN e ELSE @]
        /\ disordered' = IF e < written[m] THEN disordered \cup {m} ELSE disordered

Acked(e) == indexQueue' = [indexQueue EXCEPT ![e] = @ - 1]

\* Mutant: an edit is taken for a recall and skipped.
HandleUnedited(e) ==
    /\ indexQueue[e] > 0
    /\ Acked(e)
    /\ IF outbox[e].edited THEN UNCHANGED <<index, written, disordered>> ELSE IndexMessage(e)
    /\ UNCHANGED vars

\* A recall leaves the document as it is.
Handle(e) ==
    /\ indexQueue[e] > 0
    /\ Acked(e)
    /\ IF outbox[e].recalled THEN UNCHANGED <<index, written, disordered>> ELSE IndexMessage(e)
    /\ UNCHANGED vars

\* Mutant: a failed event is dropped.
HandleDrops(e) ==
    /\ indexQueue[e] > 0
    /\ ~outbox[e].recalled
    /\ Fault
    /\ Acked(e)
    /\ UNCHANGED <<index, written, disordered>>
    /\ UNCHANGED <<messages, outbox, leaseVars, dispatchVars, channel, accepted, late>>

\* The write fails, or its answer is lost, or the process dies before the ack: the event
\* comes back to the queue.
HandleFails(e) ==
    /\ indexQueue[e] > 0
    /\ ~outbox[e].recalled
    /\ Fault
    /\ IndexMessage(e) \/ UNCHANGED <<index, written, disordered>>
    /\ UNCHANGED indexQueue
    /\ UNCHANGED <<messages, outbox, leaseVars, dispatchVars, channel, accepted, late>>

-----------------------------------------------------------------------------
(***************************************************************************)
(* A search: the documents that name the user as sender or receiver, of    *)
(* one conversation of his or of all.                                      *)
(***************************************************************************)
SearchMessages(user, peer) ==
    {m \in Messages :
        /\ index[m] # 0
        /\ user \in {Sender[m], Receiver[m]}
        /\ peer # NoUser => {Sender[m], Receiver[m]} = {user, peer}}

-----------------------------------------------------------------------------
Quietly(A) == A /\ UNCHANGED searchVars

Work(d) ==
    Quietly(Claim(d) \/ Send(d) \/ ReadConfirm(d) \/ MarkPublished(d) \/ MarkFailed(d) \/ Restart(d))
    \/ BrokerRoutes(d)

SearchNext ==
    \/ Quietly(Change \/ Tick)
    \/ \E d \in Dispatchers : Work(d) \/ Quietly(Failure(d))
    \/ \E e \in EventIds : Handle(e) \/ HandleFails(e)

SearchSpec == SearchInit /\ [][SearchNext]_allVars

\* As for the outbox; and some consumer goes on with the index queue.
FairSearchSpec ==
    /\ SearchSpec
    /\ WF_allVars(Quietly(Tick))
    /\ \A d \in Dispatchers : WF_allVars(Work(d))
    /\ WF_allVars(\E e \in EventIds : Handle(e))

-----------------------------------------------------------------------------
\* All that was enqueued about m has been through the index queue.
Settled(m) ==
    \A e \in DOMAIN outbox : outbox[e].msg = m => e \in accepted /\ indexQueue[e] = 0

(***************************************************************************)
(* Once everything about a message has been consumed, its document holds   *)
(* the text of its row, failures and duplicates notwithstanding, unless an *)
(* older event was written after a newer one: nothing in a document tells  *)
(* which of two writes is the newer.  A recalled message keeps its last    *)
(* text, and a search still finds it.                                      *)
(***************************************************************************)
IndexTellsTheRow ==
    \A m \in Messages : Settled(m) /\ m \notin disordered => index[m] = messages[m].content

(***************************************************************************)
(* Whoever takes part in a conversation, and nobody else, finds its        *)
(* messages by searching in it or in all of his, some time after they were *)
(* saved: through dispatcher, broker and index consumer, any of which may  *)
(* fail on the way.                                                        *)
(***************************************************************************)
Finds(user, m) ==
    /\ m \in SearchMessages(user, NoUser)
    /\ \E peer \in Users : m \in SearchMessages(user, peer)

EventuallySearchable ==
    (\A d \in Dispatchers : <>[]channel[d]) =>
        \A m \in Messages : messages[m].content > 0 ~>
            \A user \in Users : user \in {Sender[m], Receiver[m]} <=> Finds(user, m)
=============================================================================
