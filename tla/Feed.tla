-------------------------------- MODULE Feed --------------------------------
(***************************************************************************)
(* What the outbox promises to the rest of the system, without leases,     *)
(* retries or dispatchers: an event is enqueued together with the change   *)
(* it reports, the broker accepts enqueued events in any order and any     *)
(* number of times, and an event is settled (published_at set, never       *)
(* looked at again) only after the broker has accepted it.                 *)
(***************************************************************************)
EXTENDS MessageStore

VARIABLES
    accepted, \* the events the broker has confirmed at least once
    published \* the events whose published_at is set

feedVars == <<messages, outbox, accepted, published>>

Init ==
    /\ StoreInit
    /\ accepted = {}
    /\ published = {}

Change ==
    /\ StoreNext
    /\ UNCHANGED <<accepted, published>>

Accept(e) ==
    /\ e \in DOMAIN outbox
    /\ accepted' = accepted \cup {e}
    /\ UNCHANGED <<messages, outbox, published>>

Settle(e) ==
    /\ e \in accepted
    /\ published' = published \cup {e}
    /\ UNCHANGED <<messages, outbox, accepted>>

Next ==
    \/ Change
    \/ \E e \in DOMAIN outbox : Accept(e) \/ Settle(e)

Spec == Init /\ [][Next]_feedVars
=============================================================================
