------------------------------- MODULE Outbox -------------------------------
(***************************************************************************)
(* The outbox dispatchers of the server processes: Claim leases a batch of *)
(* rows, each event is published on the process's RabbitMQ channel, and    *)
(* the broker's confirm decides between MarkPublished and MarkFailed.      *)
(*                                                                         *)
(* Time is kept as the seconds that remain: of a lease (locked_until) and  *)
(* of a backoff (available_at).  A process may crash between any two       *)
(* steps, lose its channel (nothing ever reopens it, only a restart of the *)
(* process does) and see any database call fail.                           *)
(***************************************************************************)
EXTENDS MessageStore, FiniteSets, Sequences

CONSTANTS
    Dispatchers, \* one per server process
    BatchSize,   \* batchSize
    LockFor,     \* lockFor, in seconds
    MaxBackoff,  \* the attempts at which retryDelay stops doubling (6 in the code)
    MaxFaults    \* bound: faults of a behaviour

ASSUME OutboxAssumption ==
    /\ BatchSize \in Nat \ {0}
    /\ LockFor \in Nat
    /\ MaxBackoff \in 1..6
    /\ MaxFaults \in Nat

VARIABLES
    published, \* rows with published_at set
    lockLeft,  \* lockLeft[e]: seconds until e's locked_until has passed (0: NULL or passed)
    waitLeft,  \* waitLeft[e]: seconds until e's available_at
    attempts,  \* attempts[e], counted up to MaxBackoff: retryDelay reads no more
    pc,        \* pc[d]: where dispatcher d stands
    batch,     \* batch[d]: the claimed events d has not finished
    seen,      \* seen[d][e]: the attempts d's Claim read in row e
    channel,   \* channel[d]: d's RabbitMQ channel is open
    accepted,  \* the events the broker has confirmed at least once
    late,      \* history: events whose lease ran out while a dispatcher worked on them
    faults     \* how many faults have happened

leaseVars    == <<published, lockLeft, waitLeft, attempts>>
dispatchVars == <<pc, batch, seen>>
vars == <<messages, outbox, leaseVars, dispatchVars, channel, accepted, late, faults>>

States == {"down", "idle", "sending", "sent", "acked", "marking", "failing"}

\* The n smallest ids of a set: ORDER BY id ASC LIMIT n.
FirstOf(S, n) == {e \in S : Cardinality({f \in S : f < e}) < n}

\* The event of the batch that d is working on: the loop follows the ids.
Current(d) == CHOOSE e \in batch[d] : \A f \in batch[d] : e <= f

\* Seconds of backoff: 1 << (n - 1) for n attempts, at least 1 and at most MaxBackoff.
Delays == <<1, 2, 4, 8, 16, 32>>

\* Mutant: the exponent is the attempts, not the attempts less one, and nothing caps it.
UncappedRetryDelay(tries) == Delays[tries + 1]

retryDelay(tries) ==
    IF tries < 1 THEN Delays[1] ELSE IF tries > MaxBackoff THEN Delays[MaxBackoff] ELSE Delays[tries]

Fault == /\ faults < MaxFaults
         /\ faults' = faults + 1

-----------------------------------------------------------------------------

Init ==
    /\ StoreInit
    /\ published = {}
    /\ lockLeft = [e \in EventIds |-> 0]
    /\ waitLeft = [e \in EventIds |-> 0]
    /\ attempts = [e \in EventIds |-> 0]
    /\ pc = [d \in Dispatchers |-> "idle"]
    /\ batch = [d \in Dispatchers |-> {}]
    /\ seen = [d \in Dispatchers |-> [e \in EventIds |-> 0]]
    /\ channel = [d \in Dispatchers |-> TRUE]
    /\ accepted = {}
    /\ late = {}
    /\ faults = 0

Change ==
    /\ StoreNext
    /\ UNCHANGED <<leaseVars, dispatchVars, channel, accepted, late, faults>>

-----------------------------------------------------------------------------
(***************************************************************************)
(* Claim is one transaction; SKIP LOCKED makes concurrent claims disjoint, *)
(* as if one followed the other.                                           *)
(***************************************************************************)
\* Mutants: the lease is not looked at; published rows are taken again; rows are given up.
LeaseBlindEligible == {e \in DOMAIN outbox : e \notin published /\ waitLeft[e] = 0}
PublishedBlindEligible == {e \in DOMAIN outbox : waitLeft[e] = 0 /\ lockLeft[e] = 0}
GivingUpEligible ==
    {e \in DOMAIN outbox :
        e \notin published /\ waitLeft[e] = 0 /\ lockLeft[e] = 0 /\ attempts[e] < MaxBackoff}

Eligible == {e \in DOMAIN outbox : e \notin published /\ waitLeft[e] = 0 /\ lockLeft[e] = 0}

Lease(taken) ==
    /\ taken # {}
    /\ lockLeft' = [e \in EventIds |-> IF e \in taken THEN LockFor + 1 ELSE lockLeft[e]]
    /\ attempts' = [e \in EventIds |->
                       IF e \in taken /\ attempts[e] < MaxBackoff THEN attempts[e] + 1 ELSE attempts[e]]
    /\ UNCHANGED <<published, waitLeft>>

Claim(d) ==
    /\ pc[d] = "idle"
    /\ LET taken == FirstOf(Eligible, BatchSize)
       IN  /\ Lease(taken)
           /\ batch' = [batch EXCEPT ![d] = taken]
           /\ seen' = [seen EXCEPT ![d] = [e \in EventIds |-> IF e \in taken THEN attempts[e] ELSE 0]]
    /\ pc' = [pc EXCEPT ![d] = "sending"]
    /\ UNCHANGED <<messages, outbox, channel, accepted, late, faults>>

\* The claim commits but its reply is an error: DispatchOnce returns, the rows stay leased.
ClaimReplyLost(d) ==
    /\ pc[d] = "idle"
    /\ Lease(FirstOf(Eligible, BatchSize))
    /\ Fault
    /\ UNCHANGED <<messages, outbox, dispatchVars, channel, accepted, late>>

-----------------------------------------------------------------------------
(***************************************************************************)
(* PublishMessageCreated: send, then wait for the confirm.                 *)
(***************************************************************************)
Goto(d, state) == pc' = [pc EXCEPT ![d] = state]

\* Mutant: the error of a publish is dropped.
OptimisticSend(d) ==
    /\ pc[d] = "sending"
    /\ Goto(d, IF channel[d] THEN "sent" ELSE "marking")
    /\ UNCHANGED <<messages, outbox, leaseVars, batch, seen, channel, accepted, late, faults>>

Send(d) ==
    /\ pc[d] = "sending"
    /\ Goto(d, IF channel[d] THEN "sent" ELSE "failing")
    /\ UNCHANGED <<messages, outbox, leaseVars, batch, seen, channel, accepted, late, faults>>

BrokerAcks(d) ==
    /\ pc[d] = "sent"
    /\ accepted' = accepted \cup {Current(d)}
    /\ Goto(d, "acked")
    /\ UNCHANGED <<messages, outbox, leaseVars, batch, seen, channel, late, faults>>

BrokerNacks(d) ==
    /\ pc[d] = "sent"
    /\ Fault
    /\ Goto(d, "failing")
    /\ UNCHANGED <<messages, outbox, leaseVars, batch, seen, channel, accepted, late>>

ReadConfirm(d) ==
    /\ pc[d] = "acked"
    /\ Goto(d, "marking")
    /\ UNCHANGED <<messages, outbox, leaseVars, batch, seen, channel, accepted, late, faults>>

\* The connection closes; a confirm still on its way is lost with it.
ChannelLost(d) ==
    /\ pc[d] # "down"
    /\ channel[d]
    /\ Fault
    /\ channel' = [channel EXCEPT ![d] = FALSE]
    /\ IF pc[d] \in {"sent", "acked"} THEN Goto(d, "failing") ELSE UNCHANGED pc
    /\ UNCHANGED <<messages, outbox, leaseVars, batch, seen, accepted, late>>

-----------------------------------------------------------------------------
\* d is done with its current event and turns to the next of its batch.
Advance(d) ==
    LET e == Current(d)
        rest == batch[d] \ {e}
    IN  /\ batch' = [batch EXCEPT ![d] = rest]
        /\ seen' = [seen EXCEPT ![d][e] = 0]
        /\ Goto(d, IF rest = {} THEN "idle" ELSE "sending")

\* Mutant: one confirm marks the whole batch.
MarkBatchPublished(d) ==
    /\ pc[d] = "marking"
    /\ published' = published \cup batch[d]
    /\ lockLeft' = [e \in EventIds |-> IF e \in batch[d] THEN 0 ELSE lockLeft[e]]
    /\ Advance(d)
    /\ UNCHANGED <<messages, outbox, waitLeft, attempts, channel, accepted, late, faults>>

MarkPublished(d) ==
    /\ pc[d] = "marking"
    /\ published' = published \cup {Current(d)}
    /\ lockLeft' = [lockLeft EXCEPT ![Current(d)] = 0]
    /\ Advance(d)
    /\ UNCHANGED <<messages, outbox, waitLeft, attempts, channel, accepted, late, faults>>

\* WHERE id = ? alone: neither mark asks whether d still holds the lease.
MarkFailed(d) ==
    /\ pc[d] = "failing"
    /\ lockLeft' = [lockLeft EXCEPT ![Current(d)] = 0]
    /\ waitLeft' = [waitLeft EXCEPT ![Current(d)] = retryDelay(seen[d][Current(d)])]
    /\ Advance(d)
    /\ UNCHANGED <<messages, outbox, published, attempts, channel, accepted, late, faults>>

\* The UPDATE fails: the error is logged or dropped and the row keeps its lease.
MarkErrs(d) ==
    /\ pc[d] \in {"marking", "failing"}
    /\ Fault
    /\ Advance(d)
    /\ UNCHANGED <<messages, outbox, leaseVars, channel, accepted, late>>

-----------------------------------------------------------------------------
Crash(d) ==
    /\ pc[d] # "down"
    /\ Fault
    /\ Goto(d, "down")
    /\ batch' = [batch EXCEPT ![d] = {}]
    /\ seen' = [seen EXCEPT ![d] = [e \in EventIds |-> 0]]
    /\ channel' = [channel EXCEPT ![d] = FALSE]
    /\ UNCHANGED <<messages, outbox, leaseVars, accepted, late>>

Restart(d) ==
    /\ pc[d] = "down"
    /\ Goto(d, "idle")
    /\ channel' = [channel EXCEPT ![d] = TRUE]
    /\ UNCHANGED <<messages, outbox, leaseVars, batch, seen, accepted, late, faults>>

Held(e) == \E d \in Dispatchers : e \in batch[d]

\* A second passes.
Tick ==
    /\ \E e \in EventIds : lockLeft[e] > 0 \/ waitLeft[e] > 0
    /\ lockLeft' = [e \in EventIds |-> IF lockLeft[e] > 0 THEN lockLeft[e] - 1 ELSE 0]
    /\ waitLeft' = [e \in EventIds |-> IF waitLeft[e] > 0 THEN waitLeft[e] - 1 ELSE 0]
    /\ late' = late \cup {e \in EventIds : lockLeft[e] = 1 /\ Held(e)}
    /\ UNCHANGED <<messages, outbox, published, attempts, dispatchVars, channel, accepted, faults>>

-----------------------------------------------------------------------------
Step(d) ==
    \/ Claim(d) \/ Send(d) \/ BrokerAcks(d) \/ ReadConfirm(d)
    \/ MarkPublished(d) \/ MarkFailed(d) \/ Restart(d)

Failure(d) ==
    \/ ClaimReplyLost(d) \/ BrokerNacks(d) \/ ChannelLost(d) \/ MarkErrs(d) \/ Crash(d)

Next ==
    \/ Change
    \/ Tick
    \/ \E d \in Dispatchers : Step(d) \/ Failure(d)

Spec == Init /\ [][Next]_vars

(***************************************************************************)
(* Run polls on a ticker until the process ends, the broker answers while  *)
(* the connection lasts, time passes, and a crashed process is started     *)
(* again.  Clients and faults owe nothing.                                 *)
(***************************************************************************)
FairSpec == Spec /\ WF_vars(Tick) /\ \A d \in Dispatchers : WF_vars(Step(d))

-----------------------------------------------------------------------------
TypeOK ==
    /\ StoreTypeOK
    /\ published \subseteq EventIds
    /\ lockLeft \in [EventIds -> 0..(LockFor + 1)]
    /\ waitLeft \in [EventIds -> 0..Delays[MaxBackoff]]
    /\ attempts \in [EventIds -> 0..MaxBackoff]
    /\ pc \in [Dispatchers -> States]
    /\ batch \in [Dispatchers -> SUBSET EventIds]
    /\ seen \in [Dispatchers -> [EventIds -> 0..MaxBackoff]]
    /\ channel \in [Dispatchers -> BOOLEAN]
    /\ accepted \subseteq EventIds
    /\ late \subseteq EventIds
    /\ faults \in 0..MaxFaults

(***************************************************************************)
(* No event is lost between MySQL and RabbitMQ: a row is marked published  *)
(* only if the broker confirmed that very event, whatever the interleaving *)
(* of dispatchers, lost confirms, failed marks and crashes.                *)
(***************************************************************************)
PublishedWasAccepted == published \subseteq accepted

(***************************************************************************)
(* What the lease buys: as long as no holder of an event overran its       *)
(* lease, one dispatcher at most works on the event, and none works on it  *)
(* once it is published.                                                   *)
(***************************************************************************)
ExclusiveUnlessLate ==
    \A e \in EventIds \ late :
        /\ \A c, d \in Dispatchers : e \in batch[c] /\ e \in batch[d] => c = d
        /\ Held(e) => e \notin published

(***************************************************************************)
(* At-least-once turns into a duplicate only for a reason: an event the    *)
(* broker already has is waiting to be sent again only if its lease was    *)
(* overrun or something failed.                                            *)
(***************************************************************************)
Confirmed(d, e) == e = Current(d) /\ pc[d] \in {"acked", "marking"}

DuplicatesHaveACause ==
    \A d \in Dispatchers : \A e \in batch[d] \cap accepted :
        Confirmed(d, e) \/ e \in late \/ faults > 0

(***************************************************************************)
(* The outbox implements the feed: every dispatcher step is a step of the  *)
(* feed or leaves it alone.                                                *)
(***************************************************************************)
TheFeed == INSTANCE Feed

FeedSpec == TheFeed!Spec

(***************************************************************************)
(* Every enqueued event is published in the end, unless a process is left  *)
(* with a dead channel: a crash, an error or an overrun lease delays an    *)
(* event but cannot strand it.                                             *)
(***************************************************************************)
EventuallyPublished ==
    (\A d \in Dispatchers : <>[]channel[d]) =>
        \A e \in EventIds : e \in DOMAIN outbox ~> e \in published
=============================================================================
