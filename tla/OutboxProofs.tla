---------------------------- MODULE OutboxProofs ----------------------------
(***************************************************************************)
(* Theorems of the outbox and of the search index behind it, for any       *)
(* number of messages, events, dispatchers and faults: type correctness,   *)
(* no event marked published that the broker never confirmed, what the     *)
(* lease excludes, the causes of duplicates, that the outbox implements    *)
(* the feed, and that a document tells its message's row.                  *)
(***************************************************************************)
EXTENDS SearchIndex, StoreProofs, WellFoundedInduction

-----------------------------------------------------------------------------
(***************************************************************************)
(* Facts about the operators.                                              *)
(***************************************************************************)

\* A non-empty set of naturals has a least element.
LEMMA LeastExists ==
    ASSUME NEW S, S \subseteq Nat, S # {}
    PROVE  \E e \in S : \A f \in S : e <= f
<1> DEFINE R == OpToRel(<, Nat)
<1>1. \A x, y \in Nat : x < y => <<x, y>> \in R
  BY DEF OpToRel
<1>2. PICK x \in S : \A y \in S : ~ (<<y, x>> \in R)
  <2>1. IsWellFoundedOn(R, Nat)
    BY NatLessThanWellFounded
  <2> HIDE DEF R
  <2>2. QED BY <2>1, WFMin
<1>3. ASSUME NEW f \in S PROVE x <= f
  <2>1. x \in Nat /\ f \in Nat
    OBVIOUS
  <2>2. ~ (f < x)
    <3> HIDE DEF R
    <3> QED BY <1>1, <1>2, <2>1
  <2>3. QED BY <2>1, <2>2
<1>4. QED BY <1>3

\* The backoff stays within what MaxBackoff attempts earn.
LEMMA RetryDelayBound ==
    ASSUME NEW tries \in Nat
    PROVE  retryDelay(tries) \in 0..Delays[MaxBackoff]
<1>1. MaxBackoff \in {1, 2, 3, 4, 5, 6}
  BY OutboxAssumption DEF OutboxAssumption
<1>2. CASE tries < 1 \/ tries > MaxBackoff
  BY <1>1, <1>2 DEF retryDelay, Delays
<1>3. CASE tries \in 1..MaxBackoff
  <2>1. tries \in {1, 2, 3, 4, 5, 6} /\ tries <= MaxBackoff
    BY <1>1, <1>3
  <2>2. retryDelay(tries) = Delays[tries]
    BY <1>1, <1>3 DEF retryDelay
  <2>3. QED BY <1>1, <2>1, <2>2 DEF Delays
<1>4. QED BY <1>1, <1>2, <1>3

-----------------------------------------------------------------------------
(***************************************************************************)
(* Type correctness.  The types alone are not inductive: BrokerAcks puts   *)
(* Current(d) among the accepted events, which is an event only because a  *)
(* dispatcher past Claim has a batch of committed outbox rows that is not  *)
(* empty.                                                                  *)
(***************************************************************************)
Working == {"sending", "sent", "acked", "marking", "failing"}

BatchOK ==
    \A d \in Dispatchers :
        /\ batch[d] \subseteq DOMAIN outbox
        /\ pc[d] \in Working => batch[d] # {}

TypeInv == TypeOK /\ BatchOK

LEMMA CurrentInBatch ==
    ASSUME TypeInv, NEW d \in Dispatchers, pc[d] \in Working
    PROVE  Current(d) \in batch[d] /\ Current(d) \in EventIds /\ Current(d) \in DOMAIN outbox
<1>1. batch[d] \subseteq EventIds /\ batch[d] # {} /\ batch[d] \subseteq DOMAIN outbox
  BY DEF TypeInv, TypeOK, BatchOK
<1>2. batch[d] \subseteq Nat
  BY <1>1, StoreAssumption DEF StoreAssumption, EventIds
<1>3. Current(d) \in batch[d]
  BY <1>1, <1>2, LeastExists DEF Current
<1>4. QED BY <1>1, <1>3

\* Advance leaves a smaller batch, and an idle dispatcher when nothing is left.
LEMMA AdvanceKeeps ==
    ASSUME TypeInv, NEW d \in Dispatchers, pc[d] \in Working, Advance(d)
    PROVE  /\ batch' = [batch EXCEPT ![d] = batch[d] \ {Current(d)}]
           /\ batch' \in [Dispatchers -> SUBSET EventIds]
           /\ seen' \in [Dispatchers -> [EventIds -> 0..MaxBackoff]]
           /\ pc' \in [Dispatchers -> States]
           /\ \A c \in Dispatchers : pc'[c] \in Working => batch'[c] # {}
           /\ \A c \in Dispatchers : batch'[c] \subseteq batch[c]
           /\ pc' = [pc EXCEPT ![d] = IF batch'[d] = {} THEN "idle" ELSE "sending"]
<1>1. Current(d) \in EventIds
  BY CurrentInBatch
<1>2. 0 \in 0..MaxBackoff
  BY OutboxAssumption DEF OutboxAssumption
<1>3. batch' = [batch EXCEPT ![d] = batch[d] \ {Current(d)}]
  BY DEF Advance
<1>4. batch' \in [Dispatchers -> SUBSET EventIds] /\ \A c \in Dispatchers : batch'[c] \subseteq batch[c]
  BY <1>3 DEF TypeInv, TypeOK
<1>5. seen' \in [Dispatchers -> [EventIds -> 0..MaxBackoff]]
  BY <1>1, <1>2 DEF Advance, TypeInv, TypeOK
<1>6. pc' = [pc EXCEPT ![d] = IF batch'[d] = {} THEN "idle" ELSE "sending"]
  BY <1>3 DEF Advance, Goto, TypeInv, TypeOK
<1>7. pc' \in [Dispatchers -> States]
  BY <1>6 DEF TypeInv, TypeOK, States
<1>8. ASSUME NEW c \in Dispatchers, pc'[c] \in Working PROVE batch'[c] # {}
  <2>1. CASE c = d
    BY <1>6, <1>8, <2>1 DEF Working, TypeInv, TypeOK
  <2>2. CASE c # d
    BY <1>3, <1>6, <1>8, <2>2 DEF TypeInv, TypeOK, BatchOK
  <2>3. QED BY <2>1, <2>2
<1>9. QED BY <1>3, <1>4, <1>5, <1>6, <1>7, <1>8

LEMMA LeaseKeeps ==
    ASSUME TypeOK, NEW taken, taken \subseteq EventIds, Lease(taken)
    PROVE  /\ lockLeft' \in [EventIds -> 0..(LockFor + 1)]
           /\ attempts' \in [EventIds -> 0..MaxBackoff]
           /\ published' = published
           /\ waitLeft' = waitLeft
<1>1. LockFor + 1 \in 0..(LockFor + 1) /\ MaxBackoff \in Nat
  BY OutboxAssumption DEF OutboxAssumption
<1>2. QED BY <1>1 DEF Lease, TypeOK

LEMMA EligibleIsCommitted ==
    FirstOf(Eligible, BatchSize) \subseteq DOMAIN outbox
BY DEF FirstOf, Eligible

\* TypeInv at the start: no row, no batch.
LEMMA TypeInvInit == Init => TypeInv
<1> SUFFICES ASSUME Init PROVE TypeInv
  OBVIOUS
<1>1. /\ 0 \in 0..(LockFor + 1) /\ 0 \in 0..MaxBackoff /\ 0 \in 0..MaxFaults
      /\ 0 \in 0..Delays[MaxBackoff]
  BY OutboxAssumption DEF OutboxAssumption, Delays
<1>2. StoreTypeOK
  BY StoreAssumption DEF Init, StoreInit, StoreTypeOK, Row, Texts, StoreAssumption
<1>3. TypeOK
  BY <1>1, <1>2 DEF Init, TypeOK, States
<1>4. BatchOK
  BY DEF Init, BatchOK, Working
<1>5. QED BY <1>3, <1>4 DEF TypeInv

\* Every step of a dispatcher, the store or the clock keeps the types and the batches.
LEMMA TypeInvStep == TypeInv /\ [Next]_vars => TypeInv'
<1> SUFFICES ASSUME TypeInv, [Next]_vars PROVE TypeInv'
  OBVIOUS
<1> USE DEF TypeInv
<1>1. ASSUME Fault PROVE faults' \in 0..MaxFaults
  BY <1>1, OutboxAssumption DEF Fault, TypeOK, OutboxAssumption
<1>2. CASE Change
  <2>1. StoreTypeOK' /\ DOMAIN outbox \subseteq DOMAIN outbox'
    BY <1>2, StoreStep DEF Change, TypeOK
  <2>2. QED BY <1>2, <2>1 DEF Change, leaseVars, dispatchVars, TypeOK, BatchOK
<1>3. CASE Tick
  <2>1. /\ lockLeft' \in [EventIds -> 0..(LockFor + 1)]
        /\ waitLeft' \in [EventIds -> 0..Delays[MaxBackoff]]
    <3>1. Delays[MaxBackoff] \in Nat /\ LockFor + 1 \in Nat
      BY OutboxAssumption DEF OutboxAssumption, Delays
    <3>2. QED BY <1>3, <3>1 DEF Tick, TypeOK
  <2>2. late' \subseteq EventIds
    BY <1>3 DEF Tick, TypeOK
  <2>3. QED BY <1>3, <2>1, <2>2 DEF Tick, dispatchVars, TypeOK, StoreTypeOK, BatchOK
<1>4. CASE \E d \in Dispatchers : Step(d) \/ Failure(d)
  <2> PICK d \in Dispatchers : Step(d) \/ Failure(d)
    BY <1>4
  <2>1. CASE Claim(d)
    <3> DEFINE taken == FirstOf(Eligible, BatchSize)
    <3>1. taken \subseteq DOMAIN outbox /\ taken \subseteq EventIds
      BY EligibleIsCommitted DEF TypeOK, StoreTypeOK
    <3>2. Lease(taken) /\ taken # {} /\ batch' = [batch EXCEPT ![d] = taken]
      BY <2>1 DEF Claim, Lease
    <3>3. seen' \in [Dispatchers -> [EventIds -> 0..MaxBackoff]]
      <4>1. 0 \in 0..MaxBackoff
        BY OutboxAssumption DEF OutboxAssumption
      <4>2. QED BY <2>1, <4>1 DEF Claim, TypeOK
    <3> HIDE DEF taken
    <3>4. TypeOK'
      BY <2>1, <3>1, <3>2, <3>3, LeaseKeeps DEF Claim, TypeOK, StoreTypeOK, States
    <3>5. BatchOK'
      BY <2>1, <3>1, <3>2 DEF Claim, BatchOK, TypeOK
    <3>6. QED BY <3>4, <3>5
  <2>2. CASE ClaimReplyLost(d)
    <3> DEFINE taken == FirstOf(Eligible, BatchSize)
    <3>1. taken \subseteq EventIds /\ Lease(taken) /\ Fault
      BY <2>2, EligibleIsCommitted DEF ClaimReplyLost, TypeOK, StoreTypeOK
    <3> HIDE DEF taken
    <3>2. QED BY <1>1, <2>2, <3>1, LeaseKeeps
          DEF ClaimReplyLost, dispatchVars, TypeOK, StoreTypeOK, BatchOK
  <2>3. CASE Send(d)
    BY <2>3 DEF Send, Goto, leaseVars, TypeOK, StoreTypeOK, BatchOK, States, Working
  <2>4. CASE BrokerAcks(d)
    <3>1. Current(d) \in EventIds
      BY <2>4, CurrentInBatch DEF BrokerAcks, Working
    <3>2. QED BY <2>4, <3>1 DEF BrokerAcks, Goto, leaseVars, TypeOK, StoreTypeOK, BatchOK, States, Working
  <2>5. CASE BrokerNacks(d)
    BY <1>1, <2>5 DEF BrokerNacks, Goto, leaseVars, TypeOK, StoreTypeOK, BatchOK, States, Working
  <2>6. CASE ReadConfirm(d)
    BY <2>6 DEF ReadConfirm, Goto, leaseVars, TypeOK, StoreTypeOK, BatchOK, States, Working
  <2>7. CASE ChannelLost(d)
    BY <1>1, <2>7 DEF ChannelLost, Goto, leaseVars, TypeOK, StoreTypeOK, BatchOK, States, Working
  <2>8. CASE MarkPublished(d)
    <3>1. Current(d) \in EventIds /\ Advance(d) /\ pc[d] \in Working
      BY <2>8, CurrentInBatch DEF MarkPublished, Working
    <3>2. published' \subseteq EventIds /\ lockLeft' \in [EventIds -> 0..(LockFor + 1)]
      BY <2>8, <3>1, OutboxAssumption DEF MarkPublished, TypeOK, OutboxAssumption
    <3>3. QED BY <2>8, <3>1, <3>2, AdvanceKeeps DEF MarkPublished, TypeOK, StoreTypeOK, BatchOK
  <2>9. CASE MarkFailed(d)
    <3>1. Current(d) \in EventIds /\ Advance(d) /\ pc[d] \in Working
      BY <2>9, CurrentInBatch DEF MarkFailed, Working
    <3>2. retryDelay(seen[d][Current(d)]) \in 0..Delays[MaxBackoff]
      <4>1. seen[d][Current(d)] \in Nat
        BY <3>1, OutboxAssumption DEF TypeOK, OutboxAssumption
      <4>2. QED BY <4>1, RetryDelayBound
    <3>3. /\ lockLeft' \in [EventIds -> 0..(LockFor + 1)]
          /\ waitLeft' \in [EventIds -> 0..Delays[MaxBackoff]]
      BY <2>9, <3>1, <3>2, OutboxAssumption DEF MarkFailed, TypeOK, OutboxAssumption
    <3>4. QED BY <2>9, <3>1, <3>3, AdvanceKeeps DEF MarkFailed, TypeOK, StoreTypeOK, BatchOK
  <2>10. CASE MarkErrs(d)
    <3>1. Advance(d) /\ pc[d] \in Working
      BY <2>10 DEF MarkErrs, Working
    <3>2. QED BY <1>1, <2>10, <3>1, AdvanceKeeps DEF MarkErrs, leaseVars, TypeOK, StoreTypeOK, BatchOK
  <2>11. CASE Crash(d)
    <3>1. 0 \in 0..MaxBackoff
      BY OutboxAssumption DEF OutboxAssumption
    <3>2. QED BY <1>1, <2>11, <3>1
          DEF Crash, Goto, leaseVars, TypeOK, StoreTypeOK, BatchOK, States, Working
  <2>12. CASE Restart(d)
    BY <2>12 DEF Restart, Goto, leaseVars, TypeOK, StoreTypeOK, BatchOK, States, Working
  <2>13. QED
    BY <2>1, <2>2, <2>3, <2>4, <2>5, <2>6, <2>7, <2>8, <2>9, <2>10, <2>11, <2>12 DEF Step, Failure
<1>5. CASE UNCHANGED vars
  BY <1>5 DEF vars, leaseVars, dispatchVars, TypeOK, StoreTypeOK, BatchOK
<1>6. QED BY <1>2, <1>3, <1>4, <1>5 DEF Next

(***************************************************************************)
(* Every behaviour of the dispatchers keeps every variable in its type.    *)
(***************************************************************************)
THEOREM TypeCorrect == Spec => []TypeOK
<1>1. Spec => []TypeInv
  BY TypeInvInit, TypeInvStep, PTL DEF Spec
<1>2. QED BY <1>1, PTL DEF TypeInv

(***************************************************************************)
(* However many edits, recalls and windows run out, the newest outbox row  *)
(* of every saved message tells its row.                                   *)
(***************************************************************************)
THEOREM NewestEventTells == Spec => []LatestEventTellsTheRow
<1>1. Init => LatestEventTellsTheRow
  BY StoreInitOK DEF Init
<1>2. TypeInv /\ LatestEventTellsTheRow /\ [Next]_vars => LatestEventTellsTheRow'
  <2> SUFFICES ASSUME TypeInv, LatestEventTellsTheRow, [Next]_vars PROVE LatestEventTellsTheRow'
    OBVIOUS
  <2>1. CASE Change
    BY <2>1, LatestStep DEF Change, TypeInv, TypeOK
  <2>2. CASE ~Change
    <3>1. UNCHANGED <<messages, outbox>>
      BY <2>2 DEF Next, Step, Failure, Tick, Claim, ClaimReplyLost, Send, BrokerAcks, BrokerNacks,
         ReadConfirm, ChannelLost, MarkPublished, MarkFailed, MarkErrs, Crash, Restart, vars
    <3>2. QED BY <3>1 DEF LatestEventTellsTheRow, IsLatestEvent, Edited
  <2>3. QED BY <2>1, <2>2
<1>3. QED BY <1>1, <1>2, TypeInvInit, TypeInvStep, PTL DEF Spec

-----------------------------------------------------------------------------
(***************************************************************************)
(* What keeps the safety invariants true between a confirm and its mark:   *)
(* the confirmed event stays the current one (ConfirmOK); an event whose   *)
(* lease nobody overran has one holder at most, a running lease and no     *)
(* published_at (LeaseOK); and a confirmed event with neither fault nor    *)
(* overrun is published or about to be marked so (CauseOK).                *)
(***************************************************************************)
ConfirmOK ==
    \A d \in Dispatchers : pc[d] \in {"acked", "marking"} => Current(d) \in accepted

LeaseOK ==
    \A e \in EventIds \ late : \A d \in Dispatchers : e \in batch[d] =>
        /\ lockLeft[e] > 0
        /\ e \notin published
        /\ \A c \in Dispatchers : e \in batch[c] => c = d

Accounted(e) ==
    \/ e \in published
    \/ e \in late
    \/ faults > 0
    \/ \E d \in Dispatchers : e \in batch[d] /\ Confirmed(d, e)

CauseOK == \A e \in accepted : Accounted(e)

IndInv == TypeInv /\ PublishedWasAccepted /\ ConfirmOK

LEMMA SameBatchSameCurrent ==
    ASSUME NEW d \in Dispatchers, batch'[d] = batch[d]
    PROVE  Current(d)' = Current(d)
BY DEF Current

\* At the start nothing is published.
LEMMA IndInvInit == Init => IndInv
BY TypeInvInit DEF Init, IndInv, PublishedWasAccepted, ConfirmOK

\* A mark follows a confirm of the same event: what is published stays accepted.
LEMMA IndInvStep == IndInv /\ [Next]_vars => IndInv'
<1> SUFFICES ASSUME IndInv, [Next]_vars PROVE IndInv'
  OBVIOUS
<1>1. TypeInv' /\ TypeInv
  BY TypeInvStep DEF IndInv
<1> USE DEF IndInv, PublishedWasAccepted, ConfirmOK
<1>2. ASSUME UNCHANGED <<published, accepted, pc, batch>> PROVE IndInv'
  BY <1>1, <1>2, SameBatchSameCurrent
<1>3. ASSUME NEW d \in Dispatchers, Step(d) \/ Failure(d) PROVE IndInv'
  <2>1. CASE Claim(d)
    <3>1. /\ pc' = [pc EXCEPT ![d] = "sending"]
          /\ \A c \in Dispatchers \ {d} : batch'[c] = batch[c]
          /\ UNCHANGED <<accepted, published>>
      BY <2>1, <1>1 DEF Claim, Lease, TypeInv, TypeOK
    <3>2. QED BY <1>1, <3>1, SameBatchSameCurrent DEF TypeInv, TypeOK
  <2>2. CASE ClaimReplyLost(d)
    BY <1>2, <2>2 DEF ClaimReplyLost, Lease, dispatchVars
  <2>3. CASE Send(d) \/ BrokerNacks(d) \/ ChannelLost(d)
    <3>1. /\ \A c \in Dispatchers : pc'[c] \in {"acked", "marking"} => pc'[c] = pc[c]
          /\ UNCHANGED <<accepted, published, batch>>
      BY <1>1, <2>3 DEF Send, BrokerNacks, ChannelLost, Goto, leaseVars, TypeInv, TypeOK
    <3>2. QED BY <1>1, <3>1, SameBatchSameCurrent
  <2>4. CASE BrokerAcks(d)
    <3>1. /\ \A c \in Dispatchers \ {d} : pc'[c] = pc[c]
          /\ accepted' = accepted \cup {Current(d)}
          /\ UNCHANGED <<published, batch>>
      BY <1>1, <2>4 DEF BrokerAcks, Goto, leaseVars, TypeInv, TypeOK
    <3>2. QED BY <1>1, <3>1, SameBatchSameCurrent
  <2>5. CASE ReadConfirm(d)
    <3>1. /\ \A c \in Dispatchers : pc'[c] \in {"acked", "marking"} => pc[c] \in {"acked", "marking"}
          /\ UNCHANGED <<accepted, published, batch>>
      BY <1>1, <2>5 DEF ReadConfirm, Goto, leaseVars, TypeInv, TypeOK
    <3>2. QED BY <1>1, <3>1, SameBatchSameCurrent
  <2>6. CASE MarkPublished(d) \/ MarkFailed(d) \/ MarkErrs(d)
    <3>1. Advance(d) /\ pc[d] \in Working
      BY <2>6 DEF MarkPublished, MarkFailed, MarkErrs, Working
    <3>2. /\ \A c \in Dispatchers \ {d} : pc'[c] = pc[c] /\ batch'[c] = batch[c]
          /\ pc'[d] \in {"idle", "sending"}
      BY <1>1, <3>1, AdvanceKeeps DEF TypeInv, TypeOK
    <3>3. accepted' = accepted
      BY <2>6 DEF MarkPublished, MarkFailed, MarkErrs, leaseVars
    <3>4. ConfirmOK'
      BY <3>2, <3>3, SameBatchSameCurrent
    <3>5. CASE MarkPublished(d)
      <4>1. published' = published \cup {Current(d)} /\ Current(d) \in accepted
        BY <3>5 DEF MarkPublished
      <4>2. QED BY <1>1, <3>3, <3>4, <4>1
    <3>6. CASE MarkFailed(d) \/ MarkErrs(d)
      <4>1. published' = published
        BY <3>6 DEF MarkFailed, MarkErrs, leaseVars
      <4>2. QED BY <1>1, <3>3, <3>4, <4>1
    <3>7. QED BY <2>6, <3>5, <3>6
  <2>7. CASE Crash(d) \/ Restart(d)
    <3>1. /\ \A c \in Dispatchers \ {d} : pc'[c] = pc[c] /\ batch'[c] = batch[c]
          /\ pc'[d] \in {"down", "idle"}
          /\ UNCHANGED <<accepted, published>>
      BY <1>1, <2>7 DEF Crash, Restart, Goto, leaseVars, TypeInv, TypeOK
    <3>2. QED BY <1>1, <3>1, SameBatchSameCurrent
  <2>8. QED BY <1>3, <2>1, <2>2, <2>3, <2>4, <2>5, <2>6, <2>7 DEF Step, Failure
<1>4. CASE Change \/ Tick \/ UNCHANGED vars
  BY <1>2, <1>4 DEF Change, Tick, vars, leaseVars, dispatchVars
<1>5. QED BY <1>3, <1>4 DEF Next

(***************************************************************************)
(* No row is ever marked published that the broker did not confirm.        *)
(***************************************************************************)
THEOREM NothingIsLost == Spec => []PublishedWasAccepted
<1>1. Spec => []IndInv
  BY IndInvInit, IndInvStep, PTL DEF Spec
<1>2. QED BY <1>1, PTL DEF IndInv

-----------------------------------------------------------------------------
(***************************************************************************)
(* The lease.  A claim takes rows whose lock has run out: by LeaseOK such  *)
(* a row has a holder only if it is late, and no other event can lose its  *)
(* lease while it is held, since both marks release the marked event only. *)
(***************************************************************************)
LeaseInv == TypeInv /\ LeaseOK

\* The ways in which a step that is neither Claim nor Tick can touch what LeaseOK reads.
LEMMA LeaseFrame ==
    ASSUME LeaseInv, NEW gone \in SUBSET EventIds,
           late' = late,
           \A e \in EventIds \ gone : lockLeft[e] > 0 => lockLeft'[e] > 0,
           \A e \in EventIds \ gone : e \in published' => e \in published,
           \A c \in Dispatchers : batch'[c] \subseteq batch[c],
           \A c \in Dispatchers : \A e \in gone \ late : e \notin batch'[c]
    PROVE  LeaseOK'
<1> SUFFICES ASSUME NEW e \in EventIds \ late, NEW d \in Dispatchers, e \in batch'[d]
             PROVE  /\ lockLeft'[e] > 0
                    /\ e \notin published'
                    /\ \A c \in Dispatchers : e \in batch'[c] => c = d
  BY DEF LeaseOK
<1>1. e \in batch[d] /\ e \notin gone
  OBVIOUS
<1>2. QED BY <1>1 DEF LeaseInv, LeaseOK

\* At the start nobody holds an event.
LEMMA LeaseInvInit == Init => LeaseInv
BY TypeInvInit DEF Init, LeaseInv, LeaseOK

\* Claims, marks, crashes and the clock keep what the lease excludes.
LEMMA LeaseInvStep == LeaseInv /\ [Next]_vars => LeaseInv'
<1> SUFFICES ASSUME LeaseInv, [Next]_vars PROVE LeaseInv'
  OBVIOUS
<1>1. TypeInv /\ TypeInv'
  BY TypeInvStep DEF LeaseInv
<1>2. SUFFICES LeaseOK'
  BY <1>1 DEF LeaseInv
<1>3. ASSUME UNCHANGED <<published, lockLeft, late>>,
             \A c \in Dispatchers : batch'[c] \subseteq batch[c]
      PROVE  LeaseOK'
  BY <1>3 DEF LeaseInv, LeaseOK
<1>4. ASSUME NEW taken, taken = FirstOf(Eligible, BatchSize), Lease(taken), late' = late
      PROVE  \A e \in EventIds \ late :
                /\ e \in taken => /\ \A c \in Dispatchers : e \notin batch[c]
                                  /\ lockLeft'[e] > 0 /\ e \notin published'
                /\ lockLeft[e] > 0 => lockLeft'[e] > 0
                /\ published' = published
  <2>1. \A e \in taken : e \in EventIds /\ lockLeft[e] = 0 /\ e \notin published
    BY <1>1, <1>4 DEF FirstOf, Eligible, TypeInv, TypeOK, StoreTypeOK
  <2>2. LockFor + 1 > 0
    BY OutboxAssumption DEF OutboxAssumption
  <2>3. \A e \in taken \ late : \A c \in Dispatchers : e \notin batch[c]
    BY <2>1 DEF LeaseInv, LeaseOK
  <2>4. QED BY <1>4, <2>1, <2>2, <2>3 DEF Lease
<1>5. CASE Tick
  <2> SUFFICES ASSUME NEW e \in EventIds \ late', NEW d \in Dispatchers, e \in batch'[d]
               PROVE  /\ lockLeft'[e] > 0
                      /\ e \notin published'
                      /\ \A c \in Dispatchers : e \in batch'[c] => c = d
    BY DEF LeaseOK
  <2>1. e \notin late /\ UNCHANGED <<batch, published>>
    BY <1>5 DEF Tick, dispatchVars
  <2>2. lockLeft[e] > 0 /\ e \notin published /\ \A c \in Dispatchers : e \in batch[c] => c = d
    BY <2>1 DEF LeaseInv, LeaseOK
  <2>3. lockLeft[e] # 1
    BY <1>5, <2>1 DEF Tick, Held
  <2>4. lockLeft[e] \in Nat /\ lockLeft'[e] = lockLeft[e] - 1
    BY <1>1, <1>5, <2>2, OutboxAssumption DEF Tick, TypeInv, TypeOK, OutboxAssumption
  <2>5. QED BY <2>1, <2>2, <2>3, <2>4
<1>6. ASSUME NEW d \in Dispatchers, Step(d) \/ Failure(d) PROVE LeaseOK'
  <2>1. CASE Claim(d)
    <3> DEFINE taken == FirstOf(Eligible, BatchSize)
    <3>1. Lease(taken) /\ batch' = [batch EXCEPT ![d] = taken] /\ late' = late
      BY <2>1 DEF Claim
    <3>2. \A c \in Dispatchers : batch'[c] = IF c = d THEN taken ELSE batch[c]
      BY <1>1, <3>1 DEF TypeInv, TypeOK
    <3> HIDE DEF taken
    <3> SUFFICES ASSUME NEW e \in EventIds \ late, NEW b \in Dispatchers, e \in batch'[b]
                 PROVE  /\ lockLeft'[e] > 0
                        /\ e \notin published'
                        /\ \A c \in Dispatchers : e \in batch'[c] => c = b
      BY <3>1 DEF LeaseOK
    <3>3. CASE e \in taken
      BY <1>4, <3>1, <3>2, <3>3 DEF taken
    <3>4. CASE e \notin taken
      <4>1. b # d /\ e \in batch[b]
        BY <3>2, <3>4
      <4>2. lockLeft[e] > 0 /\ e \notin published /\ \A c \in Dispatchers : e \in batch[c] => c = b
        BY <4>1 DEF LeaseInv, LeaseOK
      <4>3. QED BY <1>4, <3>1, <3>2, <3>4, <4>1, <4>2 DEF taken
    <3>5. QED BY <3>3, <3>4
  <2>2. CASE ClaimReplyLost(d)
    <3> DEFINE taken == FirstOf(Eligible, BatchSize)
    <3>1. Lease(taken) /\ UNCHANGED <<batch, late>>
      BY <2>2 DEF ClaimReplyLost, dispatchVars
    <3>2. \A e \in EventIds \ late : lockLeft[e] > 0 => lockLeft'[e] > 0
      BY <1>4, <3>1
    <3>3. published' = published
      BY <3>1 DEF Lease
    <3> HIDE DEF taken
    <3>4. QED BY <3>1, <3>2, <3>3 DEF LeaseInv, LeaseOK
  <2>3. CASE Send(d) \/ BrokerAcks(d) \/ BrokerNacks(d) \/ ReadConfirm(d) \/ ChannelLost(d)
    BY <1>3, <2>3 DEF Send, BrokerAcks, BrokerNacks, ReadConfirm, ChannelLost, leaseVars
  <2>4. CASE MarkPublished(d) \/ MarkFailed(d)
    <3>1. Advance(d) /\ pc[d] \in Working
      BY <2>4 DEF MarkPublished, MarkFailed, Working
    <3>2. Current(d) \in batch[d] /\ Current(d) \in EventIds
      BY <1>1, <3>1, CurrentInBatch
    <3>3. /\ \A c \in Dispatchers : batch'[c] \subseteq batch[c]
          /\ batch' = [batch EXCEPT ![d] = batch[d] \ {Current(d)}]
      BY <1>1, <3>1, AdvanceKeeps
    <3>4. \A c \in Dispatchers : \A e \in {Current(d)} \ late : e \notin batch'[c]
      <4> SUFFICES ASSUME NEW c \in Dispatchers, Current(d) \notin late, Current(d) \in batch'[c]
                   PROVE  FALSE
        OBVIOUS
      <4>1. c # d
        BY <1>1, <3>3 DEF TypeInv, TypeOK
      <4>2. Current(d) \in batch[c]
        BY <3>3
      <4>3. QED BY <3>2, <4>1, <4>2 DEF LeaseInv, LeaseOK
    <3>5. late' = late
      BY <2>4 DEF MarkPublished, MarkFailed
    <3>6. \A e \in EventIds \ {Current(d)} : lockLeft[e] > 0 => lockLeft'[e] > 0
      BY <1>1, <2>4 DEF MarkPublished, MarkFailed, TypeInv, TypeOK
    <3>7. \A e \in EventIds \ {Current(d)} : e \in published' => e \in published
      BY <2>4 DEF MarkPublished, MarkFailed
    <3>8. {Current(d)} \in SUBSET EventIds
      BY <3>2
    <3>9. QED BY <3>3, <3>4, <3>5, <3>6, <3>7, <3>8, LeaseFrame
  <2>5. CASE MarkErrs(d)
    <3>1. Advance(d) /\ pc[d] \in Working
      BY <2>5 DEF MarkErrs, Working
    <3>2. \A c \in Dispatchers : batch'[c] \subseteq batch[c]
      BY <1>1, <3>1, AdvanceKeeps
    <3>3. QED BY <1>3, <2>5, <3>2 DEF MarkErrs, leaseVars
  <2>6. CASE Crash(d) \/ Restart(d)
    <3>1. \A c \in Dispatchers : batch'[c] \subseteq batch[c]
      BY <1>1, <2>6 DEF Crash, Restart, TypeInv, TypeOK
    <3>2. QED BY <1>3, <2>6, <3>1 DEF Crash, Restart, leaseVars
  <2>7. QED BY <1>6, <2>1, <2>2, <2>3, <2>4, <2>5, <2>6 DEF Step, Failure
<1>7. CASE Change \/ UNCHANGED vars
  BY <1>3, <1>7 DEF Change, vars, leaseVars, dispatchVars
<1>8. QED BY <1>5, <1>6, <1>7 DEF Next

(***************************************************************************)
(* Two dispatchers share an event, or work on a published one, only if     *)
(* somebody overran the event's lease.                                     *)
(***************************************************************************)
THEOREM LeaseExcludes == Spec => []ExclusiveUnlessLate
<1>1. Spec => []LeaseInv
  BY LeaseInvInit, LeaseInvStep, PTL DEF Spec
<1>2. LeaseInv => ExclusiveUnlessLate
  BY DEF LeaseInv, LeaseOK, ExclusiveUnlessLate, Held, TypeInv, TypeOK
<1>3. QED BY <1>1, <1>2, PTL

-----------------------------------------------------------------------------
(***************************************************************************)
(* Duplicates.  A claim could hand out a confirmed event only if the event *)
(* were unpublished and unlocked; by CauseOK it would then be late, or     *)
(* held by a dispatcher that is about to mark it, which LeaseOK excludes.  *)
(***************************************************************************)
CauseInv == LeaseInv /\ CauseOK /\ DuplicatesHaveACause

\* At the start the broker has no event.
LEMMA CauseInvInit == Init => CauseInv
BY LeaseInvInit DEF Init, CauseInv, CauseOK, DuplicatesHaveACause

\* Once a fault has happened nothing more is promised.
LEMMA FaultExcuses ==
    ASSUME TypeInv, Fault
    PROVE  CauseOK' /\ DuplicatesHaveACause'
<1>1. faults' > 0
  BY DEF Fault, TypeInv, TypeOK
<1>2. QED BY <1>1 DEF CauseOK, Accounted, DuplicatesHaveACause

\* Every step keeps the causes of duplicates: an accepted event is accounted for.
LEMMA CauseInvStep == CauseInv /\ [Next]_vars => CauseInv'
<1> SUFFICES ASSUME CauseInv, [Next]_vars PROVE CauseInv'
  OBVIOUS
<1>1. TypeInv /\ LeaseInv /\ LeaseInv'
  BY LeaseInvStep DEF CauseInv, LeaseInv
<1>2. SUFFICES CauseOK' /\ DuplicatesHaveACause'
  BY <1>1 DEF CauseInv
<1> USE DEF CauseInv, CauseOK, DuplicatesHaveACause, Accounted, Confirmed
<1>3. ASSUME UNCHANGED <<published, accepted, pc, batch, faults>>, late \subseteq late'
      PROVE  CauseOK' /\ DuplicatesHaveACause'
  BY <1>3, SameBatchSameCurrent
<1>4. ASSUME NEW d \in Dispatchers, Step(d) PROVE CauseOK' /\ DuplicatesHaveACause'
  <2>1. CASE Claim(d)
    <3> DEFINE taken == FirstOf(Eligible, BatchSize)
    <3>1. /\ pc[d] = "idle"
          /\ pc' = [pc EXCEPT ![d] = "sending"]
          /\ batch' = [batch EXCEPT ![d] = taken]
          /\ UNCHANGED <<published, accepted, late, faults>>
      BY <2>1 DEF Claim, Lease
    <3>2. \A e \in taken \cap accepted : e \in late \/ faults > 0
      <4> SUFFICES ASSUME NEW e \in taken \cap accepted, e \notin late, ~(faults > 0)
                   PROVE  FALSE
        OBVIOUS
      <4>1. lockLeft[e] = 0 /\ e \notin published /\ e \in EventIds
        BY <1>1 DEF FirstOf, Eligible, TypeInv, TypeOK, StoreTypeOK
      <4>2. PICK c \in Dispatchers : e \in batch[c]
        BY <4>1
      <4>3. QED BY <1>1, <4>1, <4>2 DEF LeaseInv, LeaseOK
    <3> HIDE DEF taken
    <3>3. \A c \in Dispatchers \ {d} : pc'[c] = pc[c] /\ batch'[c] = batch[c]
      BY <1>1, <3>1 DEF TypeInv, TypeOK
    <3>4. CauseOK'
      BY <3>1, <3>3, SameBatchSameCurrent
    <3>5. DuplicatesHaveACause'
      <4> SUFFICES ASSUME NEW c \in Dispatchers, NEW e \in batch'[c] \cap accepted'
                   PROVE  Confirmed(c, e)' \/ e \in late' \/ faults' > 0
        OBVIOUS
      <4>1. CASE c = d
        BY <1>1, <3>1, <3>2, <4>1 DEF TypeInv, TypeOK
      <4>2. CASE c # d
        BY <3>1, <3>3, <4>2, SameBatchSameCurrent
      <4>3. QED BY <4>1, <4>2
    <3>6. QED BY <3>4, <3>5
  <2>2. CASE Send(d) \/ Restart(d)
    <3>1. /\ \A c \in Dispatchers \ {d} : pc'[c] = pc[c]
          /\ pc[d] \notin {"acked", "marking"}
          /\ UNCHANGED <<published, accepted, batch, late, faults>>
      BY <1>1, <2>2 DEF Send, Restart, Goto, leaseVars, TypeInv, TypeOK
    <3>2. QED BY <3>1, SameBatchSameCurrent
  <2>3. CASE BrokerAcks(d)
    <3>1. /\ \A c \in Dispatchers \ {d} : pc'[c] = pc[c]
          /\ pc[d] = "sent" /\ pc'[d] = "acked"
          /\ accepted' = accepted \cup {Current(d)}
          /\ UNCHANGED <<published, batch, late, faults>>
      BY <1>1, <2>3 DEF BrokerAcks, Goto, leaseVars, TypeInv, TypeOK
    <3>2. Current(d) \in batch[d] /\ Current(d) \in EventIds
      BY <1>1, <3>1, CurrentInBatch DEF Working
    <3>3. CauseOK'
      BY <3>1, <3>2, SameBatchSameCurrent
    <3>4. DuplicatesHaveACause'
      <4> SUFFICES ASSUME NEW c \in Dispatchers, NEW e \in batch'[c] \cap accepted', e \notin late
                   PROVE  Confirmed(c, e)' \/ faults' > 0
        BY <3>1
      <4>1. CASE e = Current(d)
        <5>1. c = d
          BY <1>1, <3>1, <3>2, <4>1 DEF LeaseInv, LeaseOK
        <5>2. QED BY <3>1, <4>1, <5>1, SameBatchSameCurrent
      <4>2. CASE e # Current(d)
        BY <3>1, <4>2, SameBatchSameCurrent
      <4>3. QED BY <4>1, <4>2
    <3>5. QED BY <3>3, <3>4
  <2>4. CASE ReadConfirm(d)
    <3>1. /\ \A c \in Dispatchers \ {d} : pc'[c] = pc[c]
          /\ pc'[d] = "marking"
          /\ UNCHANGED <<published, accepted, batch, late, faults>>
      BY <1>1, <2>4 DEF ReadConfirm, Goto, leaseVars, TypeInv, TypeOK
    <3>2. QED BY <3>1, SameBatchSameCurrent
  <2>5. CASE MarkPublished(d) \/ MarkFailed(d)
    <3>1. Advance(d) /\ pc[d] \in Working /\ UNCHANGED <<accepted, late, faults>>
      BY <2>5 DEF MarkPublished, MarkFailed, Working
    <3>2. /\ batch' = [batch EXCEPT ![d] = batch[d] \ {Current(d)}]
          /\ \A c \in Dispatchers : batch'[c] \subseteq batch[c]
      BY <1>1, <3>1, AdvanceKeeps
    <3>3. \A c \in Dispatchers \ {d} : pc'[c] = pc[c] /\ batch'[c] = batch[c]
      BY <1>1, <3>1, <3>2, AdvanceKeeps DEF TypeInv, TypeOK
    <3>4. Current(d) \notin batch'[d]
      BY <1>1, <3>2 DEF TypeInv, TypeOK
    <3>5. published \subseteq published'
      BY <2>5 DEF MarkPublished, MarkFailed
    <3>6. (pc[d] \in {"acked", "marking"}) => Current(d) \in published'
      BY <2>5 DEF MarkPublished, MarkFailed
    <3>7. CauseOK'
      BY <3>1, <3>3, <3>5, <3>6, SameBatchSameCurrent
    <3>8. DuplicatesHaveACause'
      BY <3>1, <3>2, <3>3, <3>4, SameBatchSameCurrent
    <3>9. QED BY <3>7, <3>8
  <2>6. QED BY <1>4, <2>1, <2>2, <2>3, <2>4, <2>5 DEF Step
<1>5. ASSUME NEW d \in Dispatchers, Failure(d) PROVE CauseOK' /\ DuplicatesHaveACause'
  <2>1. Fault
    BY <1>5 DEF Failure, ClaimReplyLost, BrokerNacks, ChannelLost, MarkErrs, Crash
  <2>2. QED BY <1>1, <2>1, FaultExcuses
<1>6. CASE Change \/ Tick \/ UNCHANGED vars
  BY <1>3, <1>6 DEF Change, Tick, vars, leaseVars, dispatchVars
<1>7. QED BY <1>4, <1>5, <1>6 DEF Next

(***************************************************************************)
(* Without a fault and without an overrun lease the outbox publishes an    *)
(* event exactly once: nobody is about to send what the broker has.        *)
(***************************************************************************)
THEOREM DuplicatesExplained == Spec => []DuplicatesHaveACause
<1>1. Spec => []CauseInv
  BY CauseInvInit, CauseInvStep, PTL DEF Spec
<1>2. QED BY <1>1, PTL DEF CauseInv

-----------------------------------------------------------------------------
(***************************************************************************)
(* The outbox implements the feed.  BrokerAcks is Accept, MarkPublished is *)
(* Settle (the event is confirmed by ConfirmOK), Change is Change, and     *)
(* every other step leaves the feed alone.                                 *)
(***************************************************************************)
LEMMA SameStoreStep == StoreNext => TheFeed!StoreNext
BY DEF StoreNext, TheFeed!StoreNext, SaveAndEnqueue, TheFeed!SaveAndEnqueue,
       Edit, TheFeed!Edit, Recall, TheFeed!Recall,
       RecallWindowCloses, TheFeed!RecallWindowCloses, Enqueue, TheFeed!Enqueue,
       NewMessageCreatedEvent, TheFeed!NewMessageCreatedEvent,
       NewMessageRecalledEvent, TheFeed!NewMessageRecalledEvent,
       Edited, TheFeed!Edited, EventIds, TheFeed!EventIds

LEMMA FeedInit == Init => TheFeed!Init
BY DEF Init, StoreInit, TheFeed!Init, TheFeed!StoreInit

LEMMA FeedStep == IndInv /\ [Next]_vars => [TheFeed!Next]_(TheFeed!feedVars)
<1> SUFFICES ASSUME IndInv, [Next]_vars PROVE [TheFeed!Next]_(TheFeed!feedVars)
  OBVIOUS
<1> USE DEF TheFeed!feedVars
<1>1. CASE Change
  <2>1. TheFeed!Change
    BY <1>1, SameStoreStep DEF Change, TheFeed!Change, leaseVars
  <2>2. QED BY <2>1 DEF TheFeed!Next
<1>2. ASSUME NEW d \in Dispatchers, BrokerAcks(d) PROVE [TheFeed!Next]_(TheFeed!feedVars)
  <2>1. Current(d) \in DOMAIN outbox
    BY <1>2, CurrentInBatch DEF IndInv, BrokerAcks, Working
  <2>2. TheFeed!Accept(Current(d))
    BY <1>2, <2>1 DEF BrokerAcks, TheFeed!Accept, leaseVars
  <2>3. QED BY <2>1, <2>2 DEF TheFeed!Next
<1>3. ASSUME NEW d \in Dispatchers, MarkPublished(d) PROVE [TheFeed!Next]_(TheFeed!feedVars)
  <2>1. Current(d) \in DOMAIN outbox /\ Current(d) \in accepted
    BY <1>3, CurrentInBatch DEF IndInv, ConfirmOK, MarkPublished, Working
  <2>2. TheFeed!Settle(Current(d))
    BY <1>3, <2>1 DEF MarkPublished, TheFeed!Settle
  <2>3. QED BY <2>1, <2>2 DEF TheFeed!Next
<1>4. ASSUME NEW d \in Dispatchers, Step(d) \/ Failure(d) PROVE [TheFeed!Next]_(TheFeed!feedVars)
  <2>1. CASE BrokerAcks(d) \/ MarkPublished(d)
    BY <1>2, <1>3, <2>1
  <2>2. CASE ~ (BrokerAcks(d) \/ MarkPublished(d))
    <3>1. UNCHANGED <<messages, outbox, accepted, published>>
      BY <1>4, <2>2 DEF Step, Failure, Claim, ClaimReplyLost, Lease, Send, BrokerNacks, ReadConfirm,
         ChannelLost, MarkFailed, MarkErrs, Crash, Restart, leaseVars
    <3>2. QED BY <3>1
  <2>3. QED BY <2>1, <2>2
<1>5. CASE Tick \/ UNCHANGED vars
  BY <1>5 DEF Tick, vars, leaseVars
<1>6. QED BY <1>1, <1>4, <1>5 DEF Next

(***************************************************************************)
(* Dispatchers, leases, retries and crashes are invisible to whoever reads *)
(* the feed: it is at-least-once delivery of every committed change.       *)
(***************************************************************************)
THEOREM OutboxImplementsFeed == Spec => FeedSpec
<1>1. Spec => []IndInv
  BY IndInvInit, IndInvStep, PTL DEF Spec
<1>2. Spec => TheFeed!Spec
  BY <1>1, FeedInit, FeedStep, PTL DEF Spec, TheFeed!Spec
<1>3. QED BY <1>2 DEF FeedSpec
-----------------------------------------------------------------------------
(***************************************************************************)
(* The search index behind the outbox.  What its queue holds or held was   *)
(* accepted; an accepted text that is not waiting was written, or a newer  *)
(* one was; and a document that no older event came late for holds the     *)
(* text of the greatest event written.                                     *)
(***************************************************************************)
IndexTypeOK ==
    /\ indexQueue \in [EventIds -> Nat]
    /\ index \in [Messages -> Texts]
    /\ written \in [Messages -> 0..MaxEvents]
    /\ disordered \subseteq Messages

QueueOK ==
    /\ accepted \subseteq DOMAIN outbox
    /\ \A e \in EventIds : indexQueue[e] > 0 => e \in accepted

NoneSkipped ==
    \A e \in accepted :
        indexQueue[e] = 0 /\ ~outbox[e].recalled => e <= written[outbox[e].msg]

Document(m) ==
    /\ written[m] = 0 => index[m] = 0
    /\ written[m] # 0 => Texted(written[m], m)
    /\ written[m] # 0 /\ m \notin disordered => index[m] = outbox[written[m]].content

IndexOK == IndexTypeOK /\ QueueOK /\ NoneSkipped /\ \A m \in Messages : Document(m)

SearchInv == TypeInv /\ StoryOK /\ IndexOK

LEMMA SearchInvInit == SearchInit => SearchInv
<1> SUFFICES ASSUME SearchInit PROVE SearchInv
  OBVIOUS
<1>1. TypeInv /\ StoryOK
  BY TypeInvInit, StoryInit DEF SearchInit, Init
<1>2. IndexOK
  BY StoreAssumption DEF SearchInit, Init, IndexOK, IndexTypeOK, QueueOK, NoneSkipped, Document,
     Texts, StoreAssumption
<1>3. QED BY <1>1, <1>2 DEF SearchInv

\* What the outbox does, its confirms aside, leaves the index and its queue alone.
LEMMA QuietStep ==
    ASSUME SearchInv, [Next]_vars, UNCHANGED <<accepted, searchVars>>
    PROVE  SearchInv'
<1>1. TypeInv'
  BY TypeInvStep DEF SearchInv
<1>2. StoryOK' /\ OutboxKept
  <2>1. CASE Change
    BY <2>1, StoryStep DEF Change, SearchInv, TypeInv, TypeOK
  <2>2. CASE ~Change
    <3>1. UNCHANGED <<messages, outbox>>
      BY <2>2 DEF Next, Step, Failure, Tick, Claim, ClaimReplyLost, Send, BrokerAcks, BrokerNacks,
         ReadConfirm, ChannelLost, MarkPublished, MarkFailed, MarkErrs, Crash, Restart, vars
    <3>2. QED
      BY <3>1 DEF SearchInv, StoryOK, EventsInOrder, LatestTextTellsTheRow, Texted, OutboxKept
  <2>3. QED BY <2>1, <2>2
<1>3. UNCHANGED <<accepted, indexQueue, index, written, disordered>>
  BY DEF searchVars
<1>4. \A e \in DOMAIN outbox : e \in DOMAIN outbox' /\ outbox'[e] = outbox[e]
  BY <1>2 DEF OutboxKept
<1>5. ASSUME NEW m \in Messages PROVE Document(m)'
  <2>1. Document(m)
    BY DEF SearchInv, IndexOK
  <2>2. QED BY <1>3, <1>4, <2>1 DEF Document, Texted
<1>6. IndexTypeOK' /\ QueueOK' /\ NoneSkipped'
  BY <1>3, <1>4 DEF SearchInv, IndexOK, IndexTypeOK, QueueOK, NoneSkipped
<1>7. QED BY <1>1, <1>2, <1>5, <1>6 DEF SearchInv, IndexOK

\* A confirm puts a copy of a committed event in the queue.
LEMMA BrokerRoutesKeeps ==
    ASSUME SearchInv, NEW d \in Dispatchers, BrokerRoutes(d)
    PROVE  SearchInv'
<1> PICK c : c = Current(d)
  OBVIOUS
<1>1. /\ accepted' = accepted \cup {c}
      /\ indexQueue' = [indexQueue EXCEPT ![c] = @ + 1]
      /\ UNCHANGED <<messages, outbox, index, written, disordered>>
      /\ Step(d) /\ pc[d] \in Working
  BY DEF BrokerRoutes, BrokerAcks, Step, Working
<1>2. c \in EventIds /\ c \in DOMAIN outbox
  BY <1>1, CurrentInBatch DEF SearchInv
<1>3. TypeInv'
  <2>1. Next
    BY <1>1 DEF Next
  <2>2. QED BY <2>1, TypeInvStep DEF SearchInv
<1>4. StoryOK'
  BY <1>1 DEF SearchInv, StoryOK, EventsInOrder, LatestTextTellsTheRow, Texted
<1>5. IndexTypeOK' /\ QueueOK'
  BY <1>1, <1>2 DEF SearchInv, IndexOK, IndexTypeOK, QueueOK
<1>6. NoneSkipped'
  <2> SUFFICES ASSUME NEW e \in accepted', indexQueue'[e] = 0, ~outbox[e].recalled
               PROVE  e <= written[outbox[e].msg]
    BY <1>1 DEF NoneSkipped
  <2>1. indexQueue'[c] > 0
    BY <1>1, <1>2 DEF SearchInv, IndexOK, IndexTypeOK
  <2>2. e # c
    BY <2>1
  <2>3. e \in accepted /\ indexQueue[e] = 0
    BY <1>1, <2>2 DEF SearchInv, IndexOK, IndexTypeOK
  <2>4. QED BY <2>3 DEF SearchInv, IndexOK, NoneSkipped
<1>7. \A m \in Messages : Document(m)'
  BY <1>1 DEF SearchInv, IndexOK, Document, Texted
<1>8. QED BY <1>3, <1>4, <1>5, <1>6, <1>7 DEF SearchInv, IndexOK

\* A write of an accepted text: written grows to it at least.
LEMMA IndexMessageKeeps ==
    ASSUME TypeInv, IndexOK, UNCHANGED <<messages, outbox, accepted>>,
           NEW e \in accepted, ~outbox[e].recalled, IndexMessage(e)
    PROVE  /\ index' \in [Messages -> Texts]
           /\ written' \in [Messages -> 0..MaxEvents]
           /\ disordered' \subseteq Messages
           /\ \A m \in Messages : Document(m)' /\ written[m] <= written'[m]
           /\ e <= written'[outbox[e].msg]
<1> PICK k : k = outbox[e].msg
  OBVIOUS
<1>1. /\ index' = [index EXCEPT ![k] = outbox[e].content]
      /\ written' = [written EXCEPT ![k] = IF e > @ THEN e ELSE @]
      /\ disordered' = IF e < written[k] THEN disordered \cup {k} ELSE disordered
  BY DEF IndexMessage
<1>2. e \in DOMAIN outbox /\ outbox[e] \in Payload /\ e \in EventIds
  BY DEF TypeInv, TypeOK, StoreTypeOK, IndexOK, QueueOK
<1>3. /\ k \in Messages /\ outbox[e].content \in Texts /\ e \in 0..MaxEvents /\ e \in Nat /\ e # 0
  BY <1>2, StoreAssumption DEF Payload, EventIds, StoreAssumption
<1>4. /\ index \in [Messages -> Texts]
      /\ written \in [Messages -> 0..MaxEvents]
      /\ disordered \subseteq Messages
      /\ \A m \in Messages : written[m] \in Nat
  BY StoreAssumption DEF IndexOK, IndexTypeOK, StoreAssumption
<1>5. /\ index' \in [Messages -> Texts]
      /\ written' \in [Messages -> 0..MaxEvents]
      /\ disordered' \subseteq Messages
  BY <1>1, <1>3, <1>4
<1>6. written'[k] = IF e > written[k] THEN e ELSE written[k]
  BY <1>1, <1>3, <1>4
<1>7. \A m \in Messages : m # k => /\ written'[m] = written[m] /\ index'[m] = index[m]
                                   /\ (m \in disordered' <=> m \in disordered)
  BY <1>1, <1>3, <1>4
<1>8. index'[k] = outbox[e].content
  BY <1>1, <1>3, <1>4
<1>9. Document(k)'
  <2>1. Document(k)
    BY <1>3 DEF IndexOK
  <2>2. CASE e > written[k]
    <3>1. written'[k] = e
      BY <1>6, <2>2
    <3>2. QED BY <1>2, <1>3, <1>8, <3>1 DEF Document, Texted
  <2>3. CASE e = written[k]
    <3>1. written'[k] = e
      BY <1>3, <1>6, <2>3
    <3>2. QED BY <1>2, <1>3, <1>8, <3>1 DEF Document, Texted
  <2>4. CASE e < written[k]
    <3>1. written'[k] = written[k] /\ written[k] # 0 /\ k \in disordered'
      BY <1>1, <1>3, <1>4, <1>6, <2>4
    <3>2. QED BY <2>1, <3>1 DEF Document, Texted
  <2>5. QED BY <1>3, <1>4, <2>2, <2>3, <2>4
<1>10. ASSUME NEW m \in Messages, m # k PROVE Document(m)'
  <2>1. Document(m)
    BY DEF IndexOK
  <2>2. QED BY <1>7, <1>10, <2>1 DEF Document, Texted
<1>11. \A m \in Messages : written[m] <= written'[m]
  BY <1>3, <1>4, <1>6, <1>7
<1>12. e <= written'[k]
  BY <1>3, <1>4, <1>6
<1>13. QED BY <1>5, <1>9, <1>10, <1>11, <1>12

\* The consumer, whether it acks the event or sends it back.
LEMMA ConsumerKeeps ==
    ASSUME SearchInv, NEW e \in EventIds, Handle(e) \/ HandleFails(e)
    PROVE  SearchInv'
<1>1. /\ UNCHANGED <<messages, outbox, leaseVars, dispatchVars, channel, accepted, late>>
      /\ faults' \in 0..MaxFaults /\ indexQueue[e] > 0
  BY OutboxAssumption
     DEF Handle, HandleFails, vars, Fault, SearchInv, TypeInv, TypeOK, OutboxAssumption
<1>2. e \in accepted /\ e \in DOMAIN outbox /\ outbox[e] \in Payload
  BY <1>1 DEF SearchInv, IndexOK, QueueOK, TypeInv, TypeOK, StoreTypeOK
<1>3. TypeInv'
  BY <1>1 DEF SearchInv, TypeInv, TypeOK, StoreTypeOK, BatchOK, leaseVars, dispatchVars
<1>4. StoryOK'
  BY <1>1 DEF SearchInv, StoryOK, EventsInOrder, LatestTextTellsTheRow, Texted
<1>5. /\ indexQueue' \in [EventIds -> Nat]
      /\ \A f \in EventIds : f # e => indexQueue'[f] = indexQueue[f]
      /\ indexQueue'[e] = 0 => Handle(e)
  <2>1. indexQueue \in [EventIds -> Nat]
    BY DEF SearchInv, IndexOK, IndexTypeOK
  <2>2. CASE Handle(e)
    <3>1. indexQueue' = [indexQueue EXCEPT ![e] = @ - 1]
      BY <2>2 DEF Handle, Acked
    <3>2. QED BY <1>1, <2>1, <2>2, <3>1
  <2>3. CASE HandleFails(e)
    BY <1>1, <2>1, <2>3 DEF HandleFails
  <2>4. QED BY <2>2, <2>3
<1>6. /\ index' \in [Messages -> Texts]
      /\ written' \in [Messages -> 0..MaxEvents]
      /\ disordered' \subseteq Messages
      /\ \A m \in Messages : Document(m)' /\ written[m] <= written'[m]
      /\ Handle(e) /\ ~outbox[e].recalled => e <= written'[outbox[e].msg]
  <2>1. CASE IndexMessage(e) /\ ~outbox[e].recalled
    BY <1>1, <1>2, <2>1, IndexMessageKeeps DEF SearchInv
  <2>2. CASE UNCHANGED <<index, written, disordered>> /\ (Handle(e) => outbox[e].recalled)
    <3>1. \A m \in Messages : Document(m)'
      BY <1>1, <2>2 DEF SearchInv, IndexOK, Document, Texted
    <3>2. \A m \in Messages : written[m] <= written'[m]
      BY <2>2, StoreAssumption DEF SearchInv, IndexOK, IndexTypeOK, StoreAssumption
    <3>3. QED BY <2>2, <3>1, <3>2 DEF SearchInv, IndexOK, IndexTypeOK
  <2>3. \/ IndexMessage(e) /\ ~outbox[e].recalled
        \/ UNCHANGED <<index, written, disordered>> /\ (Handle(e) => outbox[e].recalled)
    BY <1>2 DEF Handle, HandleFails, Payload
  <2>4. QED BY <2>1, <2>2, <2>3
<1>7. NoneSkipped'
  <2> SUFFICES ASSUME NEW f \in accepted, indexQueue'[f] = 0, ~outbox[f].recalled
               PROVE  f <= written'[outbox[f].msg]
    BY <1>1 DEF NoneSkipped
  <2>1. f \in EventIds /\ outbox[f].msg \in Messages
    BY DEF SearchInv, IndexOK, QueueOK, TypeInv, TypeOK, StoreTypeOK, Payload
  <2>2. CASE f = e
    BY <1>5, <1>6, <2>2
  <2>3. CASE f # e
    <3>1. f <= written[outbox[f].msg]
      BY <1>5, <2>1, <2>3 DEF SearchInv, IndexOK, NoneSkipped
    <3>2. written[outbox[f].msg] \in Nat /\ written'[outbox[f].msg] \in Nat /\ f \in Nat
      BY <1>6, <2>1, StoreAssumption DEF SearchInv, IndexOK, IndexTypeOK, EventIds, StoreAssumption
    <3>3. QED BY <1>6, <2>1, <3>1, <3>2
  <2>4. QED BY <2>2, <2>3
<1>8. QueueOK'
  BY <1>1, <1>2, <1>5 DEF SearchInv, IndexOK, QueueOK
<1>9. QED BY <1>3, <1>4, <1>5, <1>6, <1>7, <1>8 DEF SearchInv, IndexOK, IndexTypeOK

LEMMA SearchInvStep == SearchInv /\ [SearchNext]_allVars => SearchInv'
<1> SUFFICES ASSUME SearchInv, [SearchNext]_allVars PROVE SearchInv'
  OBVIOUS
<1>1. CASE Quietly(Change \/ Tick)
  BY <1>1, QuietStep DEF Quietly, Next, Change, Tick
<1>2. ASSUME NEW d \in Dispatchers, BrokerRoutes(d) PROVE SearchInv'
  BY <1>2, BrokerRoutesKeeps
<1>3. ASSUME NEW d \in Dispatchers,
             \/ Quietly(Claim(d) \/ Send(d) \/ ReadConfirm(d) \/ MarkPublished(d) \/ MarkFailed(d) \/ Restart(d))
             \/ Quietly(Failure(d))
      PROVE  SearchInv'
  <2>1. Next /\ UNCHANGED searchVars
    BY <1>3 DEF Quietly, Next, Step
  <2>2. UNCHANGED accepted
    BY <1>3 DEF Quietly, Failure, Claim, ClaimReplyLost, Send, BrokerNacks, ReadConfirm, ChannelLost,
       MarkPublished, MarkFailed, MarkErrs, Crash, Restart
  <2>3. QED BY <2>1, <2>2, QuietStep
<1>4. ASSUME NEW e \in EventIds, Handle(e) \/ HandleFails(e) PROVE SearchInv'
  BY <1>4, ConsumerKeeps
<1>5. CASE UNCHANGED allVars
  BY <1>5, QuietStep DEF allVars, vars
<1>6. QED BY <1>1, <1>2, <1>3, <1>4, <1>5 DEF SearchNext, Work

(***************************************************************************)
(* When all that was enqueued about a message has been consumed, and no    *)
(* older event was written after a newer one, its document holds the text  *)
(* of its row: failed, repeated and concurrent writes notwithstanding.     *)
(***************************************************************************)
THEOREM IndexTells == SearchSpec => []IndexTellsTheRow
<1>1. SearchInv => IndexTellsTheRow
  <2> SUFFICES ASSUME SearchInv, NEW m \in Messages, Settled(m), m \notin disordered
               PROVE  index[m] = messages[m].content
    BY DEF IndexTellsTheRow
  <2>1. Document(m) /\ messages[m].content \in Nat
    BY StoreAssumption
       DEF SearchInv, IndexOK, TypeInv, TypeOK, StoreTypeOK, Row, Texts, StoreAssumption
  <2>2. CASE messages[m].content = 0
    <3>1. written[m] = 0
      BY <2>1, <2>2 DEF Document, Texted, SearchInv, StoryOK, EventsInOrder
    <3>2. QED BY <2>1, <2>2, <3>1 DEF Document
  <2>3. CASE messages[m].content > 0
    <3>1. PICK e \in DOMAIN outbox : /\ Texted(e, m)
                                     /\ outbox[e].content = messages[m].content
                                     /\ \A f \in DOMAIN outbox : Texted(f, m) => f <= e
      BY <2>3 DEF SearchInv, StoryOK, LatestTextTellsTheRow
    <3>2. e \in Nat /\ e # 0 /\ written[m] \in Nat
      BY StoreAssumption
         DEF SearchInv, TypeInv, TypeOK, StoreTypeOK, EventIds, IndexOK, IndexTypeOK, StoreAssumption
    <3>3. e <= written[m]
      BY <3>1 DEF Settled, Texted, SearchInv, IndexOK, NoneSkipped
    <3>4. written[m] # 0
      BY <3>2, <3>3
    <3>5. Texted(written[m], m)
      BY <2>1, <3>4 DEF Document
    <3>6. written[m] <= e
      BY <3>1, <3>5 DEF Texted
    <3>7. written[m] = e
      BY <3>2, <3>3, <3>6
    <3>8. QED BY <2>1, <3>1, <3>4, <3>7 DEF Document
  <2>4. QED BY <2>1, <2>2, <2>3
<1>2. QED BY <1>1, SearchInvInit, SearchInvStep, PTL DEF SearchSpec
=============================================================================
